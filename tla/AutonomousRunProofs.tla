-------------------------- MODULE AutonomousRunProofs --------------------------
(***************************************************************************)
(* Theorems about AutonomousRun, for any number of goroutines, plans,      *)
(* contents, retries, calls, failures and edits.                           *)
(***************************************************************************)
EXTENDS AutonomousRunProps, TLAPS

\* What holds of every state of a loop, in memory or in an event: before the
\* first plan nothing has failed, a plan that is executed has no action that
\* failed, and what reaches the checkpoint has passed.
Sound(s, verified) ==
  /\ s \in State
  /\ s.phase \in {"inspect", "hypothesis", "plan"} => s.failed = {}
  /\ s.phase \in Executing => s.plan \in Plan /\ Fingerprints(s.plan) \cap s.failed = {}
  /\ s.phase = "checkpoint" => s.binding \in verified

\* A goroutine is bound as its state is, and where it stands fits its phase.
Consistent(g) ==
  /\ g \in Goroutine
  /\ Sound(g.state, passed)
  /\ g.state.binding = g.request
  /\ g.at = "verify" => g.state.phase \in Executing \ {"patch_candidate"}
  /\ g.at \in {"refresh", "replan", "snapshot", "rebind"} => g.state.phase = "patch_candidate"
  /\ g.at = "complete" => g.state.phase = "checkpoint"

GoroutinesConsistent ==
  \A l \in Loop : loop[l] \in {NotRunning, Stopping} \/ Consistent(loop[l])

LogConsistent ==
  log.last # None => Sound(log.last, passed) /\ log.last.binding \in log.bindings

\* Once the stores are closed, goroutines have not got further than to ask them.
ClosedMeansQuiet ==
  plane = "closed" => \A l \in Loop : loop[l].at \in {"none", "canceled", "bind", "reject"}

\* A call that will start a goroutine knows what it is bound to.
ClientBound ==
  client.at \in {"create", "configure", "status", "launch"} => client.binding \in Snapshot

Inv ==
  TypeOK /\ GoroutinesConsistent /\ LogConsistent /\ ClosedMeansQuiet /\ ClientBound

-----------------------------------------------------------------------------
LEMMA AfterValues ==
  /\ After["inspect"] = "hypothesis" /\ After["hypothesis"] = "plan"
  /\ After["plan"] = "parallel_commands" /\ After["parallel_commands"] = "patch_candidate"
  /\ After["patch_candidate"] = "targeted_test" /\ After["targeted_test"] = "full_verify"
  /\ After["full_verify"] = "checkpoint" /\ After["checkpoint"] = "completed"
  /\ After["diagnose_retry"] = "parallel_commands"
BY DEF After, Phase

LEMMA PositionValues ==
  /\ Position["inspect"] = 10 /\ Position["hypothesis"] = 9 /\ Position["plan"] = 8
  /\ Position["parallel_commands"] = 7 /\ Position["patch_candidate"] = 6
  /\ Position["targeted_test"] = 5 /\ Position["full_verify"] = 4 /\ Position["checkpoint"] = 3
  /\ Position["diagnose_retry"] = 2 /\ Position["failed"] = 1
  /\ Position["completed"] = 1 /\ Position["human_checkpoint"] = 1
BY DEF Position, Phase

LEMMA RunningGoroutine ==
  ASSUME Inv, NEW l \in Loop, NEW at, At(l, at), at \notin {"none", "canceled"}
  PROVE  Consistent(loop[l])
BY DEF Inv, GoroutinesConsistent, At, NotRunning, Stopping

\* The state after a phase that went well, but for what the next one needs.
LEMMA NextPhase ==
  ASSUME NEW s, NEW verified, Sound(s, verified),
         s.phase \in {"inspect", "hypothesis", "parallel_commands", "patch_candidate",
                      "targeted_test", "full_verify", "checkpoint"},
         s.phase = "full_verify" => s.binding \in verified
  PROVE  Sound([s EXCEPT !.phase = After[s.phase]], verified)
<1> DEFINE t == [s EXCEPT !.phase = After[s.phase]]
<1>1. After[s.phase] \in {"hypothesis", "plan", "patch_candidate", "targeted_test", "full_verify",
                          "checkpoint", "completed"}
  BY AfterValues
<1>2. t \in State
  BY <1>1 DEF Sound, State, Phase
<1>3. t.phase = After[s.phase] /\ t.failed = s.failed /\ t.plan = s.plan /\ t.binding = s.binding
  BY DEF Sound, State
<1> QED
  BY <1>2, <1>3, AfterValues DEF Sound, Executing

LEMMA AfterFailure ==
  ASSUME NEW s, NEW verified, Sound(s, verified), s.phase \in Executing \cup {"checkpoint"}
  PROVE  /\ Sound(RecordFailure(s), verified) /\ RecordFailure(s).binding = s.binding
         /\ RecordFailure(s).phase \in {"failed", "diagnose_retry"}
         /\ RecordFailure(s).retries = s.retries
<1>1. CASE s.phase \notin Executing \/ Fingerprint(s.phase, s.plan) \in s.failed
  BY <1>1 DEF Sound, State, RecordFailure, Phase, Executing
<1>2. CASE s.phase \in Executing /\ Fingerprint(s.phase, s.plan) \notin s.failed
  <2>1. Fingerprint(s.phase, s.plan) \in Executing \X Plan
    BY <1>2 DEF Sound, Fingerprint
  <2> QED
    BY <1>2, <2>1 DEF Sound, State, RecordFailure, Phase, Executing
<1> QED
  BY <1>1, <1>2

LEMMA VerifiedGrows ==
  ASSUME NEW s, NEW old, NEW new, old \subseteq new, Sound(s, old)
  PROVE  Sound(s, new)
BY DEF Sound

\* If one goroutine is consistent after a step, and the others have not moved,
\* all are.
LEMMA OneMoves ==
  ASSUME Inv, NEW l \in Loop, passed \subseteq passed',
         \A k \in Loop \ {l} : loop'[k] = loop[k],
         loop'[l] \in {NotRunning, Stopping} \/ Consistent(loop[l])'
  PROVE  GoroutinesConsistent'
<1> SUFFICES ASSUME NEW k \in Loop
             PROVE  loop'[k] \in {NotRunning, Stopping} \/ Consistent(loop[k])'
  BY DEF GoroutinesConsistent
<1>1. CASE k = l
  BY <1>1
<1>2. CASE k # l /\ loop[k] \in {NotRunning, Stopping}
  BY <1>2
<1>3. CASE k # l /\ Consistent(loop[k])
  <2>1. loop'[k] = loop[k]
    BY <1>3
  <2>2. Sound(loop[k].state, passed')
    BY <1>3, VerifiedGrows DEF Consistent
  <2> QED
    BY <1>3, <2>1, <2>2 DEF Consistent
<1> QED
  BY <1>1, <1>2, <1>3 DEF Inv, GoroutinesConsistent

\* What was stored stays sound.
LEMMA LogStays ==
  ASSUME Inv, passed \subseteq passed', UNCHANGED log
  PROVE  LogConsistent'
<1>1. log.last # None => Sound(log.last, passed')
  BY VerifiedGrows DEF Inv, LogConsistent
<1> QED
  BY <1>1 DEF Inv, LogConsistent

LoopType == loop \in [Loop -> Goroutine \cup {NotRunning, Stopping}]

ControlInv == LoopType /\ GoroutinesConsistent /\ LogConsistent /\ ClosedMeansQuiet

\* A goroutine that is about to persist a sound state, and has not asked the
\* stores after they were closed.
LEMMA PersistingKeeps ==
  ASSUME Inv, NEW l \in Loop, loop[l].at \notin {"none", "canceled", "bind", "reject"},
         NEW s, Sound(s, passed'), s.binding = loop[l].request, Persisting(l, s),
         passed \subseteq passed', UNCHANGED <<log, plane>>
  PROVE  ControlInv'
<1>1. loop \in [Loop -> Goroutine \cup {NotRunning, Stopping}]
  BY DEF Inv, TypeOK
<1>2. Consistent(loop[l])
  BY DEF Inv, GoroutinesConsistent, NotRunning, Stopping
<1>3. s \in State
  BY DEF Sound
<1>4. /\ loop' \in [Loop -> Goroutine \cup {NotRunning, Stopping}]
      /\ loop'[l] \in Goroutine /\ loop'[l].at = "persist"
      /\ loop'[l].state = s /\ loop'[l].request = loop[l].request
      /\ \A k \in Loop \ {l} : loop'[k] = loop[k]
  BY <1>1, <1>2, <1>3 DEF Consistent, Goroutine, Persisting, NotRunning, Stopping
<1>5. Consistent(loop[l])'
  BY <1>4 DEF Consistent
<1>6. GoroutinesConsistent'
  BY <1>4, <1>5, OneMoves
<1>7. LogConsistent'
  BY LogStays
<1>8. ClosedMeansQuiet'
  BY DEF Inv, ClosedMeansQuiet
<1> QED
  BY <1>4, <1>6, <1>7, <1>8 DEF ControlInv, LoopType

\* A goroutine that only gets to another place.
LEMMA GotoKeeps ==
  ASSUME Inv, NEW l \in Loop, loop[l].at \notin {"none", "canceled"},
         NEW at \in {"load", "top", "verify", "refresh", "replan", "snapshot",
                     "rebind", "complete", "reject"},
         Goto(l, at),
         at = "verify" => loop[l].state.phase \in Executing \ {"patch_candidate"},
         at \in {"refresh", "replan", "snapshot", "rebind"} =>
           loop[l].state.phase = "patch_candidate",
         at = "complete" => loop[l].state.phase = "checkpoint",
         plane = "closed" => at = "reject",
         UNCHANGED <<passed, plane>>
  PROVE  LoopType' /\ GoroutinesConsistent' /\ ClosedMeansQuiet'
<1>1. loop \in [Loop -> Goroutine \cup {NotRunning, Stopping}]
  BY DEF Inv, TypeOK
<1>2. Consistent(loop[l])
  BY DEF Inv, GoroutinesConsistent, NotRunning, Stopping
<1>3. /\ loop' \in [Loop -> Goroutine \cup {NotRunning, Stopping}]
      /\ loop'[l] \in Goroutine /\ loop'[l].at = at
      /\ loop'[l].state = loop[l].state /\ loop'[l].request = loop[l].request
      /\ \A k \in Loop \ {l} : loop'[k] = loop[k]
  BY <1>1, <1>2 DEF Consistent, Goroutine, Goto, NotRunning, Stopping
<1>4. Consistent(loop[l])'
  BY <1>2, <1>3 DEF Consistent
<1>5. GoroutinesConsistent'
  BY <1>3, <1>4, OneMoves
<1>6. ClosedMeansQuiet'
  BY <1>3 DEF Inv, ClosedMeansQuiet
<1> QED
  BY <1>3, <1>5, <1>6 DEF LoopType

\* A goroutine that is over, or canceled.
LEMMA OverKeeps ==
  ASSUME Inv, NEW l \in Loop, NEW g \in {NotRunning, Stopping},
         loop' = [loop EXCEPT ![l] = g], UNCHANGED <<passed, plane>>
  PROVE  LoopType' /\ GoroutinesConsistent' /\ ClosedMeansQuiet'
<1>1. /\ loop' \in [Loop -> Goroutine \cup {NotRunning, Stopping}]
      /\ loop'[l] = g
      /\ \A k \in Loop \ {l} : loop'[k] = loop[k]
  BY DEF Inv, TypeOK
<1>2. GoroutinesConsistent'
  BY <1>1, OneMoves
<1>3. ClosedMeansQuiet'
  BY <1>1 DEF Inv, ClosedMeansQuiet, NotRunning, Stopping
<1> QED
  BY <1>1, <1>2, <1>3 DEF LoopType

-----------------------------------------------------------------------------
LEMMA InitInv == Init => Inv
BY RunAssumption DEF Init, Inv, TypeOK, GoroutinesConsistent, LogConsistent, ClosedMeansQuiet,
   ClientBound, NotRunning, Idle

\* What is left to prove of a step that moves goroutines.
LEMMA FromControl ==
  ASSUME Inv, ControlInv',
         tree' \in Snapshot /\ record' \in Snapshot,
         faults' \in 0 .. MaxFaults /\ calls' \in 0 .. MaxCalls,
         plans' \subseteq Snapshot /\ passed' \subseteq Snapshot,
         run' \in [status : {"none", "created", "running", "completed", "failed"},
                   binding : Snapshot],
         log' \in [bindings : SUBSET Snapshot, last : State \cup {None}],
         checkpoints' \subseteq State,
         cancelOf' \in Loop \cup {None},
         UNCHANGED <<config, client, plane>>
  PROVE  Inv'
BY DEF Inv, TypeOK, ControlInv, LoopType, ClientBound

LEMMA FaultTypes ==
  ASSUME TypeOK, Fault
  PROVE  faults' \in 0 .. MaxFaults
<1>1. MaxFaults \in Nat /\ faults \in 0 .. MaxFaults
  BY RunAssumption DEF TypeOK
<1> QED
  BY <1>1 DEF Fault

LEMMA LoopStepInv ==
  ASSUME Inv, NEW l \in Loop, LoopStep(l)
  PROVE  Inv'
<1> USE DEF candidate, durable, outside, history
<1> DEFINE state == loop[l].state
<1>t. TypeOK /\ LogConsistent /\ ClosedMeansQuiet
  BY DEF Inv
<1>r. ASSUME loop[l].at \notin {"none", "canceled"}
      PROVE  Consistent(loop[l])
  BY <1>r DEF Inv, GoroutinesConsistent, NotRunning, Stopping
<1>1. CASE CheckBinding(l)
  <2>1. PICK at \in {"load", "reject"} : Goto(l, at) /\ (plane = "closed" => at = "reject")
    BY <1>1 DEF CheckBinding, StoreOpen
  <2>2. LoopType' /\ GoroutinesConsistent' /\ ClosedMeansQuiet'
    BY <1>1, <2>1, GotoKeeps DEF CheckBinding, At
  <2> QED
    BY <1>1, <1>t, <2>2, LogStays, FromControl DEF CheckBinding, ControlInv, TypeOK
<1>2. CASE Load(l) /\ ~(StoreOpen /\ Loadable(log.bindings, loop[l].request))
  <2>1. LoopType' /\ GoroutinesConsistent' /\ ClosedMeansQuiet'
    BY <1>2, GotoKeeps DEF Load, At
  <2> QED
    BY <1>2, <1>t, <2>1, LogStays, FromControl DEF Load, ControlInv, TypeOK
<1>3. CASE Load(l) /\ StoreOpen /\ Loadable(log.bindings, loop[l].request)
  <2>1. Consistent(loop[l])
    BY <1>3, <1>r DEF Load, At
  <2>2. PICK s : /\ Sound(s, passed) /\ s.binding = loop[l].request
                 /\ loop' = [loop EXCEPT ![l].at = "top", ![l].state = s]
    <3>1. CASE log.last = None
      BY <1>3, <2>1, <3>1 DEF Load, Consistent
    <3>2. CASE log.last # None
      BY <1>3, <1>t, <3>2 DEF Load, LogConsistent, Loadable
    <3> QED
      BY <3>1, <3>2
  <2>3. s \in State
    BY <2>2 DEF Sound
  <2>4. /\ loop' \in [Loop -> Goroutine \cup {NotRunning, Stopping}]
        /\ loop'[l] \in Goroutine /\ loop'[l].at = "top"
        /\ loop'[l].state = s /\ loop'[l].request = loop[l].request
        /\ \A k \in Loop \ {l} : loop'[k] = loop[k]
    BY <1>t, <2>1, <2>2, <2>3 DEF TypeOK, Consistent, Goroutine, NotRunning, Stopping
  <2>5. Consistent(loop[l])'
    BY <1>3, <2>2, <2>4 DEF Consistent, Load
  <2>6. GoroutinesConsistent'
    BY <1>3, <2>4, <2>5, OneMoves DEF Load
  <2>7. ClosedMeansQuiet'
    BY <1>3 DEF Load, StoreOpen, ClosedMeansQuiet
  <2>8. LogConsistent'
    BY <1>3, LogStays DEF Load
  <2> QED
    BY <1>3, <1>t, <2>4, <2>6, <2>7, <2>8, FromControl DEF Load, ControlInv, LoopType, TypeOK
<1>4. CASE Think(l)
  <2>1. Consistent(loop[l]) /\ state.phase \in {"inspect", "hypothesis"}
    BY <1>4, <1>r DEF Think, InPhase, At
  <2>2. Sound([state EXCEPT !.phase = After[state.phase]], passed)
    BY <2>1, NextPhase DEF Consistent
  <2>3. [state EXCEPT !.phase = After[state.phase]].binding = loop[l].request
    BY <2>1 DEF Consistent, Sound, State
  <2>4. ControlInv'
    BY <1>4, <2>2, <2>3, PersistingKeeps DEF Think, InPhase, At, Advance
  <2> QED
    BY <1>4, <1>t, <2>4, FromControl DEF Think, TypeOK
<1>5. CASE ModelFails(l)
  <2>1. Consistent(loop[l])
    BY <1>5, <1>r DEF ModelFails, InPhase, At
  <2>2. Sound([state EXCEPT !.phase = "failed"], passed)
    BY <2>1 DEF Consistent, Sound, State, Phase, Executing
  <2>3. [state EXCEPT !.phase = "failed"].binding = loop[l].request
    BY <2>1 DEF Consistent, Sound, State
  <2>4. ControlInv'
    BY <1>5, <2>2, <2>3, PersistingKeeps DEF ModelFails, InPhase, At
  <2> QED
    BY <1>5, <1>t, <2>4, FaultTypes, FromControl DEF ModelFails, TypeOK
<1>6. ASSUME NEW plan \in Plan, Propose(l, plan)
      PROVE  Inv'
  <2>1. Consistent(loop[l]) /\ state.phase = "plan"
    BY <1>6, <1>r DEF Propose, InPhase, At
  <2>2. PICK s : /\ Persisting(l, s)
                 /\ \/ s = [state EXCEPT !.phase = After[@], !.plan = plan]
                    \/ s = [state EXCEPT !.phase = "human_checkpoint"]
    BY <1>6 DEF Propose
  <2>3. Sound(s, passed) /\ s.binding = loop[l].request
    <3>1. state \in State /\ state.binding = loop[l].request /\ state.failed = {}
      BY <2>1 DEF Consistent, Sound
    <3>2. CASE s = [state EXCEPT !.phase = "human_checkpoint"]
      BY <3>1, <3>2 DEF Sound, State, Phase, Executing
    <3>3. CASE s = [state EXCEPT !.phase = After[@], !.plan = plan]
      <4>1. s \in State /\ s.phase = "parallel_commands" /\ s.plan = plan
            /\ s.failed = {} /\ s.binding = state.binding
        BY <2>1, <3>1, <3>3, AfterValues DEF State, Phase
      <4> QED
        BY <3>1, <4>1 DEF Sound
    <3> QED
      BY <2>2, <3>2, <3>3
  <2>4. ControlInv'
    BY <1>6, <2>2, <2>3, PersistingKeeps DEF Propose, InPhase, At
  <2> QED
    BY <1>6, <1>t, <2>4, FromControl DEF Propose, TypeOK
<1>7. ASSUME NEW plan \in Plan, Diagnose(l, plan)
      PROVE  Inv'
  <2>1. Consistent(loop[l]) /\ state.phase = "diagnose_retry"
    BY <1>7, <1>r DEF Diagnose, InPhase, At
  <2>2. PICK s : /\ Persisting(l, s)
                 /\ \/ /\ s = [state EXCEPT !.phase = After[@], !.plan = plan, !.retries = @ + 1]
                       /\ state.retries < MaxRetries /\ ~Repeated(plan, state.failed)
                    \/ s = [state EXCEPT !.phase = "failed"]
    BY <1>7 DEF Diagnose
  <2>3. Sound(s, passed) /\ s.binding = loop[l].request
    <3>1. CASE s = [state EXCEPT !.phase = "failed"]
      BY <2>1, <3>1 DEF Consistent, Sound, State, Phase, Executing
    <3>2. CASE /\ s = [state EXCEPT !.phase = After[@], !.plan = plan, !.retries = @ + 1]
               /\ state.retries < MaxRetries /\ ~Repeated(plan, state.failed)
      <4>1. state \in State /\ state.binding = loop[l].request
        BY <2>1 DEF Consistent, Sound
      <4>2. state.retries + 1 \in 0 .. MaxRetries
        BY <3>2, <4>1, RunAssumption DEF State
      <4>3. s \in State /\ s.phase = "parallel_commands" /\ s.plan = plan
            /\ s.failed = state.failed /\ s.binding = state.binding
        BY <2>1, <3>2, <4>1, <4>2, AfterValues DEF State, Phase
      <4> QED
        BY <3>2, <4>1, <4>3 DEF Sound, Repeated
    <3> QED
      BY <2>2, <3>1, <3>2
  <2>4. ControlInv'
    BY <1>7, <2>2, <2>3, PersistingKeeps DEF Diagnose, InPhase, At
  <2> QED
    BY <1>7, <1>t, <2>4, FromControl DEF Diagnose, TypeOK
<1>8. ASSUME Failure(l), InPhase(l, Executing \cup {"checkpoint"})
               \/ At(l, "verify") \/ At(l, "refresh") \/ At(l, "replan"),
             UNCHANGED <<log, plane, passed>>
      PROVE  ControlInv'
  <2>1. Consistent(loop[l]) /\ loop[l].at \in {"top", "verify", "refresh", "replan"}
    BY <1>8, <1>r DEF InPhase, At
  <2>2. state.phase \in Executing \cup {"checkpoint"}
    BY <1>8, <2>1 DEF InPhase, At, Consistent, Executing
  <2>3. Sound(RecordFailure(state), passed) /\ RecordFailure(state).binding = loop[l].request
    BY <2>1, <2>2, AfterFailure DEF Consistent
  <2> QED
    BY <1>8, <2>1, <2>3, PersistingKeeps DEF Failure
<1>9. CASE AuthorityFails(l)
  <2>1. ControlInv'
    BY <1>9, <1>8 DEF AuthorityFails
  <2> QED
    BY <1>9, <1>t, <2>1, FaultTypes, FromControl DEF AuthorityFails, TypeOK
<1>10. CASE AuthorityRefuses(l)
  <2>1. InPhase(l, Executing \cup {"checkpoint"}) \/ At(l, "verify")
    BY <1>10 DEF AuthorityRefuses, InPhase, Executing
  <2>2. ControlInv'
    BY <1>10, <1>8, <2>1 DEF AuthorityRefuses
  <2> QED
    BY <1>10, <1>t, <2>2, FromControl DEF AuthorityRefuses, TypeOK
<1>11. CASE StartVerification(l)
  <2>1. LoopType' /\ GoroutinesConsistent' /\ ClosedMeansQuiet'
    BY <1>11, <1>t, GotoKeeps DEF StartVerification, InPhase, At, ClosedMeansQuiet
  <2> QED
    BY <1>11, <1>t, <2>1, LogStays, FromControl DEF StartVerification, ControlInv, TypeOK
<1>12. ASSUME NEW pass \in BOOLEAN, EndVerification(l, pass)
       PROVE  Inv'
  <2>1. Consistent(loop[l]) /\ loop[l].at = "verify"
        /\ state.phase \in Executing \ {"patch_candidate"}
    BY <1>12, <1>r DEF EndVerification, At, Consistent
  <2>2. passed \subseteq passed' /\ passed' \subseteq Snapshot
        /\ (pass => loop[l].request \in passed')
    BY <1>12, <1>t DEF EndVerification, TypeOK
  <2>3. Sound(state, passed') /\ state.binding = loop[l].request
    BY <2>1, <2>2, VerifiedGrows DEF Consistent
  <2>4. PICK s : /\ Persisting(l, s)
                 /\ \/ /\ s = [state EXCEPT !.phase = After[state.phase]]
                       /\ pass \/ state.phase = "parallel_commands"
                    \/ s = RecordFailure(state)
    BY <1>12 DEF EndVerification, Accepted, Advance, Failure
  <2>5. Sound(s, passed') /\ s.binding = loop[l].request
    <3>1. CASE s = RecordFailure(state)
      BY <2>1, <2>3, <3>1, AfterFailure
    <3>2. CASE /\ s = [state EXCEPT !.phase = After[state.phase]]
               /\ pass \/ state.phase = "parallel_commands"
      <4>1. Sound(s, passed')
        BY <2>1, <2>2, <2>3, <3>2, NextPhase DEF Executing
      <4>2. s.binding = state.binding
        BY <2>3, <3>2 DEF Sound, State
      <4> QED
        BY <2>3, <4>1, <4>2
    <3> QED
      BY <2>4, <3>1, <3>2
  <2>6. ControlInv'
    BY <1>12, <2>1, <2>2, <2>4, <2>5, PersistingKeeps DEF EndVerification
  <2> QED
    BY <1>12, <1>t, <2>2, <2>6, FromControl DEF EndVerification, TypeOK
<1>13. CASE ApplyPatch(l)
  <2>1. LoopType' /\ GoroutinesConsistent' /\ ClosedMeansQuiet'
    BY <1>13, <1>t, GotoKeeps DEF ApplyPatch, InPhase, At, ClosedMeansQuiet
  <2>2. tree' \in Snapshot
    BY <1>13, RunAssumption DEF ApplyPatch, PatchApplies
  <2> QED
    BY <1>13, <1>t, <2>1, <2>2, LogStays, FromControl DEF ApplyPatch, ControlInv, TypeOK
<1>14. CASE NoPatch(l)
  <2>1. LoopType' /\ GoroutinesConsistent' /\ ClosedMeansQuiet'
    BY <1>14, <1>t, GotoKeeps DEF NoPatch, InPhase, At, ClosedMeansQuiet
  <2> QED
    BY <1>14, <1>t, <2>1, LogStays, FromControl DEF NoPatch, ControlInv, TypeOK
<1>15. CASE RefreshGeneration(l) \/ Replan(l)
  <2>1. Consistent(loop[l]) /\ loop[l].at \in {"refresh", "replan"}
    BY <1>15, <1>r DEF RefreshGeneration, Replan, At
  <2>2. PICK at \in {"replan", "snapshot"} : Goto(l, at)
    BY <1>15 DEF RefreshGeneration, Replan
  <2>3. LoopType' /\ GoroutinesConsistent' /\ ClosedMeansQuiet'
    BY <1>15, <1>t, <2>1, <2>2, GotoKeeps
    DEF RefreshGeneration, Replan, ClosedMeansQuiet, Consistent
  <2> QED
    BY <1>15, <1>t, <2>3, LogStays, FromControl
    DEF RefreshGeneration, Replan, Refresh, ControlInv, TypeOK
<1>16. CASE Rebind(l)
  <2>1. Consistent(loop[l]) /\ loop[l].at = "snapshot" /\ state.phase = "patch_candidate"
    BY <1>16, <1>r DEF Rebind, At, Consistent
  <2>2. /\ loop' \in [Loop -> Goroutine \cup {NotRunning, Stopping}]
        /\ loop'[l] \in Goroutine /\ loop'[l].at = "rebind" /\ loop'[l].request = tree
        /\ loop'[l].state = [state EXCEPT !.binding = tree]
        /\ \A k \in Loop \ {l} : loop'[k] = loop[k]
    BY <1>16, <1>t, <2>1 DEF Rebind, TypeOK, Consistent, Goroutine, State, NotRunning, Stopping
  <2>3. Sound([state EXCEPT !.binding = tree], passed)
        /\ [state EXCEPT !.binding = tree].binding = tree
        /\ [state EXCEPT !.binding = tree].phase = "patch_candidate"
    BY <1>t, <2>1 DEF Consistent, Sound, State, TypeOK, Executing
  <2>4. Consistent(loop[l])'
    BY <1>16, <2>2, <2>3 DEF Consistent, Rebind
  <2>5. GoroutinesConsistent'
    BY <1>16, <2>2, <2>4, OneMoves DEF Rebind
  <2>6. ClosedMeansQuiet'
    BY <1>16, <1>t, <2>1 DEF Rebind, ClosedMeansQuiet
  <2>7. LogConsistent'
    BY <1>16, LogStays DEF Rebind
  <2> QED
    BY <1>16, <1>t, <2>2, <2>5, <2>6, <2>7, FromControl
    DEF Rebind, RegisterPlan, ControlInv, LoopType, TypeOK
<1>17. CASE UpdateRunBinding(l) /\ StoreOpen
  <2>1. Consistent(loop[l]) /\ loop[l].at = "rebind" /\ state.phase = "patch_candidate"
    BY <1>17, <1>r DEF UpdateRunBinding, At, Consistent
  <2>2. Sound([state EXCEPT !.phase = After[state.phase]], passed)
    BY <2>1, NextPhase DEF Consistent
  <2>3. [state EXCEPT !.phase = After[state.phase]].binding = loop[l].request
    BY <2>1 DEF Consistent, Sound, State
  <2>4. ControlInv'
    BY <1>17, <2>1, <2>2, <2>3, PersistingKeeps DEF UpdateRunBinding, Advance
  <2>5. run' \in [status : {"none", "created", "running", "completed", "failed"},
                  binding : Snapshot]
    BY <1>17, <1>t, <2>1 DEF UpdateRunBinding, SetBinding, TypeOK, Consistent, Goroutine
  <2> QED
    BY <1>17, <1>t, <2>4, <2>5, FromControl DEF UpdateRunBinding, TypeOK
<1>18. CASE Complete(l) /\ StoreOpen
  <2>1. Consistent(loop[l]) /\ loop[l].at = "complete" /\ state.phase = "checkpoint"
    BY <1>18, <1>r DEF Complete, At, Consistent
  <2>2. Sound([state EXCEPT !.phase = After[state.phase]], passed)
    BY <2>1, NextPhase DEF Consistent
  <2>3. [state EXCEPT !.phase = After[state.phase]].binding = loop[l].request
    BY <2>1 DEF Consistent, Sound, State
  <2>4. ControlInv'
    BY <1>18, <2>1, <2>2, <2>3, PersistingKeeps DEF Complete, Advance
  <2>5. run' \in [status : {"none", "created", "running", "completed", "failed"},
                  binding : Snapshot]
    BY <1>18, <1>t DEF Complete, SetStatus, TypeOK
  <2> QED
    BY <1>18, <1>t, <2>4, <2>5, FromControl DEF Complete, TypeOK
<1>19. CASE (UpdateRunBinding(l) \/ Complete(l) \/ Persist(l)) /\ ~StoreOpen
  <2>1. Goto(l, "reject") /\ loop[l].at \in {"rebind", "complete", "persist"}
    BY <1>19 DEF UpdateRunBinding, Complete, Persist, At
  <2>2. LoopType' /\ GoroutinesConsistent' /\ ClosedMeansQuiet'
    BY <1>19, <2>1, GotoKeeps DEF UpdateRunBinding, Complete, Persist
  <2> QED
    BY <1>19, <1>t, <2>2, LogStays, FromControl
    DEF UpdateRunBinding, Complete, Persist, ControlInv, TypeOK
<1>20. CASE SaveCheckpoint(l)
  <2>1. Consistent(loop[l]) /\ loop[l].at = "top" /\ state.phase = "checkpoint"
    BY <1>20, <1>r DEF SaveCheckpoint, InPhase, At
  <2>2. PICK at \in {"complete", "reject"} : Goto(l, at) /\ (plane = "closed" => at = "reject")
    BY <1>20 DEF SaveCheckpoint, StoreOpen
  <2>3. LoopType' /\ GoroutinesConsistent' /\ ClosedMeansQuiet'
    BY <1>20, <2>1, <2>2, GotoKeeps DEF SaveCheckpoint
  <2>4. checkpoints' \subseteq State
    BY <1>20, <1>t, <2>1 DEF SaveCheckpoint, InsertCheckpoint, Consistent, Sound, TypeOK
  <2> QED
    BY <1>20, <1>t, <2>3, <2>4, LogStays, FromControl DEF SaveCheckpoint, ControlInv, TypeOK
<1>21. CASE Persist(l) /\ StoreOpen
  <2>1. Consistent(loop[l]) /\ loop[l].at = "persist"
    BY <1>21, <1>r DEF Persist, At
  <2>2. LoopType' /\ GoroutinesConsistent' /\ ClosedMeansQuiet'
    BY <1>21, <2>1, GotoKeeps DEF Persist, StoreOpen
  <2>3. log' = [bindings |-> log.bindings \cup {state.binding}, last |-> state]
    BY <1>21 DEF Persist, AppendState
  <2>4. log' \in [bindings : SUBSET Snapshot, last : State \cup {None}] /\ LogConsistent'
    BY <1>21, <1>t, <2>1, <2>3 DEF Persist, Consistent, Sound, State, TypeOK, LogConsistent
  <2> QED
    BY <1>21, <1>t, <2>2, <2>4, FromControl DEF Persist, ControlInv, TypeOK
<1>22. CASE Completed(l) \/ MarkFailed(l) \/ Canceled(l)
  <2>1. LoopType' /\ GoroutinesConsistent' /\ ClosedMeansQuiet'
    BY <1>22, OverKeeps DEF Completed, MarkFailed, Canceled, Over
  <2>2. run' \in [status : {"none", "created", "running", "completed", "failed"},
                  binding : Snapshot]
    BY <1>22, <1>t DEF Completed, MarkFailed, Canceled, SetStatus, TypeOK
  <2> QED
    BY <1>22, <1>t, <2>1, <2>2, LogStays, FromControl
    DEF Completed, MarkFailed, Canceled, Over, ControlInv, TypeOK
<1> QED
  BY <1>1, <1>2, <1>3, <1>4, <1>5, <1>6, <1>7, <1>9, <1>10, <1>11, <1>12, <1>13, <1>14, <1>15,
     <1>16, <1>17, <1>18, <1>19, <1>20, <1>21, <1>22 DEF LoopStep

LEMMA ClientStepInv ==
  ASSUME Inv, ClientStep
  PROVE  Inv'
<1> USE DEF candidate, durable, outside, history
<1>t. TypeOK /\ GoroutinesConsistent /\ LogConsistent /\ ClosedMeansQuiet /\ ClientBound
  BY DEF Inv
<1>f. ASSUME UNCHANGED <<loop, log, passed, plane>>
      PROVE  GoroutinesConsistent' /\ LogConsistent' /\ ClosedMeansQuiet'
  BY <1>f, <1>t
  DEF GoroutinesConsistent, LogConsistent, ClosedMeansQuiet, Consistent
<1>c. Called => calls' \in 0 .. MaxCalls
  <2>1. MaxCalls \in Nat /\ calls \in 0 .. MaxCalls
    BY <1>t, RunAssumption DEF TypeOK
  <2> QED
    BY <2>1 DEF Called
<1>1. CASE StartLoop
  <2>1. TypeOK' /\ ClientBound'
    BY <1>1, <1>c, <1>t DEF StartLoop, RegisterPlan, TypeOK, ClientBound
  <2> QED
    BY <1>1, <1>f, <2>1 DEF StartLoop, Inv
<1>2. CASE CreateRun
  <2>1. TypeOK' /\ ClientBound'
    BY <1>2, <1>t DEF CreateRun, InsertRun, TypeOK, ClientBound
  <2> QED
    BY <1>2, <1>f, <2>1 DEF CreateRun, Inv
<1>3. CASE Configure
  <2>1. TypeOK' /\ ClientBound'
    BY <1>3, <1>t DEF Configure, TypeOK, ClientBound
  <2> QED
    BY <1>3, <1>f, <2>1 DEF Configure, Inv
<1>4. CASE ResumeLoop
  <2>1. TypeOK' /\ ClientBound'
    BY <1>4, <1>c, <1>t DEF ResumeLoop, TypeOK, ClientBound
  <2> QED
    BY <1>4, <1>f, <2>1 DEF ResumeLoop, Inv
<1>5. CASE PlanVerification
  <2>1. TypeOK' /\ ClientBound'
    BY <1>5, <1>c, <1>t DEF PlanVerification, TypeOK, ClientBound
  <2> QED
    BY <1>5, <1>f, <2>1 DEF PlanVerification, Inv
<1>6. CASE PlanRefresh
  <2>1. TypeOK' /\ ClientBound'
    BY <1>6, <1>t DEF PlanRefresh, Refresh, TypeOK, ClientBound
  <2> QED
    BY <1>6, <1>f, <2>1 DEF PlanRefresh, Inv
<1>7. CASE PlanSnapshot
  <2>1. TypeOK' /\ ClientBound'
    <3>1. \/ client' = Idle
          \/ client' = [client EXCEPT !.at = "status"] /\ client.binding = tree
      BY <1>7 DEF PlanSnapshot, Returns
    <3>2. client \in [at : {"idle", "create", "configure", "plan", "snapshot", "status", "launch"},
                     resuming : BOOLEAN, binding : Snapshot \cup {None}] /\ tree \in Snapshot
      BY <1>t DEF TypeOK
    <3>3. /\ client' \in [at : {"idle", "create", "configure", "plan", "snapshot", "status",
                                "launch"},
                          resuming : BOOLEAN, binding : Snapshot \cup {None}]
          /\ ClientBound'
      <4>1. CASE client' = Idle
        BY <4>1 DEF Idle, ClientBound
      <4>2. CASE client' = [client EXCEPT !.at = "status"] /\ client.binding = tree
        BY <3>2, <4>2 DEF ClientBound
      <4> QED
        BY <3>1, <4>1, <4>2
    <3>4. plans' \subseteq Snapshot
      BY <1>7, <1>t DEF PlanSnapshot, RegisterPlan, TypeOK
    <3> QED
      BY <1>7, <1>t, <3>3, <3>4 DEF PlanSnapshot, TypeOK
  <2> QED
    BY <1>7, <1>f, <2>1 DEF PlanSnapshot, Inv
<1>8. CASE SetRunning
  <2>1. TypeOK' /\ ClientBound'
    BY <1>8, <1>t DEF SetRunning, SetStatus, TypeOK, ClientBound
  <2> QED
    BY <1>8, <1>f, <2>1 DEF SetRunning, Inv
<1>9. CASE ClientFails
  <2>1. TypeOK' /\ ClientBound'
    BY <1>9, <1>t, FaultTypes DEF ClientFails, Returns, Idle, TypeOK, ClientBound
  <2> QED
    BY <1>9, <1>f, <2>1 DEF ClientFails, Inv
<1>10. ASSUME NEW l \in Loop, Launch(l)
       PROVE  Inv'
  <2>1. client.binding \in Snapshot
    BY <1>10, <1>t DEF Launch, ClientBound
  <2>2. InitialState(client.binding) \in State
    BY <2>1, RunAssumption DEF InitialState, State, Phase
  <2>3. /\ loop' \in [Loop -> Goroutine \cup {NotRunning, Stopping}]
        /\ loop'[l] = [at |-> "bind", request |-> client.binding, model |-> client.binding,
                       state |-> InitialState(client.binding)]
        /\ \A k \in Loop \ {l} : loop'[k] = loop[k]
    BY <1>10, <1>t, <2>1, <2>2 DEF Launch, TypeOK, Goroutine
  <2>4. Consistent(loop[l])'
    BY <2>1, <2>2, <2>3 DEF Consistent, Goroutine, Sound, InitialState, Executing
  <2>5. GoroutinesConsistent'
    BY <1>10, <2>3, <2>4, OneMoves DEF Launch
  <2>6. ClosedMeansQuiet'
    BY <1>10, <1>t, <2>3 DEF Launch, ClosedMeansQuiet
  <2>7. LogConsistent'
    BY <1>10, LogStays DEF Launch
  <2>8. TypeOK' /\ ClientBound'
    BY <1>10, <1>t, <2>3 DEF Launch, Returns, Idle, TypeOK, ClientBound
  <2> QED
    BY <2>5, <2>6, <2>7, <2>8 DEF Inv
<1> QED
  BY <1>1, <1>2, <1>3, <1>4, <1>5, <1>6, <1>7, <1>8, <1>9, <1>10 DEF ClientStep

LEMMA StepInv == Inv /\ [Next]_vars => Inv'
<1> SUFFICES ASSUME Inv, [Next]_vars
             PROVE  Inv'
  OBVIOUS
<1> USE DEF candidate, durable, outside, history
<1>t. TypeOK /\ GoroutinesConsistent /\ LogConsistent /\ ClosedMeansQuiet /\ ClientBound
  BY DEF Inv
<1>f. ASSUME UNCHANGED <<loop, log, passed, plane>>
      PROVE  GoroutinesConsistent' /\ LogConsistent' /\ ClosedMeansQuiet'
  BY <1>f, <1>t DEF GoroutinesConsistent, LogConsistent, ClosedMeansQuiet, Consistent
<1>1. ASSUME NEW l \in Loop, LoopStep(l)
      PROVE  Inv'
  BY <1>1, LoopStepInv
<1>2. ASSUME NEW l \in Loop, RequestEnds(l)
      PROVE  Inv'
  <2>1. LoopType' /\ GoroutinesConsistent' /\ ClosedMeansQuiet'
    BY <1>2, OverKeeps DEF RequestEnds
  <2> QED
    BY <1>2, <1>t, <2>1, LogStays, FromControl DEF RequestEnds, ControlInv, TypeOK
<1>3. CASE ClientStep
  BY <1>3, ClientStepInv
<1>4. ASSUME NEW s \in Snapshot, Edit(s)
      PROVE  Inv'
  <2>1. faults' \in 0 .. MaxFaults
    BY <1>4, <1>t, FaultTypes DEF Edit
  <2>2. tree' = s /\ UNCHANGED <<record, plans, run, config, log, checkpoints, loop,
                                 cancelOf, client, plane, calls, passed>>
    BY <1>4 DEF Edit
  <2>3. TypeOK'
    BY <1>t, <2>1, <2>2, ZenonT(60) DEF TypeOK
  <2>4. ClientBound'
    BY <1>t, <2>2 DEF ClientBound
  <2> QED
    BY <1>f, <2>2, <2>3, <2>4 DEF Inv
<1>5. CASE Close
  <2>1. \A l \in Loop : loop'[l] \in {loop[l], Stopping}
    BY <1>5 DEF Close
  <2>2. GoroutinesConsistent'
    BY <1>5, <1>t, <2>1 DEF Close, GoroutinesConsistent, Consistent
  <2>3. loop' \in [Loop -> Goroutine \cup {NotRunning, Stopping}]
    BY <1>5, <1>t DEF Close, TypeOK
  <2> QED
    BY <1>5, <1>t, <2>2, <2>3
    DEF Close, Inv, TypeOK, LogConsistent, ClosedMeansQuiet, ClientBound
<1>6. CASE Closed
  <2>1. ClosedMeansQuiet'
    BY <1>6 DEF Closed, Waited, ClosedMeansQuiet
  <2>2. GoroutinesConsistent' /\ LogConsistent'
    BY <1>6, <1>t DEF Closed, GoroutinesConsistent, LogConsistent, Consistent
  <2>3. TypeOK' /\ ClientBound'
    BY <1>6, <1>t DEF Closed, TypeOK, ClientBound
  <2> QED
    BY <2>1, <2>2, <2>3 DEF Inv
<1>7. CASE Restart
  BY <1>7, <1>t
  DEF Restart, Inv, TypeOK, GoroutinesConsistent, LogConsistent, ClosedMeansQuiet, ClientBound, Idle
<1>8. CASE UNCHANGED vars
  <2>1. UNCHANGED <<tree, record, plans, run, config, log, checkpoints, loop, cancelOf,
                    client, plane, faults, calls, passed>>
    BY <1>8 DEF vars
  <2>2. TypeOK'
    BY <1>t, <2>1, ZenonT(40) DEF TypeOK
  <2>3. ClientBound'
    BY <1>t, <2>1 DEF ClientBound
  <2> QED
    BY <1>f, <2>1, <2>2, <2>3 DEF Inv
<1> QED
  BY <1>1, <1>2, <1>3, <1>4, <1>5, <1>6, <1>7, <1>8 DEF Next

LEMMA Invariant == Spec => []Inv
BY InitInv, StepInv, PTL DEF Spec

-----------------------------------------------------------------------------
(***************************************************************************)
(* Every variable keeps its type.                                          *)
(***************************************************************************)
THEOREM TypesHold == Spec => []TypeOK
<1>1. Inv => TypeOK
  BY DEF Inv
<1> QED
  BY <1>1, Invariant, PTL

(***************************************************************************)
(* No loop is about to execute an action that failed before in the same    *)
(* run, whatever was retried, reloaded or resumed (loop.go:189-250).       *)
(***************************************************************************)
THEOREM FailedActionsStayFailed == Spec => []FailedActionsAreNotRepeated
<1>1. Inv => FailedActionsAreNotRepeated
  <2> SUFFICES ASSUME Inv, NEW l \in Loop,
                      loop[l].at \in {"top", "verify", "refresh", "replan"},
                      loop[l].state.phase \in Executing
               PROVE  Fingerprint(loop[l].state.phase, loop[l].state.plan)
                        \notin loop[l].state.failed
    BY DEF FailedActionsAreNotRepeated
  <2>1. Sound(loop[l].state, passed)
    BY DEF Inv, GoroutinesConsistent, NotRunning, Stopping, Consistent
  <2>2. Fingerprint(loop[l].state.phase, loop[l].state.plan) \in Fingerprints(loop[l].state.plan)
    BY DEF Fingerprints
  <2> QED
    BY <2>1, <2>2 DEF Sound
<1> QED
  BY <1>1, Invariant, PTL

(***************************************************************************)
(* A run is completed only by a goroutine bound to contents whose          *)
(* verification passed (automation.go:478-491).                            *)
(***************************************************************************)
THEOREM CompletedRunsAreVerified == Spec => CompletedMeansVerified
<1>1. Inv /\ [Next]_vars =>
        [run'.status = "completed" /\ run.status # "completed" =>
           \E l \in Loop : loop[l].at = "complete" /\ loop[l].request \in passed]_vars
  <2> SUFFICES ASSUME Inv, Next, run'.status = "completed", run.status # "completed"
               PROVE  \E l \in Loop : loop[l].at = "complete" /\ loop[l].request \in passed
    BY DEF vars
  <2>t. run \in [status : {"none", "created", "running", "completed", "failed"},
                 binding : Snapshot]
    BY DEF Inv, TypeOK
  <2>c. ~ClientStep
    <3>1. ~CreateRun /\ ~SetRunning
      BY <2>t DEF CreateRun, InsertRun, SetRunning, SetStatus
    <3> QED
      BY <3>1
      DEF ClientStep, StartLoop, Configure, ResumeLoop, PlanVerification, PlanRefresh,
          PlanSnapshot, ClientFails, Launch, durable
  <2>l. ASSUME NEW l \in Loop, LoopStep(l)
        PROVE  Complete(l)
    BY <2>t, <2>l
    DEF LoopStep, CheckBinding, Load, Think, ModelFails, Propose, Diagnose, AuthorityFails,
        AuthorityRefuses, StartVerification, EndVerification, ApplyPatch, NoPatch,
        RefreshGeneration, Replan, Rebind, UpdateRunBinding, SaveCheckpoint, Persist, Completed,
        MarkFailed, Canceled, SetStatus, SetBinding, durable
  <2>1. PICK l \in Loop : Complete(l)
    BY <2>c, <2>l DEF Next, RequestEnds, Edit, Close, Closed, Restart, durable
  <2>2. loop[l].at = "complete"
    BY <2>1 DEF Complete, At
  <2>3. Consistent(loop[l])
    BY <2>2 DEF Inv, GoroutinesConsistent, NotRunning, Stopping
  <2> QED
    BY <2>2, <2>3 DEF Consistent, Sound
<1> QED
  BY <1>1, Invariant, PTL DEF Spec, CompletedMeansVerified

(***************************************************************************)
(* Once the stores are closed, the run does not change any more, and no    *)
(* goroutine applies a patch (plane.go:260-291).                           *)
(***************************************************************************)
THEOREM ClosedIsClosed == Spec => NothingAfterClose
<1>1. Inv /\ [Next]_vars =>
        [plane = "closed" /\ plane' = "closed" =>
           UNCHANGED durable /\ \A l \in Loop : ~ApplyPatch(l)]_vars
  <2> SUFFICES ASSUME Inv, Next, plane = "closed", plane' = "closed"
               PROVE  UNCHANGED durable /\ \A l \in Loop : ~ApplyPatch(l)
    BY DEF vars
  <2>1. \A l \in Loop : loop[l].at \in {"none", "canceled", "bind", "reject"}
    BY DEF Inv, ClosedMeansQuiet
  <2>2. ASSUME NEW l \in Loop
        PROVE  ~ApplyPatch(l)
    BY <2>1 DEF ApplyPatch, InPhase, At
  <2>3. ~StoreOpen
    BY DEF StoreOpen
  <2>4. UNCHANGED durable
    <3>1. ASSUME NEW l \in Loop, LoopStep(l)
          PROVE  UNCHANGED durable
      BY <2>1, <2>3, <3>1
      DEF LoopStep, CheckBinding, Load, Think, ModelFails, Propose, Diagnose,
          AuthorityFails, AuthorityRefuses, StartVerification, EndVerification, ApplyPatch,
          NoPatch, RefreshGeneration, Replan, Rebind, UpdateRunBinding, SaveCheckpoint, Complete,
          Persist, Completed, MarkFailed, Canceled, InPhase, At, durable
    <3>2. CASE ClientStep
      BY <2>3, <3>2
      DEF ClientStep, StartLoop, CreateRun, Configure, ResumeLoop, PlanVerification, PlanRefresh,
          PlanSnapshot, SetRunning, ClientFails, Launch, durable
    <3> QED
      BY <3>1, <3>2 DEF Next, RequestEnds, Edit, Close, Closed, Restart, durable
  <2> QED
    BY <2>2, <2>4
<1> QED
  BY <1>1, Invariant, PTL DEF Spec, NothingAfterClose

-----------------------------------------------------------------------------
\* One state is nearer to the end than another, by its phase or by a retry.
NearerByPhase(new, old) ==
  new.retries = old.retries /\ Position[new.phase] < Position[old.phase]

NearerByRetry(new, old) ==
  /\ new.retries = old.retries + 1
  /\ old.phase = "diagnose_retry" /\ new.phase = "parallel_commands"

Nearer(new, old) == NearerByPhase(new, old) \/ NearerByRetry(new, old)

LEMMA NearerIsLess ==
  ASSUME NEW old \in State, NEW new \in State, Nearer(new, old)
  PROVE  Distance(new) < Distance(old)
<1>1. MaxRetries \in Nat /\ old.retries \in Nat /\ new.retries \in Nat
  BY RunAssumption DEF State
<1>2. Position[old.phase] \in Nat /\ Position[new.phase] \in Nat
  <2>1. \A phase \in Phase : Position[phase] \in Nat
    BY PositionValues DEF Phase
  <2> QED
    BY <2>1 DEF State
<1>3. CASE NearerByPhase(new, old)
  BY <1>1, <1>2, <1>3 DEF NearerByPhase, Distance
<1>4. CASE NearerByRetry(new, old)
  <2>1. Position[old.phase] = 2 /\ Position[new.phase] = 7
    BY <1>4, PositionValues DEF NearerByRetry
  <2>2. new.retries = old.retries + 1
    BY <1>4 DEF NearerByRetry
  <2> QED
    BY <1>1, <2>1, <2>2 DEF Distance
<1> QED
  BY <1>3, <1>4 DEF Nearer

\* Every way to persist another state.
LEMMA NextIsNearer ==
  ASSUME NEW old \in State, old.phase \notin {"completed", "failed", "human_checkpoint",
                                              "plan", "diagnose_retry"}
  PROVE  LET new == [old EXCEPT !.phase = After[old.phase]]
         IN  new \in State /\ Nearer(new, old)
<1> DEFINE new == [old EXCEPT !.phase = After[old.phase]]
<1>1. old.phase \in {"inspect", "hypothesis", "parallel_commands", "patch_candidate",
                     "targeted_test", "full_verify", "checkpoint"}
  BY DEF State, Phase
<1>2. After[old.phase] \in Phase
  BY <1>1, AfterValues DEF Phase
<1>3. new \in State /\ new.phase = After[old.phase] /\ new.retries = old.retries
  BY <1>2 DEF State
<1>4. Position[After[old.phase]] < Position[old.phase]
  BY <1>1, AfterValues, PositionValues
<1> QED
  BY <1>3, <1>4 DEF Nearer, NearerByPhase

LEMMA PersistingIsNearer ==
  ASSUME Inv, NEW l \in Loop, LoopStep(l), loop[l].at # "persist", loop'[l].at = "persist"
  PROVE  loop[l].state \in State /\ loop'[l].state \in State
         /\ Nearer(loop'[l].state, loop[l].state)
<1> DEFINE state == loop[l].state
<1>t. loop \in [Loop -> Goroutine \cup {NotRunning, Stopping}] /\ Inv'
  BY LoopStepInv DEF Inv, TypeOK
<1>1. Consistent(loop[l])'
  BY <1>t DEF Inv, GoroutinesConsistent, NotRunning, Stopping
<1>2. loop'[l].state \in State
  BY <1>1 DEF Consistent, Sound
<1>3. loop[l].at \notin {"none", "canceled"} /\ Consistent(loop[l])
  <2>1. loop[l] \notin {NotRunning, Stopping}
    <3>1. ~Canceled(l)
      BY <1>t DEF Canceled, Over, NotRunning
    <3>2. \E at \in {"bind", "load", "top", "verify", "refresh", "replan", "snapshot", "rebind",
                    "complete", "persist", "reject"} : At(l, at)
      BY <3>1
      DEF LoopStep, CheckBinding, Load, Think, ModelFails, Propose, Diagnose, AuthorityFails,
          AuthorityRefuses, StartVerification, EndVerification, ApplyPatch, NoPatch,
          RefreshGeneration, Replan, Rebind, UpdateRunBinding, SaveCheckpoint, Complete, Persist,
          Completed, MarkFailed, InPhase
    <3> QED
      BY <3>2 DEF At, NotRunning, Stopping
  <2>2. Consistent(loop[l])
    BY <2>1 DEF Inv, GoroutinesConsistent
  <2> QED
    BY <2>1, <2>2 DEF Consistent, Goroutine, NotRunning, Stopping
<1>4. state \in State
  BY <1>3 DEF Consistent, Sound
<1> SUFFICES Nearer(loop'[l].state, state)
  BY <1>2, <1>4
<1>p. ASSUME NEW s, Persisting(l, s)
      PROVE  loop'[l].state = s
  BY <1>p, <1>t, <1>3 DEF Persisting, Consistent, Goroutine
<1>g. ASSUME NEW at, at # "persist", Goto(l, at)
      PROVE  FALSE
  BY <1>g, <1>t DEF Goto
<1>o. ~Over(l)
  BY <1>t DEF Over, NotRunning
<1>f. Failure(l) /\ state.phase \in Executing \cup {"checkpoint"} => Nearer(loop'[l].state, state)
  <2> SUFFICES ASSUME Failure(l), state.phase \in Executing \cup {"checkpoint"}
               PROVE  Nearer(loop'[l].state, state)
    OBVIOUS
  <2>1. loop'[l].state = RecordFailure(state)
    BY <1>p DEF Failure
  <2>2. RecordFailure(state).phase \in {"failed", "diagnose_retry"}
        /\ RecordFailure(state).retries = state.retries
    BY <1>3, AfterFailure DEF Consistent
  <2> QED
    BY <2>1, <2>2, PositionValues DEF Nearer, NearerByPhase, Executing
<1>a. Advance(l) /\ state.phase \notin {"completed", "failed", "human_checkpoint", "plan",
                                        "diagnose_retry"}
        => Nearer(loop'[l].state, state)
  BY <1>p, <1>4, NextIsNearer DEF Advance
<1>5. CASE Think(l)
  BY <1>5, <1>a DEF Think, InPhase
<1>6. CASE ModelFails(l)
  <2>1. state.phase \in {"inspect", "plan", "diagnose_retry"}
        /\ loop'[l].state = [state EXCEPT !.phase = "failed"]
    BY <1>6, <1>p DEF ModelFails, InPhase
  <2>2. loop'[l].state.phase = "failed" /\ loop'[l].state.retries = state.retries
    BY <1>4, <2>1 DEF State
  <2> QED
    BY <2>1, <2>2, PositionValues DEF Nearer, NearerByPhase
<1>7. ASSUME NEW plan \in Plan, Propose(l, plan)
      PROVE  Nearer(loop'[l].state, state)
  <2>1. state.phase = "plan"
    BY <1>7 DEF Propose, InPhase
  <2>2. \/ loop'[l].state = [state EXCEPT !.phase = After[@], !.plan = plan]
        \/ loop'[l].state = [state EXCEPT !.phase = "human_checkpoint"]
    BY <1>7, <1>p DEF Propose
  <2>3. loop'[l].state.phase \in {"parallel_commands", "human_checkpoint"}
        /\ loop'[l].state.retries = state.retries
    <3>1. CASE loop'[l].state = [state EXCEPT !.phase = After[@], !.plan = plan]
      BY <1>4, <2>1, <3>1, AfterValues DEF State
    <3>2. CASE loop'[l].state = [state EXCEPT !.phase = "human_checkpoint"]
      BY <1>4, <3>2 DEF State
    <3> QED
      BY <2>2, <3>1, <3>2
  <2> QED
    BY <2>1, <2>3, PositionValues DEF Nearer, NearerByPhase
<1>8. ASSUME NEW plan \in Plan, Diagnose(l, plan)
      PROVE  Nearer(loop'[l].state, state)
  <2>1. state.phase = "diagnose_retry"
    BY <1>8 DEF Diagnose, InPhase
  <2>2. \/ loop'[l].state = [state EXCEPT !.phase = After[@], !.plan = plan, !.retries = @ + 1]
        \/ loop'[l].state = [state EXCEPT !.phase = "failed"]
    BY <1>8, <1>p DEF Diagnose
  <2>3. CASE loop'[l].state = [state EXCEPT !.phase = After[@], !.plan = plan, !.retries = @ + 1]
    <3>1. loop'[l].state.phase = "parallel_commands" /\ loop'[l].state.retries = state.retries + 1
      BY <1>4, <2>1, <2>3, AfterValues DEF State
    <3> QED
      BY <2>1, <3>1 DEF Nearer, NearerByRetry
  <2>4. CASE loop'[l].state = [state EXCEPT !.phase = "failed"]
    <3>1. loop'[l].state.phase = "failed" /\ loop'[l].state.retries = state.retries
      BY <1>4, <2>4 DEF State
    <3> QED
      BY <2>1, <3>1, PositionValues DEF Nearer, NearerByPhase
  <2> QED
    BY <2>2, <2>3, <2>4
<1>9. CASE AuthorityFails(l) \/ AuthorityRefuses(l)
  <2>1. state.phase \in Executing \cup {"checkpoint"}
    BY <1>3, <1>9 DEF AuthorityFails, AuthorityRefuses, InPhase, At, Consistent, Executing
  <2> QED
    BY <1>9, <1>f, <2>1 DEF AuthorityFails, AuthorityRefuses
<1>10. ASSUME NEW pass \in BOOLEAN, EndVerification(l, pass)
       PROVE  Nearer(loop'[l].state, state)
  <2>1. state.phase \in Executing
    BY <1>3, <1>10 DEF EndVerification, At, Consistent
  <2>2. Advance(l) \/ Failure(l)
    BY <1>10 DEF EndVerification
  <2> QED
    BY <1>a, <1>f, <2>1, <2>2 DEF Executing
<1>11. CASE UpdateRunBinding(l) \/ Complete(l)
  <2>1. state.phase \in {"patch_candidate", "checkpoint"}
    BY <1>3, <1>11 DEF UpdateRunBinding, Complete, At, Consistent
  <2>2. Advance(l)
    BY <1>11, <1>g DEF UpdateRunBinding, Complete
  <2> QED
    BY <1>a, <2>1, <2>2
<1>12. ~Load(l)
  BY <1>g, <1>t, <1>3 DEF Load, Consistent, Goroutine
<1>13. ~Rebind(l)
  BY <1>t, <1>3 DEF Rebind, Consistent, Goroutine
<1>14. ~(CheckBinding(l) \/ StartVerification(l) \/ ApplyPatch(l) \/ NoPatch(l)
         \/ RefreshGeneration(l) \/ Replan(l) \/ SaveCheckpoint(l) \/ Persist(l))
  BY <1>g
  DEF CheckBinding, StartVerification, ApplyPatch, NoPatch, RefreshGeneration, Replan,
      SaveCheckpoint, Persist
<1>15. ~(Completed(l) \/ MarkFailed(l) \/ Canceled(l))
  BY <1>o DEF Completed, MarkFailed, Canceled
<1> QED
  BY <1>5, <1>6, <1>7, <1>8, <1>9, <1>10, <1>11, <1>12, <1>13, <1>14, <1>15
  DEF LoopStep

(***************************************************************************)
(* Each state a goroutine is about to persist is nearer to the end of its  *)
(* run than the one before (loop.go:137-268).                              *)
(***************************************************************************)
THEOREM RunsConverge == Spec => Converges
<1>1. Inv /\ [Next]_vars =>
        [\A l \in Loop : ~At(l, "persist") /\ At(l, "persist")' =>
           Distance(loop'[l].state) < Distance(loop[l].state)]_vars
  <2> SUFFICES ASSUME Inv, Next, NEW l \in Loop, loop[l].at # "persist", loop'[l].at = "persist"
               PROVE  Distance(loop'[l].state) < Distance(loop[l].state)
    BY DEF At
  <2>t. loop \in [Loop -> Goroutine \cup {NotRunning, Stopping}]
    BY DEF Inv, TypeOK
  <2>1. LoopStep(l)
    <3>1. ASSUME NEW k \in Loop \ {l}
          PROVE  ~LoopStep(k)
      <4>1. LoopStep(k) => loop'[l] = loop[l]
        BY <2>t
        DEF LoopStep, CheckBinding, Load, Think, ModelFails, Propose, Diagnose, AuthorityFails,
            AuthorityRefuses, StartVerification, EndVerification, ApplyPatch, NoPatch,
            RefreshGeneration, Replan, Rebind, UpdateRunBinding, SaveCheckpoint, Complete,
            Persist, Completed, MarkFailed, Canceled, Over, Goto, Advance, Failure, Persisting
      <4> QED
        BY <4>1
    <3>2. ~ClientStep
      <4>1. ASSUME NEW k \in Loop
            PROVE  ~Launch(k)
        BY <2>t DEF Launch
      <4> QED
        BY <4>1
        DEF ClientStep, StartLoop, CreateRun, Configure, ResumeLoop, PlanVerification,
            PlanRefresh, PlanSnapshot, SetRunning, ClientFails
    <3>3. ASSUME NEW k \in Loop
          PROVE  ~RequestEnds(k)
      BY <2>t DEF RequestEnds, Stopping
    <3>4. ~(Close \/ Closed \/ Restart)
      BY <2>t DEF Close, Closed, Restart, Stopping, NotRunning
    <3> QED
      BY <3>1, <3>2, <3>3, <3>4 DEF Next, Edit
  <2>2. loop[l].state \in State /\ loop'[l].state \in State
        /\ Nearer(loop'[l].state, loop[l].state)
    BY <2>1, PersistingIsNearer
  <2> QED
    BY <2>2, NearerIsLess
<1> QED
  BY <1>1, Invariant, PTL DEF Spec, Converges
=============================================================================
