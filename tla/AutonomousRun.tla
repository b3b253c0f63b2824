---------------------------- MODULE AutonomousRun ----------------------------
(***************************************************************************)
(* internal/loop/loop.go under internal/controlplane/automation.go: one    *)
(* durable run, the loop goroutines that execute it, the client that       *)
(* starts, resumes and plans, the candidate's own processes, and Close.    *)
(*                                                                         *)
(* A binding is identified with the candidate snapshot in it: repository   *)
(* and policy never change, and the environment is derived from the tree.  *)
(* An authority operation may fail for reasons outside the model (a lease  *)
(* that expired, a runtime that stopped, a command that could not start).  *)
(***************************************************************************)
EXTENDS Naturals

CONSTANTS
  Loop,          \* loop goroutines that may be running at once
  None,
  Snapshot,      \* contents of the candidate
  Initial,       \* those a candidate may begin with
  Patched,       \* what the patch makes of the contents it applies to
  Plan,          \* the plans the model may propose
  Ambiguous,     \* those that are ambiguous or destructive
  MaxRetries,
  MaxFaults,     \* bound: edits of the candidate, failing operations and calls
  MaxCalls       \* bound: calls of the client

ASSUME RunAssumption ==
  /\ None \notin Loop \cup Snapshot \cup Plan
  /\ Initial \subseteq Snapshot
  /\ \A s \in DOMAIN Patched : s \in Snapshot /\ Patched[s] \in Snapshot
  /\ Ambiguous \subseteq Plan
  /\ MaxRetries \in Nat \ {0}
  /\ MaxFaults \in Nat /\ MaxCalls \in Nat

Phase == {"inspect", "hypothesis", "plan", "parallel_commands", "patch_candidate",
          "targeted_test", "full_verify", "diagnose_retry", "checkpoint",
          "completed", "failed", "human_checkpoint"}

\* The phases in which an action of the plan is executed.
Executing == {"parallel_commands", "patch_candidate", "targeted_test", "full_verify"}

Repeating == [p \in Phase |-> IF p = "hypothesis" THEN "inspect" ELSE "hypothesis"]

\* The phase after one that went well.
After == [p \in Phase |->
  CASE p = "inspect" -> "hypothesis"
    [] p = "hypothesis" -> "plan"
    [] p = "plan" -> "parallel_commands"
    [] p = "parallel_commands" -> "patch_candidate"
    [] p = "patch_candidate" -> "targeted_test"
    [] p = "targeted_test" -> "full_verify"
    [] p = "full_verify" -> "checkpoint"
    [] p = "checkpoint" -> "completed"
    [] p = "diagnose_retry" -> "parallel_commands"
    [] OTHER -> p]

\* An action is identified by its fingerprint: what it is and in which plan.
Fingerprint(phase, plan) == <<phase, plan>>
Fingerprints(plan) == {Fingerprint(p, plan) : p \in Executing}

State == [phase : Phase, binding : Snapshot, plan : Plan \cup {None},
          retries : 0 .. MaxRetries, failed : SUBSET (Executing \X Plan)]

InitialState(s) ==
  [phase |-> "inspect", binding |-> s, plan |-> None, retries |-> 0, failed |-> {}]

\* What a goroutine holds: request.Binding, the binding of its model, its state.
Goroutine == [at : {"bind", "load", "top", "verify", "refresh", "replan", "snapshot",
                    "rebind", "complete", "persist", "reject"},
              request : Snapshot, model : Snapshot, state : State]

NotRunning == [at |-> "none"]

\* Its context is done: whatever it calls next fails, and it writes no more.
Stopping == [at |-> "canceled"]

VARIABLES
  tree,          \* what the candidate contains
  record,        \* its snapshot, in .generation.json and in the plane's record
  plans,         \* the snapshots whose verification plan the plane knows
  run,           \* the row of the run
  config,        \* its loop.config event
  log,           \* its loop.state events: the bindings in them, and the last
  checkpoints,   \* the states saved as checkpoints, which are keyed by content
  loop,
  cancelOf,      \* the goroutine whose cancel function loopCancels holds
  client,        \* the call of the client
  plane,         \* open, closing or closed
  faults,        \* how many things went wrong
  calls,         \* how many calls the client has made
  passed         \* history: the snapshots whose verification passed

candidate == <<tree, record>>
durable == <<run, config, log, checkpoints>>
outside == <<cancelOf, client, plane>>
history == <<faults, calls, passed>>
vars == <<candidate, plans, durable, loop, outside, history>>

TypeOK ==
  /\ tree \in Snapshot /\ record \in Snapshot
  /\ faults \in 0 .. MaxFaults /\ calls \in 0 .. MaxCalls
  /\ plans \subseteq Snapshot
  /\ run \in [status : {"none", "created", "running", "completed", "failed"},
              binding : Snapshot]
  /\ config \in {"none", "patch", "no patch"}
  /\ log \in [bindings : SUBSET Snapshot, last : State \cup {None}]
  /\ checkpoints \subseteq State
  /\ loop \in [Loop -> Goroutine \cup {NotRunning, Stopping}]
  /\ cancelOf \in Loop \cup {None}
  /\ client \in [at : {"idle", "create", "configure", "plan", "snapshot", "status", "launch"},
                 resuming : BOOLEAN, binding : Snapshot \cup {None}]
  /\ plane \in {"open", "closing", "closed"}
  /\ passed \subseteq Snapshot

Idle == [at |-> "idle", resuming |-> FALSE, binding |-> None]

Init ==
  /\ tree \in Initial
  /\ record = tree
  /\ faults = 0 /\ calls = 0
  /\ plans = {}
  /\ run = [status |-> "none", binding |-> tree]
  /\ config = "none"
  /\ log = [bindings |-> {}, last |-> None]
  /\ checkpoints = {}
  /\ loop = [l \in Loop |-> NotRunning]
  /\ cancelOf = None
  /\ client = Idle
  /\ plane = "open"
  /\ passed = {}

-----------------------------------------------------------------------------
(* The steps of PlanVerification, for a client or for a loop.              *)

\* RefreshGeneration, called when the candidate is not what the record says.
Refresh == record' = tree

\* A plan for what the candidate contains by now.
RegisterPlan == plans' = plans \cup {tree}

Fault == faults < MaxFaults /\ faults' = faults + 1

-----------------------------------------------------------------------------
(* The store of runs and events, while it is open: each a transaction.     *)

StoreOpen == plane # "closed"

InsertRun(s) == run' = [status |-> "created", binding |-> s]

SetStatus(status) == run' = [run EXCEPT !.status = status]

SetBinding(s) == run' = [run EXCEPT !.binding = s]

AppendState(state) ==
  log' = [bindings |-> log.bindings \cup {state.binding}, last |-> state]

\* A checkpoint with the identity of an earlier one is refused.
InsertCheckpoint(state) ==
  /\ state \notin checkpoints
  /\ checkpoints' = checkpoints \cup {state}

-----------------------------------------------------------------------------
(* A loop goroutine.                                                       *)

Live(l) == loop[l] \notin {NotRunning, Stopping}

At(l, at) == loop[l].at = at

InPhase(l, phases) == At(l, "top") /\ loop[l].state.phase \in phases

Goto(l, at) == loop' = [loop EXCEPT ![l].at = at]

\* The goroutine continues with another state, which is persisted first.
Persisting(l, state) == loop' = [loop EXCEPT ![l].at = "persist", ![l].state = state]

Advance(l) ==
  Persisting(l, [loop[l].state EXCEPT !.phase = After[loop[l].state.phase]])

\* The goroutine is over: its entry of loopCancels is deleted, whoever owns it.
Over(l) ==
  /\ loop' = [loop EXCEPT ![l] = NotRunning]
  /\ cancelOf' = None

RecordAnyFailure(state) ==
  [state EXCEPT !.phase = "diagnose_retry",
                !.failed = @ \cup {Fingerprint(state.phase, state.plan)}]

\* recordFailure: an action that failed before, or has no fingerprint, ends the run.
RecordFailure(state) ==
  LET action == Fingerprint(state.phase, state.plan)
  IN  IF state.phase \notin Executing \/ action \in state.failed
      THEN [state EXCEPT !.phase = "failed"]
      ELSE [state EXCEPT !.phase = "diagnose_retry", !.failed = @ \cup {action}]

Failure(l) == Persisting(l, RecordFailure(loop[l].state))

\* Run: the run must be bound as the request is.
CheckBinding(l) ==
  /\ At(l, "bind")
  /\ Goto(l, IF StoreOpen /\ run.binding = loop[l].request THEN "load" ELSE "reject")
  /\ UNCHANGED <<candidate, plans, durable, outside, history>>

\* load: every state of the log has the binding of the request.
Loadable(bindings, binding) == bindings \subseteq {binding}

Load(l) ==
  /\ At(l, "load")
  /\ IF StoreOpen /\ Loadable(log.bindings, loop[l].request)
     THEN loop' = [loop EXCEPT ![l].at = "top",
                     ![l].state = IF log.last = None THEN @ ELSE log.last]
     ELSE Goto(l, "reject")
  /\ UNCHANGED <<candidate, plans, durable, outside, history>>

Think(l) ==
  /\ InPhase(l, {"inspect", "hypothesis"})
  /\ Advance(l)
  /\ UNCHANGED <<candidate, plans, durable, outside, history>>

\* The model has no answer.
ModelFails(l) ==
  /\ InPhase(l, {"inspect", "plan", "diagnose_retry"})
  /\ Persisting(l, [loop[l].state EXCEPT !.phase = "failed"])
  /\ Fault
  /\ UNCHANGED <<candidate, plans, durable, outside, calls, passed>>

ValidPlan(l, plan) == loop[l].model = loop[l].request /\ plan \notin Ambiguous

Propose(l, plan) ==
  /\ InPhase(l, {"plan"})
  /\ IF ValidPlan(l, plan)
     THEN Persisting(l, [loop[l].state EXCEPT !.phase = After[@], !.plan = plan])
     ELSE Persisting(l, [loop[l].state EXCEPT !.phase = "human_checkpoint"])
  /\ UNCHANGED <<candidate, plans, durable, outside, history>>

NeverRepeated(plan, failed) == FALSE

\* repeatedPlan: an action of the plan has failed before.
Repeated(plan, failed) == Fingerprints(plan) \cap failed # {}

Diagnose(l, plan) ==
  /\ InPhase(l, {"diagnose_retry"})
  /\ LET state == loop[l].state
     IN  IF state.retries < MaxRetries /\ ValidPlan(l, plan) /\ ~Repeated(plan, state.failed)
         THEN Persisting(l, [state EXCEPT !.phase = After[@], !.plan = plan, !.retries = @ + 1])
         ELSE Persisting(l, [state EXCEPT !.phase = "failed"])
  /\ UNCHANGED <<candidate, plans, durable, outside, history>>

\* An operation of the authority fails without an effect.
AuthorityFails(l) ==
  /\ \/ InPhase(l, Executing \cup {"checkpoint"})
     \/ At(l, "verify") \/ At(l, "refresh") \/ At(l, "replan")
  /\ Failure(l)
  /\ Fault
  /\ UNCHANGED <<candidate, plans, durable, outside, calls, passed>>

\* The plan is known, and record and candidate are what it is for.
MayVerify(l) == loop[l].request \in plans /\ record = loop[l].request /\ tree = loop[l].request

PatchApplies == tree \in DOMAIN Patched

\* An operation of the authority is refused because of what it finds.
AuthorityRefuses(l) ==
  /\ \/ InPhase(l, Executing \ {"patch_candidate"}) /\ ~MayVerify(l)
     \/ At(l, "verify") /\ tree # loop[l].request
     \/ InPhase(l, {"patch_candidate"}) /\ config = "patch" /\ ~PatchApplies
     \/ InPhase(l, {"checkpoint"}) /\ record # loop[l].request
  /\ Failure(l)
  /\ UNCHANGED <<candidate, plans, durable, outside, history>>

\* RunVerification up to the first command.
StartVerification(l) ==
  /\ InPhase(l, Executing \ {"patch_candidate"})
  /\ MayVerify(l)
  /\ Goto(l, "verify")
  /\ UNCHANGED <<candidate, plans, durable, outside, history>>

AnyResult(phase, pass) == TRUE

\* Before the patch it is enough that the verification took place.
Accepted(phase, pass) == pass \/ phase = "parallel_commands"

\* The commands have ended and the candidate is still, or again, the same.
EndVerification(l, pass) ==
  /\ At(l, "verify")
  /\ tree = loop[l].request
  /\ passed' = IF pass THEN passed \cup {tree} ELSE passed
  /\ IF Accepted(loop[l].state.phase, pass) THEN Advance(l) ELSE Failure(l)
  /\ UNCHANGED <<candidate, plans, durable, outside, faults, calls>>

\* PatchCandidate: the patch is in the candidate.
ApplyPatch(l) ==
  /\ InPhase(l, {"patch_candidate"})
  /\ config = "patch" /\ PatchApplies
  /\ tree' = Patched[tree]
  /\ Goto(l, "refresh")
  /\ UNCHANGED <<record, plans, durable, outside, history>>

NoPatch(l) ==
  /\ InPhase(l, {"patch_candidate"})
  /\ config = "no patch"
  /\ Goto(l, "replan")
  /\ UNCHANGED <<candidate, plans, durable, outside, history>>

\* PatchCandidate: the generation's snapshot follows.
RefreshGeneration(l) ==
  /\ At(l, "refresh")
  /\ Refresh
  /\ Goto(l, "replan")
  /\ UNCHANGED <<tree, plans, durable, outside, history>>

\* RefreshBinding: PlanVerification in its two steps.
Replan(l) ==
  /\ At(l, "replan")
  /\ Refresh
  /\ Goto(l, "snapshot")
  /\ UNCHANGED <<tree, plans, durable, outside, history>>

Rebind(l) ==
  /\ At(l, "snapshot")
  /\ RegisterPlan
  /\ loop' = [loop EXCEPT ![l].at = "rebind", ![l].request = tree, ![l].state.binding = tree]
  /\ UNCHANGED <<candidate, durable, outside, history>>

UpdateRunBinding(l) ==
  /\ At(l, "rebind")
  /\ IF StoreOpen
     THEN Advance(l) /\ SetBinding(loop[l].request)
     ELSE Goto(l, "reject") /\ UNCHANGED run
  /\ UNCHANGED <<candidate, plans, config, log, checkpoints, outside, history>>

\* The authority's checkpoint and the row, of which there is one per content.
SaveCheckpoint(l) ==
  /\ InPhase(l, {"checkpoint"})
  /\ record = loop[l].request
  /\ \/ StoreOpen /\ InsertCheckpoint(loop[l].state) /\ Goto(l, "complete")
     \/ /\ ~StoreOpen \/ loop[l].state \in checkpoints
        /\ Goto(l, "reject")
        /\ UNCHANGED checkpoints
  /\ UNCHANGED <<candidate, plans, run, config, log, outside, history>>

Complete(l) ==
  /\ At(l, "complete")
  /\ IF StoreOpen
     THEN Advance(l) /\ SetStatus("completed")
     ELSE Goto(l, "reject") /\ UNCHANGED run
  /\ UNCHANGED <<candidate, plans, config, log, checkpoints, outside, history>>

Persist(l) ==
  /\ At(l, "persist")
  /\ IF StoreOpen
     THEN AppendState(loop[l].state) /\ Goto(l, "top")
     ELSE Goto(l, "reject") /\ UNCHANGED log
  /\ UNCHANGED <<candidate, plans, run, config, checkpoints, outside, history>>

Completed(l) ==
  /\ InPhase(l, {"completed"})
  /\ Over(l)
  /\ UNCHANGED <<candidate, plans, durable, client, plane, history>>

\* Run returned an error, and nobody canceled it.
MarkFailed(l) ==
  /\ At(l, "reject") \/ InPhase(l, {"failed", "human_checkpoint"})
  /\ IF StoreOpen THEN SetStatus("failed") ELSE UNCHANGED run
  /\ Over(l)
  /\ UNCHANGED <<candidate, plans, config, log, checkpoints, client, plane, history>>

Canceled(l) ==
  /\ loop[l] = Stopping
  /\ Over(l)
  /\ UNCHANGED <<candidate, plans, durable, client, plane, history>>

-----------------------------------------------------------------------------
(* The client's calls.                                                     *)

Called == plane # "closed" /\ client.at = "idle" /\ calls < MaxCalls /\ calls' = calls + 1

Returns == client' = Idle

\* StartLoop, with a plan for what the candidate contains.
StartLoop ==
  /\ Called /\ run.status = "none"
  /\ tree \in plans
  /\ RegisterPlan
  /\ client' = [at |-> "create", resuming |-> FALSE, binding |-> tree]
  /\ UNCHANGED <<candidate, durable, loop, cancelOf, plane, faults, passed>>

\* The row is bound to the record's snapshot.
CreateRun ==
  /\ StoreOpen /\ client.at = "create"
  /\ InsertRun(record)
  /\ client' = [client EXCEPT !.at = "configure"]
  /\ UNCHANGED <<candidate, plans, config, log, checkpoints, loop, cancelOf, plane, history>>

Configure ==
  /\ StoreOpen /\ client.at = "configure"
  /\ config' \in {"patch", "no patch"}
  /\ client' = [client EXCEPT !.at = "status"]
  /\ UNCHANGED <<candidate, plans, run, log, checkpoints, loop, cancelOf, plane, history>>

\* ResumeLoop up to PlanVerification; also of a run that is running.  A runtime
\* that is stopped is replaced on the way, or the call fails.
ResumeLoop ==
  /\ Called
  /\ run.status \in {"created", "running"} /\ config # "none"
  /\ record = run.binding
  /\ client' = [at |-> "plan", resuming |-> TRUE, binding |-> run.binding]
  /\ UNCHANGED <<candidate, plans, durable, loop, cancelOf, plane, faults, passed>>

\* PlanVerification, for itself.
PlanVerification ==
  /\ Called
  /\ client' = [client EXCEPT !.at = "plan"]
  /\ UNCHANGED <<candidate, plans, durable, loop, cancelOf, plane, faults, passed>>

PlanRefresh ==
  /\ client.at = "plan"
  /\ Refresh
  /\ client' = [client EXCEPT !.at = "snapshot"]
  /\ UNCHANGED <<tree, plans, durable, loop, cancelOf, plane, history>>

\* A resumption goes on only with the snapshot it found in the row.
PlanSnapshot ==
  /\ client.at = "snapshot"
  /\ RegisterPlan
  /\ IF client.resuming /\ client.binding = tree
     THEN client' = [client EXCEPT !.at = "status"]
     ELSE Returns
  /\ UNCHANGED <<candidate, durable, loop, cancelOf, plane, history>>

SetRunning ==
  /\ StoreOpen /\ client.at = "status"
  /\ SetStatus("running")
  /\ client' = [client EXCEPT !.at = "launch"]
  /\ UNCHANGED <<candidate, plans, config, log, checkpoints, loop, cancelOf, plane, history>>

\* launchLoop: the entry of loopCancels is overwritten.
Launch(l) ==
  /\ client.at = "launch" /\ loop[l].at = "none"
  /\ loop' = [loop EXCEPT ![l] =
       [at |-> "bind", request |-> client.binding, model |-> client.binding,
        state |-> InitialState(client.binding)]]
  /\ cancelOf' = l
  /\ Returns
  /\ UNCHANGED <<candidate, plans, durable, plane, history>>

\* Any step of a call but the last may fail.
ClientFails ==
  /\ client.at \notin {"idle", "launch"}
  /\ Returns
  /\ Fault
  /\ UNCHANGED <<candidate, plans, durable, loop, cancelOf, plane, calls, passed>>

-----------------------------------------------------------------------------
(* Around them.                                                            *)

\* A process of the candidate writes to it.
Edit(s) ==
  /\ s # tree
  /\ tree' = s
  /\ Fault
  /\ UNCHANGED <<record, plans, durable, loop, outside, calls, passed>>

\* The request whose context the loop's is derived from ends.
RequestEnds(l) ==
  /\ Live(l)
  /\ loop' = [loop EXCEPT ![l] = Stopping]
  /\ UNCHANGED <<candidate, plans, durable, outside, history>>

Close ==
  /\ plane = "open"
  /\ plane' = "closing"
  /\ loop' = [l \in Loop |-> IF l = cancelOf THEN Stopping ELSE loop[l]]
  /\ UNCHANGED <<candidate, plans, durable, cancelOf, client, history>>

NoneWaitedFor == TRUE

\* loopWG.Wait: no goroutine is counted.
Waited == \A l \in Loop : loop[l].at = "none"

\* The stores are closed.
Closed ==
  /\ plane = "closing" /\ Waited
  /\ plane' = "closed"
  /\ UNCHANGED <<candidate, plans, durable, loop, cancelOf, client, history>>

\* The process ends, in order or not, and the plane is opened again.
Restart ==
  /\ plane' = "open"
  /\ plans' = {}
  /\ loop' = [l \in Loop |-> NotRunning]
  /\ cancelOf' = None
  /\ client' = Idle
  /\ UNCHANGED <<candidate, durable, history>>

-----------------------------------------------------------------------------
LoopStep(l) ==
  \/ CheckBinding(l) \/ Load(l) \/ Think(l) \/ ModelFails(l)
  \/ \E plan \in Plan : Propose(l, plan) \/ Diagnose(l, plan)
  \/ AuthorityFails(l) \/ AuthorityRefuses(l)
  \/ StartVerification(l) \/ \E pass \in BOOLEAN : EndVerification(l, pass)
  \/ ApplyPatch(l) \/ NoPatch(l) \/ RefreshGeneration(l)
  \/ Replan(l) \/ Rebind(l) \/ UpdateRunBinding(l)
  \/ SaveCheckpoint(l) \/ Complete(l) \/ Persist(l)
  \/ Completed(l) \/ MarkFailed(l) \/ Canceled(l)

ClientStep ==
  \/ StartLoop \/ CreateRun \/ Configure
  \/ ResumeLoop \/ PlanVerification \/ PlanRefresh \/ PlanSnapshot
  \/ SetRunning \/ ClientFails
  \/ \E l \in Loop : Launch(l)

Next ==
  \/ \E l \in Loop : LoopStep(l) \/ RequestEnds(l)
  \/ ClientStep
  \/ \E s \in Snapshot : Edit(s)
  \/ Close \/ Closed \/ Restart

Spec == Init /\ [][Next]_vars
=============================================================================
