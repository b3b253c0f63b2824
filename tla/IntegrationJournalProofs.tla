---------------------- MODULE IntegrationJournalProofs ----------------------
(***************************************************************************)
(* Theorems about IntegrationJournal, for every set of paths, contents and *)
(* journals, every tree and any number of edits.                           *)
(***************************************************************************)
EXTENDS IntegrationJournalProps, TLAPS

\* TypeOK without the shape of the live tree, which no theorem here needs.
Types ==
  /\ live \in Root
  /\ candidate \in Tree
  /\ edits \in [live : Nat, candidate : Nat]
  /\ phase \in {"down", "opening", "open"}
  /\ planning \in {None} \cup [base : Root, before : Tree, after : Tree, at : {"before", "after", "blob"}]
  /\ plan \in Plan \cup {None}
  /\ journal \in [JournalId -> Journal \cup {None}]
  /\ applying \in {None} \cup [id : JournalId, at : {"check", "write", "verify", "advance"}]
  /\ todo \in SUBSET JournalId

\* The journal being applied is in no final state, and is one of this
\* opening; a plan is only computed while none is applied.
Exclusive ==
  /\ applying # None =>
       /\ phase = "open" /\ planning = None
       /\ Written(applying.id)
       /\ journal[applying.id].state \in {"PREPARED", "APPLYING"}
  /\ planning # None => phase = "open"

\* Recovery visits journals that exist, and passes over none it has not
\* found or made COMMITTED.
RecoveryCovers ==
  /\ \A j \in todo : Written(j)
  /\ phase = "opening" => \A j \in JournalId : Written(j) => j \in todo \/ journal[j].state = "COMMITTED"

CommittedIsComplete ==
  \A j \in JournalId : Written(j) /\ journal[j].state = "COMMITTED" => Remaining(journal[j]) = {}

JournalInv == Types /\ Exclusive /\ RecoveryCovers /\ CommittedIsComplete

-----------------------------------------------------------------------------
(* Types.                                                                  *)

LEMMA InitTypes == Init => Types
<1> SUFFICES ASSUME Init PROVE Types
  OBVIOUS
<1>1. PICK files \in Tree : live = [files |-> files, dirs |-> DirsOf(files)]
  BY DEF Init
<1>2. DirsOf(files) \subseteq Path
  <2>1. \A p \in Path : Above[p] \subseteq Path
    BY PathAssumption
  <2> QED
    BY <2>1 DEF DirsOf
<1>3. live \in Root
  BY <1>1, <1>2 DEF Root
<1> QED
  BY <1>3, NoneAssumption DEF Init, Types

LEMMA JournalsStayJournals ==
  ASSUME NEW jr \in Journal, NEW p \in Path
  PROVE  /\ Passed(jr, p) \in Journal
         /\ \A s \in {"COMMITTED", "QUARANTINED"} : [jr EXCEPT !.state = s] \in Journal
BY DEF Journal, Passed

\* What a step of ApplyIntegration or of recovery writes is a journal.
LEMMA StoreTypes ==
  ASSUME Types, NEW id \in JournalId, NEW jr \in Journal, Store(id, jr)
  PROVE  journal' \in [JournalId -> Journal \cup {None}]
BY DEF Types, Store

LEMMA StepFailsTypes ==
  ASSUME Types, NEW id \in JournalId, Written(id), StepFails(id)
  PROVE  /\ journal' \in [JournalId -> Journal \cup {None}]
         /\ applying' = None
<1>1. journal[id] \in Journal
  BY DEF Types, Written
<1>2. [journal[id] EXCEPT !.state = "QUARANTINED"] \in Journal
  BY <1>1 DEF Journal
<1> QED
  BY <1>2, StoreTypes DEF StepFails, Types

\* The steps of everybody but ApplyIntegration and recovery.
LEMMA OtherTypes ==
  ASSUME Types, Edit \/ ReadBase \/ PlanStep \/ (\E id \in JournalId : Prepare(id)) \/ Open \/ Crash
  PROVE  Types'
<1> USE DEF Types
<1>1. ASSUME NEW p \in Path, NEW c \in File, EditLive(p, c)
      PROVE  Types'
  <2>1. live' \in Root
    BY <1>1, PathAssumption DEF EditLive, Root, Tree
  <2> QED
    BY <1>1, <2>1 DEF EditLive
<1>2. ASSUME NEW p \in Path, NEW c \in File, EditCandidate(p, c)
      PROVE  Types'
  BY <1>2 DEF EditCandidate, Tree
<1>3. CASE ReadBase
  BY <1>3 DEF ReadBase, Root
<1>4. CASE ReadLiveFiles
  <2>1. planning \in [base : Root, before : Tree, after : Tree, at : {"before", "after", "blob"}]
    BY <1>4 DEF ReadLiveFiles
  <2>2. planning' \in [base : Root, before : Tree, after : Tree, at : {"before", "after", "blob"}]
    BY <1>4, <2>1 DEF ReadLiveFiles, Root
  <2> QED
    BY <1>4, <2>2 DEF ReadLiveFiles
<1>5. CASE ReadCandidateFiles
  <2>1. planning \in [base : Root, before : Tree, after : Tree, at : {"before", "after", "blob"}]
    BY <1>5 DEF ReadCandidateFiles
  <2>2. planning' \in [base : Root, before : Tree, after : Tree, at : {"before", "after", "blob"}]
    BY <1>5, <2>1 DEF ReadCandidateFiles
  <2> QED
    BY <1>5, <2>2 DEF ReadCandidateFiles
<1>6. CASE ReadBlobs
  <2> DEFINE changed == {p \in Path : planning.before[p] # planning.after[p]}
             staged == {p \in changed : planning.after[p] # Absent}
             new == [base |-> planning.base, before |-> planning.before,
                     after |-> planning.after,
                     blob |-> [p \in Path |-> IF p \in staged THEN candidate[p] ELSE Absent]]
  <2>1. new \in Plan
    BY <1>6 DEF ReadBlobs, Plan, Tree, File
  <2>2. plan' = plan \/ plan' = new
    BY <1>6 DEF ReadBlobs
  <2> QED
    BY <1>6, <2>1, <2>2 DEF ReadBlobs
<1>7. ASSUME NEW id \in JournalId, Prepare(id)
      PROVE  Types'
  <2>1. [state |-> "PREPARED", passed |-> {}, plan |-> plan] \in Journal
    BY <1>7 DEF Prepare, Journal
  <2> QED
    BY <1>7, <2>1, StoreTypes DEF Prepare
<1>8. CASE Open
  BY <1>8 DEF Open
<1>9. CASE Crash
  BY <1>9 DEF Crash, Down
<1> QED
  BY <1>1, <1>2, <1>3, <1>4, <1>5, <1>6, <1>7, <1>8, <1>9 DEF Edit, PlanStep

LEMMA ApplyTypes ==
  ASSUME Types, Exclusive, ApplyStep
  PROVE  Types'
<1> USE DEF Types
<1> DEFINE id == applying.id
<1>0. /\ applying # None /\ id \in JournalId /\ Written(id) /\ journal[id] \in Journal
      /\ phase' \in {"down", "opening", "open"}
  BY DEF ApplyStep, CheckStep, WriteStep, WriteStepFails, VerifyStep, AdvanceStep, Commit,
         JournalWriteFails, Applying, Exclusive, Written, Down, StepFails
<1>1. ASSUME NEW p \in Path, CheckStep(p)
      PROVE  Types'
  <2>1. journal' \in [JournalId -> Journal \cup {None}]
    BY <1>0, <1>1, StepFailsTypes DEF CheckStep
  <2>2. applying' \in {None} \cup [id : JournalId, at : {"check", "write", "verify", "advance"}]
    BY <1>0, <1>1, StepFailsTypes DEF CheckStep
  <2> QED
    BY <1>1, <2>1, <2>2 DEF CheckStep
<1>2. ASSUME NEW p \in Path, WriteStep(p)
      PROVE  Types'
  <2>1. journal[id].plan.blob[p] \in File
    BY <1>0 DEF Journal, Plan, Tree
  <2>2. NewParents(journal[id], p) \subseteq Path
    BY PathAssumption DEF NewParents
  <2>3. live' \in Root
    BY <1>2, <2>1, <2>2 DEF WriteStep, Root, Tree
  <2> QED
    BY <1>0, <1>2, <2>3 DEF WriteStep
<1>3. ASSUME NEW p \in Path, WriteStepFails(p)
      PROVE  Types'
  <2>1. NewParents(journal[id], p) \subseteq Path
    BY PathAssumption DEF NewParents
  <2>2. live' \in Root
    BY <1>3, <2>1 DEF WriteStepFails, Root
  <2>3. journal' \in [JournalId -> Journal \cup {None}] /\ applying' = None
    BY <1>0, <1>3, StepFailsTypes DEF WriteStepFails, Down
  <2> QED
    BY <1>3, <2>2, <2>3 DEF WriteStepFails, Down
<1>4. ASSUME NEW p \in Path, VerifyStep(p)
      PROVE  Types'
  <2>1. journal' \in [JournalId -> Journal \cup {None}]
    BY <1>0, <1>4, StepFailsTypes DEF VerifyStep
  <2>2. applying' \in {None} \cup [id : JournalId, at : {"check", "write", "verify", "advance"}]
    BY <1>0, <1>4, StepFailsTypes DEF VerifyStep
  <2> QED
    BY <1>4, <2>1, <2>2 DEF VerifyStep
<1>5. ASSUME NEW p \in Path, AdvanceStep(p)
      PROVE  Types'
  <2>1. journal' \in [JournalId -> Journal \cup {None}]
    BY <1>0, <1>5, JournalsStayJournals, StoreTypes DEF AdvanceStep
  <2>2. applying' \in {None} \cup [id : JournalId, at : {"check", "write", "verify", "advance"}]
    BY <1>0, <1>5 DEF AdvanceStep
  <2> QED
    BY <1>5, <2>1, <2>2 DEF AdvanceStep
<1>6. CASE Commit
  <2>1. [journal[id] EXCEPT !.state = "COMMITTED"] \in Journal
    BY <1>0 DEF Journal
  <2>2. journal' \in [JournalId -> Journal \cup {None}]
    BY <1>0, <1>6, <2>1, StoreTypes DEF Commit
  <2> QED
    BY <1>6, <2>2 DEF Commit
<1>7. CASE JournalWriteFails
  BY <1>7 DEF JournalWriteFails
<1> QED
  BY <1>1, <1>2, <1>3, <1>4, <1>5, <1>6, <1>7 DEF ApplyStep

LEMMA RecoverTypes ==
  ASSUME Types, RecoveryCovers, RecoverStep
  PROVE  Types'
<1> USE DEF Types
<1>1. ASSUME NEW j \in JournalId, Recovering(j)
      PROVE  journal[j] \in Journal
  BY <1>1 DEF Recovering, RecoveryCovers, Written
<1>2. ASSUME NEW j \in JournalId, SkipCommitted(j) \/ RefuseJournal(j)
      PROVE  Types'
  BY <1>2 DEF SkipCommitted, RefuseJournal, Down
<1>3. ASSUME NEW j \in JournalId, RecoverCommit(j)
      PROVE  Types'
  <2>1. [journal[j] EXCEPT !.state = "COMMITTED"] \in Journal
    BY <1>1, <1>3 DEF Journal, RecoverCommit, Unfinished
  <2>2. journal' \in [JournalId -> Journal \cup {None}]
    BY <1>3, <2>1, StoreTypes DEF RecoverCommit
  <2> QED
    BY <1>3, <2>2 DEF RecoverCommit
<1>4. ASSUME NEW j \in JournalId, NEW p \in Path, RecoverAdvance(j, p)
      PROVE  Types'
  <2>1. Passed(journal[j], p) \in Journal
    BY <1>1, <1>4, JournalsStayJournals DEF RecoverAdvance, Unfinished
  <2>2. journal' \in [JournalId -> Journal \cup {None}]
    BY <1>4, <2>1, StoreTypes DEF RecoverAdvance
  <2> QED
    BY <1>4, <2>2 DEF RecoverAdvance
<1>5. ASSUME NEW j \in JournalId, NEW p \in Path, RecoverQuarantine(j, p)
      PROVE  Types'
  <2>1. [journal[j] EXCEPT !.state = "QUARANTINED"] \in Journal
    BY <1>1, <1>5 DEF Journal, RecoverQuarantine, Unfinished
  <2>2. journal' \in [JournalId -> Journal \cup {None}]
    BY <1>5, <2>1, StoreTypes DEF RecoverQuarantine
  <2> QED
    BY <1>5, <2>2 DEF RecoverQuarantine, Down
<1>6. ASSUME NEW j \in JournalId, NEW p \in Path, RecoverUnreadablePath(j, p)
      PROVE  Types'
  BY <1>6 DEF RecoverUnreadablePath, Down
<1>7. CASE Opened
  BY <1>7 DEF Opened
<1> QED
  BY <1>2, <1>3, <1>4, <1>5, <1>6, <1>7 DEF RecoverStep

-----------------------------------------------------------------------------
(* How one journal moves.                                                  *)

\* Not in a final state.
Moving(jr) == jr.state \in {"PREPARED", "APPLYING"}

\* The journal stays, passes its next step, is quarantined or is committed.
Advances(old, new) ==
  \/ new = old
  \/ /\ Moving(old)
     /\ \/ \E p \in Path : IsNext(old, p) /\ new = Passed(old, p)
        \/ new = [old EXCEPT !.state = "QUARANTINED"]
        \/ Remaining(old) = {} /\ new = [old EXCEPT !.state = "COMMITTED"]

LEMMA AdvancesForward ==
  ASSUME NEW old \in Journal, NEW new, Advances(old, new)
  PROVE  /\ new \in Journal /\ new.plan = old.plan
         /\ new.passed # old.passed =>
              \E p \in Path : IsNext(old, p) /\ new.passed = old.passed \cup {p}
         /\ new.state = "COMMITTED" => old.state = "COMMITTED" \/ Remaining(new) = {}
         /\ old.state \in {"COMMITTED", "QUARANTINED"} => new = old
         /\ new.state = "PREPARED" => old.state = "PREPARED"
<1>1. ASSUME NEW p \in Path, IsNext(old, p), new = Passed(old, p), Moving(old)
      PROVE  /\ new \in Journal /\ new.plan = old.plan
             /\ new.passed = old.passed \cup {p} /\ new.state = "APPLYING"
  BY <1>1 DEF Passed, Journal
<1>2. ASSUME NEW s \in {"COMMITTED", "QUARANTINED"}, new = [old EXCEPT !.state = s]
      PROVE  /\ new \in Journal /\ new.plan = old.plan
             /\ new.passed = old.passed /\ new.state = s
             /\ Remaining(new) = Remaining(old)
  BY <1>2 DEF Journal, Remaining
<1> QED
  BY <1>1, <1>2 DEF Advances, Moving

\* Storing one journal moves that one and leaves the others.
LEMMA StoreMoves ==
  ASSUME Types, NEW id \in JournalId, Written(id), NEW jr, Store(id, jr),
         Advances(journal[id], jr)
  PROVE  \A j \in JournalId : Written(j) => Advances(journal[j], journal'[j])
BY DEF Types, Store, Advances

LEMMA StepFailsMoves ==
  ASSUME Types, NEW id \in JournalId, Written(id), Moving(journal[id]), StepFails(id)
  PROVE  \A j \in JournalId : Written(j) => Advances(journal[j], journal'[j])
<1>1. Advances(journal[id], [journal[id] EXCEPT !.state = "QUARANTINED"])
  BY DEF Advances
<1> QED
  BY <1>1, StoreMoves DEF StepFails, Advances

LEMMA ApplyMoves ==
  ASSUME Types, Exclusive, ApplyStep
  PROVE  /\ \A j \in JournalId : Written(j) => Advances(journal[j], journal'[j])
         /\ \A j \in JournalId : ~Written(j) => journal'[j] = None
<1> DEFINE id == applying.id
           Goal == \A j \in JournalId : Written(j) => Advances(journal[j], journal'[j])
<1>0. /\ id \in JournalId /\ Written(id) /\ Moving(journal[id])
  BY DEF ApplyStep, CheckStep, WriteStep, WriteStepFails, VerifyStep, AdvanceStep, Commit,
         JournalWriteFails, Applying, Exclusive, Types, Moving
<1>a. UNCHANGED journal => Goal
  BY DEF Advances
<1>1. ASSUME NEW p \in Path, CheckStep(p) \/ VerifyStep(p)
      PROVE  Goal
  BY <1>0, <1>a, <1>1, StepFailsMoves DEF CheckStep, VerifyStep
<1>2. ASSUME NEW p \in Path, WriteStep(p)
      PROVE  Goal
  BY <1>a, <1>2 DEF WriteStep
<1>3. ASSUME NEW p \in Path, WriteStepFails(p)
      PROVE  Goal
  BY <1>0, <1>a, <1>3, StepFailsMoves DEF WriteStepFails
<1>4. ASSUME NEW p \in Path, AdvanceStep(p)
      PROVE  Goal
  <2>1. Advances(journal[id], Passed(journal[id], p))
    BY <1>0, <1>4 DEF AdvanceStep, Advances
  <2> QED
    BY <1>0, <1>4, <2>1, StoreMoves DEF AdvanceStep
<1>5. ASSUME Commit
      PROVE  Goal
  <2>1. Advances(journal[id], [journal[id] EXCEPT !.state = "COMMITTED"])
    BY <1>0, <1>5 DEF Commit, Advances
  <2> QED
    BY <1>0, <1>5, <2>1, StoreMoves DEF Commit
<1>6. ASSUME JournalWriteFails
      PROVE  Goal
  BY <1>a, <1>6 DEF JournalWriteFails
<1>7. Goal
  BY <1>1, <1>2, <1>3, <1>4, <1>5, <1>6 DEF ApplyStep
<1>8. \/ UNCHANGED journal
      \/ \E jr : journal' = [journal EXCEPT ![id] = jr]
  BY DEF ApplyStep, CheckStep, WriteStep, WriteStepFails, VerifyStep, AdvanceStep, Commit,
         JournalWriteFails, StepFails, Store
<1>9. ASSUME NEW j \in JournalId, ~Written(j)
      PROVE  journal'[j] = None
  BY <1>0, <1>8, <1>9 DEF Types, Written
<1> QED
  BY <1>7, <1>9

LEMMA RecoverMoves ==
  ASSUME Types, RecoveryCovers, RecoverStep
  PROVE  /\ \A j \in JournalId : Written(j) => Advances(journal[j], journal'[j])
         /\ \A j \in JournalId : ~Written(j) => journal'[j] = None
<1> DEFINE Goal == /\ \A j \in JournalId : Written(j) => Advances(journal[j], journal'[j])
                   /\ \A j \in JournalId : ~Written(j) => journal'[j] = None
<1>a. UNCHANGED journal => Goal
  BY DEF Advances, Written
<1>b. ASSUME NEW j \in JournalId, Unfinished(j), NEW jr, Store(j, jr), Advances(journal[j], jr)
      PROVE  Goal
  <2>1. Written(j)
    BY <1>b DEF Unfinished, Recovering, RecoveryCovers
  <2>2. \A k \in JournalId : ~Written(k) => journal'[k] = None
    BY <1>b, <2>1 DEF Store, Types, Written
  <2> QED
    BY <1>b, <2>1, <2>2, StoreMoves
<1>1. ASSUME NEW j \in JournalId, SkipCommitted(j) \/ RefuseJournal(j)
      PROVE  Goal
  BY <1>a, <1>1 DEF SkipCommitted, RefuseJournal
<1>2. ASSUME NEW j \in JournalId, RecoverCommit(j)
      PROVE  Goal
  <2>1. Advances(journal[j], [journal[j] EXCEPT !.state = "COMMITTED"])
    BY <1>2 DEF RecoverCommit, Unfinished, Advances, Moving
  <2> QED
    BY <1>b, <1>2, <2>1 DEF RecoverCommit
<1>3. ASSUME NEW j \in JournalId, NEW p \in Path, RecoverAdvance(j, p)
      PROVE  Goal
  <2>1. Advances(journal[j], Passed(journal[j], p))
    BY <1>3 DEF RecoverAdvance, Unfinished, Advances, Moving
  <2> QED
    BY <1>b, <1>3, <2>1 DEF RecoverAdvance
<1>4. ASSUME NEW j \in JournalId, NEW p \in Path, RecoverQuarantine(j, p)
      PROVE  Goal
  <2>1. Advances(journal[j], [journal[j] EXCEPT !.state = "QUARANTINED"])
    BY <1>4 DEF RecoverQuarantine, Unfinished, Advances, Moving
  <2> QED
    BY <1>a, <1>b, <1>4, <2>1 DEF RecoverQuarantine
<1>5. ASSUME NEW j \in JournalId, NEW p \in Path, RecoverUnreadablePath(j, p)
      PROVE  Goal
  BY <1>a, <1>5 DEF RecoverUnreadablePath
<1>6. ASSUME Opened
      PROVE  Goal
  BY <1>a, <1>6 DEF Opened
<1>7. Goal
  BY <1>1, <1>2, <1>3, <1>4, <1>5, <1>6 DEF RecoverStep
<1> QED
  BY <1>7

\* Whatever the step, a journal advances, and a new one is PREPARED by an
\* open repository.
LEMMA StepMoves ==
  ASSUME Types, Exclusive, RecoveryCovers, [Next]_vars
  PROVE  /\ \A j \in JournalId : Written(j) => Advances(journal[j], journal'[j])
         /\ \A j \in JournalId : ~Written(j) /\ journal'[j] # None =>
              /\ phase = "open" /\ phase' = "open"
              /\ plan # None /\ Current(plan)
              /\ journal'[j] = [state |-> "PREPARED", passed |-> {}, plan |-> plan]
<1> DEFINE Goal ==
      /\ \A j \in JournalId : Written(j) => Advances(journal[j], journal'[j])
      /\ \A j \in JournalId : ~Written(j) /\ journal'[j] # None =>
           /\ phase = "open" /\ phase' = "open"
           /\ plan # None /\ Current(plan)
           /\ journal'[j] = [state |-> "PREPARED", passed |-> {}, plan |-> plan]
<1>a. UNCHANGED journal => Goal
  BY DEF Advances, Written
<1>1. ASSUME Edit \/ ReadBase \/ PlanStep \/ Open \/ Crash \/ UNCHANGED vars
      PROVE  Goal
  BY <1>a, <1>1 DEF Edit, EditLive, EditCandidate, ReadBase, PlanStep, ReadLiveFiles,
                    ReadCandidateFiles, ReadBlobs, Open, Crash, vars
<1>2. ASSUME NEW id \in JournalId, Prepare(id)
      PROVE  Goal
  <2>1. /\ journal[id] = None /\ phase = "open" /\ phase' = "open"
        /\ plan # None /\ Current(plan)
        /\ journal' = [journal EXCEPT ![id] = [state |-> "PREPARED", passed |-> {}, plan |-> plan]]
    BY <1>2 DEF Prepare, Idle, Store
  <2>2. ASSUME NEW j \in JournalId
        PROVE  journal'[j] = IF j = id THEN [state |-> "PREPARED", passed |-> {}, plan |-> plan]
                                       ELSE journal[j]
    BY <2>1 DEF Types
  <2> QED
    BY <2>1, <2>2 DEF Advances, Written
<1>3. CASE ApplyStep
  BY <1>3, ApplyMoves
<1>4. CASE RecoverStep
  BY <1>4, RecoverMoves
<1> QED
  BY <1>1, <1>2, <1>3, <1>4 DEF Next

-----------------------------------------------------------------------------
(* The invariant.                                                          *)

LEMMA StepTypes == ASSUME JournalInv, [Next]_vars PROVE Types'
<1>1. CASE UNCHANGED vars
  BY <1>1 DEF vars, JournalInv, Types
<1> QED
  BY <1>1, OtherTypes, ApplyTypes, RecoverTypes DEF Next, JournalInv

LEMMA StepExclusive == ASSUME JournalInv, [Next]_vars PROVE Exclusive'
<1> USE DEF JournalInv
<1>0. \A j \in JournalId : Written(j) => Advances(journal[j], journal'[j])
  BY StepMoves
<1>1. CASE UNCHANGED vars
  BY <1>1 DEF vars, Exclusive, Written
<1>2. ASSUME Edit \/ PlanStep
      PROVE  Exclusive'
  BY <1>2 DEF Edit, EditLive, EditCandidate, PlanStep, ReadLiveFiles, ReadCandidateFiles,
              ReadBlobs, Exclusive, Written
<1>3. ASSUME ReadBase \/ Open \/ Crash
      PROVE  Exclusive'
  BY <1>3 DEF ReadBase, Idle, Open, Crash, Down, Exclusive
<1>4. ASSUME NEW id \in JournalId, Prepare(id)
      PROVE  Exclusive'
  <2>1. journal'[id] = [state |-> "PREPARED", passed |-> {}, plan |-> plan]
    BY <1>4 DEF Prepare, Store, Types
  <2>2. journal'[id] # None
    BY <1>4, <2>1, StepMoves, StepTypes, NoneAssumption DEF Types, Journal, Prepare
  <2> QED
    BY <1>4, <2>1, <2>2 DEF Prepare, Idle, Exclusive, Written
<1>5. CASE ApplyStep
  <2>1. phase = "open" /\ planning = None /\ applying # None /\ applying.id \in JournalId
        /\ Written(applying.id) /\ Moving(journal[applying.id])
    BY <1>5 DEF ApplyStep, CheckStep, WriteStep, WriteStepFails, VerifyStep, AdvanceStep, Commit,
                JournalWriteFails, Applying, Exclusive, Types, Moving
  <2>2. /\ planning' = None
        /\ applying' # None => /\ phase' = "open" /\ applying'.id = applying.id
                               /\ \/ UNCHANGED journal
                                  \/ \E p \in Path : Store(applying.id, Passed(journal[applying.id], p))
    BY <1>5, <2>1 DEF ApplyStep, CheckStep, WriteStep, WriteStepFails, VerifyStep, AdvanceStep,
                JournalWriteFails, Commit, StepFails, Down, Types
  <2>3. ASSUME NEW p \in Path, Store(applying.id, Passed(journal[applying.id], p))
        PROVE  journal'[applying.id] # None /\ journal'[applying.id].state = "APPLYING"
    <3>1. journal[applying.id] \in Journal
      BY <2>1 DEF Types, Written
    <3>2. journal'[applying.id] = Passed(journal[applying.id], p)
      BY <2>1, <2>3 DEF Store, Types
    <3>3. Passed(journal[applying.id], p) \in Journal
      BY <3>1, JournalsStayJournals
    <3>4. Passed(journal[applying.id], p).state = "APPLYING"
      BY <3>1 DEF Passed, Journal
    <3> QED
      BY <3>2, <3>3, <3>4, NoneAssumption
  <2> QED
    BY <2>1, <2>2, <2>3 DEF Exclusive, Written, Moving
<1>6. CASE RecoverStep
  BY <1>6 DEF RecoverStep, SkipCommitted, RefuseJournal, RecoverCommit, RecoverAdvance,
              RecoverQuarantine, RecoverUnreadablePath, Unfinished, Recovering, Opened, Down, Exclusive
<1> QED
  BY <1>1, <1>2, <1>3, <1>4, <1>5, <1>6 DEF Next

LEMMA StepRecoveryCovers == ASSUME JournalInv, [Next]_vars PROVE RecoveryCovers'
<1> USE DEF JournalInv
<1>1. \A j \in JournalId : Written(j) => /\ journal'[j] # None
                                         /\ journal[j].state = "COMMITTED" => journal'[j].state = "COMMITTED"
  BY StepMoves, AdvancesForward, NoneAssumption DEF Types, Written
<1>2. \A j \in JournalId : ~Written(j) /\ journal'[j] # None => phase = "open" /\ phase' = "open"
  BY StepMoves
<1>3. ASSUME todo' = {} \/ todo' = todo, phase' = "opening" => phase = "opening" /\ todo' = todo
      PROVE  RecoveryCovers'
  BY <1>1, <1>2, <1>3 DEF RecoveryCovers, Written, Types
<1>4. CASE UNCHANGED vars \/ Edit \/ ReadBase \/ PlanStep \/ (\E id \in JournalId : Prepare(id)) \/ ApplyStep \/ Crash
  <2>1. /\ todo' = {} \/ todo' = todo
        /\ phase' = "opening" => phase = "opening" /\ todo' = todo
    BY <1>4 DEF vars, Edit, EditLive, EditCandidate, ReadBase, PlanStep, ReadLiveFiles,
                ReadCandidateFiles, ReadBlobs, Prepare, ApplyStep, CheckStep, WriteStep,
                WriteStepFails, VerifyStep, AdvanceStep, Commit, JournalWriteFails, Crash, Down
  <2> QED
    BY <1>3, <2>1
<1>5. CASE Open
  BY <1>5 DEF Open, RecoveryCovers, Written
<1>6. ASSUME NEW j \in JournalId, SkipCommitted(j)
      PROVE  RecoveryCovers'
  BY <1>6 DEF SkipCommitted, Recovering, Finished, RecoveryCovers, Written
<1>7. ASSUME NEW j \in JournalId, RecoverCommit(j)
      PROVE  RecoveryCovers'
  <2>1. Written(j) /\ journal[j] \in Journal
    BY <1>7 DEF RecoverCommit, Unfinished, Recovering, RecoveryCovers, Types, Written
  <2>2. journal'[j].state = "COMMITTED"
    BY <1>7, <2>1 DEF RecoverCommit, Store, Types, Journal
  <2>3. phase = "opening" /\ phase' = phase /\ todo' = todo \ {j}
    BY <1>7 DEF RecoverCommit, Unfinished, Recovering
  <2> QED
    BY <1>1, <1>2, <2>2, <2>3 DEF RecoveryCovers, Written, Types
<1>8. ASSUME NEW j \in JournalId, NEW p \in Path,
             RecoverAdvance(j, p) \/ RecoverQuarantine(j, p) \/ RecoverUnreadablePath(j, p)
      PROVE  RecoveryCovers'
  <2>1. /\ todo' = {} \/ todo' = todo
        /\ phase' = "opening" => phase = "opening" /\ todo' = todo
    BY <1>8 DEF RecoverAdvance, RecoverQuarantine, RecoverUnreadablePath, Down
  <2> QED
    BY <1>3, <2>1
<1>9. ASSUME NEW j \in JournalId, RefuseJournal(j)
      PROVE  RecoveryCovers'
  BY <1>3, <1>9 DEF RefuseJournal, Down
<1>10. CASE Opened
  BY <1>3, <1>10 DEF Opened
<1> QED
  BY <1>4, <1>5, <1>6, <1>7, <1>8, <1>9, <1>10 DEF Next, RecoverStep

LEMMA StepCommittedIsComplete == ASSUME JournalInv, [Next]_vars PROVE CommittedIsComplete'
<1> USE DEF JournalInv
<1> SUFFICES ASSUME NEW j \in JournalId, journal'[j] # None, journal'[j].state = "COMMITTED"
             PROVE  Remaining(journal'[j]) = {}
  BY DEF CommittedIsComplete, Written
<1>1. CASE Written(j)
  BY <1>1, StepMoves, AdvancesForward DEF Types, Written, CommittedIsComplete
<1>2. CASE ~Written(j)
  BY <1>2, StepMoves
<1> QED
  BY <1>1, <1>2

-----------------------------------------------------------------------------
(* The shape of the live tree.  A step deletes or renames a staged blob;   *)
(* for the directories it makes to fit, no blob is staged for a deletion.  *)

NoBlobForDeleted(pl) == \A p \in Path : pl.after[p] = Absent => pl.blob[p] = Absent

PlansAreStaged ==
  /\ plan # None => NoBlobForDeleted(plan)
  /\ \A j \in JournalId : Written(j) => NoBlobForDeleted(journal[j].plan)

LEMMA StepPlansAreStaged ==
  ASSUME JournalInv, PlansAreStaged, [Next]_vars
  PROVE  PlansAreStaged'
<1> USE DEF JournalInv
<1>1. plan' # None => NoBlobForDeleted(plan')
  <2>1. CASE ReadBlobs
    <3> DEFINE changed == {p \in Path : planning.before[p] # planning.after[p]}
               staged == {p \in changed : planning.after[p] # Absent}
               new == [base |-> planning.base, before |-> planning.before,
                       after |-> planning.after,
                       blob |-> [p \in Path |-> IF p \in staged THEN candidate[p] ELSE Absent]]
    <3>1. NoBlobForDeleted(new)
      BY DEF NoBlobForDeleted
    <3>2. plan' = plan \/ plan' = new
      BY <2>1 DEF ReadBlobs
    <3> QED
      BY <3>1, <3>2 DEF PlansAreStaged
  <2>2. CASE ~ReadBlobs
    <3>1. plan' = plan \/ plan' = None
      BY <2>2 DEF Next, vars, Edit, EditLive, EditCandidate, ReadBase, PlanStep, ReadLiveFiles,
                  ReadCandidateFiles, Prepare, ApplyStep, CheckStep, WriteStep, WriteStepFails,
                  VerifyStep, AdvanceStep, Commit, JournalWriteFails, Crash, Down, Open,
                  RecoverStep, SkipCommitted, RefuseJournal, RecoverCommit, RecoverAdvance,
                  RecoverQuarantine, RecoverUnreadablePath, Opened
    <3> QED
      BY <3>1 DEF PlansAreStaged
  <2> QED
    BY <2>1, <2>2
<1>2. ASSUME NEW j \in JournalId, journal'[j] # None
      PROVE  NoBlobForDeleted(journal'[j].plan)
  <2>1. CASE Written(j)
    BY <2>1, StepMoves, AdvancesForward DEF Types, Written, PlansAreStaged
  <2>2. CASE ~Written(j)
    BY <1>2, <2>2, StepMoves DEF PlansAreStaged
  <2> QED
    BY <2>1, <2>2
<1> QED
  BY <1>1, <1>2 DEF PlansAreStaged, Written

\* A file or directory fits where Statable says, once its parents are made.
LEMMA DirectoriesFit ==
  ASSUME live \in Root, WellFormed(live), NEW p \in Path, Statable(p), NEW c \in File,
         NEW made \in SUBSET Path, made = Above[p] \/ (made = {} /\ c = Absent)
  PROVE  WellFormed([files |-> [live.files EXCEPT ![p] = c], dirs |-> live.dirs \cup made])
<1>2. /\ \A q \in made : live.files[q] = Absent /\ q # p
      /\ \A q \in made : Above[q] \subseteq made
      /\ p \notin live.dirs
  BY PathAssumption DEF Statable
<1> QED
  BY <1>2 DEF WellFormed

LEMMA ParentsFit ==
  ASSUME live \in Root, WellFormed(live), NEW p \in Path, Statable(p),
         NEW made \in SUBSET Path, made = Above[p] \/ made = {}
  PROVE  WellFormed([live EXCEPT !.dirs = @ \cup made])
<1>1. /\ \A q \in made : live.files[q] = Absent
      /\ \A q \in made : Above[q] \subseteq made
  BY PathAssumption DEF Statable
<1> QED
  BY <1>1 DEF WellFormed

LEMMA StepWellFormed ==
  ASSUME JournalInv, PlansAreStaged, WellFormed(live), [Next]_vars
  PROVE  WellFormed(live')
<1> USE DEF JournalInv
<1>1. ASSUME NEW p \in Path, WriteStep(p)
      PROVE  WellFormed(live')
  <2> DEFINE jr == journal[applying.id]
  <2>1. Written(applying.id) /\ applying.id \in JournalId /\ jr \in Journal
    BY <1>1 DEF WriteStep, Applying, Exclusive, Types, Written
  <2>2. jr.plan.blob[p] \in File /\ NoBlobForDeleted(jr.plan)
    BY <2>1 DEF Journal, Plan, Tree, PlansAreStaged
  <2>3. /\ NewParents(jr, p) \in SUBSET Path
        /\ NewParents(jr, p) = Above[p] \/ (NewParents(jr, p) = {} /\ jr.plan.blob[p] = Absent)
    BY <2>2, PathAssumption DEF NewParents, Deletes, NoBlobForDeleted
  <2>4. Statable(p) /\ live' = [files |-> [live.files EXCEPT ![p] = jr.plan.blob[p]],
                               dirs |-> live.dirs \cup NewParents(jr, p)]
    BY <1>1 DEF WriteStep
  <2>5. live \in Root
    BY DEF Types
  <2> HIDE DEF jr
  <2> QED
    BY <2>2, <2>3, <2>4, <2>5, DirectoriesFit
<1>2. ASSUME NEW p \in Path, WriteStepFails(p)
      PROVE  WellFormed(live')
  <2> DEFINE made == NewParents(journal[applying.id], p)
  <2>1. made \in SUBSET Path /\ (made = Above[p] \/ made = {})
    BY PathAssumption DEF NewParents
  <2>2. live' = live \/ (Statable(p) /\ live' = [live EXCEPT !.dirs = @ \cup made])
    BY <1>2 DEF WriteStepFails
  <2>3. live \in Root
    BY DEF Types
  <2> HIDE DEF made
  <2> QED
    BY <2>1, <2>2, <2>3, ParentsFit
<1>3. ASSUME NEW p \in Path, NEW c \in File, EditLive(p, c)
      PROVE  WellFormed(live')
  BY <1>3 DEF EditLive, WellFormed
<1>4. ASSUME \/ UNCHANGED vars \/ ReadBase \/ PlanStep \/ Open \/ Crash \/ RecoverStep
             \/ Commit \/ JournalWriteFails
             \/ \E p \in Path : CheckStep(p) \/ VerifyStep(p) \/ AdvanceStep(p)
             \/ \E id \in JournalId : Prepare(id)
             \/ \E p \in Path, c \in File : EditCandidate(p, c)
      PROVE  WellFormed(live')
  <2>1. live' = live
    BY <1>4 DEF vars, EditCandidate, ReadBase, PlanStep, ReadLiveFiles, ReadCandidateFiles,
                ReadBlobs, Prepare, CheckStep, VerifyStep, AdvanceStep, Commit, JournalWriteFails,
                Crash, Open, RecoverStep, SkipCommitted, RefuseJournal, RecoverCommit,
                RecoverAdvance, RecoverQuarantine, RecoverUnreadablePath, Opened
  <2> QED
    BY <2>1
<1> QED
  BY <1>1, <1>2, <1>3, <1>4 DEF Next, Edit, ApplyStep

-----------------------------------------------------------------------------
(* Edits between the two readings of the live root.                        *)

\* Read differs from base: one edit, still in place and about to be noticed
\* by Prepare, or two.
Noticed(pl) == edits.live >= 2 \/ (edits.live >= 1 /\ live.files = pl.before /\ applying = None)

EditsAreNoticed ==
  /\ planning # None =>
       IF planning.at = "before"
       THEN live.files # planning.base.files => edits.live >= 1
       ELSE planning.before # planning.base.files => Noticed(planning)
  /\ plan # None /\ plan.before # plan.base.files => Noticed(plan)
  /\ OnlyUndoneEditsSlipIn

LEMMA StepEditsAreNoticed ==
  ASSUME JournalInv, EditsAreNoticed, [Next]_vars
  PROVE  EditsAreNoticed'
<1> USE DEF JournalInv
<1>0. edits.live \in Nat /\ edits \in [live : Nat, candidate : Nat]
  BY DEF Types
<1>1. edits'.live = edits.live \/ (edits'.live = edits.live + 1 /\ UNCHANGED <<planning, plan, applying>>)
  BY <1>0 DEF Next, vars, Edit, EditLive, EditCandidate, ReadBase, PlanStep, ReadLiveFiles,
         ReadCandidateFiles, ReadBlobs, Prepare, ApplyStep, CheckStep, WriteStep, WriteStepFails,
         VerifyStep, AdvanceStep, Commit, JournalWriteFails, Crash, Down, Open, RecoverStep,
         SkipCommitted, RefuseJournal, RecoverCommit, RecoverAdvance, RecoverQuarantine,
         RecoverUnreadablePath, Opened
<1>2. OnlyUndoneEditsSlipIn'
  <2> SUFFICES ASSUME NEW j \in JournalId, journal'[j] # None,
                      journal'[j].plan.before # journal'[j].plan.base.files
               PROVE  edits'.live >= 2
    BY DEF OnlyUndoneEditsSlipIn, Written
  <2>1. CASE Written(j)
    <3>1. journal'[j].plan = journal[j].plan
      BY <2>1, StepMoves, AdvancesForward DEF Types, Written
    <3>2. edits.live >= 2
      BY <2>1, <3>1 DEF EditsAreNoticed, OnlyUndoneEditsSlipIn
    <3> QED
      BY <1>0, <1>1, <3>2
  <2>2. CASE ~Written(j)
    <3>1. plan # None /\ Current(plan) /\ journal'[j].plan = plan
      BY <2>2, StepMoves
    <3> QED
      BY <1>0, <1>1, <3>1 DEF EditsAreNoticed, Noticed, Current
  <2> QED
    BY <2>1, <2>2
<1>3. /\ planning' # None =>
           IF planning'.at = "before"
           THEN live'.files # planning'.base.files => edits'.live >= 1
           ELSE planning'.before # planning'.base.files => Noticed(planning)'
      /\ plan' # None /\ plan'.before # plan'.base.files => Noticed(plan)'
  <2> DEFINE Goal ==
      /\ planning' # None =>
           IF planning'.at = "before"
           THEN live'.files # planning'.base.files => edits'.live >= 1
           ELSE planning'.before # planning'.base.files => Noticed(planning)'
      /\ plan' # None /\ plan'.before # plan'.base.files => Noticed(plan)'
  <2>1. ASSUME NEW p \in Path, NEW c \in File, EditLive(p, c)
        PROVE  Goal
    <3>1. edits'.live = edits.live + 1 /\ UNCHANGED <<planning, plan, applying>>
      BY <1>0, <2>1 DEF EditLive
    <3> QED
      BY <1>0, <3>1 DEF EditsAreNoticed, Noticed
  <2>2. ASSUME UNCHANGED <<live, edits, planning, plan, applying>>
        PROVE  Goal
    BY <2>2 DEF EditsAreNoticed, Noticed
  <2>3. ASSUME ReadBase
        PROVE  Goal
    BY <2>3 DEF ReadBase, EditsAreNoticed, Noticed
  <2>4. ASSUME ReadLiveFiles
        PROVE  Goal
    <3>1. planning' # None => planning'.at = "after" /\ planning'.before = live.files
                              /\ planning'.base = planning.base
      BY <2>4 DEF ReadLiveFiles, Types
    <3>2. applying = None
      BY <2>4 DEF ReadLiveFiles, Exclusive
    <3> QED
      BY <1>0, <2>4, <3>1, <3>2 DEF ReadLiveFiles, EditsAreNoticed, Noticed
  <2>5. ASSUME ReadCandidateFiles
        PROVE  Goal
    <3>1. planning' # None => planning'.at = "blob" /\ planning'.before = planning.before
                              /\ planning'.base = planning.base
      BY <2>5 DEF ReadCandidateFiles, Types
    <3> QED
      BY <2>5, <3>1 DEF ReadCandidateFiles, EditsAreNoticed, Noticed
  <2>6. ASSUME ReadBlobs
        PROVE  Goal
    <3>1. /\ planning' = None /\ planning # None /\ planning.at = "blob"
          /\ UNCHANGED <<live, edits, applying>>
      BY <2>6 DEF ReadBlobs
    <3>2. plan' = plan \/ (plan'.before = planning.before /\ plan'.base = planning.base)
      BY <2>6 DEF ReadBlobs
    <3> QED
      BY <3>1, <3>2 DEF EditsAreNoticed, Noticed
  <2>7. ASSUME NEW id \in JournalId, Prepare(id)
        PROVE  Goal
    BY <1>0, <2>7 DEF Prepare, Idle, Current, EditsAreNoticed, Noticed
  <2>8. ASSUME ApplyStep
        PROVE  Goal
    <3>1. /\ applying # None /\ planning = None /\ planning' = None /\ edits' = edits
          /\ plan' = plan \/ plan' = None
      BY <2>8 DEF ApplyStep, CheckStep, WriteStep, WriteStepFails, VerifyStep, AdvanceStep,
                  Commit, JournalWriteFails, Applying, Exclusive, Down
    <3> QED
      BY <3>1 DEF EditsAreNoticed, Noticed
  <2>9. ASSUME RecoverStep \/ Open \/ Crash
        PROVE  Goal
    <3>1. /\ UNCHANGED <<live, edits>>
          /\ \/ UNCHANGED <<planning, plan, applying>>
             \/ planning' = None /\ plan' = None
      BY <2>9 DEF RecoverStep, SkipCommitted, RefuseJournal, RecoverCommit, RecoverAdvance,
                  RecoverQuarantine, RecoverUnreadablePath, Opened, Open, Crash, Down
    <3> QED
      BY <2>2, <3>1
  <2>10. ASSUME NEW p \in Path, NEW c \in File, EditCandidate(p, c)
         PROVE  Goal
    <3>1. edits'.live = edits.live /\ UNCHANGED <<live, planning, plan, applying>>
      BY <1>0, <2>10 DEF EditCandidate
    <3> QED
      BY <3>1 DEF EditsAreNoticed, Noticed
  <2>11. ASSUME UNCHANGED vars
         PROVE  Goal
    BY <2>2, <2>11 DEF vars
  <2> QED
    BY <2>1, <2>3, <2>4, <2>5, <2>6, <2>7, <2>8, <2>9, <2>10, <2>11 DEF Next, Edit, PlanStep
<1> QED
  BY <1>2, <1>3 DEF EditsAreNoticed, Noticed

-----------------------------------------------------------------------------
(* What the newest journal says of the live root while nobody edits it.    *)

Describes(jr, files) ==
  /\ \A p \in jr.passed : files[p] = jr.plan.after[p]
  /\ \A p \in Remaining(jr) :
       files[p] # jr.plan.before[p] => IsNext(jr, p) /\ files[p] = jr.plan.blob[p]
  /\ \A p \in Path \ Steps(jr.plan) : files[p] = jr.plan.before[p]

\* Journals are prepared one after the other.
PreparedInOrder == \A j, k \in JournalId : k < j /\ Written(j) => Written(k)

\* Only the newest journal is applied, and its cursor is about to pass
\* a step only when that step is as planned.
NewestApplies ==
  /\ applying # None => Newest(applying.id)
  /\ edits.live = 0 /\ applying # None /\ applying.at = "advance" =>
       \A p \in Path : IsNext(journal[applying.id], p) =>
         live.files[p] = journal[applying.id].plan.after[p]

LiveDescribed ==
  /\ PreparedInOrder
  /\ NewestApplies
  /\ edits.live = 0 => \A j \in JournalId : Newest(j) => Describes(journal[j], live.files)

LEMMA FreshDescribes ==
  ASSUME NEW pl \in Plan
  PROVE  Describes([state |-> "PREPARED", passed |-> {}, plan |-> pl], pl.before)
BY DEF Describes, Remaining, Steps

\* A journal has one next step, and only passing it changes the cursor.
LEMMA OneIsNext ==
  ASSUME NEW jr, NEW p \in Path, NEW q \in Path, IsNext(jr, p), IsNext(jr, q)
  PROVE  p = q
<1>1. p <= q /\ q <= p /\ p \in Nat /\ q \in Nat
  BY PathAssumption DEF IsNext
<1> QED
  BY <1>1

LEMMA MarkingIsNotPassing ==
  ASSUME NEW jr \in Journal, NEW p \in Path, IsNext(jr, p)
  PROVE  /\ jr # Passed(jr, p)
         /\ \A s \in {"COMMITTED", "QUARANTINED"} : [jr EXCEPT !.state = s] # Passed(jr, p)
<1>1. p \in Passed(jr, p).passed /\ p \notin jr.passed
  BY DEF Passed, Journal, IsNext, Remaining
<1>2. \A s \in {"COMMITTED", "QUARANTINED"} : [jr EXCEPT !.state = s].passed = jr.passed
  BY DEF Journal
<1> QED
  BY <1>1, <1>2

\* The cursor passes a step that is as planned: it was the only one that
\* could differ from its old content.
LEMMA PassingDescribes ==
  ASSUME NEW jr \in Journal, NEW files, NEW p \in Path, IsNext(jr, p),
         Describes(jr, files), files[p] = jr.plan.after[p]
  PROVE  Describes(Passed(jr, p), files)
<1> DEFINE new == Passed(jr, p)
<1>1. new.passed = jr.passed \cup {p} /\ new.plan = jr.plan
  BY DEF Passed, Journal
<1>2. Remaining(new) = Remaining(jr) \ {p}
  BY <1>1 DEF Remaining
<1>3. \A q \in Remaining(jr) \ {p} : ~IsNext(jr, q)
  BY OneIsNext DEF Remaining, Steps
<1>4. \A q \in new.passed : files[q] = new.plan.after[q]
  BY <1>1 DEF Describes
<1>5. \A q \in Remaining(new) : files[q] = new.plan.before[q]
  BY <1>1, <1>2, <1>3 DEF Describes
<1>6. \A q \in Path \ Steps(new.plan) : files[q] = new.plan.before[q]
  BY <1>1 DEF Describes
<1> QED
  BY <1>4, <1>5, <1>6 DEF Describes

\* The staged blob replaces the step at the cursor.
LEMMA WritingDescribes ==
  ASSUME NEW jr \in Journal, NEW files \in Tree, NEW p \in Path, IsNext(jr, p),
         Describes(jr, files)
  PROVE  Describes(jr, [files EXCEPT ![p] = jr.plan.blob[p]])
<1>1. \A q \in Path : [files EXCEPT ![p] = jr.plan.blob[p]][q]
                        = IF q = p THEN jr.plan.blob[p] ELSE files[q]
  BY DEF Tree
<1>2. p \notin jr.passed /\ p \in Steps(jr.plan) /\ jr.passed \subseteq Path
  BY DEF IsNext, Remaining, Journal
<1>3. Remaining(jr) \subseteq Path
  BY DEF Remaining, Steps
<1> QED
  BY <1>1, <1>2, <1>3 DEF Describes

\* Only the state of the journal changes.
LEMMA MarkingDescribes ==
  ASSUME NEW jr \in Journal, NEW files, NEW s \in {"COMMITTED", "QUARANTINED"},
         Describes(jr, files)
  PROVE  Describes([jr EXCEPT !.state = s], files)
<1>1. /\ [jr EXCEPT !.state = s].passed = jr.passed
      /\ [jr EXCEPT !.state = s].plan = jr.plan
  BY DEF Journal
<1> QED
  BY <1>1 DEF Describes, Remaining, IsNext

\* A journal that advances over nothing but a step as planned still
\* describes the files.
LEMMA AdvancingDescribes ==
  ASSUME NEW old \in Journal, NEW new, NEW files, Advances(old, new), Describes(old, files),
         \A p \in Path : IsNext(old, p) /\ new = Passed(old, p) => files[p] = old.plan.after[p]
  PROVE  Describes(new, files)
BY PassingDescribes, MarkingDescribes DEF Advances

\* The journals that exist stay the same ones.
LEMMA NewestStays ==
  ASSUME \A j \in JournalId : Written(j)' <=> Written(j)
  PROVE  \A j \in JournalId : Newest(j)' <=> Newest(j)
BY DEF Newest

LEMMA WrittenStays ==
  ASSUME JournalInv, [Next]_vars, ~\E id \in JournalId : Prepare(id)
  PROVE  \A j \in JournalId : Written(j)' <=> Written(j)
<1> USE DEF JournalInv
<1>1. ASSUME NEW j \in JournalId, Written(j)
      PROVE  journal'[j] # None
  BY <1>1, StepMoves, AdvancesForward, NoneAssumption DEF Types, Written
<1>2. CASE ApplyStep
  BY <1>1, <1>2, ApplyMoves DEF Written
<1>3. CASE RecoverStep
  BY <1>1, <1>3, RecoverMoves DEF Written
<1>4. CASE Edit \/ ReadBase \/ PlanStep \/ Open \/ Crash \/ UNCHANGED vars
  BY <1>4 DEF Edit, EditLive, EditCandidate, ReadBase, PlanStep, ReadLiveFiles,
              ReadCandidateFiles, ReadBlobs, Open, Crash, vars, Written
<1> QED
  BY <1>2, <1>3, <1>4 DEF Next


\* Where nobody prepares, and the files stay: each journal passes at most
\* a step that is as planned.
LEMMA QuietStepDescribes ==
  ASSUME JournalInv, LiveDescribed, [Next]_vars, ~\E id \in JournalId : Prepare(id),
         live'.files = live.files, edits'.live = edits.live,
         \A j \in JournalId, p \in Path :
           Written(j) /\ IsNext(journal[j], p) /\ journal'[j] = Passed(journal[j], p)
             /\ edits.live = 0 /\ Newest(j) => live.files[p] = journal[j].plan.after[p]
  PROVE  /\ PreparedInOrder'
         /\ edits'.live = 0 => \A j \in JournalId : Newest(j)' => Describes(journal'[j], live'.files)
<1>1. \A j \in JournalId : Written(j)' <=> Written(j)
  BY WrittenStays
<1>2. \A j \in JournalId : Newest(j)' <=> Newest(j)
  BY <1>1, NewestStays
<1>3. PreparedInOrder'
  BY <1>1 DEF PreparedInOrder, LiveDescribed
<1>4. ASSUME NEW j \in JournalId, Newest(j), edits.live = 0
      PROVE  Describes(journal'[j], live.files)
  <2>1. Written(j) /\ journal[j] \in Journal /\ Advances(journal[j], journal'[j])
    BY <1>4, StepMoves DEF Newest, Written, JournalInv, Types
  <2>2. Describes(journal[j], live.files)
    BY <1>4 DEF LiveDescribed
  <2> QED
    BY <1>4, <2>1, <2>2, AdvancingDescribes
<1> QED
  BY <1>2, <1>3, <1>4

LEMMA PrepareDescribes ==
  ASSUME JournalInv, LiveDescribed, EditsAreNoticed, NEW id \in JournalId, Prepare(id)
  PROVE  LiveDescribed'
<1> DEFINE new == [state |-> "PREPARED", passed |-> {}, plan |-> plan]
<1>1. /\ plan \in Plan /\ new \in Journal /\ new # None /\ journal[id] = None
      /\ applying = None /\ Current(plan) /\ edits'.live = edits.live /\ live' = live
  BY NoneAssumption DEF Prepare, Idle, Journal, JournalInv, Types
<1>2. \A j \in JournalId : journal'[j] = IF j = id THEN new ELSE journal[j]
  BY DEF Prepare, Store, JournalInv, Types
<1>3. \A j \in JournalId : Written(j)' <=> Written(j) \/ j = id
  BY <1>1, <1>2 DEF Written
<1>4. \A k \in JournalId : k > id => ~Written(k)
  <2> SUFFICES ASSUME NEW k \in JournalId, k > id, Written(k) PROVE FALSE
    OBVIOUS
  <2>1. id < k
    BY PathAssumption DEF JournalId
  <2> QED
    BY <1>1, <2>1 DEF LiveDescribed, PreparedInOrder, Written
<1>5. \A j \in JournalId : Newest(j)' => j = id
  <2> SUFFICES ASSUME NEW j \in JournalId, Newest(j)', j # id PROVE FALSE
    OBVIOUS
  <2>1. Written(j) /\ ~(id > j)
    BY <1>3 DEF Newest
  <2>2. j > id
    BY <2>1 DEF JournalId
  <2> QED
    BY <1>4, <2>1, <2>2
<1>6. Newest(id)'
  BY <1>3, <1>4 DEF Newest, JournalId
<1>7. PreparedInOrder'
  <2> SUFFICES ASSUME NEW j \in JournalId, NEW k \in JournalId, k < j, Written(j)'
               PROVE  Written(k)'
    BY DEF PreparedInOrder
  <2>1. CASE j = id
    BY <1>3, <2>1 DEF Prepare, Written
  <2>2. CASE j # id
    BY <1>3, <2>2 DEF LiveDescribed, PreparedInOrder
  <2> QED
    BY <2>1, <2>2
<1>8. applying' # None => applying'.id = id /\ applying'.at = "check"
  BY DEF Prepare
<1>9. edits.live = 0 => Describes(new, live.files)
  <2> SUFFICES ASSUME edits.live = 0 PROVE Describes(new, live.files)
    OBVIOUS
  <2>1. plan.before = plan.base.files
    BY <1>1 DEF EditsAreNoticed, Noticed, Prepare
  <2>2. live.files = plan.before
    BY <1>1, <2>1 DEF Current
  <2> QED
    BY <1>1, <2>2, FreshDescribes
<1>10. NewestApplies'
  BY <1>6, <1>8 DEF NewestApplies
<1> QED
  BY <1>1, <1>2, <1>5, <1>7, <1>9, <1>10 DEF LiveDescribed

LEMMA ApplyDescribes ==
  ASSUME JournalInv, LiveDescribed, ApplyStep, [Next]_vars, ~\E id \in JournalId : Prepare(id)
  PROVE  LiveDescribed'
<1> USE DEF JournalInv
<1> DEFINE id == applying.id
           jr == journal[id]
<1>1. /\ id \in JournalId /\ Written(id) /\ Newest(id) /\ jr \in Journal
      /\ applying \in [id : JournalId, at : {"check", "write", "verify", "advance"}]
  BY DEF ApplyStep, CheckStep, WriteStep, WriteStepFails, VerifyStep, AdvanceStep, Commit,
         JournalWriteFails, Applying, Exclusive, Types, Written, LiveDescribed, NewestApplies
<1>2. \A j \in JournalId : Newest(j)' <=> Newest(j)
  BY WrittenStays, NewestStays
<1>3. \A j \in JournalId : Newest(j) => j = id
  BY <1>1 DEF Newest, JournalId
<1>4. edits' = edits
  BY DEF ApplyStep, CheckStep, WriteStep, WriteStepFails, VerifyStep, AdvanceStep, Commit,
         JournalWriteFails
<1>5. applying' # None => applying'.id = id
  BY <1>1 DEF ApplyStep, CheckStep, WriteStep, WriteStepFails, VerifyStep, AdvanceStep, Commit,
         JournalWriteFails, StepFails, Down
<1>6. ASSUME live'.files = live.files,
             \A p \in Path : IsNext(jr, p) /\ journal'[id] = Passed(jr, p) /\ edits.live = 0 =>
               live.files[p] = jr.plan.after[p],
             edits.live = 0 /\ applying' # None /\ applying'.at = "advance" =>
               \A p \in Path : IsNext(jr, p) => live.files[p] = jr.plan.after[p],
             applying' # None /\ applying'.at = "advance" => journal' = journal
      PROVE  LiveDescribed'
  <2>1. /\ PreparedInOrder'
        /\ edits'.live = 0 => \A j \in JournalId : Newest(j)' => Describes(journal'[j], live'.files)
    <3>1. \A j \in JournalId, p \in Path :
            Written(j) /\ IsNext(journal[j], p) /\ journal'[j] = Passed(journal[j], p)
              /\ edits.live = 0 /\ Newest(j) => live.files[p] = journal[j].plan.after[p]
      BY <1>3, <1>6
    <3> QED
      BY <1>4, <1>6, <3>1, QuietStepDescribes
  <2>2. NewestApplies'
    BY <1>1, <1>2, <1>4, <1>5, <1>6 DEF NewestApplies
  <2> QED
    BY <2>1, <2>2 DEF LiveDescribed
<1>7. ASSUME NEW p \in Path, CheckStep(p)
      PROVE  LiveDescribed'
  <2>1. /\ live'.files = live.files
        /\ applying' # None => applying'.at = "write"
    BY <1>1, <1>7 DEF CheckStep, StepFails
  <2>2. journal' = journal \/ journal'[id] = [jr EXCEPT !.state = "QUARANTINED"]
    BY <1>1, <1>7 DEF CheckStep, StepFails, Store, Types
  <2>3. ASSUME NEW q \in Path, IsNext(jr, q) PROVE journal'[id] # Passed(jr, q)
    BY <1>1, <2>2, <2>3, MarkingIsNotPassing
  <2> QED
    BY <1>6, <2>1, <2>3
<1>8. ASSUME NEW p \in Path, VerifyStep(p)
      PROVE  LiveDescribed'
  <2>1. /\ live'.files = live.files
        /\ applying' # None => /\ AtAfter(jr, p) /\ journal' = journal
    BY <1>1, <1>8 DEF VerifyStep, StepFails
  <2>2. journal' = journal \/ journal'[id] = [jr EXCEPT !.state = "QUARANTINED"]
    BY <1>1, <1>8 DEF VerifyStep, StepFails, Store, Types
  <2>3. ASSUME NEW q \in Path, IsNext(jr, q) PROVE journal'[id] # Passed(jr, q)
    BY <1>1, <2>2, <2>3, MarkingIsNotPassing
  <2>4. IsNext(jr, p)
    BY <1>8 DEF VerifyStep
  <2>5. applying' # None => \A q \in Path : IsNext(jr, q) => live.files[q] = jr.plan.after[q]
    BY <2>1, <2>4, OneIsNext DEF AtAfter
  <2> QED
    BY <1>6, <2>1, <2>3, <2>5
<1>9. ASSUME NEW p \in Path, AdvanceStep(p)
      PROVE  LiveDescribed'
  <2>1. /\ live'.files = live.files
        /\ applying' # None => applying'.at = "check"
        /\ applying # None /\ applying.at = "advance"
    BY <1>1, <1>9 DEF AdvanceStep, Applying
  <2>2. edits.live = 0 => \A q \in Path : IsNext(jr, q) => live.files[q] = jr.plan.after[q]
    BY <2>1 DEF LiveDescribed, NewestApplies
  <2> QED
    BY <1>6, <2>1, <2>2
<1>10. ASSUME Commit \/ JournalWriteFails
       PROVE  LiveDescribed'
  <2>1. live'.files = live.files /\ applying' = None
    BY <1>10 DEF Commit, JournalWriteFails
  <2>2. journal' = journal \/ journal'[id] = [jr EXCEPT !.state = "COMMITTED"]
    BY <1>1, <1>10 DEF Commit, JournalWriteFails, Store, Types
  <2>3. ASSUME NEW q \in Path, IsNext(jr, q) PROVE journal'[id] # Passed(jr, q)
    BY <1>1, <2>2, <2>3, MarkingIsNotPassing
  <2> QED
    BY <1>6, <2>1, <2>3
<1>11. ASSUME NEW p \in Path, WriteStepFails(p)
       PROVE  LiveDescribed'
  <2>1. live'.files = live.files /\ applying' = None
    BY <1>11 DEF WriteStepFails, StepFails, Down, Types, Root
  <2>2. journal' = journal \/ journal'[id] = [jr EXCEPT !.state = "QUARANTINED"]
    BY <1>1, <1>11 DEF WriteStepFails, StepFails, Store, Types
  <2>3. ASSUME NEW q \in Path, IsNext(jr, q) PROVE journal'[id] # Passed(jr, q)
    BY <1>1, <2>2, <2>3, MarkingIsNotPassing
  <2> QED
    BY <1>6, <2>1, <2>3
<1>12. ASSUME NEW p \in Path, WriteStep(p)
       PROVE  LiveDescribed'
  <2>1. /\ IsNext(jr, p) /\ journal' = journal
        /\ live'.files = [live.files EXCEPT ![p] = jr.plan.blob[p]]
        /\ applying'.at = "verify"
    BY <1>1, <1>12 DEF WriteStep
  <2>2. live.files \in Tree
    BY DEF Types, Root
  <2>3. edits.live = 0 => Describes(jr, live'.files)
    BY <1>1, <2>1, <2>2, WritingDescribes DEF LiveDescribed
  <2>4. PreparedInOrder'
    BY <2>1 DEF PreparedInOrder, LiveDescribed, Written
  <2>5. NewestApplies'
    BY <1>1, <1>2, <1>5, <2>1 DEF NewestApplies
  <2> QED
    BY <1>2, <1>3, <1>4, <2>1, <2>3, <2>4, <2>5 DEF LiveDescribed
<1> QED
  BY <1>7, <1>8, <1>9, <1>10, <1>11, <1>12 DEF ApplyStep

LEMMA StepLiveDescribed ==
  ASSUME JournalInv, EditsAreNoticed, LiveDescribed, [Next]_vars
  PROVE  LiveDescribed'
<1> USE DEF JournalInv
<1>1. CASE \E id \in JournalId : Prepare(id)
  BY <1>1, PrepareDescribes
<1> SUFFICES ASSUME ~\E id \in JournalId : Prepare(id)
             PROVE  LiveDescribed'
  BY <1>1
<1>2. CASE ApplyStep
  BY <1>2, ApplyDescribes
<1>3. \A j \in JournalId : Newest(j)' <=> Newest(j)
  BY WrittenStays, NewestStays
<1>4. ASSUME applying' = None \/ (UNCHANGED <<applying, journal>>),
             live' = live, edits'.live = edits.live,
             \A j \in JournalId, p \in Path :
               Written(j) /\ IsNext(journal[j], p) /\ journal'[j] = Passed(journal[j], p)
                 => live.files[p] = journal[j].plan.after[p]
      PROVE  LiveDescribed'
  <2>1. /\ PreparedInOrder'
        /\ edits'.live = 0 => \A j \in JournalId : Newest(j)' => Describes(journal'[j], live'.files)
    BY <1>4, QuietStepDescribes
  <2>2. NewestApplies'
    BY <1>3, <1>4 DEF NewestApplies, LiveDescribed, Types
  <2> QED
    BY <2>1, <2>2 DEF LiveDescribed
<1>5. ASSUME UNCHANGED journal, applying' = None \/ UNCHANGED applying,
             live' = live, edits'.live = edits.live
      PROVE  LiveDescribed'
  <2>1. \A j \in JournalId, p \in Path :
          Written(j) /\ IsNext(journal[j], p) => journal'[j] # Passed(journal[j], p)
    BY <1>5, MarkingIsNotPassing DEF Written, Types
  <2> QED
    BY <1>4, <1>5, <2>1
<1>6. ASSUME NEW p \in Path, NEW c \in File, EditLive(p, c)
      PROVE  LiveDescribed'
  <2>1. edits'.live # 0
    BY <1>6 DEF EditLive, Types
  <2>2. UNCHANGED <<journal, applying>>
    BY <1>6 DEF EditLive
  <2> QED
    BY <2>1, <2>2 DEF LiveDescribed, NewestApplies, PreparedInOrder, Newest, Written
<1>7. ASSUME \/ UNCHANGED vars \/ ReadBase \/ PlanStep \/ Open \/ Crash
             \/ \E p \in Path, c \in File : EditCandidate(p, c)
      PROVE  LiveDescribed'
  <2>1. /\ UNCHANGED journal /\ live' = live /\ edits'.live = edits.live
        /\ applying' = None \/ UNCHANGED applying
    BY <1>7 DEF vars, EditCandidate, ReadBase, PlanStep, ReadLiveFiles, ReadCandidateFiles,
                ReadBlobs, Crash, Down, Open, Types
  <2> QED
    BY <1>5, <2>1
<1>8. CASE RecoverStep
  <2>1. /\ live' = live /\ edits'.live = edits.live
        /\ applying' = None \/ UNCHANGED applying
    BY <1>8 DEF RecoverStep, SkipCommitted, RefuseJournal, RecoverCommit, RecoverAdvance,
                RecoverQuarantine, RecoverUnreadablePath, Opened, Down
  <2>2. applying = None \/ UNCHANGED journal
    BY <1>8 DEF RecoverStep, SkipCommitted, RefuseJournal, RecoverCommit, RecoverAdvance,
                RecoverQuarantine, RecoverUnreadablePath, Opened, Unfinished, Recovering, Exclusive
  <2>3. ASSUME NEW j \in JournalId, NEW p \in Path, Written(j), IsNext(journal[j], p),
               journal'[j] = Passed(journal[j], p)
        PROVE  live.files[p] = journal[j].plan.after[p]
    <3>1. journal[j] \in Journal
      BY <2>3 DEF Written, Types
    <3>2. PICK k \in JournalId, q \in Path : RecoverAdvance(k, q)
      <4>1. journal'[j] # journal[j]
        BY <2>3, <3>1, MarkingIsNotPassing
      <4>2. ASSUME NEW s \in {"COMMITTED", "QUARANTINED"}, NEW k \in JournalId
            PROVE  journal' # [journal EXCEPT ![k] = [journal[k] EXCEPT !.state = s]]
        BY <2>3, <3>1, <4>1, <4>2, MarkingIsNotPassing DEF Types
      <4> QED
        BY <1>8, <4>1, <4>2 DEF RecoverStep, SkipCommitted, RefuseJournal, RecoverCommit,
                RecoverQuarantine, RecoverUnreadablePath, Opened, Store
    <3>3. k = j
      BY <2>3, <3>1, <3>2, MarkingIsNotPassing DEF RecoverAdvance, Store, Types
    <3>4. q = p
      BY <2>3, <3>2, <3>3, OneIsNext DEF RecoverAdvance
    <3> QED
      BY <3>2, <3>3, <3>4 DEF RecoverAdvance, AtAfter
  <2> QED
    BY <1>4, <2>1, <2>2, <2>3
<1> QED
  BY <1>2, <1>6, <1>7, <1>8 DEF Next, Edit

-----------------------------------------------------------------------------
(* The theorems.                                                           *)

Inv == JournalInv /\ PlansAreStaged /\ WellFormed(live) /\ EditsAreNoticed /\ LiveDescribed

LEMMA InitInv == Init => Inv
<1> SUFFICES ASSUME Init PROVE Inv
  OBVIOUS
<1>1. Types
  BY InitTypes
<1>2. Exclusive /\ RecoveryCovers /\ CommittedIsComplete /\ PlansAreStaged /\ EditsAreNoticed
  BY DEF Init, Exclusive, RecoveryCovers, CommittedIsComplete, PlansAreStaged, EditsAreNoticed,
         OnlyUndoneEditsSlipIn, Written
<1>3. LiveDescribed
  BY DEF Init, LiveDescribed, PreparedInOrder, NewestApplies, Newest, Written
<1> QED
  BY <1>1, <1>2, <1>3 DEF Inv, JournalInv, Init

LEMMA StepInv == Inv /\ [Next]_vars => Inv'
<1> SUFFICES ASSUME Inv, [Next]_vars PROVE Inv'
  OBVIOUS
<1>1. JournalInv'
  BY StepTypes, StepExclusive, StepRecoveryCovers, StepCommittedIsComplete DEF Inv, JournalInv
<1> QED
  BY <1>1, StepPlansAreStaged, StepWellFormed, StepEditsAreNoticed, StepLiveDescribed DEF Inv

LEMMA Invariant == Spec => []Inv
BY InitInv, StepInv, PTL DEF Spec

(***************************************************************************)
(* The state is what TypeOK says, for every set of paths and contents: in  *)
(* particular every step of ApplyIntegration, failed ones too, leaves the  *)
(* live root a tree, whatever others do to it in between.                  *)
(***************************************************************************)
THEOREM TypesHold == Spec => []TypeOK
<1>1. Inv => TypeOK
  BY DEF Inv, JournalInv, Types, TypeOK
<1> QED
  BY <1>1, Invariant, PTL

(***************************************************************************)
(* JournalMovesForward (integration.go:175-247 and 313-352): applying,     *)
(* failing and recovering only move a journal forward, one step at a time. *)
(***************************************************************************)
THEOREM JournalsMoveForward == Spec => JournalMovesForward
<1> DEFINE Forward ==
      \A j \in JournalId : Written(j) =>
        LET old == journal[j]
            new == journal'[j]
        IN  /\ new # None /\ new.plan = old.plan
            /\ new.passed # old.passed =>
                 \E p \in Path : IsNext(old, p) /\ new.passed = old.passed \cup {p}
            /\ new.state = "COMMITTED" => Remaining(new) = {}
            /\ old.state \in {"COMMITTED", "QUARANTINED"} => new = old
            /\ new.state = "PREPARED" => old.state = "PREPARED"
<1>1. Inv /\ [Next]_vars => Forward
  <2> SUFFICES ASSUME Inv, [Next]_vars, NEW j \in JournalId, Written(j)
               PROVE  LET old == journal[j]
                          new == journal'[j]
                      IN  /\ new # None /\ new.plan = old.plan
                          /\ new.passed # old.passed =>
                               \E p \in Path : IsNext(old, p) /\ new.passed = old.passed \cup {p}
                          /\ new.state = "COMMITTED" => Remaining(new) = {}
                          /\ old.state \in {"COMMITTED", "QUARANTINED"} => new = old
                          /\ new.state = "PREPARED" => old.state = "PREPARED"
    OBVIOUS
  <2>1. journal[j] \in Journal /\ Advances(journal[j], journal'[j])
    BY StepMoves DEF Inv, JournalInv, Types, Written
  <2>2. journal[j].state = "COMMITTED" => Remaining(journal[j]) = {}
    BY DEF Inv, JournalInv, CommittedIsComplete
  <2> QED
    BY <2>1, <2>2, AdvancesForward, NoneAssumption
<1>2. Inv /\ [Next]_vars => [Forward]_vars
  BY <1>1
<1> QED
  BY <1>2, Invariant, PTL DEF Spec, JournalMovesForward

(***************************************************************************)
(* OpenOnlyWhenFinished (integration.go:284-352): an opening that succeeds *)
(* has passed over no journal that is not COMMITTED.                       *)
(***************************************************************************)
THEOREM OpeningsFinishJournals == Spec => OpenOnlyWhenFinished
<1> DEFINE Finishes ==
      phase = "opening" /\ phase' = "open" =>
        \A j \in JournalId : Written(j) => journal[j].state = "COMMITTED"
<1>1. Inv /\ Next => Finishes
  <2> SUFFICES ASSUME Inv, Next, phase = "opening", phase' = "open"
               PROVE  \A j \in JournalId : Written(j) => journal[j].state = "COMMITTED"
    OBVIOUS
  <2>1. Opened
    BY DEF Next, Edit, EditLive, EditCandidate, ReadBase, Idle, PlanStep, ReadLiveFiles,
           ReadCandidateFiles, ReadBlobs, Prepare, ApplyStep, CheckStep, WriteStep, WriteStepFails,
           VerifyStep, AdvanceStep, Commit, JournalWriteFails, Applying, Crash, Down, Open,
           RecoverStep, SkipCommitted, RefuseJournal, RecoverCommit, RecoverAdvance, Unfinished,
           Recovering, RecoverQuarantine, RecoverUnreadablePath
  <2> QED
    BY <2>1 DEF Opened, Inv, JournalInv, RecoveryCovers
<1>2. Inv /\ [Next]_vars => [Finishes]_vars
  BY <1>1
<1> QED
  BY <1>2, Invariant, PTL DEF Spec, OpenOnlyWhenFinished

(***************************************************************************)
(* OnlyUndoneEditsSlipIn (integration.go:86-142 and 158-173): whatever the *)
(* number of edits, one made between the two readings of the live root     *)
(* reaches a journal only when another has undone it.                      *)
(***************************************************************************)
THEOREM EditsAreCaught == Spec => []OnlyUndoneEditsSlipIn
<1>1. Inv => OnlyUndoneEditsSlipIn
  BY DEF Inv, EditsAreNoticed
<1> QED
  BY <1>1, Invariant, PTL

(***************************************************************************)
(* JournalDescribesLiveRoot (integration.go:158-282 and 313-352), for any  *)
(* number of paths, contents, journals, crashes and candidate edits: until *)
(* somebody else edits the live root, the newest journal says at every     *)
(* instant what each path of it holds.                                     *)
(***************************************************************************)
THEOREM NewestJournalDescribes == Spec => [](edits.live = 0 => JournalDescribesLiveRoot)
<1>1. Inv => (edits.live = 0 => JournalDescribesLiveRoot)
  BY DEF Inv, LiveDescribed, Describes, JournalDescribesLiveRoot
<1> QED
  BY <1>1, Invariant, PTL

(***************************************************************************)
(* An integration is all there or journaled as unfinished: with the newest *)
(* journal COMMITTED, by the call or by recovery after any crashes, every  *)
(* file of an unedited live root is the planned one (integration.go:188-   *)
(* 192 and 346-348).                                                       *)
(***************************************************************************)
THEOREM CommittedIsApplied ==
  Spec => [](edits.live = 0 =>
               \A j \in JournalId : Newest(j) /\ journal[j].state = "COMMITTED" =>
                 live.files = journal[j].plan.after)
<1>1. ASSUME Inv, edits.live = 0, NEW j \in JournalId, Newest(j), journal[j].state = "COMMITTED"
      PROVE  live.files = journal[j].plan.after
  <2>1. /\ Written(j) /\ journal[j] \in Journal /\ Remaining(journal[j]) = {}
        /\ Describes(journal[j], live.files) /\ live \in Root
    BY <1>1 DEF Inv, JournalInv, Types, LiveDescribed, CommittedIsComplete, Newest, Written
  <2>2. live.files \in Tree /\ journal[j].plan.after \in Tree
    BY <2>1 DEF Root, Journal, Plan
  <2>3. \A p \in Path : live.files[p] = journal[j].plan.after[p]
    BY <2>1 DEF Describes, Remaining, Steps
  <2> QED
    BY <2>2, <2>3 DEF Tree
<1>2. Inv => (edits.live = 0 =>
               \A j \in JournalId : Newest(j) /\ journal[j].state = "COMMITTED" =>
                 live.files = journal[j].plan.after)
  BY <1>1
<1> QED
  BY <1>2, Invariant, PTL
=============================================================================
