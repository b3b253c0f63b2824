------------------------- MODULE IntegrationJournal -------------------------
(***************************************************************************)
(* internal/workspace/integration.go: a plan is computed from the live     *)
(* root and a candidate tree, applied to the live root one file at a time  *)
(* under a durable journal, and replayed when the repository is opened.    *)
(*                                                                         *)
(* r.mu serialises planning, applying and recovery; it does not stop an    *)
(* editor from changing the live root or a runtime process from changing   *)
(* the candidate, so both interleave with every read and write here.  The  *)
(* lease that planning and applying assert first is in WorkspaceLease.     *)
(*                                                                         *)
(* A digest is the content it digests; file modes are left out.  Walking a *)
(* tree is one action: the walks of one plan are several.  A journal's     *)
(* cursor is the set of paths it has passed: steps are sorted by path, so  *)
(* the next one is the least path not passed.                              *)
(***************************************************************************)
EXTENDS Naturals, FiniteSets

CONSTANTS
  Path,         \* paths of files, numbered in sort order
  Above,        \* the paths that are directories on the way to a path
  Content,      \* contents a regular file can have
  Large,        \* contents whose journal exceeds the 64 KiB readJSON reads
  Absent,       \* no file at a path
  MaxJournal,   \* bound: integrations started
  MaxLiveEdit,  \* bound: edits of the live root by others
  MaxCandidateEdit, \* bound: edits of the candidate while the model runs
  None

ASSUME PathAssumption ==
  /\ Path \subseteq Nat /\ IsFiniteSet(Path)
  /\ Above \in [Path -> SUBSET Path]
  /\ \A p \in Path : p \notin Above[p] /\ \A q \in Above[p] : Above[q] \subseteq Above[p]
  /\ Large \subseteq Content
  /\ Absent \notin Content
  /\ {MaxJournal, MaxLiveEdit, MaxCandidateEdit} \subseteq Nat

JournalId == 1 .. MaxJournal
File == Content \cup {Absent}
Tree == [Path -> File]
Root == [files : Tree, dirs : SUBSET Path]

\* A plan: the base snapshot, and the digests and staged blobs per path.
Plan == [base : Root, before : Tree, after : Tree, blob : Tree]
Journal == [state : {"PREPARED", "APPLYING", "COMMITTED", "QUARANTINED"},
            passed : SUBSET Path, plan : Plan]

ASSUME NoneAssumption == None \notin Plan /\ None \notin Journal

VARIABLES
  live,       \* the live root: regular files, and paths that are directories
  candidate,  \* the candidate tree
  edits,      \* edits made so far, of the live root and of the candidate
  phase,      \* "down", "opening" (OpenRepository replays journals), "open"
  planning,   \* BuildIntegrationPlan in progress: the parts read so far
  plan,       \* the last plan computed, which ApplyIntegration may be given
  journal,    \* the journal files
  applying,   \* ApplyIntegration in progress: its journal and where it is
  todo        \* journals OpenRepository has yet to replay

vars == <<live, candidate, edits, phase, planning, plan, journal, applying, todo>>

\* No file is a directory, or lies below a file.
WellFormed(root) ==
  \A p \in Path :
    /\ root.files[p] # Absent => p \notin root.dirs
    /\ root.files[p] # Absent => Above[p] \subseteq root.dirs
    /\ p \in root.dirs => Above[p] \subseteq root.dirs

DirsOf(files) == UNION {Above[p] : p \in {q \in Path : files[q] # Absent}}

TypeOK ==
  /\ live \in Root /\ WellFormed(live)
  /\ candidate \in Tree
  /\ edits \in [live : Nat, candidate : Nat]
  /\ phase \in {"down", "opening", "open"}
  /\ planning \in {None} \cup [base : Root, before : Tree, after : Tree, at : {"before", "after", "blob"}]
  /\ plan \in Plan \cup {None}
  /\ journal \in [JournalId -> Journal \cup {None}]
  /\ applying \in {None} \cup [id : JournalId, at : {"check", "write", "verify", "advance"}]
  /\ todo \in SUBSET JournalId

Init ==
  /\ \E files \in Tree : live = [files |-> files, dirs |-> DirsOf(files)]
  /\ WellFormed(live)
  /\ candidate \in {t \in Tree : WellFormed([files |-> t, dirs |-> DirsOf(t)])}
  /\ edits = [live |-> 0, candidate |-> 0]
  /\ phase = "open"
  /\ planning = None
  /\ plan = None
  /\ journal = [j \in JournalId |-> None]
  /\ applying = None
  /\ todo = {}

-----------------------------------------------------------------------------
(* The steps of a plan and of a journal.                                   *)

Steps(pl) == {p \in Path : pl.before[p] # pl.after[p]}

Remaining(jr) == Steps(jr.plan) \ jr.passed

\* p is the step at the journal's cursor.
IsNext(jr, p) == p \in Remaining(jr) /\ \A q \in Remaining(jr) : p <= q

\* readJSON refuses a journal longer than its limit.
Readable(jr) == \A p \in Steps(jr.plan) : jr.plan.blob[p] \notin Large

Store(id, jr) == journal' = [journal EXCEPT ![id] = jr]

Deletes(jr, p) == jr.plan.after[p] = Absent

NewParentsForgotten(jr, p) == {}

\* The directories openParentDirectory makes on the way to p.
NewParents(jr, p) == IF Deletes(jr, p) THEN {} ELSE Above[p]

PassedStuck(jr, p) == [jr EXCEPT !.state = "APPLYING"]
PassedAll(jr, p) == [jr EXCEPT !.state = "APPLYING", !.passed = Steps(jr.plan)]

\* The cursor moves past p.
Passed(jr, p) == [jr EXCEPT !.state = "APPLYING", !.passed = @ \cup {p}]

\* fileStateAt succeeds: the path is no directory and nothing above is a file.
Statable(p) == p \notin live.dirs /\ \A q \in Above[p] : live.files[q] = Absent

AtAfterUnlessUnreadable(jr, p) == Statable(p)

\* fileStateAt(path) equals the after digest.
AtAfter(jr, p) == Statable(p) /\ live.files[p] = jr.plan.after[p]

FinishedOrQuarantined(jr) == jr.state \in {"COMMITTED", "QUARANTINED"}

\* A journal recoverJournals passes over.
Finished(jr) == jr.state = "COMMITTED"

CurrentAnyway(pl) == TRUE

\* The live root still is the one the plan was computed from.
Current(pl) == live = pl.base

\* The repository's mutex is free and it is open for callers.
Idle == phase = "open" /\ planning = None /\ applying = None

-----------------------------------------------------------------------------
(* Everybody else: editors of the live root, processes in the candidate.   *)

EditLive(p, c) ==
  /\ edits.live < MaxLiveEdit
  /\ live' = [files |-> [live.files EXCEPT ![p] = c],
              dirs |-> IF c = Absent THEN live.dirs ELSE live.dirs \cup Above[p]]
  /\ WellFormed(live')
  /\ edits' = [edits EXCEPT !.live = @ + 1]
  /\ UNCHANGED <<candidate, phase, planning, plan, journal, applying, todo>>

EditCandidate(p, c) ==
  /\ edits.candidate < MaxCandidateEdit
  /\ candidate' = [candidate EXCEPT ![p] = c]
  /\ WellFormed([files |-> candidate', dirs |-> DirsOf(candidate')])
  /\ edits' = [edits EXCEPT !.candidate = @ + 1]
  /\ UNCHANGED <<live, phase, planning, plan, journal, applying, todo>>

-----------------------------------------------------------------------------
(* BuildIntegrationPlan: the base snapshot, the live files, the candidate  *)
(* files and the staged blobs are read one after the other.                *)

ReadBase ==
  /\ Idle
  /\ planning' = [base |-> live, before |-> live.files, after |-> live.files, at |-> "before"]
  /\ UNCHANGED <<live, candidate, edits, phase, plan, journal, applying, todo>>

ReadLiveFiles ==
  /\ planning # None /\ planning.at = "before"
  /\ planning' = [planning EXCEPT !.before = live.files, !.at = "after"]
  /\ UNCHANGED <<live, candidate, edits, phase, plan, journal, applying, todo>>

ReadCandidateFiles ==
  /\ planning # None /\ planning.at = "after"
  /\ planning' = [planning EXCEPT !.after = candidate, !.at = "blob"]
  /\ UNCHANGED <<live, candidate, edits, phase, plan, journal, applying, todo>>

\* A blob is read for each file to create or update; one that has vanished
\* since makes the plan fail.
ReadBlobs ==
  /\ planning # None /\ planning.at = "blob"
  /\ LET changed == {p \in Path : planning.before[p] # planning.after[p]}
         staged == {p \in changed : planning.after[p] # Absent}
     IN  IF \E p \in staged : candidate[p] = Absent
         THEN UNCHANGED plan
         ELSE plan' = [base |-> planning.base, before |-> planning.before,
                       after |-> planning.after,
                       blob |-> [p \in Path |-> IF p \in staged THEN candidate[p] ELSE Absent]]
  /\ planning' = None
  /\ UNCHANGED <<live, candidate, edits, phase, journal, applying, todo>>

-----------------------------------------------------------------------------
(* ApplyIntegration.                                                       *)

\* The journal is PREPARED before anything else is written.  The call may fail with the journal in place (its directory sync fails).
Prepare(id) ==
  /\ Idle
  /\ plan # None
  /\ Current(plan)
  /\ journal[id] = None /\ \A k \in JournalId : k < id => journal[k] # None
  /\ Store(id, [state |-> "PREPARED", passed |-> {}, plan |-> plan])
  /\ applying' \in {[id |-> id, at |-> "check"], None}
  /\ UNCHANGED <<live, candidate, edits, phase, planning, plan, todo>>

\* What the process held in memory is lost.
Down ==
  /\ phase' = "down"
  /\ planning' = None /\ plan' = None /\ applying' = None
  /\ todo' = {}

Applying(at) == phase = "open" /\ applying # None /\ applying.at = at

StepFailsRetries(id) == UNCHANGED <<journal, applying>>

\* A failed step quarantines the journal; the error of that write is ignored.
\* Reading, writing and syncing a file can fail at any time.
StepFails(id) ==
  /\ Store(id, [journal[id] EXCEPT !.state = "QUARANTINED"]) \/ UNCHANGED journal
  /\ applying' = None

\* fileStateAt(path) equals the before digest.
CheckStep(p) ==
  /\ Applying("check") /\ IsNext(journal[applying.id], p)
  /\ \/ /\ Statable(p) /\ live.files[p] = journal[applying.id].plan.before[p]
        /\ applying' = [applying EXCEPT !.at = "write"]
        /\ UNCHANGED journal
     \/ StepFails(applying.id)
  /\ UNCHANGED <<live, candidate, edits, phase, planning, plan, todo>>

\* Unlink, or create the parents and rename the staged blob over the path.
\* The blob of a deleted path is Absent.
WriteStep(p) ==
  /\ Applying("write") /\ IsNext(journal[applying.id], p)
  /\ Statable(p)
  /\ Deletes(journal[applying.id], p) => live.files[p] # Absent
  /\ live' = [files |-> [live.files EXCEPT ![p] = journal[applying.id].plan.blob[p]],
              dirs |-> live.dirs \cup NewParents(journal[applying.id], p)]
  /\ applying' = [applying EXCEPT !.at = "verify"]
  /\ UNCHANGED <<candidate, edits, phase, planning, plan, journal, todo>>

\* The call or the whole process ends before the file is renamed or
\* unlinked, with or without the parents made.
WriteStepFails(p) ==
  /\ Applying("write") /\ IsNext(journal[applying.id], p)
  /\ \/ UNCHANGED live
     \/ /\ Statable(p)
        /\ live' = [live EXCEPT !.dirs = @ \cup NewParents(journal[applying.id], p)]
  /\ \/ StepFails(applying.id) /\ UNCHANGED <<phase, planning, plan, todo>>
     \/ Down /\ UNCHANGED journal
  /\ UNCHANGED <<candidate, edits>>

VerifyStep(p) ==
  /\ Applying("verify") /\ IsNext(journal[applying.id], p)
  /\ \/ /\ AtAfter(journal[applying.id], p)
        /\ applying' = [applying EXCEPT !.at = "advance"]
        /\ UNCHANGED journal
     \/ StepFails(applying.id)
  /\ UNCHANGED <<live, candidate, edits, phase, planning, plan, todo>>

AdvanceStep(p) ==
  /\ Applying("advance") /\ IsNext(journal[applying.id], p)
  /\ Store(applying.id, Passed(journal[applying.id], p))
  /\ applying' \in {[applying EXCEPT !.at = "check"], None}
  /\ UNCHANGED <<live, candidate, edits, phase, planning, plan, todo>>

Commit ==
  /\ Applying("check") /\ Remaining(journal[applying.id]) = {}
  /\ Store(applying.id, [journal[applying.id] EXCEPT !.state = "COMMITTED"])
  /\ applying' = None
  /\ UNCHANGED <<live, candidate, edits, phase, planning, plan, todo>>

\* A journal write fails before its rename: the call returns and the file
\* stays as it was.  When only the directory sync fails, AdvanceStep and
\* Commit happen and the call returns.
JournalWriteFails ==
  /\ \/ Applying("advance")
     \/ Applying("check") /\ Remaining(journal[applying.id]) = {}
  /\ applying' = None
  /\ UNCHANGED <<live, candidate, edits, phase, planning, plan, journal, todo>>

-----------------------------------------------------------------------------
(* Crashes, and recoverJournals inside OpenRepository.                     *)

Crash ==
  /\ phase # "down"
  /\ Down
  /\ UNCHANGED <<live, candidate, edits, journal>>

Open ==
  /\ phase = "down"
  /\ phase' = "opening"
  /\ todo' = {j \in JournalId : journal[j] # None}
  /\ UNCHANGED <<live, candidate, edits, planning, plan, journal, applying>>

Recovering(j) == phase = "opening" /\ j \in todo

SkipCommitted(j) ==
  /\ Recovering(j)
  /\ Readable(journal[j]) /\ Finished(journal[j])
  /\ todo' = todo \ {j}
  /\ UNCHANGED <<live, candidate, edits, phase, planning, plan, journal, applying>>

\* A journal that cannot be read, or is quarantined, refuses the opening.
RefuseJournal(j) ==
  /\ Recovering(j)
  /\ ~Readable(journal[j]) \/ journal[j].state = "QUARANTINED"
  /\ Down
  /\ UNCHANGED <<live, candidate, edits, journal>>

Unfinished(j) ==
  /\ Recovering(j)
  /\ Readable(journal[j]) /\ journal[j].state \in {"PREPARED", "APPLYING"}

\* The step at the cursor is already at its after digest.
RecoverAdvance(j, p) ==
  /\ Unfinished(j) /\ IsNext(journal[j], p)
  /\ AtAfter(journal[j], p)
  /\ Store(j, Passed(journal[j], p))
  /\ UNCHANGED <<live, candidate, edits, phase, planning, plan, applying, todo>>

\* It is at its before digest, or at neither: quarantine and refuse.
RecoverQuarantine(j, p) ==
  /\ Unfinished(j) /\ IsNext(journal[j], p)
  /\ Statable(p) /\ ~AtAfter(journal[j], p)
  /\ Store(j, [journal[j] EXCEPT !.state = "QUARANTINED"]) \/ UNCHANGED journal
  /\ Down
  /\ UNCHANGED <<live, candidate, edits>>

\* fileStateAt fails: refuse, the journal stays.  A failing journal write
\* does the same, which is what Crash does.
RecoverUnreadablePath(j, p) ==
  /\ Unfinished(j) /\ IsNext(journal[j], p)
  /\ ~Statable(p)
  /\ Down
  /\ UNCHANGED <<live, candidate, edits, journal>>

RecoverCommit(j) ==
  /\ Unfinished(j) /\ Remaining(journal[j]) = {}
  /\ Store(j, [journal[j] EXCEPT !.state = "COMMITTED"])
  /\ todo' = todo \ {j}
  /\ UNCHANGED <<live, candidate, edits, phase, planning, plan, applying>>

Opened ==
  /\ phase = "opening" /\ todo = {}
  /\ phase' = "open"
  /\ UNCHANGED <<live, candidate, edits, planning, plan, journal, applying, todo>>

-----------------------------------------------------------------------------
Edit == \E p \in Path, c \in File : EditLive(p, c) \/ EditCandidate(p, c)

PlanStep == ReadLiveFiles \/ ReadCandidateFiles \/ ReadBlobs

ApplyStep ==
  \/ \E p \in Path : CheckStep(p) \/ WriteStep(p) \/ WriteStepFails(p) \/ VerifyStep(p) \/ AdvanceStep(p)
  \/ Commit
  \/ JournalWriteFails

RecoverStep ==
  \/ \E j \in JournalId :
       \/ SkipCommitted(j) \/ RefuseJournal(j) \/ RecoverCommit(j)
       \/ \E p \in Path :
            RecoverAdvance(j, p) \/ RecoverQuarantine(j, p) \/ RecoverUnreadablePath(j, p)
  \/ Opened

Next ==
  \/ Edit
  \/ ReadBase \/ PlanStep
  \/ (\E id \in JournalId : Prepare(id)) \/ ApplyStep
  \/ Open \/ RecoverStep
  \/ Crash

Spec == Init /\ [][Next]_vars

\* A call that has taken r.mu runs to its end, and so does an opening.
FairSpec == Spec /\ WF_vars(PlanStep) /\ WF_vars(ApplyStep) /\ WF_vars(RecoverStep)
=============================================================================
