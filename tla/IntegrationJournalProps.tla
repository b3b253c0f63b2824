----------------------- MODULE IntegrationJournalProps -----------------------
(***************************************************************************)
(* The properties of IntegrationJournal that the runs check.               *)
(***************************************************************************)
EXTENDS IntegrationJournal

Written(j) == journal[j] # None

\* No integration was prepared after j.
Newest(j) == Written(j) /\ \A k \in JournalId : k > j => ~Written(k)

(***************************************************************************)
(* When nobody else edits the live root, the newest journal says what is   *)
(* in it, at every instant and so after any crash: every path it has       *)
(* passed is as planned, every path beyond the cursor is untouched, and    *)
(* the path at the cursor has its old content or the staged one.           *)
(***************************************************************************)
JournalDescribesLiveRoot ==
  \A j \in JournalId : Newest(j) =>
    LET jr == journal[j]
    IN  /\ \A p \in jr.passed : live.files[p] = jr.plan.after[p]
        /\ \A p \in Remaining(jr) :
             live.files[p] # jr.plan.before[p] =>
               IsNext(jr, p) /\ live.files[p] = jr.plan.blob[p]
        /\ \A p \in Path \ Steps(jr.plan) : live.files[p] = jr.plan.before[p]

(***************************************************************************)
(* A journal only moves forward: its plan is fixed, the cursor passes      *)
(* steps in order and never skips one, COMMITTED means none is left, and   *)
(* COMMITTED and QUARANTINED are final, whether ApplyIntegration or        *)
(* recovery writes it.                                                     *)
(***************************************************************************)
JournalMovesForward ==
  [][\A j \in JournalId : Written(j) =>
       LET old == journal[j]
           new == journal'[j]
       IN  /\ new # None /\ new.plan = old.plan
           /\ new.passed # old.passed =>
                \E p \in Path : IsNext(old, p) /\ new.passed = old.passed \cup {p}
           /\ new.state = "COMMITTED" => Remaining(new) = {}
           /\ old.state \in {"COMMITTED", "QUARANTINED"} => new = old
           /\ new.state = "PREPARED" => old.state = "PREPARED"]_vars

(***************************************************************************)
(* A repository is open to callers only if every integration journaled     *)
(* before that opening has been committed.                                 *)
(***************************************************************************)
OpenOnlyWhenFinished ==
  [][phase = "opening" /\ phase' = "open" =>
       \A j \in JournalId : Written(j) => journal[j].state = "COMMITTED"]_vars

(***************************************************************************)
(* Planning reads the live root twice, for the base snapshot and for the   *)
(* files.  An edit in between reaches a journal only if it was undone      *)
(* again: the base snapshot, compared before the journal is written,       *)
(* catches every other one.                                                *)
(***************************************************************************)
OnlyUndoneEditsSlipIn ==
  \A j \in JournalId :
    Written(j) /\ journal[j].plan.before # journal[j].plan.base.files => edits.live >= 2

(***************************************************************************)
(* A call of ApplyIntegration comes to an end, whatever fails and whatever *)
(* others do to the live root meanwhile: no step is tried for ever.        *)
(***************************************************************************)
ApplyReturns == applying # None ~> applying = None

(***************************************************************************)
(* An opening that replays journals ends, open or refused: recovery never  *)
(* loops on a step.                                                        *)
(***************************************************************************)
OpeningEnds == phase = "opening" ~> phase # "opening"

-----------------------------------------------------------------------------
(* Statements of the documentation the code does not keep.                 *)

(***************************************************************************)
(* "Startup [...] replays workspace integration journals before mutation"  *)
(* (docs/recovery.md:3-4): when all of them are COMMITTED there is nothing *)
(* to replay, and the opening is not refused.                              *)
(***************************************************************************)
FinishedJournalsNeverRefuse ==
  [][\A j \in JournalId : RefuseJournal(j) => journal[j].state # "COMMITTED"]_vars
=============================================================================
