------------------------------- MODULE TaskStore -------------------------------
(***************************************************************************)
(* internal/taskstate: the store of one JSON file per task (taskstate.go), *)
(* the SQLite store that takes over from it (sqlite_store.go), how opening *)
(* the second moves the files of the first into the database, and the two  *)
(* questions put to Git for every handoff, under crashes and a user who    *)
(* commits and changes branches.                                           *)
(*                                                                         *)
(* One process at a time: the control plane opens the store under the lock *)
(* of the workspace authority, and a store serves one call at a time.  A   *)
(* SQLite transaction and the renaming of a finished file are one step; a  *)
(* crash before leaves at most a temporary file nobody reads.  The text of *)
(* a task, its time stamps and its checks are left out, as are the         *)
(* identities of the repository, which do not change while it runs.        *)
(***************************************************************************)
EXTENDS Naturals

CONSTANTS
  Task,          \* task identities, drawn at random by the code
  Commit,
  None,
  Damaged,       \* a file that does not decode to a valid record
  MaxMoves,      \* bound: commits and changes of branch
  MaxFaults      \* bound: crashes, failing operations and damaged files together

ASSUME TaskAssumption ==
  /\ None \notin Task \cup Commit \cup {"pending", "complete"} /\ Damaged # None
  /\ MaxMoves \in Nat /\ MaxFaults \in Nat

Branch == {"main", "other"}

VARIABLES
  branch,        \* the branch HEAD names
  heads,         \* the commit of each branch
  files,         \* the JSON file of each task
  moved,         \* the files renamed to .migrated
  version,       \* user_version of the database
  marker,        \* legacy_json_migration in the table metadata
  rows,          \* the table tasks
  release,       \* which store the program uses
  app,           \* where opening the store is
  call,          \* the call that holds the mutex
  refused,       \* whether the last opening was refused for what it found
  moves, faults,
  mainHeads,     \* history: the commits main has named
  strayed        \* history: whether a branch was left between two questions

vars == <<branch, heads, files, moved, version, marker, rows, release, app,
          call, refused, moves, faults, mainHeads, strayed>>

git == <<branch, heads, moves, mainHeads>>
database == <<version, marker, rows>>
bounds == <<moves, faults>>

Record ==
  [base : Commit, head : Commit, verified : Commit \cup {None}, state : {"RED", "GREEN"}]

ASSUME RecordAssumption == None \notin Record /\ Damaged \notin Record

NoCall == [at |-> "none"]

Calls ==
  {NoCall}
  \cup [at : {"branch", "head"}, task : Task, loaded : Record \cup {None}]
  \cup [at : {"store"}, task : Task, loaded : Record \cup {None}, head : Commit]

Legacy == {t \in Task : files[t] # None}

TypeOK ==
  /\ branch \in Branch /\ heads \in [Branch -> Commit]
  /\ files \in [Task -> Record \cup {None, Damaged}]
  /\ moved \subseteq Task
  /\ version \in {0, 1} /\ marker \in {None, "pending", "complete"}
  /\ rows \in [Task -> Record \cup {None}]
  /\ release \in {"json", "sqlite"}
  /\ app \in {"down", "migrations", "metadata", "legacy", "renaming", "opened", "ready"}
  /\ call \in Calls /\ (call # NoCall => app = "ready")
  /\ refused \in BOOLEAN /\ strayed \in BOOLEAN
  /\ moves \in 0 .. MaxMoves /\ faults \in 0 .. MaxFaults
  /\ mainHeads \subseteq Commit
  /\ marker # None => version = 1
  /\ release = "sqlite" /\ app \in {"opened", "ready"} => Legacy = {}

Init ==
  /\ branch \in Branch /\ heads \in [Branch -> Commit]
  /\ files = [t \in Task |-> None] /\ moved = {}
  /\ version = 0 /\ marker = None /\ rows = [t \in Task |-> None]
  /\ release = "json" /\ app = "down"
  /\ call = NoCall
  /\ refused = FALSE /\ strayed = FALSE
  /\ moves = 0 /\ faults = 0
  /\ mainHeads = {heads["main"]}

-----------------------------------------------------------------------------
(* Git, and whoever works in the checkout.                                 *)

CommitOn(c) ==
  /\ moves < MaxMoves /\ c # heads[branch]
  /\ moves' = moves + 1
  /\ heads' = [heads EXCEPT ![branch] = c]
  /\ mainHeads' = mainHeads \cup {heads'["main"]}
  /\ UNCHANGED <<branch, files, moved, database, release, app, call, refused, faults, strayed>>

Checkout(b) ==
  /\ moves < MaxMoves /\ b # branch
  /\ moves' = moves + 1
  /\ branch' = b
  /\ strayed' = (strayed \/ call.at = "head")
  /\ UNCHANGED <<heads, mainHeads, files, moved, database, release, app, call, refused, faults>>

Unverified(c) == [base |-> c, head |-> c, verified |-> None, state |-> "RED"]

\* What the tests do to a file with save: a verified task.
Verify(t) ==
  /\ app = "ready" /\ release = "json" /\ call = NoCall
  /\ files[t] \in Record
  /\ files' = [files EXCEPT ![t] = [@ EXCEPT !.verified = files[t].head, !.state = "GREEN"]]
  /\ UNCHANGED <<git, moved, database, release, app, call, refused, faults, strayed>>

Damage(t) ==
  /\ faults < MaxFaults /\ app = "down" /\ files[t] \in Record
  /\ faults' = faults + 1
  /\ files' = [files EXCEPT ![t] = Damaged]
  /\ UNCHANGED <<git, moved, database, release, app, call, refused, strayed>>

OnAnyBranch == TRUE

OnMain == branch = "main"

-----------------------------------------------------------------------------
(* Opening.                                                                *)

Goes(at, next) == app = at /\ app' = next /\ UNCHANGED <<release, call, strayed>>

OpenJSON ==
  /\ release = "json"
  /\ Goes("down", "opened")
  /\ refused' = FALSE
  /\ UNCHANGED <<git, files, moved, database, faults>>

\* The first release with SQLite, and every one after it.
OpenSQLite ==
  /\ app = "down"
  /\ app' = "migrations" /\ release' = "sqlite" /\ refused' = FALSE
  /\ UNCHANGED <<git, files, moved, database, call, faults, strayed>>

ApplyMigrations ==
  /\ Goes("migrations", "metadata")
  /\ version' = 1
  /\ UNCHANGED <<git, files, moved, marker, rows, refused, faults>>

\* An empty table gets the identities and the marker in one statement.
ValidateMetadata ==
  /\ Goes("metadata", "legacy")
  /\ marker' = IF marker = None THEN "pending" ELSE marker
  /\ UNCHANGED <<git, files, moved, version, rows, refused, faults>>

\* What readLegacyStateFile accepts.
Intact(t) == files[t] # Damaged

RefuseLegacy ==
  /\ Goes("legacy", "down")
  /\ \/ marker = "complete" /\ Legacy # {}
     \/ /\ marker = "pending" /\ Legacy # {}
        /\ \/ \E t \in Task : rows[t] # None
           \/ \E t \in Legacy : ~Intact(t)
  /\ refused' = TRUE
  /\ UNCHANGED <<git, files, moved, database, faults>>

NothingToMigrate ==
  /\ Goes("legacy", "opened")
  /\ Legacy = {}
  /\ marker' = "complete"
  /\ UNCHANGED <<git, files, moved, version, rows, refused, faults>>

\* The rows alone, and the marker when the files have been renamed.
ImportRows ==
  /\ Goes("legacy", "renaming")
  /\ marker = "pending" /\ Legacy # {}
  /\ \A t \in Task : rows[t] = None
  /\ \A t \in Legacy : Intact(t)
  /\ rows' = files
  /\ UNCHANGED <<git, files, moved, version, marker, refused, faults>>

\* One transaction for all files and the marker.
ImportLegacy ==
  /\ Goes("legacy", "renaming")
  /\ marker = "pending" /\ Legacy # {}
  /\ \A t \in Task : rows[t] = None
  /\ \A t \in Legacy : Intact(t)
  /\ rows' = files
  /\ marker' = "complete"
  /\ UNCHANGED <<git, files, moved, version, refused, faults>>

\* In the order of the names, which are as good as any.
RenameLegacy(t) ==
  /\ Goes("renaming", "renaming")
  /\ t \in Legacy
  /\ files' = [files EXCEPT ![t] = None]
  /\ moved' = moved \cup {t}
  /\ UNCHANGED <<git, database, refused, faults>>

OpenedAnyway ==
  /\ Goes("renaming", "opened")
  /\ UNCHANGED <<git, files, moved, database, refused, faults>>

Opened ==
  /\ Goes("renaming", "opened")
  /\ Legacy = {}
  /\ UNCHANGED <<git, files, moved, database, refused, faults>>

\* The control plane serves a checkout of main only.
RequireMain ==
  /\ Goes("opened", "ready")
  /\ OnMain
  /\ UNCHANGED <<git, files, moved, database, refused, faults>>

OtherBranch ==
  /\ Goes("opened", "down")
  /\ ~OnMain
  /\ UNCHANGED <<git, files, moved, database, refused, faults>>

Close ==
  /\ Goes("ready", "down")
  /\ call = NoCall
  /\ UNCHANGED <<git, files, moved, database, refused, faults>>

\* A crash, or an operation that fails while opening.
Stop ==
  /\ faults < MaxFaults /\ app # "down"
  /\ faults' = faults + 1
  /\ app' = "down" /\ call' = NoCall
  /\ UNCHANGED <<git, files, moved, database, release, refused, strayed>>

-----------------------------------------------------------------------------
(* Calls.                                                                  *)

Stored == IF release = "json" THEN files ELSE rows

Loadable(t) == Stored[t] \in Record

\* A random identity that was never used.
Unused(t) == files[t] = None /\ rows[t] = None /\ t \notin moved

Calling(at, next) == call.at = at /\ call' = next /\ UNCHANGED <<release, app, refused, faults, strayed>>

Create(t) ==
  /\ app = "ready" /\ Unused(t)
  /\ Calling("none", [at |-> "branch", task |-> t, loaded |-> None])
  /\ UNCHANGED <<git, files, moved, database>>

Resume(t) ==
  /\ app = "ready" /\ Loadable(t)
  /\ Calling("none", [at |-> "branch", task |-> t, loaded |-> Stored[t]])
  /\ UNCHANGED <<git, files, moved, database>>

\* symbolic-ref, the first question of a snapshot.
ReadBranch ==
  /\ OnMain
  /\ Calling("branch", [call EXCEPT !.at = "head"])
  /\ UNCHANGED <<git, files, moved, database>>

MainOnly ==
  /\ ~OnMain
  /\ Calling("branch", NoCall)
  /\ UNCHANGED <<git, files, moved, database>>

\* rev-parse HEAD, the last: of whatever HEAD names by now.
ReadHead ==
  /\ Calling("head", [at |-> "store", task |-> call.task, loaded |-> call.loaded, head |-> heads[branch]])
  /\ UNCHANGED <<git, files, moved, database>>

\* Git does not answer in time, or the store does not.
CallFails ==
  /\ faults < MaxFaults
  /\ call.at \in {"branch", "head", "store"}
  /\ faults' = faults + 1
  /\ call' = NoCall
  /\ UNCHANGED <<git, files, moved, database, release, app, refused, strayed>>

MovedHead(r, c) == [r EXCEPT !.head = c]

\* A task whose head moved is RED.
Refreshed(r, c) == [r EXCEPT !.head = c, !.state = "RED"]

Save(t, r) == files' = [files EXCEPT ![t] = r] /\ UNCHANGED rows

InsertOrUpdate(t, r) == rows' = [rows EXCEPT ![t] = r] /\ UNCHANGED files

Put(t, r) == IF release = "json" THEN Save(t, r) ELSE InsertOrUpdate(t, r)

StoreNew ==
  /\ call.at = "store" /\ call.loaded = None
  /\ Calling("store", NoCall)
  /\ Put(call.task, Unverified(call.head))
  /\ UNCHANGED <<git, moved, version, marker>>

StoreMoved ==
  /\ call.at = "store" /\ call.loaded # None /\ call.head # call.loaded.head
  /\ Calling("store", NoCall)
  /\ Put(call.task, Refreshed(call.loaded, call.head))
  /\ UNCHANGED <<git, moved, version, marker>>

SameHead ==
  /\ call.at = "store" /\ call.loaded # None /\ call.head = call.loaded.head
  /\ Calling("store", NoCall)
  /\ UNCHANGED <<git, files, moved, database>>

-----------------------------------------------------------------------------
Opening ==
  \/ OpenJSON \/ OpenSQLite \/ ApplyMigrations \/ ValidateMetadata
  \/ RefuseLegacy \/ NothingToMigrate \/ ImportLegacy \/ Opened
  \/ \E t \in Task : RenameLegacy(t)
  \/ RequireMain \/ OtherBranch

CallStep == ReadBranch \/ MainOnly \/ ReadHead \/ StoreNew \/ StoreMoved \/ SameHead

Next ==
  \/ \E c \in Commit : CommitOn(c)
  \/ \E b \in Branch : Checkout(b)
  \/ Opening \/ Close \/ Stop
  \/ \E t \in Task : Verify(t) \/ Damage(t) \/ Create(t) \/ Resume(t)
  \/ CallStep \/ CallFails

Spec == Init /\ [][Next]_vars
=============================================================================
