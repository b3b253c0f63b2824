---------------------------- MODULE TaskStoreProofs ----------------------------
(***************************************************************************)
(* Theorems about TaskStore, for any number of tasks, commits, moves and   *)
(* faults.                                                                 *)
(***************************************************************************)
EXTENDS TaskStoreProps, TLAPS

\* How far the migration is, and what is then in which store.
MigrationInv ==
  /\ release = "json" => marker = None /\ app \in {"down", "opened", "ready"}
  /\ app \in {"metadata", "legacy"} => version = 1
  /\ app = "legacy" => marker # None
  /\ release = "sqlite" /\ app \in {"renaming", "opened", "ready"} => marker = "complete"
  /\ marker # "complete" => moved = {} /\ \A t \in Task : rows[t] = None
  /\ marker = "complete" => \A t \in Legacy : rows[t] # None
  /\ \A t \in moved : rows[t] # None
  /\ refused => app = "down"

\* What a call has loaded is still what is stored.
CallInv ==
  call # NoCall =>
    /\ call.loaded = None => files[call.task] = None /\ rows[call.task] = None
    /\ call.loaded # None => Stored[call.task] = call.loaded

OfMain(r) == {r.base, r.head} \subseteq mainHeads

\* While the branch stays, all that is known of Git is of main.
MainInv ==
  /\ heads["main"] \in mainHeads
  /\ ~strayed =>
       /\ \A t \in Task : files[t] \in Record => OfMain(files[t])
       /\ \A t \in Task : rows[t] \in Record => OfMain(rows[t])
       /\ call.at = "head" => branch = "main"
       /\ call.at = "store" => call.head \in mainHeads

Inv == TypeOK /\ MigrationInv /\ CallInv /\ MainInv

-----------------------------------------------------------------------------
LEMMA RecordOperations ==
  ASSUME NEW r \in Record, NEW c \in Commit
  PROVE  /\ r.base \in Commit /\ r.head \in Commit
         /\ Unverified(c) \in Record /\ Unverified(c).base = c /\ Unverified(c).head = c
         /\ Refreshed(r, c) \in Record
         /\ Refreshed(r, c).base = r.base /\ Refreshed(r, c).head = c
         /\ [r EXCEPT !.verified = r.head, !.state = "GREEN"] \in Record
         /\ [r EXCEPT !.verified = r.head, !.state = "GREEN"].base = r.base
         /\ [r EXCEPT !.verified = r.head, !.state = "GREEN"].head = r.head
BY DEF Record, Unverified, Refreshed

LEMMA CallTypes ==
  ASSUME TypeOK
  PROVE  /\ call.at \in {"none", "branch", "head", "store"}
         /\ call.at = "none" <=> call = NoCall
         /\ call # NoCall =>
              app = "ready" /\ call.task \in Task /\ call.loaded \in Record \cup {None}
         /\ call.at = "store" => call.head \in Commit
BY DEF TypeOK, Calls, NoCall

LEMMA InitInv == Init => Inv
<1> SUFFICES ASSUME Init
             PROVE  Inv
  OBVIOUS
<1>1. TypeOK
  <2>1. call \in Calls /\ Legacy = {} /\ mainHeads \subseteq Commit
    BY DEF Init, Calls, Branch, Legacy
  <2>2. MaxMoves \in Nat /\ MaxFaults \in Nat
    BY TaskAssumption
  <2>3. moves \in 0 .. MaxMoves /\ faults \in 0 .. MaxFaults
    BY <2>2 DEF Init
  <2>4. files \in [Task -> Record \cup {None, Damaged}] /\ rows \in [Task -> Record \cup {None}]
    BY DEF Init
  <2> QED
    BY <2>1, <2>3, <2>4, TaskAssumption DEF Init, TypeOK
<1>2. MigrationInv /\ CallInv
  BY TaskAssumption DEF Init, MigrationInv, CallInv, Legacy
<1>3. MainInv
  BY RecordAssumption DEF Init, MainInv, NoCall
<1> QED
  BY <1>1, <1>2, <1>3 DEF Inv

\* Commits and changes of branch: what is stored stays.
LEMMA GitInv ==
  ASSUME Inv, (\E c \in Commit : CommitOn(c)) \/ (\E b \in Branch : Checkout(b))
  PROVE  Inv'
<1> USE DEF git, database
<1>t. TypeOK /\ MigrationInv /\ CallInv /\ MainInv
  BY DEF Inv
<1>m. moves < MaxMoves => moves + 1 \in 0 .. MaxMoves
  <2>1. MaxMoves \in Nat /\ moves \in 0 .. MaxMoves
    BY <1>t, TaskAssumption DEF TypeOK
  <2> QED
    BY <2>1
<1>1. ASSUME NEW c \in Commit, CommitOn(c)
      PROVE  Inv'
  <2>1. /\ heads' \in [Branch -> Commit]
        /\ mainHeads' \subseteq Commit /\ mainHeads \subseteq mainHeads'
        /\ heads'["main"] \in mainHeads'
    BY <1>1, <1>t DEF CommitOn, TypeOK, Branch
  <2>2. TypeOK'
    BY <1>1, <1>t, <1>m, <2>1 DEF CommitOn, TypeOK, Legacy
  <2>3. MigrationInv' /\ CallInv'
    BY <1>1, <1>t DEF CommitOn, MigrationInv, CallInv, Legacy, Stored
  <2>4. MainInv'
    BY <1>1, <1>t, <2>1 DEF CommitOn, MainInv, OfMain
  <2> QED
    BY <2>2, <2>3, <2>4 DEF Inv
<1>2. ASSUME NEW b \in Branch, Checkout(b)
      PROVE  Inv'
  <2>1. TypeOK'
    BY <1>2, <1>t, <1>m DEF Checkout, TypeOK, Legacy
  <2>2. MigrationInv' /\ CallInv'
    BY <1>2, <1>t DEF Checkout, MigrationInv, CallInv, Legacy, Stored
  <2>3. MainInv'
    BY <1>2, <1>t DEF Checkout, MainInv, OfMain
  <2> QED
    BY <2>1, <2>2, <2>3 DEF Inv
<1> QED
  BY <1>1, <1>2

\* A step between calls that changes no task.
LEMMA BetweenCalls ==
  ASSUME Inv, call = NoCall, call' = NoCall, UNCHANGED <<git, strayed>>,
         \A t \in Task : files'[t] \in Record =>
           files[t] \in Record /\ files'[t].base = files[t].base /\ files'[t].head = files[t].head,
         \A t \in Task : rows'[t] \in Record => rows'[t] = rows[t] \/ rows'[t] = files[t]
  PROVE  CallInv' /\ MainInv'
BY DEF Inv, CallInv, MainInv, OfMain, NoCall, git

LEMMA OpeningInv ==
  ASSUME Inv, Opening \/ Close
  PROVE  Inv'
<1> USE DEF git, database
<1>t. TypeOK /\ MigrationInv /\ CallInv /\ MainInv
  BY DEF Inv
<1>c. app # "ready" => call = NoCall
  BY <1>t DEF TypeOK
<1>1. CASE OpenJSON \/ OpenSQLite
  <2>1. TypeOK'
    BY <1>1, <1>t DEF OpenJSON, OpenSQLite, Goes, TypeOK, Legacy
  <2>2. MigrationInv'
    BY <1>1, <1>t DEF OpenJSON, OpenSQLite, Goes, MigrationInv, Legacy
  <2>3. CallInv' /\ MainInv'
    BY <1>1, <1>c, BetweenCalls DEF OpenJSON, OpenSQLite, Goes
  <2> QED
    BY <2>1, <2>2, <2>3 DEF Inv
<1>2. CASE ApplyMigrations \/ ValidateMetadata
  <2>1. TypeOK'
    BY <1>2, <1>t DEF ApplyMigrations, ValidateMetadata, Goes, TypeOK, Legacy, MigrationInv
  <2>2. MigrationInv'
    <3>1. CASE ApplyMigrations
      BY <3>1, <1>t DEF ApplyMigrations, Goes, MigrationInv, Legacy
    <3>2. CASE ValidateMetadata
      BY <3>2, <1>t, TaskAssumption DEF ValidateMetadata, Goes, MigrationInv, Legacy
    <3> QED
      BY <1>2, <3>1, <3>2
  <2>3. CallInv' /\ MainInv'
    BY <1>2, <1>c, BetweenCalls DEF ApplyMigrations, ValidateMetadata, Goes
  <2> QED
    BY <2>1, <2>2, <2>3 DEF Inv
<1>3. CASE RefuseLegacy
  <2>1. TypeOK'
    BY <1>3, <1>t DEF RefuseLegacy, Goes, TypeOK, Legacy
  <2>2. MigrationInv'
    BY <1>3, <1>t DEF RefuseLegacy, Goes, MigrationInv, Legacy
  <2>3. CallInv' /\ MainInv'
    BY <1>3, <1>c, BetweenCalls DEF RefuseLegacy, Goes
  <2> QED
    BY <2>1, <2>2, <2>3 DEF Inv
<1>4. CASE NothingToMigrate
  <2>1. TypeOK'
    BY <1>4, <1>t DEF NothingToMigrate, Goes, TypeOK, Legacy, MigrationInv
  <2>2. MigrationInv'
    BY <1>4, <1>t DEF NothingToMigrate, Goes, MigrationInv, Legacy
  <2>3. CallInv' /\ MainInv'
    BY <1>4, <1>c, BetweenCalls DEF NothingToMigrate, Goes
  <2> QED
    BY <2>1, <2>2, <2>3 DEF Inv
<1>5. CASE ImportLegacy
  <2>1. rows' = files /\ rows' \in [Task -> Record \cup {None}]
    BY <1>5, <1>t DEF ImportLegacy, Intact, Legacy, TypeOK
  <2>2. release = "sqlite" /\ version = 1
    BY <1>5, <1>t DEF ImportLegacy, Goes, MigrationInv, TypeOK
  <2>3. TypeOK'
    BY <1>5, <1>t, <2>1, <2>2 DEF ImportLegacy, Goes, TypeOK, Legacy
  <2>4. MigrationInv'
    BY <1>5, <1>t, <2>1, <2>2 DEF ImportLegacy, Goes, MigrationInv, Legacy
  <2>5. CallInv' /\ MainInv'
    BY <1>5, <1>c, <2>1, BetweenCalls DEF ImportLegacy, Goes
  <2> QED
    BY <2>3, <2>4, <2>5 DEF Inv
<1>6. ASSUME NEW t \in Task, RenameLegacy(t)
      PROVE  Inv'
  <2>1. files' \in [Task -> Record \cup {None, Damaged}] /\ files'[t] = None
        /\ \A u \in Task \ {t} : files'[u] = files[u]
    BY <1>6, <1>t DEF RenameLegacy, TypeOK
  <2>2. rows[t] # None
    BY <1>6, <1>t DEF RenameLegacy, Goes, MigrationInv, TypeOK
  <2>3. TypeOK'
    BY <1>6, <1>t, <2>1 DEF RenameLegacy, Goes, TypeOK
  <2>4. MigrationInv'
    BY <1>6, <1>t, <2>1, <2>2 DEF RenameLegacy, Goes, MigrationInv, Legacy, TypeOK
  <2>5. CallInv' /\ MainInv'
    BY <1>6, <1>c, <2>1, RecordAssumption, BetweenCalls DEF RenameLegacy, Goes
  <2> QED
    BY <2>3, <2>4, <2>5 DEF Inv
<1>7. CASE Opened \/ RequireMain \/ OtherBranch
  <2>1. TypeOK'
    BY <1>7, <1>t DEF Opened, RequireMain, OtherBranch, Goes, TypeOK, Legacy
  <2>2. MigrationInv'
    BY <1>7, <1>t DEF Opened, RequireMain, OtherBranch, Goes, MigrationInv, Legacy
  <2>3. CallInv' /\ MainInv'
    BY <1>7, <1>c, BetweenCalls DEF Opened, RequireMain, OtherBranch, Goes
  <2> QED
    BY <2>1, <2>2, <2>3 DEF Inv
<1>8. CASE Close
  <2>1. TypeOK'
    BY <1>8, <1>t DEF Close, Goes, TypeOK, Legacy
  <2>2. MigrationInv'
    BY <1>8, <1>t DEF Close, Goes, MigrationInv, Legacy
  <2>3. CallInv' /\ MainInv'
    BY <1>8, BetweenCalls DEF Close, Goes
  <2> QED
    BY <2>1, <2>2, <2>3 DEF Inv
<1> QED
  BY <1>1, <1>2, <1>3, <1>4, <1>5, <1>6, <1>7, <1>8 DEF Opening

LEMMA TaskStepInv ==
  ASSUME Inv, Stop \/ (\E t \in Task : Verify(t) \/ Damage(t) \/ Create(t) \/ Resume(t))
              \/ CallStep \/ CallFails
  PROVE  Inv'
<1> USE DEF git, database
<1>t. TypeOK /\ MigrationInv /\ CallInv /\ MainInv
  BY DEF Inv
<1>n. NoCall.at = "none" /\ NoCall \in Calls
  BY DEF NoCall, Calls
<1>f. faults < MaxFaults => faults + 1 \in 0 .. MaxFaults
  <2>1. MaxFaults \in Nat /\ faults \in 0 .. MaxFaults
    BY <1>t, TaskAssumption DEF TypeOK
  <2> QED
    BY <2>1
<1>1. CASE Stop \/ CallFails
  <2>1. TypeOK'
    BY <1>1, <1>t, <1>f, <1>n DEF Stop, CallFails, TypeOK, Legacy
  <2>2. MigrationInv'
    BY <1>1, <1>t DEF Stop, CallFails, MigrationInv, Legacy
  <2>3. CallInv' /\ MainInv'
    BY <1>1, <1>t, <1>n DEF Stop, CallFails, CallInv, MainInv, OfMain
  <2> QED
    BY <2>1, <2>2, <2>3 DEF Inv
<1>2. ASSUME NEW t \in Task, Verify(t)
      PROVE  Inv'
  <2>1. /\ files' \in [Task -> Record \cup {None, Damaged}]
        /\ files[t] \in Record /\ files'[t] \in Record
        /\ files'[t].base = files[t].base /\ files'[t].head = files[t].head
        /\ \A u \in Task \ {t} : files'[u] = files[u]
    <3>1. files[t] \in Record
      BY <1>2 DEF Verify
    <3>2. files' = [files EXCEPT ![t] =
                   [files[t] EXCEPT !.verified = files[t].head, !.state = "GREEN"]]
      BY <1>2 DEF Verify
    <3>3. files[t].head \in Commit
      BY <3>1 DEF Record
    <3> QED
      BY <1>t, <3>1, <3>2, <3>3, RecordOperations DEF TypeOK
  <2>2. TypeOK'
    BY <1>2, <1>t, <2>1 DEF Verify, TypeOK
  <2>3. MigrationInv'
    BY <1>2, <1>t, <2>1, TaskAssumption DEF Verify, MigrationInv
  <2>4. CallInv' /\ MainInv'
    BY <1>2, <1>t, <2>1, BetweenCalls, RecordAssumption DEF Verify, TypeOK
  <2> QED
    BY <2>2, <2>3, <2>4 DEF Inv
<1>3. ASSUME NEW t \in Task, Damage(t)
      PROVE  Inv'
  <2>1. /\ files' \in [Task -> Record \cup {None, Damaged}]
        /\ files[t] \in Record /\ files'[t] = Damaged
        /\ \A u \in Task \ {t} : files'[u] = files[u]
    BY <1>3, <1>t DEF Damage, TypeOK
  <2>2. files[t] # None /\ files'[t] # None /\ files'[t] \notin Record
    BY <2>1, RecordAssumption, TaskAssumption
  <2>3. TypeOK'
    BY <1>3, <1>t, <1>f, <2>1 DEF Damage, TypeOK
  <2>4. MigrationInv'
    BY <1>3, <1>t, <2>1, <2>2 DEF Damage, MigrationInv, Legacy
  <2>5. CallInv' /\ MainInv'
    BY <1>3, <1>t, <2>1, <2>2, BetweenCalls, RecordAssumption DEF Damage, TypeOK
  <2> QED
    BY <2>3, <2>4, <2>5 DEF Inv
<1>4. ASSUME NEW t \in Task, Create(t) \/ Resume(t)
      PROVE  Inv'
  <2>1. PICK loaded \in Record \cup {None} :
          /\ call' = [at |-> "branch", task |-> t, loaded |-> loaded]
          /\ loaded = None => files[t] = None /\ rows[t] = None
          /\ loaded # None => Stored[t] = loaded
    <3>1. CASE Create(t)
      BY <3>1 DEF Create, Calling, Unused
    <3>2. CASE Resume(t)
      BY <3>2, RecordAssumption DEF Resume, Calling, Loadable
    <3> QED
      BY <1>4, <3>1, <3>2
  <2>2. call' \in Calls /\ call'.at = "branch" /\ call'.task = t /\ call'.loaded = loaded
    BY <2>1 DEF Calls
  <2>3. UNCHANGED <<git, files, moved, database, release, app, refused, faults, strayed>>
        /\ app = "ready"
    BY <1>4 DEF Create, Resume, Calling
  <2>4. TypeOK'
    BY <1>t, <2>2, <2>3 DEF TypeOK, Legacy
  <2>5. MigrationInv'
    BY <1>t, <2>3 DEF MigrationInv, Legacy
  <2>6. CallInv' /\ MainInv'
    BY <1>t, <2>1, <2>2, <2>3 DEF CallInv, MainInv, OfMain, Stored
  <2> QED
    BY <2>4, <2>5, <2>6 DEF Inv
<1>5. CASE ReadBranch \/ ReadHead
  <2>1. UNCHANGED <<git, files, moved, database, release, app, refused, faults, strayed>>
        /\ call.at \in {"branch", "head"} /\ call # NoCall
    BY <1>5, <1>n DEF ReadBranch, ReadHead, Calling
  <2>2. /\ call'.task = call.task /\ call'.loaded = call.loaded /\ call' # NoCall
        /\ call' \in Calls /\ call'.at \in {"head", "store"}
        /\ call'.at = "head" => branch = "main"
        /\ call'.at = "store" => call.at = "head" /\ call'.head = heads[branch]
    <3>1. CASE ReadBranch
      BY <1>t, <2>1, <3>1 DEF ReadBranch, Calling, OnMain, Calls, NoCall, TypeOK
    <3>2. CASE ReadHead
      BY <1>t, <2>1, <3>2 DEF ReadHead, Calling, Calls, NoCall, TypeOK
    <3> QED
      BY <1>5, <3>1, <3>2
  <2>3. TypeOK'
    BY <1>t, <2>1, <2>2 DEF TypeOK, Legacy
  <2>4. MigrationInv'
    BY <1>t, <2>1 DEF MigrationInv, Legacy
  <2>5. CallInv'
    BY <1>t, <2>1, <2>2 DEF CallInv, Stored
  <2>6. MainInv'
    BY <1>t, <2>1, <2>2 DEF MainInv, OfMain
  <2> QED
    BY <2>3, <2>4, <2>5, <2>6 DEF Inv
<1>6. CASE MainOnly \/ SameHead
  <2>1. UNCHANGED <<git, files, moved, database, release, app, refused, faults, strayed>>
        /\ call' = NoCall
    BY <1>6 DEF MainOnly, SameHead, Calling
  <2>2. TypeOK'
    BY <1>t, <1>n, <2>1 DEF TypeOK, Legacy
  <2>3. MigrationInv'
    BY <1>t, <2>1 DEF MigrationInv, Legacy
  <2>4. CallInv' /\ MainInv'
    BY <1>t, <1>n, <2>1 DEF CallInv, MainInv, OfMain
  <2> QED
    BY <2>2, <2>3, <2>4 DEF Inv
<1>7. CASE StoreNew \/ StoreMoved
  <2>1. /\ call.at = "store" /\ call # NoCall /\ app = "ready"
        /\ call.task \in Task /\ call.head \in Commit
    BY <1>7, <1>t, <1>n, CallTypes DEF StoreNew, StoreMoved
  <2>2. /\ UNCHANGED <<git, moved, version, marker, release, app, refused, faults, strayed>>
        /\ call' = NoCall
    BY <1>7 DEF StoreNew, StoreMoved, Calling
  <2>3. PICK r \in Record :
          /\ Put(call.task, r)
          /\ r.head = call.head
          /\ r.base = call.head \/ (Stored[call.task] \in Record /\ r.base = Stored[call.task].base)
    <3>1. CASE StoreNew
      BY <2>1, <3>1 DEF StoreNew, Unverified, Record
    <3>2. CASE StoreMoved
      <4>1. call.loaded \in Record /\ Stored[call.task] = call.loaded
        BY <1>t, <2>1, <3>2, CallTypes DEF StoreMoved, CallInv
      <4>2. Put(call.task, Refreshed(call.loaded, call.head))
        BY <3>2 DEF StoreMoved
      <4>3. /\ Refreshed(call.loaded, call.head) \in Record
            /\ Refreshed(call.loaded, call.head).head = call.head
            /\ Refreshed(call.loaded, call.head).base = call.loaded.base
        BY <2>1, <4>1, RecordOperations
      <4> QED
        BY <4>1, <4>2, <4>3
    <3> QED
      BY <1>7, <3>1, <3>2
  <2>4. /\ files' \in [Task -> Record \cup {None, Damaged}]
        /\ rows' \in [Task -> Record \cup {None}]
        /\ \A t \in Task : files'[t] \in {files[t], r} /\ rows'[t] \in {rows[t], r}
        /\ release = "json" => rows' = rows
        /\ release # "json" => files' = files
    BY <1>t, <2>1, <2>3 DEF Put, Save, InsertOrUpdate, TypeOK
  <2>5. r # None
    BY RecordAssumption
  <2>6. TypeOK'
    BY <1>t, <1>n, <2>1, <2>2, <2>4 DEF TypeOK, Legacy
  <2>7. MigrationInv'
    <3>1. CASE release = "json"
      <4>1. marker # "complete"
        BY <1>t, <3>1, TaskAssumption DEF MigrationInv
      <4> QED
        BY <1>t, <2>1, <2>2, <2>4, <3>1, <4>1 DEF MigrationInv
    <3>2. CASE release = "sqlite"
      <4>1. files' = files /\ marker = "complete"
            /\ \A t \in Task : rows[t] # None => rows'[t] # None
        BY <1>t, <2>1, <2>4, <2>5, <3>2 DEF MigrationInv
      <4> QED
        BY <1>t, <2>1, <2>2, <3>2, <4>1 DEF MigrationInv, Legacy, TypeOK
    <3> QED
      BY <1>t, <3>1, <3>2 DEF TypeOK
  <2>8. CallInv'
    BY <2>2 DEF CallInv
  <2>9. ~strayed => OfMain(r)
    BY <1>t, <2>1, <2>3 DEF MainInv, OfMain, Stored
  <2>10. MainInv'
    BY <1>t, <1>n, <2>2, <2>4, <2>9 DEF MainInv, OfMain
  <2> QED
    BY <2>6, <2>7, <2>8, <2>10 DEF Inv
<1> QED
  BY <1>1, <1>2, <1>3, <1>4, <1>5, <1>6, <1>7 DEF CallStep

LEMMA StepInv == Inv /\ [Next]_vars => Inv'
<1> SUFFICES ASSUME Inv, [Next]_vars
             PROVE  Inv'
  OBVIOUS
<1>1. CASE Next
  BY <1>1, GitInv, OpeningInv, TaskStepInv DEF Next
<1>2. CASE UNCHANGED vars
  <2>1. TypeOK'
    BY <1>2 DEF vars, Inv, TypeOK, Legacy
  <2>2. MigrationInv' /\ CallInv' /\ MainInv'
    BY <1>2 DEF vars, Inv, MigrationInv, CallInv, MainInv, Legacy, Stored, OfMain
  <2> QED
    BY <2>1, <2>2 DEF Inv
<1> QED
  BY <1>1, <1>2

LEMMA Invariant == Spec => []Inv
BY InitInv, StepInv, PTL DEF Spec

-----------------------------------------------------------------------------
(***************************************************************************)
(* Every reachable state is well typed, and a store of the second release  *)
(* that is open has no file of the first left (sqlite_store.go:268-337).   *)
(***************************************************************************)
THEOREM TypesHold == Spec => []TypeOK
<1>1. Inv => TypeOK
  BY DEF Inv
<1> QED
  BY <1>1, Invariant, PTL

(***************************************************************************)
(* Every commit a task names was one of main, unless the branch was left   *)
(* between the two questions of a snapshot (taskstate.go:524-531).         *)
(***************************************************************************)
THEOREM TasksAreOfMain == Spec => []TasksAreOfMainUnlessStrayed
<1>1. Inv => TasksAreOfMainUnlessStrayed
  BY DEF Inv, MainInv, OfMain, TasksAreOfMainUnlessStrayed
<1> QED
  BY <1>1, Invariant, PTL

\* A refusal, and what it was for.
RefusedInv == Inv /\ RefusedOnlyHalfRenamed

LEMMA RefusalsInv == RefusedInv /\ [Next]_vars => RefusedInv'
<1> SUFFICES ASSUME RefusedInv, [Next]_vars, refused'
             PROVE  RefusedOnlyHalfRenamed'
  BY StepInv DEF RefusedInv, RefusedOnlyHalfRenamed
<1>t. TypeOK /\ MigrationInv /\ RefusedOnlyHalfRenamed
  BY DEF RefusedInv, Inv
<1>1. CASE RefuseLegacy
  <2>1. UNCHANGED <<files, rows, marker>>
    BY <1>1 DEF RefuseLegacy, database
  <2>2. (marker = "complete" /\ Legacy # {}) \/ \E t \in Legacy : files[t] = Damaged
    BY <1>1, <1>t, TaskAssumption DEF RefuseLegacy, Intact, MigrationInv
  <2>3. marker = "complete" => \A t \in Legacy : rows[t] # None
    BY <1>t DEF MigrationInv
  <2> QED
    BY <2>1, <2>2, <2>3 DEF RefusedOnlyHalfRenamed, Legacy
<1>2. CASE Next /\ ~RefuseLegacy
  <2>1. refused /\ UNCHANGED <<rows, marker>>
        /\ (UNCHANGED files \/ \E t \in Task : files' = [files EXCEPT ![t] = Damaged])
    BY <1>2, <1>t, CallTypes
    DEF Next, Opening, CallStep, OpenJSON, OpenSQLite, ApplyMigrations, ValidateMetadata,
        NothingToMigrate, ImportLegacy, Opened, RenameLegacy, RequireMain, OtherBranch, Goes,
        Close, Stop, Verify, Damage, Create, Resume, ReadBranch, MainOnly, ReadHead, StoreNew,
        StoreMoved, SameHead, CallFails, CommitOn, Checkout, Calling, MigrationInv, database
  <2>2. CASE UNCHANGED files
    BY <1>t, <2>1, <2>2 DEF RefusedOnlyHalfRenamed, Legacy
  <2>3. CASE \E t \in Task : files' = [files EXCEPT ![t] = Damaged]
    BY <1>t, <2>3 DEF RefusedOnlyHalfRenamed, TypeOK
  <2> QED
    BY <2>1, <2>2, <2>3
<1>3. CASE UNCHANGED vars
  BY <1>3, <1>t DEF vars, RefusedOnlyHalfRenamed, Legacy
<1> QED
  BY <1>1, <1>2, <1>3

(***************************************************************************)
(* An opening is refused only for a damaged file, or because an earlier    *)
(* one was interrupted while it renamed the files it had imported          *)
(* (sqlite_store.go:284-288, 323-330).                                     *)
(***************************************************************************)
THEOREM RefusalsAreExplained == Spec => []RefusedOnlyHalfRenamed
<1>1. Init => RefusedInv
  BY InitInv DEF Init, RefusedInv, RefusedOnlyHalfRenamed
<1>2. RefusedInv => RefusedOnlyHalfRenamed
  BY DEF RefusedInv
<1> QED
  BY <1>1, <1>2, RefusalsInv, PTL DEF Spec

-----------------------------------------------------------------------------
(* The table of tasks.                                                     *)

Tasks == [t \in Task |-> IF rows[t] # None THEN rows[t] ELSE files[t]]

LEMMA InitTable == Init => Table!Init
BY DEF Init, Table!Init

\* A step after which each task is where it was, or in the other store.
LEMMA SameTable ==
  ASSUME \A t \in Task : (IF rows'[t] # None THEN rows'[t] ELSE files'[t])
                         = (IF rows[t] # None THEN rows[t] ELSE files[t])
  PROVE  Tasks' = Tasks
BY DEF Tasks

\* A step that puts a record where the task is.
LEMMA OneTask ==
  ASSUME NEW t \in Task, NEW r, r # None,
         (IF rows'[t] # None THEN rows'[t] ELSE files'[t]) = r,
         \A u \in Task \ {t} : rows'[u] = rows[u] /\ files'[u] = files[u]
  PROVE  Tasks' = [Tasks EXCEPT ![t] = r]
BY DEF Tasks

LEMMA StepSimulation == Inv /\ [Next]_vars => [Table!Next]_Tasks
<1> SUFFICES ASSUME Inv, [Next]_vars
             PROVE  Table!Next \/ Tasks' = Tasks
  OBVIOUS
<1> USE DEF database
<1>t. TypeOK /\ MigrationInv /\ CallInv
  BY DEF Inv
<1>n. None # Damaged /\ None \notin Record /\ Damaged \notin Record
  BY TaskAssumption, RecordAssumption
<1>j. release = "json" => \A t \in Task : rows[t] = None
  BY <1>t, TaskAssumption DEF MigrationInv
<1>u. UNCHANGED <<files, rows>> => Tasks' = Tasks
  BY DEF Tasks
<1>1. CASE Opening
  <2>1. CASE ImportLegacy
    BY <2>1, SameTable DEF ImportLegacy
  <2>2. ASSUME NEW t \in Task, RenameLegacy(t)
        PROVE  Tasks' = Tasks
    <3>1. rows[t] # None
      BY <2>2, <1>t DEF RenameLegacy, Goes, MigrationInv, TypeOK
    <3>2. rows' = rows /\ \A u \in Task \ {t} : files'[u] = files[u]
      BY <2>2, <1>t DEF RenameLegacy, TypeOK
    <3> QED
      BY <3>1, <3>2, SameTable
  <2> QED
    BY <1>1, <1>u, <2>1, <2>2
    DEF Opening, OpenJSON, OpenSQLite, ApplyMigrations, ValidateMetadata, RefuseLegacy,
        NothingToMigrate, Opened, RequireMain, OtherBranch
<1>2. ASSUME NEW t \in Task, Verify(t)
      PROVE  Table!Next
  <2>1. files[t] \in Record /\ rows[t] = None /\ rows' = rows
        /\ files' = [files EXCEPT ![t] = [files[t] EXCEPT !.verified = files[t].head,
                                                           !.state = "GREEN"]]
    BY <1>2, <1>j DEF Verify
  <2>2. PICK r : r = [files[t] EXCEPT !.verified = files[t].head, !.state = "GREEN"]
    OBVIOUS
  <2>3. r \in Record
    BY <2>1, <2>2 DEF Record
  <2>4. Tasks[t] = files[t] /\ Tasks' = [Tasks EXCEPT ![t] = r]
    BY <1>t, <1>n, <2>1, <2>2, <2>3, OneTask DEF TypeOK, Tasks
  <2>5. Table!Verify(t)
    BY <1>n, <2>1, <2>2, <2>4 DEF Table!Verify, Table!Live, Table!Becomes, Tasks
  <2> QED
    BY <2>5 DEF Table!Next
<1>3. ASSUME NEW t \in Task, Damage(t)
      PROVE  Table!Next \/ Tasks' = Tasks
  <2>1. files[t] \in Record /\ rows' = rows /\ files' = [files EXCEPT ![t] = Damaged]
    BY <1>3 DEF Damage
  <2>2. CASE rows[t] # None
    BY <1>t, <2>1, <2>2, SameTable DEF TypeOK
  <2>3. CASE rows[t] = None
    <3>1. Tasks[t] = files[t] /\ Tasks' = [Tasks EXCEPT ![t] = Damaged]
      BY <1>t, <1>n, <2>1, <2>3, OneTask DEF TypeOK, Tasks
    <3>2. Table!Damage(t)
      BY <1>n, <2>1, <3>1 DEF Table!Damage, Table!Live, Table!Becomes, Tasks
    <3> QED
      BY <3>2 DEF Table!Next
  <2> QED
    BY <2>2, <2>3
<1>4. ASSUME StoreNew \/ StoreMoved,
             NEW r \in Record, Put(call.task, r)
      PROVE  Tasks' = [Tasks EXCEPT ![call.task] = r] /\ call.task \in Task
  <2>1. call.task \in Task /\ app = "ready"
    BY <1>4, <1>t, CallTypes DEF StoreNew, StoreMoved, NoCall
  <2>2. CASE release = "json"
    <3>1. files' = [files EXCEPT ![call.task] = r] /\ rows' = rows
      BY <1>4, <2>2 DEF Put, Save
    <3> QED
      BY <1>t, <1>n, <1>j, <2>1, <2>2, <3>1, OneTask DEF TypeOK
  <2>3. CASE release = "sqlite"
    <3>1. rows' = [rows EXCEPT ![call.task] = r] /\ files' = files
      BY <1>4, <2>3 DEF Put, InsertOrUpdate
    <3> QED
      BY <1>t, <1>n, <2>1, <3>1, OneTask DEF TypeOK
  <2> QED
    BY <1>t, <2>2, <2>3, <2>1 DEF TypeOK
<1>5. CASE StoreNew
  <2>1. call.at = "store" /\ call.loaded = None /\ call # NoCall /\ call.head \in Commit
    BY <1>5, <1>t, CallTypes DEF StoreNew, NoCall
  <2>2. PICK c \in Commit : c = call.head
    BY <2>1
  <2>3. PICK t : t = call.task
    OBVIOUS
  <2>4. Put(t, Unverified(c)) /\ Unverified(c) \in Record
    BY <1>5, <2>2, <2>3 DEF StoreNew, Unverified, Record
  <2>5. t \in Task /\ Tasks' = [Tasks EXCEPT ![t] = Unverified(c)]
    BY <1>4, <1>5, <2>3, <2>4
  <2>6. Tasks[t] = None
    BY <1>t, <2>1, <2>3, <2>5 DEF CallInv, Tasks
  <2>7. Table!Add(t, c)
    BY <2>5, <2>6 DEF Table!Add, Table!Becomes, Unverified, Tasks
  <2> QED
    BY <2>5, <2>7 DEF Table!Next
<1>6. CASE StoreMoved
  <2>1. call.at = "store" /\ call.loaded \in Record /\ call # NoCall /\ call.head \in Commit
        /\ Stored[call.task] = call.loaded /\ call.head # call.loaded.head
        /\ Put(call.task, Refreshed(call.loaded, call.head))
    BY <1>6, <1>t, CallTypes DEF StoreMoved, NoCall, CallInv
  <2>2. PICK c \in Commit : c = call.head
    BY <2>1
  <2>3. PICK t : t = call.task
    OBVIOUS
  <2>4. Refreshed(call.loaded, c) \in Record
    BY <2>1, <2>2, RecordOperations
  <2>5. t \in Task /\ Tasks' = [Tasks EXCEPT ![t] = Refreshed(call.loaded, c)]
    BY <1>4, <1>6, <2>1, <2>2, <2>3, <2>4
  <2>6. Tasks[t] = call.loaded
    BY <1>t, <1>n, <1>j, <2>1, <2>3, <2>5 DEF Stored, Tasks, TypeOK
  <2>7. Table!Move(t, c)
    BY <1>n, <2>1, <2>2, <2>5, <2>6 DEF Table!Move, Table!Live, Table!Becomes, Refreshed, Tasks
  <2> QED
    BY <2>5, <2>7 DEF Table!Next
<1>7. CASE \/ \E c \in Commit : CommitOn(c)
           \/ \E b \in Branch : Checkout(b)
           \/ Close \/ Stop \/ CallFails
           \/ \E t \in Task : Create(t) \/ Resume(t)
           \/ ReadBranch \/ MainOnly \/ ReadHead \/ SameHead
           \/ UNCHANGED vars
  BY <1>7, <1>u
  DEF CommitOn, Checkout, Close, Stop, CallFails, Create, Resume, ReadBranch, MainOnly, ReadHead,
      SameHead, vars
<1> QED
  BY <1>1, <1>2, <1>3, <1>5, <1>6, <1>7 DEF Next, CallStep

(***************************************************************************)
(* For any number of tasks, commits, crashes and changes of branch, the    *)
(* two stores together are the table of tasks: the migration neither       *)
(* loses, repeats nor changes one (sqlite_store.go:268-337).               *)
(***************************************************************************)
THEOREM StoresAreOneTable == Spec => ImplementsTaskTable
<1>1. Inv /\ [Next]_vars => [Table!Next]_Tasks
  BY StepSimulation
<1> QED
  BY <1>1, InitTable, Invariant, PTL DEF Spec, ImplementsTaskTable, Table!Spec, Tasks
=============================================================================
