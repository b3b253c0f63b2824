----------------------------- MODULE TaskStoreProps -----------------------------
(***************************************************************************)
(* The properties of TaskStore that the run checks.                        *)
(***************************************************************************)
EXTENDS TaskStore

(***************************************************************************)
(* Whatever is interrupted, the two stores together are the table of       *)
(* tasks: moving the files into the database (sqlite_store.go:268-337)     *)
(* neither loses, repeats nor changes a task, and a task whose head moved  *)
(* is RED until it is verified (taskstate.go:257-260, sqlite_store.go:     *)
(* 459-462).                                                               *)
(***************************************************************************)
Table == INSTANCE TaskTable WITH
  tasks <- [t \in Task |-> IF rows[t] # None THEN rows[t] ELSE files[t]]

ImplementsTaskTable == Table!Spec

(***************************************************************************)
(* The commits a task names were commits of main, unless the branch was    *)
(* changed between the two questions of one snapshot (taskstate.go:        *)
(* 524-531), which nothing prevents.                                       *)
(***************************************************************************)
TasksAreOfMainUnlessStrayed ==
  ~strayed =>
    \A t \in Task : \A r \in {files[t], rows[t]} \cap Record : {r.base, r.head} \subseteq mainHeads

(***************************************************************************)
(* Opening may be interrupted anywhere and started again; it is refused    *)
(* only for a damaged file, or when it was interrupted after the import    *)
(* and before the last file was renamed (sqlite_store.go:284-288,          *)
(* 323-330), and then each file left has its row.                          *)
(***************************************************************************)
RefusedOnlyHalfRenamed ==
  refused => \/ \E t \in Task : files[t] = Damaged
             \/ marker = "complete" /\ Legacy # {} /\ \A t \in Legacy : rows[t] # None
=============================================================================
