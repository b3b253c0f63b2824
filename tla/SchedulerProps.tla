--------------------------- MODULE SchedulerProps ---------------------------
(***************************************************************************)
(* The properties of Scheduler that the runs check.                        *)
(***************************************************************************)
EXTENDS Scheduler, Folds

Executing == {j \in Job : goroutine[j] = "executing"}

\* What the jobs that really execute take from a budget.
Load(b) == MapThenFoldSet(LAMBDA x, y : x + y, 0,
                          LAMBDA j : Cost[b][j],
                          LAMBDA js : CHOOSE j \in js : TRUE,
                          Executing)

(***************************************************************************)
(* No budget is ever overdrawn by the goroutines that execute: the         *)
(* counters Run keeps by adding and subtracting never fall behind what is  *)
(* really running, whatever fails and in whatever order results arrive.    *)
(***************************************************************************)
BudgetsHold == \A b \in Budget : Load(b) <= Limit[b]

(***************************************************************************)
(* A job executes only after every job it depends on has returned          *)
(* (scheduler.go:152-153).                                                 *)
(***************************************************************************)
DependenciesFirst ==
  \A j \in Executing : \A d \in DependsOn[j] :
    d \in jobs /\ goroutine[d] \in {"sent", "ended"}

(***************************************************************************)
(* "the scheduler drains them before returning" (ADR 0005): when Run has   *)
(* returned no goroutine of it is left, on any of its ways out.            *)
(***************************************************************************)
ReturnsDrained == at = "idle" => \A j \in Job : goroutine[j] \in {"none", "ended"}

(***************************************************************************)
(* Run returns nil only if every job of the graph ran and none failed.     *)
(***************************************************************************)
NilMeansAllSucceeded ==
  [][at = "wait" /\ at' = "idle" /\ returned' = Nil =>
       /\ failed \cap jobs = {}
       /\ \A j \in jobs : goroutine[j] = "ended"]_vars

(***************************************************************************)
(* Run returns, although the context stays done and select may choose it   *)
(* again and again.                                                        *)
(***************************************************************************)
RunReturns == at # "idle" ~> at = "idle"
=============================================================================
