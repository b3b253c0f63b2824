------------------------------ MODULE Scheduler ------------------------------
(***************************************************************************)
(* internal/scheduler/scheduler.go: a bounded queue of jobs, run as a      *)
(* closed dependency graph.  The loop of Run, the goroutines it starts,    *)
(* the errgroup around them and the caller's cancellation interleave.      *)
(*                                                                         *)
(* Every limit of the code is a budget: CPU and memory of the host, of a   *)
(* task and of a runtime, the jobs at once of each of these and of a       *)
(* class, and MaxConcurrent.  Cost[b][j] is what job j takes from budget   *)
(* b: an amount, 1 where b counts jobs, 0 where j is outside its scope.    *)
(***************************************************************************)
EXTENDS Naturals, FiniteSets

CONSTANTS
  Job,          \* job ids, numbered in the order sort.SliceStable gives ties
  DependsOn,    \* the jobs a job depends on
  Class,        \* the class of a job
  Weight,       \* the weight of a class
  Budget,
  Cost,         \* [Budget -> [Job -> Nat]]
  Limit,        \* [Budget -> Nat]
  Pressure,     \* whether the host's pressure is sampled
  MaxQueued

ASSUME ConfigAssumption ==
  /\ Job \subseteq Nat /\ IsFiniteSet(Job)
  /\ DependsOn \in [Job -> SUBSET Nat]
  /\ Weight \in [{Class[j] : j \in Job} -> Nat \ {0}]
  /\ Cost \in [Budget -> [Job -> Nat]]
  /\ Limit \in [Budget -> Nat]
  /\ Pressure \in BOOLEAN
  /\ MaxQueued \in Nat

ClassName == {Class[j] : j \in Job}

\* What Run may return.
Nil == <<>>
JobError(j) == <<"job", j>>
Canceled == <<"canceled">>
Unschedulable == <<"unschedulable">>
Rejected == <<"rejected">>

Error == {JobError(j) : j \in Job} \cup {Canceled, Unschedulable, Rejected}

VARIABLES
  queued,      \* Scheduler.queued
  jobs,        \* the jobs of the current run
  at,          \* where Run is
  state,       \* Run's own view of its jobs
  goroutine,   \* what became of a job's goroutine
  failed,      \* the jobs whose goroutine has an error
  used,        \* Run's counters, per budget
  served,      \* jobs launched per class
  canceled,    \* runCtx is done
  asked,       \* the caller canceled its context
  groupErr,    \* the errgroup's first error
  firstErr,
  returned     \* what the last run returned

vars == <<queued, jobs, at, state, goroutine, failed, used, served,
          canceled, asked, groupErr, firstErr, returned>>

TypeOK ==
  /\ queued \subseteq Job
  /\ jobs \subseteq Job
  /\ at \in {"idle", "top", "dispatch", "select", "wait"}
  /\ state \in [Job -> {"pending", "running", "done"}]
  /\ goroutine \in [Job -> {"none", "executing", "sent", "ended"}]
  /\ failed \subseteq Job
  /\ used \in [Budget -> Nat]
  /\ served \in [ClassName -> Nat]
  /\ canceled \in BOOLEAN /\ asked \in BOOLEAN
  /\ groupErr \in {JobError(j) : j \in Job} \cup {Nil}
  /\ firstErr \in Error \cup {Nil}
  /\ returned \in Error \cup {Nil}

Init ==
  /\ queued = {}
  /\ jobs = {}
  /\ at = "idle"
  /\ state = [j \in Job |-> "pending"]
  /\ goroutine = [j \in Job |-> "none"]
  /\ failed = {}
  /\ used = [b \in Budget |-> 0]
  /\ served = [c \in ClassName |-> 0]
  /\ canceled = FALSE /\ asked = FALSE
  /\ groupErr = Nil
  /\ firstErr = Nil
  /\ returned = Nil

-----------------------------------------------------------------------------
(* Submit and RunSubmitted.                                                *)

\* validateGraph: a closed graph in which no jobs wait for each other.
ValidGraph(js) ==
  /\ \A j \in js : DependsOn[j] \subseteq js
  /\ \A ring \in SUBSET js \ {{}} : \E j \in ring : DependsOn[j] \cap ring = {}

Submit(j) ==
  /\ at = "idle"
  /\ Cardinality(queued) < MaxQueued
  /\ j \notin queued
  /\ queued' = queued \cup {j}
  /\ UNCHANGED <<jobs, at, state, goroutine, failed, used, served, canceled, asked,
                 groupErr, firstErr, returned>>

\* The queue is emptied, and Run sets out with everything at zero.
RunSubmitted ==
  /\ at = "idle"
  /\ queued # {} /\ ValidGraph(queued)
  /\ jobs' = queued
  /\ queued' = {}
  /\ at' = "top"
  /\ state' = [j \in Job |-> "pending"]
  /\ goroutine' = [j \in Job |-> "none"]
  /\ failed' = {}
  /\ used' = [b \in Budget |-> 0]
  /\ served' = [c \in ClassName |-> 0]
  /\ canceled' = FALSE /\ asked' = FALSE
  /\ groupErr' = Nil /\ firstErr' = Nil
  /\ UNCHANGED returned

\* An invalid graph is refused, and its jobs are no longer queued.
RunRejected ==
  /\ at = "idle"
  /\ ~ValidGraph(queued)
  /\ queued' = {}
  /\ returned' = Rejected
  /\ UNCHANGED <<jobs, at, state, goroutine, failed, used, served, canceled, asked,
                 groupErr, firstErr>>

-----------------------------------------------------------------------------
(* The loop of Run.                                                        *)

Active == {j \in jobs : state[j] = "running"}

ReadyOnceLaunched(j) ==
  /\ j \in jobs /\ state[j] = "pending"
  /\ \A d \in DependsOn[j] : state[d] # "pending"

\* readyJobs: pending, and everything it depends on is done.
Ready(j) ==
  /\ j \in jobs /\ state[j] = "pending"
  /\ \A d \in DependsOn[j] : state[d] = "done"

FitsBeforeItself(j) == \A b \in Budget : used[b] <= Limit[b]

Fits(j) == \A b \in Budget : used[b] + Cost[b][j] <= Limit[b]

\* chooseReady's order: jobs served relative to the weight, then the id.
Before(i, j) ==
  LET left == served[Class[i]] * Weight[Class[j]]
      right == served[Class[j]] * Weight[Class[i]]
  IN  left < right \/ (left = right /\ i < j)

\* The first ready job that fits; the host's pressure may pass over any.
Chosen(j) ==
  /\ Ready(j) /\ Fits(j)
  /\ ~Pressure => \A i \in jobs : Ready(i) /\ Fits(i) => ~Before(i, j)

\* The error a canceled context leaves when there is none before it.
NoteCanceled == firstErr' = IF canceled /\ firstErr = Nil THEN Canceled ELSE firstErr

CheckContext ==
  /\ at = "top"
  /\ NoteCanceled
  /\ at' = "dispatch"
  /\ UNCHANGED <<queued, jobs, state, goroutine, failed, used, served, canceled,
                 asked, groupErr, returned>>

Launch(j) ==
  /\ at = "dispatch"
  /\ Chosen(j)
  /\ state' = [state EXCEPT ![j] = "running"]
  /\ goroutine' = [goroutine EXCEPT ![j] = "executing"]
  /\ used' = [b \in Budget |-> used[b] + Cost[b][j]]
  /\ served' = [served EXCEPT ![Class[j]] = @ + 1]
  /\ UNCHANGED <<queued, jobs, at, failed, canceled, asked, groupErr, firstErr, returned>>

StuckSilently == firstErr

\* The error of a run in which no remaining job is ever admitted.
Stuck == IF firstErr = Nil THEN Unschedulable ELSE firstErr

\* Nothing more is admitted.  With nothing active either, the run is over.
DispatchEnds ==
  /\ at = "dispatch"
  /\ Pressure \/ \A j \in jobs : ~Chosen(j)
  /\ IF Active # {}
     THEN at' = "select" /\ UNCHANGED <<canceled, firstErr>>
     ELSE /\ at' = "wait"
          /\ canceled' = TRUE
          /\ firstErr' = Stuck
  /\ UNCHANGED <<queued, jobs, state, goroutine, failed, used, served, asked,
                 groupErr, returned>>

ReleasedTwice(j) == [b \in Budget |-> used[b] - 2 * Cost[b][j]]

\* The counters without job j.
Released(j) == [b \in Budget |-> used[b] - Cost[b][j]]

\* select: the result of a job.
Receive(j) ==
  /\ at = "select"
  /\ state[j] = "running" /\ goroutine[j] \in {"sent", "ended"}
  /\ state' = [state EXCEPT ![j] = "done"]
  /\ used' = Released(j)
  /\ IF j \in failed /\ firstErr = Nil
     THEN firstErr' = JobError(j) /\ canceled' = TRUE
     ELSE UNCHANGED <<firstErr, canceled>>
  /\ at' = IF \A i \in jobs \ {j} : state[i] = "done" THEN "wait" ELSE "top"
  /\ UNCHANGED <<queued, jobs, goroutine, failed, served, asked, groupErr, returned>>

\* select: the context is done; nothing stops it from being chosen again.
ContextDone ==
  /\ at = "select" /\ canceled
  /\ NoteCanceled
  /\ at' = "top"
  /\ UNCHANGED <<queued, jobs, state, goroutine, failed, used, served, canceled,
                 asked, groupErr, returned>>

NoneAwaited == TRUE
EveryJobEnded == \A j \in jobs : goroutine[j] = "ended"

\* group.Wait: every goroutine has ended.
AllEnded == \A j \in jobs : goroutine[j] \in {"none", "ended"}

Return ==
  /\ at = "wait"
  /\ AllEnded
  /\ returned' = IF firstErr = Nil THEN groupErr ELSE firstErr
  /\ at' = "idle"
  /\ UNCHANGED <<queued, jobs, state, goroutine, failed, used, served, canceled,
                 asked, groupErr, firstErr>>

-----------------------------------------------------------------------------
(* The goroutines of the jobs, and the caller.                             *)

\* The job's Run is over and its result is in the channel.
Send(j, error) ==
  /\ goroutine[j] = "executing"
  /\ goroutine' = [goroutine EXCEPT ![j] = "sent"]
  /\ failed' = IF error THEN failed \cup {j} ELSE failed
  /\ UNCHANGED <<queued, jobs, at, state, used, served, canceled, asked, groupErr,
                 firstErr, returned>>

\* The goroutine ends; the errgroup keeps the first error and cancels.
End(j) ==
  /\ goroutine[j] = "sent"
  /\ goroutine' = [goroutine EXCEPT ![j] = "ended"]
  /\ IF j \in failed /\ groupErr = Nil
     THEN groupErr' = JobError(j) /\ canceled' = TRUE
     ELSE UNCHANGED <<groupErr, canceled>>
  /\ UNCHANGED <<queued, jobs, at, state, failed, used, served, asked, firstErr, returned>>

CallerCancels ==
  /\ at # "idle" /\ ~asked
  /\ asked' = TRUE /\ canceled' = TRUE
  /\ UNCHANGED <<queued, jobs, at, state, goroutine, failed, used, served, groupErr,
                 firstErr, returned>>

-----------------------------------------------------------------------------
LoopStep ==
  \/ CheckContext
  \/ \E j \in Job : Launch(j)
  \/ DispatchEnds
  \/ ContextDone
  \/ Return

JobStep == \E j \in Job : End(j) \/ \E error \in BOOLEAN : Send(j, error)

Next ==
  \/ \E j \in Job : Submit(j)
  \/ RunSubmitted \/ RunRejected
  \/ LoopStep \/ (\E j \in Job : Receive(j))
  \/ JobStep
  \/ CallerCancels

Spec == Init /\ [][Next]_vars

\* Goroutines run; jobs end; and select, which picks at random among what is
\* ready, does not pass over a result for ever.
FairSpec ==
  /\ Spec
  /\ WF_vars(LoopStep)
  /\ \A j \in Job : SF_vars(Receive(j)) /\ WF_vars(End(j))
  /\ \A j \in Job : WF_vars(Send(j, TRUE) \/ Send(j, FALSE))
=============================================================================
