--------------------------- MODULE SchedulerProofs ---------------------------
(***************************************************************************)
(* Theorems about Scheduler, for every graph, every set of budgets and     *)
(* every pressure of the host.  That the counters add up is an induction   *)
(* over the jobs that run: a sum is the number of units it counts, and a   *)
(* set that is no exception but has one among its subsets has a smallest.  *)
(***************************************************************************)
EXTENDS SchedulerProps, FiniteSetTheorems, TLAPS

\* Types, without the counters: these facts need no arithmetic.
Shape ==
  /\ jobs \subseteq Job /\ queued \subseteq Job
  /\ at \in {"idle", "top", "dispatch", "select", "wait"}
  /\ state \in [Job -> {"pending", "running", "done"}]
  /\ goroutine \in [Job -> {"none", "executing", "sent", "ended"}]
  /\ failed \subseteq Job

\* Run's view of a job and the job's goroutine agree.
ViewsAgree ==
  \A j \in Job :
    /\ state[j] = "pending" <=> goroutine[j] = "none"
    /\ state[j] = "done" => goroutine[j] \in {"sent", "ended"}
    /\ j \notin jobs => state[j] = "pending"
    /\ j \in failed => goroutine[j] \in {"sent", "ended"}

\* The graph is closed, and what was launched had its dependencies done.
LaunchedInOrder ==
  /\ \A j \in jobs : DependsOn[j] \subseteq jobs
  /\ \A j \in jobs : state[j] # "pending" => \A d \in DependsOn[j] : state[d] = "done"

\* No error goes unrecorded: a failed goroutine that has ended is in the
\* errgroup, and Run ends without an error of its own only when all is done.
ErrorsRecorded ==
  /\ \A j \in failed : goroutine[j] = "ended" => groupErr # Nil
  /\ at = "wait" /\ firstErr = Nil => \A j \in jobs : state[j] = "done"

SchedulerInv ==
  /\ Shape
  /\ ViewsAgree
  /\ LaunchedInOrder
  /\ ErrorsRecorded
  /\ ReturnsDrained

-----------------------------------------------------------------------------
\* An error is not the absence of one.
LEMMA ErrorsAreNotNil ==
  /\ \A j \in Job : JobError(j) # Nil
  /\ Unschedulable # Nil
BY DEF JobError, Unschedulable, Nil

LEMMA InitInv == Init => SchedulerInv
BY DEF Init, SchedulerInv, Shape, ViewsAgree, LaunchedInOrder, ErrorsRecorded, ReturnsDrained

LEMMA StepInv == SchedulerInv /\ [Next]_vars => SchedulerInv'
<1> SUFFICES ASSUME SchedulerInv, [Next]_vars
             PROVE  SchedulerInv'
  OBVIOUS
<1> USE ErrorsAreNotNil DEF SchedulerInv, Shape, ViewsAgree, LaunchedInOrder, ErrorsRecorded,
                            ReturnsDrained
<1>1. ASSUME NEW j \in Job, Submit(j)
      PROVE  SchedulerInv'
  BY <1>1 DEF Submit
<1>2. CASE RunSubmitted
  BY <1>2 DEF RunSubmitted, ValidGraph
<1>3. CASE RunRejected
  BY <1>3 DEF RunRejected
<1>4. CASE CheckContext
  BY <1>4 DEF CheckContext
<1>5. ASSUME NEW j \in Job, Launch(j)
      PROVE  SchedulerInv'
  BY <1>5 DEF Launch, Chosen, Ready
<1>6. CASE DispatchEnds
  BY <1>6 DEF DispatchEnds, Stuck
<1>7. ASSUME NEW j \in Job, Receive(j)
      PROVE  SchedulerInv'
  BY <1>7 DEF Receive
<1>8. CASE ContextDone
  BY <1>8 DEF ContextDone
<1>9. CASE Return
  BY <1>9 DEF Return, AllEnded
<1>10. ASSUME NEW j \in Job, NEW error \in BOOLEAN, Send(j, error)
       PROVE  SchedulerInv'
  BY <1>10 DEF Send
<1>11. ASSUME NEW j \in Job, End(j)
       PROVE  SchedulerInv'
  BY <1>11 DEF End
<1>12. CASE CallerCancels
  BY <1>12 DEF CallerCancels
<1>13. CASE UNCHANGED vars
  BY <1>13 DEF vars
<1> QED
  BY <1>1, <1>2, <1>3, <1>4, <1>5, <1>6, <1>7, <1>8, <1>9, <1>10, <1>11, <1>12, <1>13
  DEF Next, LoopStep, JobStep

LEMMA InvHolds == Spec => []SchedulerInv
BY InitInv, StepInv, PTL DEF Spec

-----------------------------------------------------------------------------
(* Sums over finite sets.                                                  *)

\* The units of the elements of s, one by one.
UnitsOf(size, s) == UNION {{x} \X (1 .. size[x]) : x \in s}

Sum(size, s) == MapThenFoldSet(LAMBDA x, y : x + y, 0, LAMBDA x : size[x],
                               LAMBDA t : CHOOSE x \in t : TRUE, s)

\* One element more.
LEMMA OneMore ==
  ASSUME NEW size, NEW s, NEW x, x \notin s, size[x] \in Nat, IsFiniteSet(UnitsOf(size, s))
  PROVE  /\ IsFiniteSet(UnitsOf(size, s \cup {x}))
         /\ Cardinality(UnitsOf(size, s \cup {x})) = Cardinality(UnitsOf(size, s)) + size[x]
<1> DEFINE more == {x} \X (1 .. size[x])
<1>1. UnitsOf(size, s \cup {x}) = UnitsOf(size, s) \cup more
  BY DEF UnitsOf
<1>2. UnitsOf(size, s) \cap more = {}
  BY DEF UnitsOf
<1>3. IsFiniteSet(1 .. size[x]) /\ Cardinality(1 .. size[x]) = size[x]
  <2>1. 1 \in Int /\ size[x] \in Int
    OBVIOUS
  <2>2. /\ IsFiniteSet(1 .. size[x])
        /\ Cardinality(1 .. size[x]) = IF 1 > size[x] THEN 0 ELSE size[x] - 1 + 1
    BY <2>1, FS_Interval
  <2> QED
    BY <2>2
<1>4. IsFiniteSet({x}) /\ Cardinality({x}) = 1
  BY FS_Singleton
<1>5. IsFiniteSet(more) /\ Cardinality(more) = size[x]
  <2>1. /\ IsFiniteSet(more)
        /\ Cardinality(more) = Cardinality({x}) * Cardinality(1 .. size[x])
    BY <1>3, <1>4, FS_Product
  <2>2. Cardinality({x}) * Cardinality(1 .. size[x]) = 1 * size[x]
    BY <1>3, <1>4
  <2>3. 1 * size[x] = size[x]
    OBVIOUS
  <2> QED
    BY <2>1, <2>2, <2>3
<1>6. Cardinality(UnitsOf(size, s)) \in Nat /\ Cardinality({}) = 0
  BY FS_CardinalityType, FS_EmptySet
<1> HIDE DEF more
<1>7. /\ IsFiniteSet(UnitsOf(size, s) \cup more)
      /\ Cardinality(UnitsOf(size, s) \cup more)
           = Cardinality(UnitsOf(size, s)) + Cardinality(more) - Cardinality(UnitsOf(size, s) \cap more)
  BY <1>5, FS_Union
<1>8. Cardinality(UnitsOf(size, s) \cap more) = 0
  BY <1>2, <1>6
<1>9. Cardinality(UnitsOf(size, s)) + size[x] - 0 = Cardinality(UnitsOf(size, s)) + size[x]
  BY <1>6
<1>10. Cardinality(UnitsOf(size, s \cup {x})) = Cardinality(UnitsOf(size, s)) + size[x] - 0
  BY <1>1, <1>5, <1>7, <1>8
<1>11. IsFiniteSet(UnitsOf(size, s \cup {x}))
  BY <1>1, <1>7
<1> QED
  BY <1>9, <1>10, <1>11

\* Induction over finite sets, without a predicate as a parameter.
LEMMA SmallestSubset ==
  ASSUME NEW S, IsFiniteSet(S), NEW T, T \subseteq SUBSET S, T # {}
  PROVE  \E s \in T : \A x \in s : s \ {x} \notin T
<1>1. IsWellFoundedOn(StrictSubsetOrdering(S), SUBSET S)
  BY FS_StrictSubsetOrderingWellFounded, FS_FiniteSubsetsOfFinite
<1>2. PICK s \in T : \A t \in T : <<t, s>> \notin StrictSubsetOrdering(S)
  BY <1>1, WFMin
<1>3. \A x \in s : <<s \ {x}, s>> \in StrictSubsetOrdering(S)
  BY DEF StrictSubsetOrdering
<1> QED
  BY <1>2, <1>3

\* Finitely many sizes have finitely many units.
LEMMA UnitsAreFinite ==
  ASSUME NEW S, IsFiniteSet(S), NEW size, \A x \in S : size[x] \in Nat
  PROVE  \A s \in SUBSET S : IsFiniteSet(UnitsOf(size, s))
<1> DEFINE T == {s \in SUBSET S : ~IsFiniteSet(UnitsOf(size, s))}
<1> SUFFICES ASSUME T # {} PROVE FALSE
  OBVIOUS
<1>1. PICK s \in T : \A x \in s : s \ {x} \notin T
  <2> HIDE DEF T
  <2>1. T \subseteq SUBSET S
    BY DEF T
  <2> QED
    BY <2>1, SmallestSubset
<1>2. CASE s = {}
  <2>1. UnitsOf(size, s) = {}
    BY <1>2 DEF UnitsOf
  <2> QED
    BY <1>1, <2>1, FS_EmptySet
<1>3. CASE s # {}
  <2>1. PICK x \in s : TRUE
    BY <1>3
  <2>2. IsFiniteSet(UnitsOf(size, s \ {x}))
    BY <1>1, <2>1
  <2>3. x \notin s \ {x} /\ size[x] \in Nat /\ (s \ {x}) \cup {x} = s
    BY <1>1, <2>1
  <2>4. IsFiniteSet(UnitsOf(size, (s \ {x}) \cup {x}))
    BY <2>2, <2>3, OneMore
  <2> QED
    BY <1>1, <2>3, <2>4
<1> QED
  BY <1>2, <1>3

\* What the fold computes.
LEMMA SumCounts ==
  ASSUME NEW S, IsFiniteSet(S), NEW size, \A x \in S : size[x] \in Nat
  PROVE  Sum(size, S) = Cardinality(UnitsOf(size, S))
<1> DEFINE any(t) == CHOOSE x \in t : TRUE
           body(f) == [s \in SUBSET S |-> IF s = {} THEN 0 ELSE size[any(s)] + f[s \ {any(s)}]]
           count == [s \in SUBSET S |-> Cardinality(UnitsOf(size, s))]
           iter == CHOOSE f : f = body(f)
<1>1. \A s \in SUBSET S : s # {} =>
        any(s) \in s /\ count[s] = size[any(s)] + count[s \ {any(s)}]
  <2> SUFFICES ASSUME NEW s \in SUBSET S, s # {}
               PROVE  any(s) \in s /\ count[s] = size[any(s)] + count[s \ {any(s)}]
    OBVIOUS
  <2>1. any(s) \in s
    OBVIOUS
  <2> HIDE DEF any
  <2>2. IsFiniteSet(UnitsOf(size, s \ {any(s)}))
    BY UnitsAreFinite
  <2>3. any(s) \notin s \ {any(s)} /\ size[any(s)] \in Nat /\ (s \ {any(s)}) \cup {any(s)} = s
    BY <2>1
  <2>4. Cardinality(UnitsOf(size, (s \ {any(s)}) \cup {any(s)}))
          = Cardinality(UnitsOf(size, s \ {any(s)})) + size[any(s)]
    BY <2>2, <2>3, OneMore
  <2>5. Cardinality(UnitsOf(size, s \ {any(s)})) \in Nat
    BY <2>2, FS_CardinalityType
  <2>6. s \in SUBSET S /\ s \ {any(s)} \in SUBSET S
    OBVIOUS
  <2>7. /\ count[s] = Cardinality(UnitsOf(size, s))
        /\ count[s \ {any(s)}] = Cardinality(UnitsOf(size, s \ {any(s)}))
    BY <2>6
  <2>8. Cardinality(UnitsOf(size, s)) = Cardinality(UnitsOf(size, s \ {any(s)})) + size[any(s)]
    BY <2>3, <2>4
  <2> HIDE DEF count
  <2> QED
    BY <2>1, <2>3, <2>5, <2>7, <2>8
<1>2. count[{}] = 0
  <2>1. UnitsOf(size, {}) = {}
    BY DEF UnitsOf
  <2> QED
    BY <2>1, FS_EmptySet
<1>3. count = body(count)
  <2> HIDE DEF any
  <2>1. \A s \in SUBSET S : count[s] = IF s = {} THEN 0 ELSE size[any(s)] + count[s \ {any(s)}]
    BY <1>1, <1>2
  <2> QED
    BY <2>1
<1>4. iter = body(iter)
  <2> HIDE DEF count, body
  <2> QED
    BY <1>3
<1>5. iter = count
  <2> DEFINE T == {s \in SUBSET S : iter[s] # count[s]}
  <2>1. T = {}
    <3> SUFFICES ASSUME T # {} PROVE FALSE
      OBVIOUS
    <3>1. PICK s \in T : \A x \in s : s \ {x} \notin T
      <4>1. T \subseteq SUBSET S
        OBVIOUS
      <4> HIDE DEF T
      <4> QED
        BY <4>1, SmallestSubset
    <3>2. iter[s] = IF s = {} THEN 0 ELSE size[any(s)] + iter[s \ {any(s)}]
      <4> HIDE DEF iter, any
      <4> QED
        BY <1>4, <3>1
    <3> HIDE DEF iter, any, count
    <3>3. s \in SUBSET S /\ iter[s] # count[s]
      BY <3>1
    <3>4. s # {} => iter[s \ {any(s)}] = count[s \ {any(s)}]
      BY <1>1, <3>1, <3>3
    <3> QED
      BY <1>1, <1>2, <3>2, <3>3, <3>4
  <2>2. \A s \in SUBSET S : iter[s] = count[s]
    BY <2>1
  <2> HIDE DEF iter
  <2>3. iter = [s \in SUBSET S |-> iter[s]]
    BY <1>4
  <2> QED
    BY <2>2, <2>3
<1>6. Sum(size, S) = iter[S]
  BY DEF Sum, MapThenFoldSet
<1> QED
  BY <1>5, <1>6

-----------------------------------------------------------------------------
(* What a set of jobs takes from a budget.                                 *)

Taken(b, js) == Cardinality(UnitsOf(Cost[b], js))

LEMMA TakenIsNat ==
  ASSUME NEW b \in Budget, NEW js \in SUBSET Job
  PROVE  IsFiniteSet(UnitsOf(Cost[b], js)) /\ Taken(b, js) \in Nat
<1>1. IsFiniteSet(UnitsOf(Cost[b], js))
  <2>1. IsFiniteSet(Job) /\ \A j \in Job : Cost[b][j] \in Nat
    BY ConfigAssumption
  <2> QED
    BY <2>1, UnitsAreFinite
<1> QED
  BY <1>1, FS_CardinalityType DEF Taken

LEMMA NothingTaken == ASSUME NEW b \in Budget PROVE Taken(b, {}) = 0
<1>1. UnitsOf(Cost[b], {}) = {}
  BY DEF UnitsOf
<1> QED
  BY <1>1, FS_EmptySet DEF Taken

LEMMA OneMoreTakes ==
  ASSUME NEW b \in Budget, NEW js \in SUBSET Job, NEW j \in Job, j \notin js
  PROVE  Taken(b, js \cup {j}) = Taken(b, js) + Cost[b][j]
<1>1. Cost[b][j] \in Nat
  BY ConfigAssumption
<1> QED
  BY <1>1, TakenIsNat, OneMore DEF Taken

LEMMA FewerTakeLess ==
  ASSUME NEW b \in Budget, NEW js \in SUBSET Job, NEW is \in SUBSET js
  PROVE  Taken(b, is) <= Taken(b, js)
<1>1. UnitsOf(Cost[b], is) \in SUBSET UnitsOf(Cost[b], js)
  BY DEF UnitsOf
<1> QED
  BY <1>1, TakenIsNat, FS_Subset DEF Taken

LEMMA LoadIsTaken ==
  ASSUME NEW b \in Budget, Shape
  PROVE  Load(b) = Taken(b, Executing)
<1>1. Executing \subseteq Job
  BY DEF Executing
<1>2. IsFiniteSet(Executing)
  BY <1>1, ConfigAssumption, FS_Subset
<1>3. Sum(Cost[b], Executing) = Taken(b, Executing)
  <2>1. \A j \in Executing : Cost[b][j] \in Nat
    BY <1>1, ConfigAssumption
  <2> QED
    BY <1>2, <2>1, SumCounts DEF Taken
<1>4. Load(b) = Sum(Cost[b], Executing)
  BY DEF Load, Sum
<1> QED
  BY <1>3, <1>4

-----------------------------------------------------------------------------
(* The counters are what the active jobs take, and within the limits.      *)

Counters ==
  /\ used \in [Budget -> Nat]
  /\ \A b \in Budget : used[b] = Taken(b, Active) /\ used[b] <= Limit[b]

Results ==
  /\ served \in [ClassName -> Nat]
  /\ canceled \in BOOLEAN /\ asked \in BOOLEAN
  /\ groupErr \in {JobError(j) : j \in Job} \cup {Nil}
  /\ firstErr \in Error \cup {Nil}
  /\ returned \in Error \cup {Nil}

LEMMA InitCounters == Init => Counters /\ Results
<1> SUFFICES ASSUME Init PROVE Counters /\ Results
  OBVIOUS
<1>1. Active = {}
  BY DEF Init, Active
<1>2. \A b \in Budget : Limit[b] \in Nat
  BY ConfigAssumption
<1>3. Counters
  BY <1>1, <1>2, NothingTaken DEF Init, Counters
<1>4. Results
  BY DEF Init, Results
<1> QED
  BY <1>3, <1>4

LEMMA LaunchCounts ==
  ASSUME SchedulerInv, Counters, NEW j \in Job, Launch(j)
  PROVE  Counters'
<1>1. j \in jobs /\ state[j] = "pending" /\ jobs' = jobs /\ jobs \subseteq Job
  BY DEF Launch, Chosen, Ready, SchedulerInv, Shape
<1>2. state \in [Job -> {"pending", "running", "done"}] /\ state' = [state EXCEPT ![j] = "running"]
  BY DEF Launch, SchedulerInv, Shape
<1>3. j \notin Active /\ Active' = Active \cup {j} /\ Active \subseteq Job
  BY <1>1, <1>2 DEF Active
<1>4. \A b \in Budget : /\ used'[b] = used[b] + Cost[b][j]
                        /\ used[b] + Cost[b][j] <= Limit[b]
                        /\ Cost[b][j] \in Nat
  BY ConfigAssumption DEF Launch, Chosen, Fits
<1>5. \A b \in Budget : Taken(b, Active') = Taken(b, Active) + Cost[b][j]
  BY <1>3, OneMoreTakes
<1>6. used' = [b \in Budget |-> used[b] + Cost[b][j]]
  BY DEF Launch
<1>7. \A b \in Budget : used[b] = Taken(b, Active) /\ used[b] \in Nat
  BY DEF Counters
<1>8. \A b \in Budget : used'[b] = Taken(b, Active') /\ used'[b] <= Limit[b] /\ used'[b] \in Nat
  BY <1>4, <1>5, <1>7
<1> QED
  BY <1>6, <1>8 DEF Counters, Taken

LEMMA ReceiveCounts ==
  ASSUME SchedulerInv, Counters, NEW j \in Job, Receive(j)
  PROVE  Counters'
<1>1. state[j] = "running" /\ j \in jobs /\ jobs' = jobs /\ jobs \subseteq Job
  BY DEF Receive, SchedulerInv, Shape, ViewsAgree
<1>2. state \in [Job -> {"pending", "running", "done"}] /\ state' = [state EXCEPT ![j] = "done"]
  BY DEF Receive, SchedulerInv, Shape
<1>3. j \notin Active' /\ Active = Active' \cup {j} /\ Active' \subseteq Job
  BY <1>1, <1>2 DEF Active
<1>4. used' = [b \in Budget |-> used[b] - Cost[b][j]]
  BY DEF Receive, Released
<1>5. ASSUME NEW b \in Budget
      PROVE  used'[b] = Taken(b, Active') /\ used'[b] <= Limit[b] /\ used'[b] \in Nat
  <2>1. Taken(b, Active) = Taken(b, Active') + Cost[b][j]
    BY <1>3, OneMoreTakes
  <2>2. Taken(b, Active') \in Nat
    BY <1>3, TakenIsNat
  <2>3. Cost[b][j] \in Nat /\ Limit[b] \in Nat
    BY ConfigAssumption
  <2>4. used[b] = Taken(b, Active) /\ used[b] <= Limit[b] /\ used'[b] = used[b] - Cost[b][j]
    BY <1>4 DEF Counters
  <2> QED
    BY <2>1, <2>2, <2>3, <2>4
<1> QED
  BY <1>4, <1>5 DEF Counters, Taken

LEMMA StepCounters ==
  ASSUME SchedulerInv, Counters, [Next]_vars
  PROVE  Counters'
<1>1. CASE RunSubmitted
  <2>1. Active' = {} /\ used' = [b \in Budget |-> 0]
    BY <1>1 DEF RunSubmitted, Active, SchedulerInv, Shape
  <2>2. \A b \in Budget : Limit[b] \in Nat
    BY ConfigAssumption
  <2> QED
    BY <2>1, <2>2, NothingTaken DEF Counters, Taken
<1>2. CASE UNCHANGED <<jobs, state, used>>
  BY <1>2 DEF Counters, Active, Taken
<1>3. ASSUME \/ RunRejected \/ CheckContext \/ DispatchEnds \/ ContextDone \/ Return
             \/ JobStep \/ CallerCancels \/ UNCHANGED vars
             \/ \E j \in Job : Submit(j)
      PROVE  UNCHANGED <<jobs, state, used>>
  BY <1>3 DEF RunRejected, CheckContext, DispatchEnds, ContextDone, Return, JobStep, Send, End,
              CallerCancels, vars, Submit
<1> QED
  BY <1>1, <1>2, <1>3, LaunchCounts, ReceiveCounts DEF Next, LoopStep

LEMMA StepResults ==
  ASSUME SchedulerInv, Results, [Next]_vars
  PROVE  Results'
<1> USE DEF Results
<1>1. ASSUME NEW j \in Job, Submit(j) PROVE Results'
  BY <1>1 DEF Submit
<1>2. CASE RunSubmitted
  BY <1>2 DEF RunSubmitted
<1>3. CASE RunRejected
  BY <1>3 DEF RunRejected, Error
<1>4. CASE CheckContext \/ ContextDone
  BY <1>4 DEF CheckContext, ContextDone, NoteCanceled, Error
<1>5. ASSUME NEW j \in Job, Launch(j) PROVE Results'
  <2>1. Class[j] \in ClassName
    BY DEF ClassName
  <2> QED
    BY <1>5, <2>1 DEF Launch
<1>6. CASE DispatchEnds
  BY <1>6 DEF DispatchEnds, Stuck, Error
<1>7. ASSUME NEW j \in Job, Receive(j) PROVE Results'
  BY <1>7 DEF Receive, Error
<1>8. CASE Return
  BY <1>8 DEF Return, Error
<1>9. ASSUME NEW j \in Job, NEW error \in BOOLEAN, Send(j, error) PROVE Results'
  BY <1>9 DEF Send
<1>10. ASSUME NEW j \in Job, End(j) PROVE Results'
  BY <1>10 DEF End
<1>11. CASE CallerCancels
  BY <1>11 DEF CallerCancels
<1>12. CASE UNCHANGED vars
  BY <1>12 DEF vars
<1> QED
  BY <1>1, <1>2, <1>3, <1>4, <1>5, <1>6, <1>7, <1>8, <1>9, <1>10, <1>11, <1>12
  DEF Next, LoopStep, JobStep

LEMMA CountersHold == Spec => [](SchedulerInv /\ Counters /\ Results)
<1>1. Init => SchedulerInv /\ Counters /\ Results
  BY InitInv, InitCounters
<1>2. SchedulerInv /\ Counters /\ Results /\ [Next]_vars => (SchedulerInv /\ Counters /\ Results)'
  BY StepInv, StepCounters, StepResults
<1> QED
  BY <1>1, <1>2, PTL DEF Spec

-----------------------------------------------------------------------------
(***************************************************************************)
(* For every graph: a job executes only after all it depends on returned.  *)
(***************************************************************************)
THEOREM DependenciesComeFirst == Spec => []DependenciesFirst
<1>1. SchedulerInv => DependenciesFirst
  BY DEF SchedulerInv, Shape, ViewsAgree, LaunchedInOrder, DependenciesFirst, Executing
<1> QED
  BY <1>1, InvHolds, PTL

(***************************************************************************)
(* Whatever way Run takes out, it leaves no goroutine behind.              *)
(***************************************************************************)
THEOREM RunLeavesNothingBehind == Spec => []ReturnsDrained
<1>1. SchedulerInv => ReturnsDrained
  BY DEF SchedulerInv
<1> QED
  BY <1>1, InvHolds, PTL

(***************************************************************************)
(* Nil is returned for complete success only: no failure is swallowed and  *)
(* no job is forgotten.                                                    *)
(***************************************************************************)
THEOREM NilIsSuccess == Spec => NilMeansAllSucceeded
<1> DEFINE Succeeds == at = "wait" /\ at' = "idle" /\ returned' = Nil =>
                         /\ failed \cap jobs = {}
                         /\ \A j \in jobs : goroutine[j] = "ended"
<1>1. SchedulerInv /\ Return => Succeeds
  BY DEF Return, AllEnded, SchedulerInv, Shape, ViewsAgree, ErrorsRecorded
<1>2. SchedulerInv /\ [Next]_vars => [Succeeds]_vars
  <2>1. ASSUME [Next]_vars, ~Return
        PROVE  ~(at = "wait" /\ at' = "idle")
    BY <2>1 DEF Next, LoopStep, JobStep, Submit, RunSubmitted, RunRejected, CheckContext,
                Launch, DispatchEnds, Receive, ContextDone, Send, End, CallerCancels, vars
  <2> QED
    BY <1>1, <2>1
<1> QED
  BY <1>2, InvHolds, PTL DEF Spec, NilMeansAllSucceeded

(***************************************************************************)
(* The state is what TypeOK says: a counter is never negative, although a  *)
(* result subtracts from it what a launch added (scheduler.go:204, 234).    *)
(***************************************************************************)
THEOREM TypesHold == Spec => []TypeOK
<1>1. SchedulerInv /\ Counters /\ Results => TypeOK
  BY DEF SchedulerInv, Shape, Counters, Results, TypeOK
<1> QED
  BY <1>1, CountersHold, PTL

(***************************************************************************)
(* For every set of jobs, costs and limits: what the executing goroutines  *)
(* take from a budget is within its limit, whatever was launched, failed   *)
(* or was canceled before and however results overtake each other.         *)
(***************************************************************************)
THEOREM BudgetsAreKept == Spec => []BudgetsHold
<1>1. ASSUME SchedulerInv, Counters, NEW b \in Budget
      PROVE  Load(b) <= Limit[b]
  <2>1. Executing \subseteq Active /\ Active \subseteq Job
    BY <1>1 DEF SchedulerInv, Shape, ViewsAgree, Executing, Active
  <2>2. Load(b) = Taken(b, Executing)
    BY <1>1, LoadIsTaken DEF SchedulerInv
  <2>3. Taken(b, Executing) <= Taken(b, Active)
    BY <2>1, FewerTakeLess
  <2>4. Taken(b, Active) <= Limit[b]
    BY <1>1 DEF Counters
  <2>5. Taken(b, Executing) \in Nat /\ Taken(b, Active) \in Nat /\ Limit[b] \in Nat
    BY <2>1, TakenIsNat, ConfigAssumption
  <2> QED
    BY <2>2, <2>3, <2>4, <2>5
<1>2. SchedulerInv /\ Counters /\ Results => BudgetsHold
  BY <1>1 DEF BudgetsHold
<1> QED
  BY <1>2, CountersHold, PTL
=============================================================================
