------------------------ MODULE WorkspaceLeaseProofs ------------------------
(***************************************************************************)
(* Theorems about WorkspaceLease for every set of generations, owners and  *)
(* callers, every fence limit and every clock bound.                       *)
(*                                                                         *)
(* All of them rest on LeaseInv.  The properties are not inductive alone:  *)
(* a fence is fresh because the counter bounds every fence in existence    *)
(* (FencesSpent), a restart inherits nothing because the generations       *)
(* Recover has passed are clean (RecoveryProgress), and nothing discards a *)
(* quarantined generation because its lease file is still there            *)
(* (LeaseFiles).                                                           *)
(***************************************************************************)
EXTENDS WorkspaceLeaseProps, TLAPS

Owned == {"ACTIVE", "QUARANTINED"}

\* A lease file names its own directory; a quarantined one still has it.
LeaseFiles ==
  \A g \in Generation :
    /\ lease[g] # None => lease[g].gen = g /\ dir[g] \in Owned
    /\ dir[g] = "QUARANTINED" => lease[g] # None
    /\ dir[g] = "absent" => reservation[g] = None

\* The counter bounds every fence ever written or handed out.
FencesSpent ==
  /\ openFence <= fence
  /\ \A l \in LiveLeases : l.fence <= fence
  /\ \A g \in Generation : reservation[g] # None => reservation[g].fence <= fence

\* What the callers of the running process hold was granted since it opened.
MemoryIsFresh ==
  /\ phase # "serving" => handles = {} /\ pending = [c \in Caller |-> None]
  /\ \A l \in handles : l.fence > openFence
  /\ \A c \in Caller : pending[c] # None => pending[c].lease \in handles

RecoveryProgress ==
  /\ phase \in {"opened", "serving"} =>
       \A g \in Generation : g \notin todo /\ dir[g] \in Owned =>
         /\ lease[g] # None => lease[g].fence > openFence
         /\ reservation[g] # None => reservation[g].fence > openFence
  /\ phase = "serving" => todo = {}

LeaseInv ==
  /\ TypeOK
  /\ LeaseFiles
  /\ FencesSpent
  /\ MemoryIsFresh
  /\ RecoveryProgress
  /\ FenceNamesOneEpoch

-----------------------------------------------------------------------------
(***************************************************************************)
(* Type correctness.                                                       *)
(***************************************************************************)
LEMMA InitTypeOK == Init => TypeOK
BY DEF Init, TypeOK, DirState

LEMMA RecoveryTypeOK ==
  ASSUME TypeOK
  PROVE  \/ Open \/ RecoverStep \/ (\E g \in Generation : RecoverInterrupted(g))
         \/ Recovered \/ Crash \/ Tick
         => TypeOK'
<1> USE DEF TypeOK, disk
<1>1. Open => TypeOK'
  BY DEF Open
<1>2. RecoverStep => TypeOK'
  BY DEF RecoverStep, RecoverUnloadable, ClearOwnership, RecoverLoadable,
            DirState
<1>3. (\E g \in Generation : RecoverInterrupted(g)) => TypeOK'
  BY DEF RecoverInterrupted, LoseMemory
<1>4. Recovered => TypeOK'
  BY DEF Recovered
<1>5. Crash => TypeOK'
  BY DEF Crash, LoseMemory
<1>6. Tick => TypeOK'
  BY SMT DEF Tick
<1> QED
  BY <1>1, <1>2, <1>3, <1>4, <1>5, <1>6

LEMMA GenerationTypeOK == TypeOK /\ GenerationStep => TypeOK'
<1> SUFFICES ASSUME TypeOK, NEW g \in Generation, NEW s \in Snapshot,
                    \/ Materialize(g, s) \/ MaterializeFails(g, s)
                    \/ MaterializeCrashes(g, s) \/ MutateTree(g, s)
                    \/ DiscardGeneration(g) \/ DiscardCrashes(g, s)
             PROVE  TypeOK'
  BY DEF GenerationStep
<1> USE DEF TypeOK, DirState, LoseMemory
<1>1. CASE Materialize(g, s)
  BY <1>1 DEF Materialize
<1>2. CASE MaterializeFails(g, s)
  BY <1>2 DEF MaterializeFails
<1>3. CASE MaterializeCrashes(g, s)
  BY <1>3 DEF MaterializeCrashes
<1>4. CASE MutateTree(g, s)
  BY <1>4 DEF MutateTree
<1>5. CASE DiscardGeneration(g)
  BY <1>5 DEF DiscardGeneration
<1>6. CASE DiscardCrashes(g, s)
  <2>1. dir' \in [Generation -> DirState]
    BY <1>6 DEF DiscardCrashes
  <2>2. reservation' \in [Generation -> Reservation \cup {None}]
    BY <1>6 DEF DiscardCrashes
  <2> QED
    BY <1>6, <2>1, <2>2 DEF DiscardCrashes
<1> QED
  BY <1>1, <1>2, <1>3, <1>4, <1>5, <1>6

LEMMA LeaseTypeOK == TypeOK /\ LeaseStep => TypeOK'
<1> SUFFICES ASSUME TypeOK, LeaseStep
             PROVE  TypeOK'
  OBVIOUS
<1> USE BoundsAssumption DEF TypeOK
<1>1. ASSUME NEW g \in Generation, NEW o \in Owner, NEW ttl \in TTL, AcquireLease(g, o, ttl)
      PROVE  TypeOK'
  BY <1>1 DEF AcquireLease, Acquirable, NextFence, Lease
<1>2. ASSUME NEW g \in Generation, AcquireLeaseFails(g)
      PROVE  TypeOK'
  BY <1>2 DEF AcquireLeaseFails, Acquirable, NextFence, LoseMemory
<1>3. ASSUME NEW g \in Generation, AcquireExpired(g)
      PROVE  TypeOK'
  BY <1>3 DEF AcquireExpired, DirState
<1>4. ASSUME NEW l \in handles, NEW ttl \in TTL, RenewLease(l, ttl)
      PROVE  TypeOK'
  BY <1>4 DEF RenewLease, Lease
<1>5. ASSUME NEW l \in handles, ReleaseLease(l)
      PROVE  TypeOK'
  BY <1>5 DEF ReleaseLease
<1> QED
  BY <1>1, <1>2, <1>3, <1>4, <1>5 DEF LeaseStep

LEMMA OperationTypeOK == TypeOK /\ OperationStep => TypeOK'
<1> SUFFICES ASSUME TypeOK, NEW c \in Caller,
                    \/ \E kind \in {"refresh", "reserve", "releaseRuntime"},
                          l \in handles, o \in Owner : AssertLease(c, kind, l, o)
                    \/ RefreshGeneration(c) \/ ReserveRuntime(c)
                    \/ ReleaseRuntime(c) \/ OperationRejected(c)
             PROVE  TypeOK'
  BY DEF OperationStep
<1> USE DEF TypeOK, Return, Resuming
<1>1. ASSUME NEW kind \in {"refresh", "reserve", "releaseRuntime"}, NEW l \in handles,
             NEW o \in Owner, AssertLease(c, kind, l, o)
      PROVE  TypeOK'
  BY <1>1 DEF AssertLease, Op, disk
<1>2. CASE RefreshGeneration(c)
  BY <1>2 DEF RefreshGeneration, Op, Lease
<1>3. CASE ReserveRuntime(c)
  BY <1>3 DEF ReserveRuntime, Unreserved, Op, Lease, Reservation
<1>4. CASE ReleaseRuntime(c)
  BY <1>4 DEF ReleaseRuntime, Op
<1>5. CASE OperationRejected(c)
  BY <1>5 DEF OperationRejected, Unreserved
<1> QED
  BY <1>1, <1>2, <1>3, <1>4, <1>5

LEMMA NextTypeOK == TypeOK /\ [Next]_vars => TypeOK'
<1>1. TypeOK /\ Next => TypeOK'
  BY RecoveryTypeOK, GenerationTypeOK, LeaseTypeOK, OperationTypeOK DEF Next
<1>2. TypeOK /\ UNCHANGED vars => TypeOK'
  BY DEF TypeOK, vars, disk
<1> QED
  BY <1>1, <1>2

(***************************************************************************)
(* Every file and every caller's record keeps its shape.                   *)
(***************************************************************************)
THEOREM TypeCorrect == Spec => []TypeOK
BY InitTypeOK, NextTypeOK, PTL DEF Spec

\* The lease files: which directories have one, under each action.
LEMMA LeaseFilesStep ==
  ASSUME TypeOK, LeaseFiles
  PROVE  [Next]_vars => LeaseFiles'
<1> USE BoundsAssumption, NoneAssumption DEF TypeOK, LeaseFiles, Owned, disk
<1>1. Open => LeaseFiles'
  BY DEF Open
<1>2. ASSUME NEW g \in Generation, RecoverUnloadable(g)
      PROVE  LeaseFiles'
  BY <1>2 DEF RecoverUnloadable, ClearOwnership, Loadable
<1>3. ASSUME NEW g \in Generation, RecoverLoadable(g)
      PROVE  LeaseFiles'
  BY <1>3 DEF RecoverLoadable, ClearOwnership, Loadable
<1>4. (\E g \in Generation : RecoverInterrupted(g)) => LeaseFiles'
  BY DEF RecoverInterrupted, Loadable, LoseMemory
<1>5. Recovered \/ Tick => LeaseFiles'
  BY DEF Recovered, Tick
<1>6. Crash => LeaseFiles'
  BY DEF Crash, LoseMemory
<1>7. ASSUME NEW g \in Generation, NEW s \in Snapshot,
             Materialize(g, s) \/ MaterializeFails(g, s) \/ MutateTree(g, s)
      PROVE  LeaseFiles'
  BY <1>7 DEF Materialize, MaterializeFails, MutateTree
<1>8. ASSUME NEW g \in Generation, NEW s \in Snapshot,
             MaterializeCrashes(g, s) \/ DiscardGeneration(g) \/ DiscardCrashes(g, s)
      PROVE  LeaseFiles'
  BY <1>8 DEF MaterializeCrashes, DiscardGeneration, DiscardCrashes, Discardable, LoseMemory
<1>9. ASSUME NEW g \in Generation, NEW o \in Owner, NEW ttl \in TTL, AcquireLease(g, o, ttl)
      PROVE  LeaseFiles'
  BY <1>9 DEF AcquireLease, Acquirable, NextFence, Loadable, Lease
<1>10. ASSUME NEW g \in Generation, AcquireLeaseFails(g) \/ AcquireExpired(g)
       PROVE  LeaseFiles'
  BY <1>10 DEF AcquireLeaseFails, Acquirable, NextFence, AcquireExpired, Loadable, LoseMemory
<1>11. ASSUME NEW l \in handles, NEW ttl \in TTL, RenewLease(l, ttl)
       PROVE  LeaseFiles'
  BY <1>11 DEF RenewLease, LeaseAsserted, Loadable, Lease
<1>12. (\E l \in handles : ReleaseLease(l)) => LeaseFiles'
  BY DEF ReleaseLease, Loadable
<1>13. ASSUME NEW c \in Caller, NEW kind \in {"refresh", "reserve", "releaseRuntime"},
              NEW l \in handles, NEW o \in Owner, AssertLease(c, kind, l, o)
       PROVE  LeaseFiles'
  BY <1>13 DEF AssertLease, Op
<1>14. ASSUME NEW c \in Caller,
              RefreshGeneration(c) \/ ReleaseRuntime(c) \/ OperationRejected(c)
       PROVE  LeaseFiles'
  BY <1>14 DEF RefreshGeneration, ReleaseRuntime, OperationRejected, Unreserved, Resuming, Return
<1>15. ASSUME NEW c \in Caller, ReserveRuntime(c)
       PROVE  LeaseFiles'
  BY <1>15 DEF ReserveRuntime, Unreserved, Resuming, Return, Loadable, Op, Lease, Reservation
<1>16. UNCHANGED vars => LeaseFiles'
  BY DEF vars
<1> QED
  BY <1>1, <1>2, <1>3, <1>4, <1>5, <1>6, <1>7, <1>8, <1>9, <1>10, <1>11, <1>12,
     <1>13, <1>14, <1>15, <1>16
     DEF Next, RecoverStep, GenerationStep, LeaseStep, OperationStep

\* No action creates a fence above the counter.
LEMMA FencesSpentStep ==
  ASSUME TypeOK, FencesSpent, MemoryIsFresh
  PROVE  [Next]_vars => FencesSpent'
<1> USE BoundsAssumption, NoneAssumption DEF TypeOK, FencesSpent, LiveLeases, Lease, Reservation, MemoryIsFresh, disk
<1>1. Open => FencesSpent'
  BY DEF Open
<1>2. ASSUME NEW g \in Generation, RecoverUnloadable(g)
      PROVE  FencesSpent'
  BY <1>2 DEF RecoverUnloadable, ClearOwnership, Loadable
<1>3. ASSUME NEW g \in Generation, RecoverLoadable(g)
      PROVE  FencesSpent'
  BY <1>3 DEF RecoverLoadable, ClearOwnership, Loadable
<1>4. (\E g \in Generation : RecoverInterrupted(g)) => FencesSpent'
  BY DEF RecoverInterrupted, Loadable, LoseMemory
<1>5. Recovered \/ Tick => FencesSpent'
  BY DEF Recovered, Tick
<1>6. Crash => FencesSpent'
  BY DEF Crash, LoseMemory
<1>7. ASSUME NEW g \in Generation, NEW s \in Snapshot,
             Materialize(g, s) \/ MaterializeFails(g, s) \/ MutateTree(g, s)
      PROVE  FencesSpent'
  BY <1>7 DEF Materialize, MaterializeFails, MutateTree
<1>8. ASSUME NEW g \in Generation, NEW s \in Snapshot,
             MaterializeCrashes(g, s) \/ DiscardGeneration(g) \/ DiscardCrashes(g, s)
      PROVE  FencesSpent'
  BY <1>8 DEF MaterializeCrashes, DiscardGeneration, DiscardCrashes, Discardable, LoseMemory
<1>9. ASSUME NEW g \in Generation, NEW o \in Owner, NEW ttl \in TTL, AcquireLease(g, o, ttl)
      PROVE  FencesSpent'
  BY <1>9 DEF AcquireLease, Acquirable, NextFence, Loadable, Lease
<1>10. ASSUME NEW g \in Generation, AcquireLeaseFails(g) \/ AcquireExpired(g)
       PROVE  FencesSpent'
  BY <1>10 DEF AcquireLeaseFails, Acquirable, NextFence, AcquireExpired, Loadable, LoseMemory
<1>11. ASSUME NEW l \in handles, NEW ttl \in TTL, RenewLease(l, ttl)
       PROVE  FencesSpent'
  BY <1>11 DEF RenewLease, LeaseAsserted, Loadable, Lease
<1>12. (\E l \in handles : ReleaseLease(l)) => FencesSpent'
  BY DEF ReleaseLease, Loadable
<1>13. ASSUME NEW c \in Caller, NEW kind \in {"refresh", "reserve", "releaseRuntime"},
              NEW l \in handles, NEW o \in Owner, AssertLease(c, kind, l, o)
       PROVE  FencesSpent'
  BY <1>13 DEF AssertLease, Op
<1>14. ASSUME NEW c \in Caller,
              RefreshGeneration(c) \/ ReleaseRuntime(c) \/ OperationRejected(c)
       PROVE  FencesSpent'
  BY <1>14 DEF RefreshGeneration, ReleaseRuntime, OperationRejected, Unreserved, Resuming, Return
<1>15. ASSUME NEW c \in Caller, ReserveRuntime(c)
       PROVE  FencesSpent'
  BY <1>15 DEF ReserveRuntime, Unreserved, Resuming, Return, Loadable, Op, Lease, Reservation
<1>16. UNCHANGED vars => FencesSpent'
  BY DEF vars
<1> QED
  BY <1>1, <1>2, <1>3, <1>4, <1>5, <1>6, <1>7, <1>8, <1>9, <1>10, <1>11, <1>12,
     <1>13, <1>14, <1>15, <1>16
     DEF Next, RecoverStep, GenerationStep, LeaseStep, OperationStep

\* Callers hold leases of this opening only.
LEMMA MemoryIsFreshStep ==
  ASSUME TypeOK, MemoryIsFresh, FencesSpent
  PROVE  [Next]_vars => MemoryIsFresh'
<1> USE BoundsAssumption, NoneAssumption DEF TypeOK, MemoryIsFresh, FencesSpent, LiveLeases, disk
<1>1. Open => MemoryIsFresh'
  BY DEF Open
<1>2. ASSUME NEW g \in Generation, RecoverUnloadable(g)
      PROVE  MemoryIsFresh'
  BY <1>2 DEF RecoverUnloadable, ClearOwnership, Loadable
<1>3. ASSUME NEW g \in Generation, RecoverLoadable(g)
      PROVE  MemoryIsFresh'
  BY <1>3 DEF RecoverLoadable, ClearOwnership, Loadable
<1>4. (\E g \in Generation : RecoverInterrupted(g)) => MemoryIsFresh'
  BY DEF RecoverInterrupted, Loadable, LoseMemory
<1>5. Recovered \/ Tick => MemoryIsFresh'
  BY DEF Recovered, Tick
<1>6. Crash => MemoryIsFresh'
  BY DEF Crash, LoseMemory
<1>7. ASSUME NEW g \in Generation, NEW s \in Snapshot,
             Materialize(g, s) \/ MaterializeFails(g, s) \/ MutateTree(g, s)
      PROVE  MemoryIsFresh'
  BY <1>7 DEF Materialize, MaterializeFails, MutateTree
<1>8. ASSUME NEW g \in Generation, NEW s \in Snapshot,
             MaterializeCrashes(g, s) \/ DiscardGeneration(g) \/ DiscardCrashes(g, s)
      PROVE  MemoryIsFresh'
  BY <1>8 DEF MaterializeCrashes, DiscardGeneration, DiscardCrashes, Discardable, LoseMemory
<1>9. ASSUME NEW g \in Generation, NEW o \in Owner, NEW ttl \in TTL, AcquireLease(g, o, ttl)
      PROVE  MemoryIsFresh'
  BY <1>9 DEF AcquireLease, Acquirable, NextFence, Loadable, Lease
<1>10. ASSUME NEW g \in Generation, AcquireLeaseFails(g) \/ AcquireExpired(g)
       PROVE  MemoryIsFresh'
  BY <1>10 DEF AcquireLeaseFails, Acquirable, NextFence, AcquireExpired, Loadable, LoseMemory
<1>11. ASSUME NEW l \in handles, NEW ttl \in TTL, RenewLease(l, ttl)
       PROVE  MemoryIsFresh'
  BY <1>11 DEF RenewLease, LeaseAsserted, Loadable, Lease
<1>12. (\E l \in handles : ReleaseLease(l)) => MemoryIsFresh'
  BY DEF ReleaseLease, Loadable
<1>13. ASSUME NEW c \in Caller, NEW kind \in {"refresh", "reserve", "releaseRuntime"},
              NEW l \in handles, NEW o \in Owner, AssertLease(c, kind, l, o)
       PROVE  MemoryIsFresh'
  BY <1>13 DEF AssertLease, Op
<1>14. ASSUME NEW c \in Caller,
              RefreshGeneration(c) \/ ReleaseRuntime(c) \/ OperationRejected(c)
       PROVE  MemoryIsFresh'
  BY <1>14 DEF RefreshGeneration, ReleaseRuntime, OperationRejected, Unreserved, Resuming, Return
<1>15. ASSUME NEW c \in Caller, ReserveRuntime(c)
       PROVE  MemoryIsFresh'
  BY <1>15 DEF ReserveRuntime, Unreserved, Resuming, Return, Loadable, Op, Lease, Reservation
<1>16. UNCHANGED vars => MemoryIsFresh'
  BY DEF vars
<1> QED
  BY <1>1, <1>2, <1>3, <1>4, <1>5, <1>6, <1>7, <1>8, <1>9, <1>10, <1>11, <1>12,
     <1>13, <1>14, <1>15, <1>16
     DEF Next, RecoverStep, GenerationStep, LeaseStep, OperationStep

\* What Recover has passed stays free of old ownership.
LEMMA RecoveryProgressStep ==
  ASSUME TypeOK, RecoveryProgress, MemoryIsFresh, FencesSpent, LeaseFiles
  PROVE  [Next]_vars => RecoveryProgress'
<1> USE BoundsAssumption, NoneAssumption DEF TypeOK, RecoveryProgress, Owned, MemoryIsFresh, FencesSpent, LeaseFiles, disk
<1>1. Open => RecoveryProgress'
  BY DEF Open
<1>2. ASSUME NEW g \in Generation, RecoverUnloadable(g)
      PROVE  RecoveryProgress'
  BY <1>2 DEF RecoverUnloadable, ClearOwnership, Loadable
<1>3. ASSUME NEW g \in Generation, RecoverLoadable(g)
      PROVE  RecoveryProgress'
  BY <1>3 DEF RecoverLoadable, ClearOwnership, Loadable
<1>4. (\E g \in Generation : RecoverInterrupted(g)) => RecoveryProgress'
  BY DEF RecoverInterrupted, Loadable, LoseMemory
<1>5. Recovered \/ Tick => RecoveryProgress'
  BY DEF Recovered, Tick
<1>6. Crash => RecoveryProgress'
  BY DEF Crash, LoseMemory
<1>7. ASSUME NEW g \in Generation, NEW s \in Snapshot,
             Materialize(g, s) \/ MaterializeFails(g, s) \/ MutateTree(g, s)
      PROVE  RecoveryProgress'
  BY <1>7 DEF Materialize, MaterializeFails, MutateTree
<1>8. ASSUME NEW g \in Generation, NEW s \in Snapshot,
             MaterializeCrashes(g, s) \/ DiscardGeneration(g) \/ DiscardCrashes(g, s)
      PROVE  RecoveryProgress'
  BY <1>8 DEF MaterializeCrashes, DiscardGeneration, DiscardCrashes, Discardable, LoseMemory
<1>9. ASSUME NEW g \in Generation, NEW o \in Owner, NEW ttl \in TTL, AcquireLease(g, o, ttl)
      PROVE  RecoveryProgress'
  BY <1>9 DEF AcquireLease, Acquirable, NextFence, Loadable, Lease
<1>10. ASSUME NEW g \in Generation, AcquireLeaseFails(g) \/ AcquireExpired(g)
       PROVE  RecoveryProgress'
  BY <1>10 DEF AcquireLeaseFails, Acquirable, NextFence, AcquireExpired, Loadable, LoseMemory
<1>11. ASSUME NEW l \in handles, NEW ttl \in TTL, RenewLease(l, ttl)
       PROVE  RecoveryProgress'
  BY <1>11 DEF RenewLease, LeaseAsserted, Loadable, Lease
<1>12. (\E l \in handles : ReleaseLease(l)) => RecoveryProgress'
  BY DEF ReleaseLease, Loadable
<1>13. ASSUME NEW c \in Caller, NEW kind \in {"refresh", "reserve", "releaseRuntime"},
              NEW l \in handles, NEW o \in Owner, AssertLease(c, kind, l, o)
       PROVE  RecoveryProgress'
  BY <1>13 DEF AssertLease, Op
<1>14. ASSUME NEW c \in Caller,
              RefreshGeneration(c) \/ ReleaseRuntime(c) \/ OperationRejected(c)
       PROVE  RecoveryProgress'
  BY <1>14 DEF RefreshGeneration, ReleaseRuntime, OperationRejected, Unreserved, Resuming, Return
<1>15. ASSUME NEW c \in Caller, ReserveRuntime(c)
       PROVE  RecoveryProgress'
  BY <1>15 DEF ReserveRuntime, Unreserved, Resuming, Return, Loadable, Op, Lease, Reservation
<1>16. UNCHANGED vars => RecoveryProgress'
  BY DEF vars
<1> QED
  BY <1>1, <1>2, <1>3, <1>4, <1>5, <1>6, <1>7, <1>8, <1>9, <1>10, <1>11, <1>12,
     <1>13, <1>14, <1>15, <1>16
     DEF Next, RecoverStep, GenerationStep, LeaseStep, OperationStep

\* A fence above the counter is new; a renewal keeps its epoch.
LEMMA FenceNamesOneEpochStep ==
  ASSUME TypeOK, FenceNamesOneEpoch, FencesSpent, LeaseFiles, MemoryIsFresh
  PROVE  [Next]_vars => FenceNamesOneEpoch'
<1> USE BoundsAssumption, NoneAssumption DEF TypeOK, FenceNamesOneEpoch, LiveLeases, FencesSpent, LeaseFiles, MemoryIsFresh, disk
<1>1. Open => FenceNamesOneEpoch'
  BY DEF Open
<1>2. ASSUME NEW g \in Generation, RecoverUnloadable(g)
      PROVE  FenceNamesOneEpoch'
  <2>1. \A h \in Generation : lease'[h] # None => lease'[h] = lease[h]
    BY <1>2 DEF RecoverUnloadable, ClearOwnership
  <2>2. handles' = handles
    BY <1>2 DEF RecoverUnloadable, ClearOwnership
  <2> QED
    BY <2>1, <2>2
<1>3. ASSUME NEW g \in Generation, RecoverLoadable(g)
      PROVE  FenceNamesOneEpoch'
  BY <1>3 DEF RecoverLoadable, ClearOwnership, Loadable
<1>4. (\E g \in Generation : RecoverInterrupted(g)) => FenceNamesOneEpoch'
  BY DEF RecoverInterrupted, Loadable, LoseMemory
<1>5. Recovered \/ Tick => FenceNamesOneEpoch'
  BY DEF Recovered, Tick
<1>6. Crash => FenceNamesOneEpoch'
  BY DEF Crash, LoseMemory
<1>7. ASSUME NEW g \in Generation, NEW s \in Snapshot,
             Materialize(g, s) \/ MaterializeFails(g, s) \/ MutateTree(g, s)
      PROVE  FenceNamesOneEpoch'
  BY <1>7 DEF Materialize, MaterializeFails, MutateTree
<1>8. ASSUME NEW g \in Generation, NEW s \in Snapshot,
             MaterializeCrashes(g, s) \/ DiscardGeneration(g) \/ DiscardCrashes(g, s)
      PROVE  FenceNamesOneEpoch'
  BY <1>8 DEF MaterializeCrashes, DiscardGeneration, DiscardCrashes, Discardable, LoseMemory
<1>9. ASSUME NEW g \in Generation, NEW o \in Owner, NEW ttl \in TTL, AcquireLease(g, o, ttl)
      PROVE  FenceNamesOneEpoch'
  BY <1>9 DEF AcquireLease, Acquirable, NextFence, Loadable, Lease
<1>10. ASSUME NEW g \in Generation, AcquireLeaseFails(g) \/ AcquireExpired(g)
       PROVE  FenceNamesOneEpoch'
  BY <1>10 DEF AcquireLeaseFails, Acquirable, NextFence, AcquireExpired, Loadable, LoseMemory
<1>11. ASSUME NEW l \in handles, NEW ttl \in TTL, RenewLease(l, ttl)
       PROVE  FenceNamesOneEpoch'
  BY <1>11 DEF RenewLease, LeaseAsserted, Loadable, Lease
<1>12. (\E l \in handles : ReleaseLease(l)) => FenceNamesOneEpoch'
  BY DEF ReleaseLease, Loadable
<1>13. ASSUME NEW c \in Caller, NEW kind \in {"refresh", "reserve", "releaseRuntime"},
              NEW l \in handles, NEW o \in Owner, AssertLease(c, kind, l, o)
       PROVE  FenceNamesOneEpoch'
  BY <1>13 DEF AssertLease, Op
<1>14. ASSUME NEW c \in Caller,
              RefreshGeneration(c) \/ ReleaseRuntime(c) \/ OperationRejected(c)
       PROVE  FenceNamesOneEpoch'
  BY <1>14 DEF RefreshGeneration, ReleaseRuntime, OperationRejected, Unreserved, Resuming, Return
<1>15. ASSUME NEW c \in Caller, ReserveRuntime(c)
       PROVE  FenceNamesOneEpoch'
  BY <1>15 DEF ReserveRuntime, Unreserved, Resuming, Return, Loadable, Op, Lease, Reservation
<1>16. UNCHANGED vars => FenceNamesOneEpoch'
  BY DEF vars
<1> QED
  BY <1>1, <1>2, <1>3, <1>4, <1>5, <1>6, <1>7, <1>8, <1>9, <1>10, <1>11, <1>12,
     <1>13, <1>14, <1>15, <1>16
     DEF Next, RecoverStep, GenerationStep, LeaseStep, OperationStep

-----------------------------------------------------------------------------
(***************************************************************************)
(* The invariant and the theorems it gives.                                *)
(***************************************************************************)
LEMMA InitLeaseInv == Init => LeaseInv
<1> SUFFICES ASSUME Init
             PROVE  LeaseInv
  OBVIOUS
<1>1. TypeOK
  BY InitTypeOK
<1>2. LiveLeases = {}
  BY DEF Init, LiveLeases
<1> QED
  BY <1>1, <1>2
     DEF Init, LeaseInv, LeaseFiles, Owned, FencesSpent, MemoryIsFresh,
         RecoveryProgress, FenceNamesOneEpoch

LEMMA NextLeaseInv == LeaseInv /\ [Next]_vars => LeaseInv'
BY NextTypeOK, LeaseFilesStep, FencesSpentStep, MemoryIsFreshStep,
   RecoveryProgressStep, FenceNamesOneEpochStep DEF LeaseInv

LEMMA LeaseInvariant == Spec => []LeaseInv
BY InitLeaseInv, NextLeaseInv, PTL DEF Spec

(***************************************************************************)
(* Leases that carry the same fence belong to one owner of one generation, *)
(* in files and in memory, across crashes and failed writes.               *)
(***************************************************************************)
THEOREM FencesAreUnique == Spec => []FenceNamesOneEpoch
<1>1. LeaseInv => FenceNamesOneEpoch
  BY DEF LeaseInv
<1> QED
  BY LeaseInvariant, <1>1, PTL

(***************************************************************************)
(* A served repository grants nothing on the strength of what an earlier   *)
(* process left behind.                                                    *)
(***************************************************************************)
THEOREM RestartInheritsNothing == Spec => []NoInheritedAuthority
<1>1. LeaseInv => NoInheritedAuthority
  BY DEF LeaseInv, RecoveryProgress, NoInheritedAuthority, Owned
<1> QED
  BY LeaseInvariant, <1>1, PTL

(***************************************************************************)
(* A quarantined generation leaves quarantine only by being moved aside.   *)
(***************************************************************************)
THEOREM QuarantineHolds == Spec => QuarantineIsSticky
<1>1. LeaseInv /\ [Next]_vars
        => [\A g \in Generation :
              dir[g] = "QUARANTINED" => dir'[g] \in {"QUARANTINED", "set aside"}]_vars
  <2> SUFFICES ASSUME LeaseInv, Next, NEW g \in Generation, dir[g] = "QUARANTINED"
               PROVE  dir'[g] \in {"QUARANTINED", "set aside"}
    OBVIOUS
  <2> USE DEF LeaseInv, TypeOK, LeaseFiles
  <2>1. CASE Open \/ Recovered \/ Crash \/ Tick
    BY <2>1 DEF Open, Recovered, Crash, Tick, disk
  <2>2. CASE RecoverStep \/ (\E h \in Generation : RecoverInterrupted(h))
    BY <2>2 DEF RecoverStep, RecoverUnloadable, ClearOwnership, RecoverLoadable,
            RecoverInterrupted
  <2>3. CASE GenerationStep
    BY <2>3 DEF GenerationStep, Materialize, MaterializeFails, MaterializeCrashes,
                MutateTree, DiscardGeneration, DiscardCrashes, Discardable
  <2>4. CASE LeaseStep
    BY <2>4 DEF LeaseStep, AcquireLease, Acquirable, NextFence, AcquireLeaseFails,
            AcquireExpired, RenewLease, ReleaseLease
  <2>5. CASE OperationStep
    BY <2>5 DEF OperationStep, AssertLease, RefreshGeneration, ReserveRuntime,
            Unreserved, ReleaseRuntime, OperationRejected, Return, disk
  <2> QED
    BY <2>1, <2>2, <2>3, <2>4, <2>5 DEF Next
<1> QED
  BY LeaseInvariant, <1>1, PTL DEF Spec, QuarantineIsSticky

(***************************************************************************)
(* A lease in force is only ever renewed or dropped.                       *)
(***************************************************************************)
THEOREM LeasesAreNotStolen == Spec => LeaseIsNotStolen
<1>1. LeaseInv /\ [Next]_vars
        => [\A g \in Generation : lease[g] # None /\ lease'[g] # None =>
              lease'[g].fence = lease[g].fence /\ lease'[g].owner = lease[g].owner]_vars
  <2> SUFFICES ASSUME LeaseInv, Next,
                      NEW g \in Generation, lease[g] # None, lease'[g] # None
               PROVE  lease'[g].fence = lease[g].fence /\ lease'[g].owner = lease[g].owner
    OBVIOUS
  <2> USE DEF LeaseInv, TypeOK
  <2>1. CASE Open \/ Recovered \/ Crash \/ Tick
    BY <2>1 DEF Open, Recovered, Crash, Tick, disk
  <2>2. CASE RecoverStep \/ (\E h \in Generation : RecoverInterrupted(h))
    BY <2>2 DEF RecoverStep, RecoverUnloadable, ClearOwnership, RecoverLoadable,
            RecoverInterrupted
  <2>3. CASE GenerationStep
    BY <2>3 DEF GenerationStep, Materialize, MaterializeFails, MaterializeCrashes,
                MutateTree, DiscardGeneration, DiscardCrashes
  <2>4. CASE LeaseStep
    <3>1. ASSUME NEW l \in handles, NEW ttl \in TTL, RenewLease(l, ttl)
          PROVE  lease'[g].fence = lease[g].fence /\ lease'[g].owner = lease[g].owner
      BY <3>1 DEF RenewLease, LeaseAsserted, Lease
    <3>2. ASSUME NEW h \in Generation, NEW o \in Owner, NEW ttl \in TTL, AcquireLease(h, o, ttl)
          PROVE  lease'[g].fence = lease[g].fence /\ lease'[g].owner = lease[g].owner
      BY <3>2 DEF AcquireLease, Acquirable, NextFence
    <3> QED
      BY <2>4, <3>1, <3>2 DEF LeaseStep, AcquireLeaseFails, Acquirable, NextFence, AcquireExpired, ReleaseLease
  <2>5. CASE OperationStep
    BY <2>5 DEF OperationStep, AssertLease, RefreshGeneration, ReserveRuntime,
            Unreserved, ReleaseRuntime, OperationRejected, Return, disk
  <2> QED
    BY <2>1, <2>2, <2>3, <2>4, <2>5 DEF Next
<1> QED
  BY LeaseInvariant, <1>1, PTL DEF Spec, LeaseIsNotStolen

(***************************************************************************)
(* A runtime reservation is only ever dropped, never overwritten.          *)
(***************************************************************************)
THEOREM RuntimeHasOneOwner == Spec => OneRuntimeOwner
<1>1. LeaseInv /\ [Next]_vars
        => [\A g \in Generation : reservation[g] # None =>
              reservation'[g] \in {reservation[g], None}]_vars
  <2> SUFFICES ASSUME LeaseInv, Next, NEW g \in Generation, reservation[g] # None
               PROVE  reservation'[g] \in {reservation[g], None}
    OBVIOUS
  <2> USE DEF LeaseInv, TypeOK
  <2>1. CASE Open \/ Recovered \/ Crash \/ Tick
    BY <2>1 DEF Open, Recovered, Crash, Tick, disk
  <2>2. CASE RecoverStep \/ (\E h \in Generation : RecoverInterrupted(h))
    BY <2>2 DEF RecoverStep, RecoverUnloadable, ClearOwnership, RecoverLoadable,
            RecoverInterrupted
  <2>3. CASE GenerationStep
    BY <2>3 DEF GenerationStep, Materialize, MaterializeFails, MaterializeCrashes,
                MutateTree, DiscardGeneration, DiscardCrashes
  <2>4. CASE LeaseStep
    BY <2>4 DEF LeaseStep, AcquireLease, Acquirable, NextFence, AcquireLeaseFails,
            AcquireExpired, RenewLease, ReleaseLease
  <2>5. CASE OperationStep
    BY <2>5 DEF OperationStep, AssertLease, RefreshGeneration, ReserveRuntime,
            Unreserved, ReleaseRuntime, OperationRejected, Return, disk
  <2> QED
    BY <2>1, <2>2, <2>3, <2>4, <2>5 DEF Next
<1> QED
  BY LeaseInvariant, <1>1, PTL DEF Spec, OneRuntimeOwner

-----------------------------------------------------------------------------
(***************************************************************************)
(* Refinement.  heldBar is the substitution for held.                      *)
(***************************************************************************)
heldBar == [g \in Generation |-> IF lease[g] = None THEN 0 ELSE lease[g].fence]

\* Dropping one lease file, or none, is a Free step or a stutter.
LEMMA DropIsFree ==
  ASSUME TypeOK, NEW g \in Generation, fence' = fence,
         lease' = [lease EXCEPT ![g] = None]
  PROVE  Abstract!Free(g) \/ UNCHANGED <<fence, heldBar>>
<1>1. CASE lease[g] = None
  <2>1. lease' = lease
    BY <1>1 DEF TypeOK
  <2> QED
    BY <2>1 DEF heldBar
<1>2. CASE lease[g] # None
  <2>1. heldBar[g] # 0
    BY <1>2 DEF heldBar, TypeOK, Lease
  <2>2. heldBar' = [heldBar EXCEPT ![g] = 0]
    BY DEF heldBar, TypeOK
  <2> QED
    BY <2>1, <2>2 DEF heldBar, Abstract!Free
<1> QED
  BY <1>1, <1>2

LEMMA StepSimulation ==
  LeaseInv /\ [Next]_vars => [Abstract!ANext]_<<fence, heldBar>>
<1> SUFFICES ASSUME LeaseInv, [Next]_vars
             PROVE  Abstract!ANext \/ UNCHANGED <<fence, heldBar>>
  BY DEF heldBar
<1>0. TypeOK
  BY DEF LeaseInv
<1>1. CASE UNCHANGED <<fence, lease>>
  BY <1>1 DEF heldBar
<1>2. ASSUME NEW g \in Generation,
             RecoverUnloadable(g) \/ RecoverLoadable(g) \/ RecoverInterrupted(g)
      PROVE  Abstract!ANext \/ UNCHANGED <<fence, heldBar>>
  BY <1>0, <1>2, DropIsFree
     DEF RecoverUnloadable, ClearOwnership, RecoverLoadable, RecoverInterrupted,
            Abstract!ANext
<1>3. ASSUME NEW l \in handles, ReleaseLease(l)
      PROVE  Abstract!ANext \/ UNCHANGED <<fence, heldBar>>
  <2>1. l.gen \in Generation
    BY <1>0 DEF TypeOK, Lease
  <2> QED
    BY <1>0, <1>3, <2>1, DropIsFree DEF ReleaseLease, Abstract!ANext
<1>4. ASSUME NEW g \in Generation, AcquireLeaseFails(g)
      PROVE  Abstract!ANext
  BY <1>4 DEF AcquireLeaseFails, Acquirable, NextFence, Abstract!ANext, Abstract!Spend, heldBar
<1>5. ASSUME NEW g \in Generation, NEW o \in Owner, NEW ttl \in TTL, AcquireLease(g, o, ttl)
      PROVE  Abstract!ANext
  <2> DEFINE l == [gen |-> g, owner |-> o, fence |-> fence + 1, expires |-> clock + ttl]
  <2>1. l \in Lease
    BY <1>0, BoundsAssumption DEF Lease, TypeOK
  <2>2. lease' = [lease EXCEPT ![g] = l] /\ fence' = fence + 1 /\ lease[g] = None
    BY <1>5 DEF AcquireLease, Acquirable, NextFence
  <2>3. l # None /\ l.fence = fence'
    BY <2>1, <2>2, NoneAssumption
  <2> HIDE DEF l
  <2>4. heldBar[g] = 0 /\ heldBar' = [heldBar EXCEPT ![g] = fence']
    BY <1>0, <2>2, <2>3 DEF heldBar, TypeOK
  <2>5. Abstract!Grant(g)
    BY <2>2, <2>4 DEF heldBar, Abstract!Grant
  <2> QED
    BY <2>5 DEF Abstract!ANext
<1>6. ASSUME NEW l \in handles, NEW ttl \in TTL, RenewLease(l, ttl)
      PROVE  UNCHANGED <<fence, heldBar>>
  <2>1. /\ l \in Lease /\ lease[l.gen] = l /\ fence' = fence
        /\ lease' = [lease EXCEPT ![l.gen] = [l EXCEPT !.expires = clock + ttl]]
    BY <1>0, <1>6 DEF RenewLease, LeaseAsserted, TypeOK
  <2>2. [l EXCEPT !.expires = clock + ttl] \in Lease /\ [l EXCEPT !.expires = clock + ttl].fence = l.fence
    BY <1>0, <2>1, BoundsAssumption DEF Lease, TypeOK
  <2>3. \A g \in Generation : heldBar'[g] = heldBar[g]
    BY <1>0, <2>1, <2>2, NoneAssumption DEF heldBar, TypeOK
  <2> QED
    BY <2>1, <2>3 DEF heldBar
<1>7. CASE GenerationStep
  BY <1>1, <1>7 DEF GenerationStep, Materialize, MaterializeFails, MaterializeCrashes,
                    MutateTree, DiscardGeneration, DiscardCrashes
<1>8. CASE OperationStep
  BY <1>1, <1>8 DEF OperationStep, AssertLease, RefreshGeneration, ReserveRuntime,
            Unreserved, ReleaseRuntime, OperationRejected, Return, disk
<1>9. CASE Open \/ Recovered \/ Crash \/ Tick \/ UNCHANGED vars
  BY <1>1, <1>9 DEF Open, Recovered, Crash, Tick, disk, vars
<1>10. ASSUME NEW g \in Generation, AcquireExpired(g)
       PROVE  UNCHANGED <<fence, lease>>
  BY <1>10 DEF AcquireExpired
<1> QED
  BY <1>1, <1>2, <1>3, <1>4, <1>5, <1>6, <1>7, <1>8, <1>9, <1>10
     DEF Next, RecoverStep, LeaseStep

(***************************************************************************)
(* Whatever crashes and failed writes do, the lease files behave as a      *)
(* fence authority: an epoch's fence exceeds all that were ever granted.   *)
(***************************************************************************)
THEOREM LeasesImplementFenceAuthority == Spec => ImplementsFenceAuthority
<1>1. Init => Abstract!AInit
  BY DEF Init, Abstract!AInit
<1>2. LeaseInv /\ [Next]_vars => [Abstract!ANext]_(Abstract!avars)
  BY StepSimulation DEF Abstract!avars, heldBar
<1> QED
  BY <1>1, <1>2, LeaseInvariant, PTL DEF Spec, ImplementsFenceAuthority, Abstract!ASpec
=============================================================================
