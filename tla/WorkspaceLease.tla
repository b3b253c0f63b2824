--------------------------- MODULE WorkspaceLease ---------------------------
(***************************************************************************)
(* The workspace authority of internal/workspace/workspace.go: candidate   *)
(* generations, the leases that own them, the persisted fence counter,     *)
(* runtime reservations, crashes, and the recovery that runs before the    *)
(* control plane serves.                                                   *)
(*                                                                         *)
(* Every file the authority keeps is a variable here: the .fence counter,  *)
(* and per generation the directory with its .generation.json (dir,        *)
(* recorded), .lease.json (lease) and .runtime-owner.json (reservation).   *)
(* One r.mu serialises the operations, so an operation that holds it       *)
(* throughout is one action.  RefreshGeneration, ReserveRuntime and        *)
(* ReleaseRuntime call AssertLease first and take r.mu again afterwards:   *)
(* they are two actions, with the asserted lease kept in pending between.  *)
(***************************************************************************)
EXTENDS Naturals, FiniteSets

CONSTANTS
  Generation,   \* generation ids; a random id is never drawn twice
  Owner,        \* principals
  Caller,       \* goroutines that use the repository concurrently
  Snapshot,     \* contents a candidate tree can have
  TTL,          \* lease durations a caller asks for
  MaxFence,     \* the last fence nextFence will issue (2^64-1 in the code)
  MaxClock,     \* bound of the model: time stops here
  None          \* absent file, idle caller

Lease == [gen : Generation, owner : Owner, fence : Nat \ {0}, expires : Nat]
Reservation == [owner : Owner, fence : Nat \ {0}]
Op == [kind : {"refresh", "reserve", "releaseRuntime"}, lease : Lease, owner : Owner]

ASSUME BoundsAssumption ==
  /\ MaxFence \in Nat
  /\ MaxClock \in Nat
  /\ TTL \subseteq Nat \ {0}

ASSUME NoneAssumption ==
  /\ None \notin Lease
  /\ None \notin Reservation
  /\ None \notin Op
  /\ None \notin Snapshot

VARIABLES
  clock,        \* time.Now()
  phase,        \* "down", "opened" (state lock held, Recover running), "serving"
  todo,         \* generations Recover has yet to visit
  dir,          \* what the state directory holds for a generation id
  tree,         \* the content of the candidate tree
  recorded,     \* candidate_snapshot of .generation.json
  fence,        \* the .fence counter
  openFence,    \* history: the counter when the repository was last opened
  lease,        \* .lease.json
  reservation,  \* .runtime-owner.json
  handles,      \* leases returned to callers of this process
  pending       \* operation between its AssertLease and its second lock

disk == <<dir, tree, recorded, fence, lease, reservation>>
vars == <<clock, phase, todo, dir, tree, recorded, fence, openFence, lease,
          reservation, handles, pending>>

(***************************************************************************)
(* "temporary" is a .tmp-gen_* directory, "bare" a renamed directory whose *)
(* .generation.json is missing, "set aside" one moved under quarantine/.   *)
(***************************************************************************)
DirState == {"absent", "temporary", "bare", "ACTIVE", "QUARANTINED",
             "set aside", "removed"}

TypeOK ==
  /\ clock \in Nat
  /\ phase \in {"down", "opened", "serving"}
  /\ todo \in SUBSET Generation
  /\ dir \in [Generation -> DirState]
  /\ tree \in [Generation -> Snapshot \cup {None}]
  /\ recorded \in [Generation -> Snapshot \cup {None}]
  /\ fence \in Nat
  /\ openFence \in Nat
  /\ lease \in [Generation -> Lease \cup {None}]
  /\ reservation \in [Generation -> Reservation \cup {None}]
  /\ handles \in SUBSET Lease
  /\ pending \in [Caller -> Op \cup {None}]

Init ==
  /\ clock = 0
  /\ phase = "down"
  /\ todo = {}
  /\ dir = [g \in Generation |-> "absent"]
  /\ tree = [g \in Generation |-> None]
  /\ recorded = [g \in Generation |-> None]
  /\ fence = 0
  /\ openFence = 0
  /\ lease = [g \in Generation |-> None]
  /\ reservation = [g \in Generation |-> None]
  /\ handles = {}
  /\ pending = [c \in Caller |-> None]

-----------------------------------------------------------------------------
(* Predicates the handlers evaluate.                                       *)

\* loadGeneration: the metadata is readable and its state is ACTIVE.
Loadable(g) == dir[g] = "ACTIVE"

Expired(l) == l.expires <= clock

\* AssertLease: the caller's copy equals the file and has not expired.
LeaseAsserted(l) ==
  /\ Loadable(l.gen)
  /\ lease[l.gen] = l
  /\ ~Expired(l)

ClearLease(g) ==
  /\ lease' = [lease EXCEPT ![g] = None]
  /\ UNCHANGED reservation

\* Nothing in the state directory owns g any more.
ClearOwnership(g) ==
  /\ lease' = [lease EXCEPT ![g] = None]
  /\ reservation' = [reservation EXCEPT ![g] = None]

-----------------------------------------------------------------------------
(* Opening, recovery and crashes.                                          *)

\* What is only in memory is lost; every file stays as it was last renamed.
LoseMemory ==
  /\ phase' = "down"
  /\ todo' = {}
  /\ handles' = {}
  /\ pending' = [c \in Caller |-> None]

\* OpenRepository takes the state lock; Plane.Open then calls Recover.
Open ==
  /\ phase = "down"
  /\ phase' = "opened"
  /\ todo' = {g \in Generation : dir[g] \in {"temporary", "bare", "ACTIVE", "QUARANTINED"}}
  /\ openFence' = fence
  /\ UNCHANGED disk
  /\ UNCHANGED <<clock, handles, pending>>

\* A directory recovery cannot load is moved away with the files in it.
RecoverUnloadable(g) ==
  /\ phase = "opened" /\ g \in todo
  /\ ~Loadable(g)
  /\ dir' = [dir EXCEPT ![g] = "set aside"]
  /\ ClearOwnership(g)
  /\ todo' = todo \ {g}
  /\ UNCHANGED <<clock, phase, tree, recorded, fence, openFence, handles, pending>>

\* A loadable generation loses its lease, then its runtime reservation.
RecoverLoadable(g) ==
  /\ phase = "opened" /\ g \in todo
  /\ Loadable(g)
  /\ ClearOwnership(g)
  /\ todo' = todo \ {g}
  /\ UNCHANGED <<clock, phase, dir, tree, recorded, fence, openFence, handles, pending>>

\* The process dies between the two removals.
RecoverInterrupted(g) ==
  /\ phase = "opened" /\ g \in todo
  /\ Loadable(g)
  /\ lease' = [lease EXCEPT ![g] = None]
  /\ LoseMemory
  /\ UNCHANGED <<clock, dir, tree, recorded, fence, openFence, reservation>>

Recovered ==
  /\ phase = "opened" /\ todo = {}
  /\ phase' = "serving"
  /\ UNCHANGED disk
  /\ UNCHANGED <<clock, todo, openFence, handles, pending>>

Crash ==
  /\ phase # "down"
  /\ LoseMemory
  /\ UNCHANGED disk
  /\ UNCHANGED <<clock, openFence>>

Tick ==
  /\ clock < MaxClock
  /\ clock' = clock + 1
  /\ UNCHANGED disk
  /\ UNCHANGED <<phase, todo, openFence, handles, pending>>

-----------------------------------------------------------------------------
(* Generations.                                                            *)

Materialize(g, s) ==
  /\ phase = "serving"
  /\ dir[g] = "absent"
  /\ dir' = [dir EXCEPT ![g] = "ACTIVE"]
  /\ tree' = [tree EXCEPT ![g] = s]
  /\ recorded' = [recorded EXCEPT ![g] = s]
  /\ UNCHANGED <<clock, phase, todo, fence, openFence, lease, reservation, handles, pending>>

\* The rename succeeded and the metadata write after it did not.
MaterializeFails(g, s) ==
  /\ phase = "serving"
  /\ dir[g] = "absent"
  /\ dir' = [dir EXCEPT ![g] = "bare"]
  /\ tree' = [tree EXCEPT ![g] = s]
  /\ UNCHANGED <<clock, phase, todo, recorded, fence, openFence, lease, reservation,
                 handles, pending>>

\* A crash before or after the rename, with no metadata written yet.
MaterializeCrashes(g, s) ==
  /\ phase = "serving"
  /\ dir[g] = "absent"
  /\ \E d \in {"temporary", "bare"} : dir' = [dir EXCEPT ![g] = d]
  /\ tree' = [tree EXCEPT ![g] = s]
  /\ LoseMemory
  /\ UNCHANGED <<clock, recorded, fence, openFence, lease, reservation>>

\* A patch or a development command changes files of the candidate.
MutateTree(g, s) ==
  /\ phase = "serving"
  /\ dir[g] \in {"ACTIVE", "QUARANTINED"}
  /\ tree' = [tree EXCEPT ![g] = s]
  /\ UNCHANGED <<clock, phase, todo, dir, recorded, fence, openFence, lease, reservation,
                 handles, pending>>

DiscardableAnyway(g) == dir[g] \in {"bare", "ACTIVE", "QUARANTINED"}

\* DiscardGeneration looks for .lease.json and for nothing else.
Discardable(g) ==
  /\ dir[g] \in {"bare", "ACTIVE", "QUARANTINED"}
  /\ lease[g] = None

DiscardGeneration(g) ==
  /\ phase = "serving"
  /\ Discardable(g)
  /\ dir' = [dir EXCEPT ![g] = "removed"]
  /\ reservation' = [reservation EXCEPT ![g] = None]
  /\ UNCHANGED <<clock, phase, todo, tree, recorded, fence, openFence, lease, handles, pending>>

\* os.RemoveAll deletes entry by entry: a crash leaves either metadata with
\* a depleted tree or a tree without metadata.
DiscardCrashes(g, s) ==
  /\ phase = "serving"
  /\ Discardable(g)
  /\ \E d \in {dir[g], "bare"} : dir' = [dir EXCEPT ![g] = d]
  /\ tree' = [tree EXCEPT ![g] = s]
  /\ \E r \in {reservation[g], None} : reservation' = [reservation EXCEPT ![g] = r]
  /\ LoseMemory
  /\ UNCHANGED <<clock, recorded, fence, openFence, lease>>

-----------------------------------------------------------------------------
(* Leases.                                                                 *)

FenceNotAdvanced == fence

\* nextFence: the counter that is written, and then returned.
NextFence == fence + 1

\* No lease file, and nextFence has a number left.
Acquirable(g) ==
  /\ Loadable(g)
  /\ lease[g] = None
  /\ fence < MaxFence

\* The lease is written under the fence nextFence has persisted before.  If
\* only the directory sync fails the file is in place and the caller has no
\* lease.
AcquireLease(g, o, ttl) ==
  /\ phase = "serving"
  /\ Acquirable(g)
  /\ LET l == [gen |-> g, owner |-> o, fence |-> NextFence, expires |-> clock + ttl]
     IN  /\ lease' = [lease EXCEPT ![g] = l]
         /\ handles' \in {handles \cup {l}, handles}
  /\ fence' = NextFence
  /\ UNCHANGED <<clock, phase, todo, dir, tree, recorded, openFence, reservation, pending>>

\* As if the lease were written before the counter.
AcquireLeaseFailsLeaseFirst(g) ==
  /\ phase = "serving"
  /\ Acquirable(g)
  /\ \E o \in Owner : lease' = [lease EXCEPT ![g] =
       [gen |-> g, owner |-> o, fence |-> NextFence, expires |-> clock + 1]]
  /\ \/ UNCHANGED <<phase, todo, handles, pending>>
     \/ LoseMemory
  /\ UNCHANGED <<clock, dir, tree, recorded, fence, openFence, reservation>>

\* The counter is persisted and the call or the process ends there: the
\* fence is spent.
AcquireLeaseFails(g) ==
  /\ phase = "serving"
  /\ Acquirable(g)
  /\ fence' = NextFence
  /\ \/ UNCHANGED <<phase, todo, handles, pending>>
     \/ LoseMemory
  /\ UNCHANGED <<clock, dir, tree, recorded, openFence, lease, reservation>>

\* AcquireLease that finds an expired lease quarantines the generation and
\* leaves the lease file where it is.
AcquireExpired(g) ==
  /\ phase = "serving"
  /\ Loadable(g)
  /\ lease[g] # None /\ Expired(lease[g])
  /\ dir' = [dir EXCEPT ![g] = "QUARANTINED"]
  /\ UNCHANGED <<clock, phase, todo, tree, recorded, fence, openFence, lease, reservation,
                 handles, pending>>

RenewLease(l, ttl) ==
  /\ phase = "serving"
  /\ LeaseAsserted(l)
  /\ LET renewed == [l EXCEPT !.expires = clock + ttl]
     IN  /\ lease' = [lease EXCEPT ![l.gen] = renewed]
         /\ handles' \in {handles \cup {renewed}, handles}
  /\ UNCHANGED <<clock, phase, todo, dir, tree, recorded, fence, openFence, reservation, pending>>

\* ReleaseLease compares the lease with the file; it does not look at time.
ReleaseLease(l) ==
  /\ phase = "serving"
  /\ Loadable(l.gen)
  /\ lease[l.gen] = l
  /\ lease' = [lease EXCEPT ![l.gen] = None]
  /\ UNCHANGED <<clock, phase, todo, dir, tree, recorded, fence, openFence, reservation,
                 handles, pending>>

-----------------------------------------------------------------------------
(* Operations that assert the lease, drop r.mu, and lock it again.         *)

AssertLease(c, kind, l, o) ==
  /\ phase = "serving"
  /\ pending[c] = None
  /\ LeaseAsserted(l)
  /\ kind = "refresh" => o = l.owner      \* a refresh has no owner argument
  /\ pending' = [pending EXCEPT ![c] = [kind |-> kind, lease |-> l, owner |-> o]]
  /\ UNCHANGED disk
  /\ UNCHANGED <<clock, phase, todo, openFence, handles>>

\* The second half of c's operation, on the generation of its lease.
Resuming(c, kind) ==
  /\ phase = "serving"
  /\ pending[c] # None
  /\ pending[c].kind = kind
  /\ Loadable(pending[c].lease.gen)

Return(c) ==
  /\ pending' = [pending EXCEPT ![c] = None]
  /\ UNCHANGED <<clock, phase, todo, tree, fence, openFence, handles, dir, lease>>

\* RefreshGeneration: record the snapshot of the tree as it is now.
RefreshGeneration(c) ==
  /\ Resuming(c, "refresh")
  /\ LET g == pending[c].lease.gen
     IN  recorded' = [recorded EXCEPT ![g] = tree[g]]
  /\ UNCHANGED reservation
  /\ Return(c)

UnreservedByOthers(g, o) == reservation[g] # None => reservation[g].owner = o

\* Only an absent .runtime-owner.json admits the caller.
Unreserved(g, o) == reservation[g] = None

ReserveRuntime(c) ==
  /\ Resuming(c, "reserve")
  /\ LET g == pending[c].lease.gen
     IN  /\ Unreserved(g, pending[c].owner)
         /\ reservation' = [reservation EXCEPT ![g] =
                              [owner |-> pending[c].owner, fence |-> pending[c].lease.fence]]
  /\ UNCHANGED recorded
  /\ Return(c)

\* ReleaseRuntime: only the reservation's own owner and fence remove it.
ReleaseRuntime(c) ==
  /\ Resuming(c, "releaseRuntime")
  /\ LET g == pending[c].lease.gen
     IN  /\ reservation[g] = [owner |-> pending[c].owner, fence |-> pending[c].lease.fence]
         /\ reservation' = [reservation EXCEPT ![g] = None]
  /\ UNCHANGED recorded
  /\ Return(c)

\* The second half finds the generation gone or the file not as it expects.
OperationRejected(c) ==
  /\ phase = "serving"
  /\ pending[c] # None
  /\ LET g == pending[c].lease.gen
         mine == [owner |-> pending[c].owner, fence |-> pending[c].lease.fence]
     IN  \/ ~Loadable(g)
         \/ pending[c].kind = "reserve" /\ ~Unreserved(g, pending[c].owner)
         \/ pending[c].kind = "releaseRuntime" /\ reservation[g] # mine
  /\ UNCHANGED <<recorded, reservation>>
  /\ Return(c)

-----------------------------------------------------------------------------
RecoverStep == \E g \in Generation : RecoverUnloadable(g) \/ RecoverLoadable(g)

GenerationStep ==
  \E g \in Generation, s \in Snapshot :
    \/ Materialize(g, s)
    \/ MaterializeFails(g, s)
    \/ MaterializeCrashes(g, s)
    \/ MutateTree(g, s)
    \/ DiscardGeneration(g)
    \/ DiscardCrashes(g, s)

LeaseStep ==
  \/ \E g \in Generation, o \in Owner, ttl \in TTL : AcquireLease(g, o, ttl)
  \/ \E g \in Generation : AcquireLeaseFails(g) \/ AcquireExpired(g)
  \/ \E l \in handles, ttl \in TTL : RenewLease(l, ttl)
  \/ \E l \in handles : ReleaseLease(l)

OperationStep ==
  \E c \in Caller :
    \/ \E kind \in {"refresh", "reserve", "releaseRuntime"}, l \in handles, o \in Owner :
         AssertLease(c, kind, l, o)
    \/ RefreshGeneration(c)
    \/ ReserveRuntime(c)
    \/ ReleaseRuntime(c)
    \/ OperationRejected(c)

Next ==
  \/ Open
  \/ RecoverStep
  \/ \E g \in Generation : RecoverInterrupted(g)
  \/ Recovered
  \/ Crash
  \/ Tick
  \/ GenerationStep
  \/ LeaseStep
  \/ OperationStep

Spec == Init /\ [][Next]_vars
=============================================================================
