--------------------------- MODULE FenceAuthority ---------------------------
(***************************************************************************)
(* What the lease files of the workspace authority promise, without files, *)
(* clocks or crashes: a resource is held under a fence greater than every  *)
(* fence granted before on any resource, or it is not held.  "AcquireLease *)
(* fences every new ownership epoch" (workspace.go:359).                   *)
(***************************************************************************)
EXTENDS Naturals

CONSTANT Resource

VARIABLES
  last,     \* the greatest fence ever spent
  held      \* the fence each resource is held under, 0 when it is free

avars == <<last, held>>

AInit ==
  /\ last = 0
  /\ held = [r \in Resource |-> 0]

\* A fence is spent, on a free resource or on nobody.
Grant(r) ==
  /\ held[r] = 0
  /\ last' = last + 1
  /\ held' = [held EXCEPT ![r] = last']

Spend ==
  /\ last' = last + 1
  /\ UNCHANGED held

Free(r) ==
  /\ held[r] # 0
  /\ held' = [held EXCEPT ![r] = 0]
  /\ UNCHANGED last

ANext ==
  \/ Spend
  \/ \E r \in Resource : Grant(r) \/ Free(r)

ASpec == AInit /\ [][ANext]_avars
=============================================================================
