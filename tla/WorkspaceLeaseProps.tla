------------------------- MODULE WorkspaceLeaseProps -------------------------
(***************************************************************************)
(* The properties of WorkspaceLease that the runs check and the theorems   *)
(* of WorkspaceLeaseProofs establish.                                      *)
(***************************************************************************)
EXTENDS WorkspaceLease

\* Every lease somebody can present: in a file or in a caller's memory.
LiveLeases ==
  handles \cup ({lease[g] : g \in Generation} \ {None})

(***************************************************************************)
(* Two leases with the same fence belong to the same ownership epoch: one  *)
(* generation, one owner.  A lost counter write, or a counter written      *)
(* after the lease, would hand one fence to two owners across a crash.     *)
(***************************************************************************)
FenceNamesOneEpoch ==
  \A a, b \in LiveLeases :
    a.fence = b.fence => a.gen = b.gen /\ a.owner = b.owner

(***************************************************************************)
(* Once Recover has finished, no lease and no runtime reservation dates    *)
(* from before the repository was opened: whoever wants to act has         *)
(* acquired a fresh fence (docs/recovery.md:6-8), however often recovery   *)
(* itself was interrupted.                                                 *)
(***************************************************************************)
NoInheritedAuthority ==
  phase = "serving" =>
    \A g \in Generation : dir[g] \in {"ACTIVE", "QUARANTINED"} =>
      /\ lease[g] # None => lease[g].fence > openFence
      /\ reservation[g] # None => reservation[g].fence > openFence

(***************************************************************************)
(* A generation quarantined for an expired lease stays quarantined until a *)
(* restart moves it aside: no refresh that was asserted before the         *)
(* quarantine writes ACTIVE metadata over it, and no caller discards it.   *)
(***************************************************************************)
QuarantineIsSticky ==
  [][\A g \in Generation :
       dir[g] = "QUARANTINED" => dir'[g] \in {"QUARANTINED", "set aside"}]_vars

(***************************************************************************)
(* A held lease is never replaced by another owner's: the file changes     *)
(* only to a renewal of the same epoch or to nothing.                      *)
(***************************************************************************)
LeaseIsNotStolen ==
  [][\A g \in Generation : lease[g] # None /\ lease'[g] # None =>
       lease'[g].fence = lease[g].fence /\ lease'[g].owner = lease[g].owner]_vars

(***************************************************************************)
(* "ReserveRuntime permits one runtime owner for a generation"             *)
(* (workspace.go:526): a reservation is never overwritten, although both   *)
(* contenders may have passed AssertLease before either wrote the file.    *)
(***************************************************************************)
OneRuntimeOwner ==
  [][\A g \in Generation : reservation[g] # None =>
       reservation'[g] \in {reservation[g], None}]_vars

\* The lease files implement the abstract fence authority.
Abstract == INSTANCE FenceAuthority WITH
  Resource <- Generation,
  last <- fence,
  held <- [g \in Generation |-> IF lease[g] = None THEN 0 ELSE lease[g].fence]

ImplementsFenceAuthority == Abstract!ASpec
=============================================================================
