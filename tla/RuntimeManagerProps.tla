------------------------- MODULE RuntimeManagerProps -------------------------
(***************************************************************************)
(* The properties of RuntimeManager that the runs check.                   *)
(***************************************************************************)
EXTENDS RuntimeManager

(***************************************************************************)
(* "An old process/runtime is never resurrected as running"                *)
(* (docs/recovery.md:13-14): a runtime that callers may start, or run      *)
(* processes in, was created under a lease acquired since the control      *)
(* plane was opened.                                                       *)
(***************************************************************************)
NeverResurrected ==
  phase = "serving" =>
    \A g \in Generation :
      mem[g] # None /\ mem[g].state = "RUNNING" => mem[g].fence > openFence

(***************************************************************************)
(* "One runtime is admitted per generation" (ADR 0004:8): a generation     *)
(* never has two running containers, whatever failed or crashed in its     *)
(* earlier runtimes, under any sequence of leases.                         *)
(***************************************************************************)
OneContainerRuns ==
  \A g \in Generation : \A e, f \in Fence :
    container[<<g, e>>] = "running" /\ container[<<g, f>>] = "running" => e = f

(***************************************************************************)
(* A runtime recorded as STOPPED, in memory or on disk, has no running     *)
(* container: this is what allows Create to replace it.                    *)
(***************************************************************************)
StoppedMeansStopped ==
  \A g \in Generation : \A r \in {mem[g], file[g]} :
    r # None /\ r.state = "STOPPED" => container[<<g, r.fence>>] # "running"

(***************************************************************************)
(* While a runtime is RUNNING its generation stays reserved for it, so     *)
(* that no other caller gets as far as creating one: the reservation is    *)
(* not given back early, and not by a call that failed.                    *)
(***************************************************************************)
RunningIsReserved ==
  phase = "serving" =>
    \A g \in Generation \ gone :
      mem[g] # None /\ mem[g].state \in {"READY", "RUNNING"} /\ mem[g].fence > openFence =>
        reserved[g] = mem[g].fence
=============================================================================
