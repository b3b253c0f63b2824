-------------------------- MODULE AutonomousRunProps --------------------------
(***************************************************************************)
(* The properties of AutonomousRun that the runs check.                    *)
(***************************************************************************)
EXTENDS AutonomousRun

(***************************************************************************)
(* A run is completed only by a loop bound to contents whose verification  *)
(* passed, in this goroutine or in one before a restart whose events this  *)
(* one has loaded (automation.go:478-491, loop.go:252-281).                *)
(***************************************************************************)
CompletedMeansVerified ==
  [][run'.status = "completed" /\ run.status # "completed" =>
       \E l \in Loop : loop[l].at = "complete" /\ loop[l].request \in passed]_vars

(***************************************************************************)
(* "Retry behavior converges instead of looping on an identical failed     *)
(* action" (ADR 0009): whatever was retried, reloaded or resumed, no loop  *)
(* is about to execute an action that failed before in the same run.       *)
(***************************************************************************)
FailedActionsAreNotRepeated ==
  \A l \in Loop :
    loop[l].at \in {"top", "verify", "refresh", "replan"} /\ loop[l].state.phase \in Executing
      => Fingerprint(loop[l].state.phase, loop[l].state.plan) \notin loop[l].state.failed

(***************************************************************************)
(* Close waits for every loop that has begun: when the stores are closed,  *)
(* a goroutine launched too late to be waited for has done nothing, and    *)
(* neither the run nor the candidate is changed any more.                  *)
(***************************************************************************)
NothingAfterClose ==
  [][plane = "closed" /\ plane' = "closed" =>
       /\ UNCHANGED durable
       /\ \A l \in Loop : ~ApplyPatch(l)]_vars

Position == [p \in Phase |->
  CASE p = "inspect" -> 10
    [] p = "hypothesis" -> 9
    [] p = "plan" -> 8
    [] p = "parallel_commands" -> 7
    [] p = "patch_candidate" -> 6
    [] p = "targeted_test" -> 5
    [] p = "full_verify" -> 4
    [] p = "checkpoint" -> 3
    [] p = "diagnose_retry" -> 2
    [] OTHER -> 1]

\* How far a state is from the end of its run: each retry that is left is
\* worth more than all phases together.
Distance(state) == (MaxRetries - state.retries) * 10 + Position[state.phase]

(***************************************************************************)
(* "Retry behavior converges" (ADR 0009), and so a goroutine ends: each    *)
(* state it is about to persist (loop.go:137-268) is nearer to the end     *)
(* than the one before, through patches, failures, diagnoses and retries.  *)
(***************************************************************************)
Converges ==
  [][\A l \in Loop :
       ~At(l, "persist") /\ At(l, "persist")' =>
         Distance(loop'[l].state) < Distance(loop[l].state)]_vars
=============================================================================
