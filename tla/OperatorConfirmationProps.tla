----------------------- MODULE OperatorConfirmationProps -----------------------
(***************************************************************************)
(* The properties of OperatorConfirmation that the runs check.             *)
(***************************************************************************)
EXTENDS OperatorConfirmation

Lapsed == {a \in Approval : approval[a].at \in {"expired", "over"}}

(***************************************************************************)
(* Each of the operator's approvals lets exactly the action it names       *)
(* through, at most once: whatever is offered anew in between, presented   *)
(* for something else, expired, presented by two calls at once, or         *)
(* interrupted by a restart (docs/operations.md:95-98).                    *)
(***************************************************************************)
OneTime == INSTANCE OneTimeApproval WITH
  Action <- Binding,
  approved <- [a \in Approval |-> IF a \in Lapsed THEN None ELSE approval[a].binding],
  usable <- {a \in Approval : approval[a].at = "live"},
  over <- Lapsed

ImplementsOneTimeApproval == OneTime!Spec

(***************************************************************************)
(* A candidate that never passed its verification is let into the live     *)
(* root only if it was edited in the middle of the plan that was offered   *)
(* and again in the middle of the integration: both check and build in     *)
(* steps of their own (plane.go:471-477, 486-489).                         *)
(***************************************************************************)
IntegratesVerifiedUnlessEdited ==
  [][performed' # performed =>
       LET action == performed'.action
       IN  action.class = "destructive" /\ action.content \notin verified => edits >= 2]_vars

-----------------------------------------------------------------------------
(* Statements of the documentation the code does not keep.                 *)

(***************************************************************************)
(* "plan/execute API with fresh binding and scoped confirmation" (ADR      *)
(* 0011:9): a publication that was planned, approved and is asked for in   *)
(* time is let through.                                                    *)
(***************************************************************************)
ApprovedPublicationsPass ==
  [][\A c \in Caller :
       call[c].at = "authorise" /\ Allowed /\ call[c].token # None =>
         LET token == approval[call[c].token]
             asked == call[c].binding
         IN  ( /\ token.at = "live"
               /\ asked.class = "publication" /\ token.binding.class = "publication"
               /\ token.binding.session = session
               /\ token.binding.content = asked.content
               /\ call'[c] # call[c] /\ session' = session )
             => performed' # performed]_vars
=============================================================================
