------------------------- MODULE OperatorConfirmation -------------------------
(***************************************************************************)
(* internal/security/policy.go under internal/controlplane/plane.go and    *)
(* automation.go: the session and its nonce, what waits for the operator,  *)
(* one-time confirmations, and the integrations and publications they let  *)
(* through, while the candidate is edited, verification runs, sessions and *)
(* confirmations expire and the process restarts.                          *)
(*                                                                         *)
(* One generation.  A session number stands for the session and the fence  *)
(* of the lease taken in it; an approval, the operator's request, its      *)
(* nonce and the token it leads to have one identity.  An integration is   *)
(* named by what it would put into the live root; from where it starts,    *)
(* and what becomes of it, is in IntegrationJournal.  That a generation's  *)
(* record changed on the way is one of the reasons for a call to fail.     *)
(***************************************************************************)
EXTENDS Integers

CONSTANTS
  Caller,        \* tool calls that may run at once
  Approval,      \* requests the operator makes
  None,
  Content,       \* contents of the candidate
  Exported,      \* whether the exported calls that only tests make are made
  MaxSession,    \* bound: sessions opened, the first being 0
  MaxEdits       \* bound: edits of the candidate

ASSUME ConfirmationAssumption ==
  /\ None \notin Caller \cup Approval \cup Content
  /\ Exported \in BOOLEAN
  /\ MaxSession \in Nat /\ MaxEdits \in Nat

Class == {"destructive", "publication"}

\* The mode a publication request carries: PublicationPlan sets it, the tools
\* leave it out.
Mode == {"plan", ""}

\* What a plan would integrate, or the verified snapshot a request publishes.
Binding ==
  [class : {"destructive"}, session : 0 .. MaxSession, content : Content]
  \cup [class : {"publication"}, session : 0 .. MaxSession, content : Content, mode : Mode]

VARIABLES
  tree,          \* contents of the candidate
  passed,        \* the snapshots with a verification result that passed
  session,
  expired,       \* whether the session's time is over
  inStep,        \* whether the plane holds the nonce the engine expects
  pending,       \* the binding that waits for the operator, per class
  approval,
  call,
  edits,         \* how often the candidate was edited
  verified,      \* history: the snapshots that passed in any session
  performed      \* history: how many actions were authorised, and the last one

vars == <<tree, passed, session, expired, inStep, pending, approval, call,
          edits, verified, performed>>

files == <<tree, edits>>
engine == <<session, expired>>
results == <<passed, verified>>

NoApproval == [at |-> "none", binding |-> None]

\* Used, refused or lost: nobody has to know any more what it was for.
Over == [at |-> "over", binding |-> None]

Confirmation ==
  [at : {"none", "sent", "taken", "live", "expired", "over"}, binding : Binding \cup {None}]

Idle == [at |-> "idle"]

\* Where a call stands between two of its steps.
Call ==
  {Idle}
  \cup [at : {"bind"}] \cup [at : {"offer"}, content : Content]
  \cup [at : {"build"}, token : Approval \cup {None}]
  \cup [at : {"authorise"}, binding : Binding, token : Approval \cup {None}]

TypeOK ==
  /\ edits \in 0 .. MaxEdits
  /\ tree \in Content
  /\ passed \subseteq Content /\ verified \subseteq Content
  /\ session \in 0 .. MaxSession
  /\ expired \in BOOLEAN /\ inStep \in BOOLEAN
  /\ pending \in [Class -> Binding \cup {None}]
  /\ \A class \in Class : pending[class] # None =>
       pending[class].class = class /\ pending[class].session = session
  /\ approval \in [Approval -> Confirmation]
  /\ call \in [Caller -> Call]
  /\ performed \in [count : Nat, by : Approval \cup {None}, action : Binding \cup {None}]

Init ==
  /\ edits = 0
  /\ tree \in Content
  /\ passed = {} /\ verified = {}
  /\ session = 0 /\ expired = FALSE
  /\ inStep = TRUE
  /\ pending = [class \in Class |-> None]
  /\ approval = [a \in Approval |-> NoApproval]
  /\ call = [c \in Caller |-> Idle]
  /\ performed = [count |-> 0, by |-> None, action |-> None]

-----------------------------------------------------------------------------
(* The session and its nonce.                                              *)

\* A request that needs no confirmation is allowed, and both nonces move on.
Allowed == ~expired /\ inStep

\* The engine has moved on and the plane has not: authorizeDecision returns
\* before it stores the next nonce.
FallOutOfStep == inStep' = FALSE

\* A call the policy denies, such as an executable it does not list.
DeniedCall ==
  /\ Allowed
  /\ FallOutOfStep
  /\ UNCHANGED <<engine, files, results, pending, approval, call, performed>>

-----------------------------------------------------------------------------
(* Verification.                                                           *)

\* PlanVerification: a result for the same plan is forgotten.
PlanVerification ==
  /\ Allowed
  /\ passed' = passed \ {tree}
  /\ UNCHANGED <<engine, files, verified, inStep, pending, approval, call, performed>>

\* RunVerification: the candidate is what the plan is for, then and now.  The
\* result of an earlier run of the plan is replaced.
RunVerification(pass) ==
  /\ Allowed
  /\ passed' = IF pass THEN passed \cup {tree} ELSE passed \ {tree}
  /\ verified' = IF pass THEN verified \cup {tree} ELSE verified
  /\ UNCHANGED <<engine, files, inStep, pending, approval, call, performed>>

AnythingPassed(s) == passed # {}

\* hasVerifiedCandidate: a result that is valid for this snapshot.
HasVerified(s) == s \in passed

-----------------------------------------------------------------------------
(* What waits for the operator.                                            *)

Begins(c, next) == call[c].at = "idle" /\ call' = [call EXCEPT ![c] = next]
Goes(c, at, next) == call[c].at = at /\ call' = [call EXCEPT ![c] = next]
Returns(c, at) == Goes(c, at, Idle)

IntegrationBinding(content) ==
  [class |-> "destructive", session |-> session, content |-> content]

PublicationBinding(content, mode) ==
  [class |-> "publication", session |-> session, content |-> content, mode |-> mode]

\* rememberConfirmationBinding: an older one of the same class is replaced.
Remember(binding) == pending' = [pending EXCEPT ![binding.class] = binding]

\* BuildIntegrationPlan: of what the candidate contains, verified or not.
IntegrationPlan(c) ==
  /\ Allowed
  /\ Begins(c, [at |-> "offer", content |-> tree])
  /\ UNCHANGED <<engine, files, results, inStep, pending, approval, performed>>

\* Only a candidate that is verified by now is offered to the operator.
Offer(c) ==
  /\ Returns(c, "offer")
  /\ IF HasVerified(tree)
     THEN Remember(IntegrationBinding(call[c].content))
     ELSE UNCHANGED pending
  /\ UNCHANGED <<engine, files, results, inStep, approval, performed>>

\* IntegrationConfirmationBinding, in the other order.
IntegrationConfirmationBinding(c) ==
  /\ Exported
  /\ HasVerified(tree)
  /\ Begins(c, [at |-> "bind"])
  /\ UNCHANGED <<engine, files, results, inStep, pending, approval, performed>>

BuildBinding(c) ==
  /\ Returns(c, "bind")
  /\ Remember(IntegrationBinding(tree))
  /\ UNCHANGED <<engine, files, results, inStep, approval, performed>>

Offered(c, binding) ==
  /\ call[c].at = "idle"
  /\ HasVerified(tree)
  /\ Remember(binding)
  /\ UNCHANGED <<engine, files, results, inStep, approval, call, performed>>

\* The result that is named must be valid for the candidate, which is looked at
\* again by the adapter.  The request that is remembered has the mode of a plan.
PublicationPlan(c) == Offered(c, PublicationBinding(tree, "plan"))

PublicationConfirmationBinding(c) ==
  Exported /\ Offered(c, PublicationBinding(tree, ""))

-----------------------------------------------------------------------------
(* The operator.                                                           *)

\* The operator decides on something that has been offered.
Approve(a, class) ==
  /\ approval[a].at = "none" /\ pending[class] # None
  /\ approval' = [approval EXCEPT ![a].at = "sent", ![a].binding = pending[class]]
  /\ UNCHANGED <<engine, files, results, inStep, pending, call, performed>>

\* Plane.IssueOperatorConfirmation: what is approved must be what waits, and
\* waits no more.
TakePending(a) ==
  LET binding == approval[a].binding
  IN  /\ approval[a].at = "sent"
      /\ IF pending[binding.class] = binding /\ binding.session = session
         THEN /\ approval' = [approval EXCEPT ![a].at = "taken"]
              /\ pending' = [pending EXCEPT ![binding.class] = None]
         ELSE /\ approval' = [approval EXCEPT ![a] = Over]
              /\ UNCHANGED pending
      /\ UNCHANGED <<engine, files, results, inStep, call, performed>>

\* Engine.IssueOperatorConfirmation: in a session that lasts.
IssueConfirmation(a) ==
  /\ approval[a].at = "taken"
  /\ approval' = [approval EXCEPT ![a] = IF expired THEN Over ELSE [@ EXCEPT !.at = "live"]]
  /\ UNCHANGED <<engine, files, results, inStep, pending, call, performed>>

-----------------------------------------------------------------------------
(* Confirmed actions.                                                      *)

\* What a client can present: a token somebody was given, or nothing.
Token == {None} \cup {a \in Approval : approval[a].at \in {"live", "expired", "over"}}

Integrate(c, token) ==
  /\ token \in Token
  /\ HasVerified(tree)
  /\ Begins(c, [at |-> "build", token |-> token])
  /\ UNCHANGED <<engine, files, results, inStep, pending, approval, performed>>

BuildIntegration(c) ==
  /\ Goes(c, "build", [at |-> "authorise", token |-> call[c].token,
                       binding |-> IntegrationBinding(tree)])
  /\ UNCHANGED <<engine, files, results, inStep, pending, approval, performed>>

\* PublicationExecute: the result is checked in the record, then against the
\* candidate.
PublicationExecute(c, token) ==
  /\ token \in Token \ {None}
  /\ HasVerified(tree)
  /\ Begins(c, [at |-> "authorise", token |-> token, binding |-> PublicationBinding(tree, "")])
  /\ UNCHANGED <<engine, files, results, inStep, pending, approval, performed>>

\* consumeConfirmationLocked: the token is for exactly this.
Confirms(a, binding) ==
  /\ a # None
  /\ approval[a].at = "live"
  /\ approval[a].binding = binding

KeptConfirmation(a) == approval

\* It is deleted whether it fits or not.
ConsumedConfirmation(a) ==
  IF a = None THEN approval
  ELSE [approval EXCEPT ![a] = Over]

\* Refused without the nonce being used: nothing changes.
AuthoriseRefused(c) ==
  /\ ~Allowed
  /\ Returns(c, "authorise")
  /\ UNCHANGED <<engine, files, results, inStep, pending, approval, performed>>

AuthoriseDenied(c) ==
  /\ Allowed
  /\ Returns(c, "authorise")
  /\ ~Confirms(call[c].token, call[c].binding)
  /\ approval' = ConsumedConfirmation(call[c].token)
  /\ FallOutOfStep
  /\ UNCHANGED <<engine, files, results, pending, performed>>

Authorise(c) ==
  /\ Allowed
  /\ call[c].at = "authorise"
  /\ Confirms(call[c].token, call[c].binding)
  /\ approval' = ConsumedConfirmation(call[c].token)
  /\ performed' = [count |-> performed.count + 1, by |-> call[c].token, action |-> call[c].binding]
  /\ call' = [call EXCEPT ![c] = Idle]
  /\ UNCHANGED <<engine, files, results, inStep, pending>>

\* Any call may fail on the way, or be refused by what it finds.
Fails(c) ==
  /\ call[c].at \notin {"idle", "authorise"}
  /\ call' = [call EXCEPT ![c] = Idle]
  /\ UNCHANGED <<engine, files, results, inStep, pending, approval, performed>>

-----------------------------------------------------------------------------
(* Around them.                                                            *)

\* A process of the candidate, or the loop's patch.
Edit(s) ==
  /\ s # tree /\ edits < MaxEdits
  /\ tree' = s
  /\ edits' = edits + 1
  /\ UNCHANGED <<engine, results, inStep, pending, approval, call, performed>>

SessionExpires ==
  /\ ~expired
  /\ expired' = TRUE
  /\ UNCHANGED <<session, files, results, inStep, pending, approval, call, performed>>

\* The engine keeps a confirmation whose time is over.
ConfirmationExpires(a) ==
  /\ approval[a].at = "live"
  /\ approval' = [approval EXCEPT ![a].at = "expired"]
  /\ UNCHANGED <<engine, files, results, inStep, pending, call, performed>>

KeptPending == pending

NothingPending == [class \in Class |-> None]

\* The process ends and the plane is opened again: a new engine and session.
Restart ==
  /\ session < MaxSession
  /\ session' = session + 1
  /\ expired' = FALSE
  /\ inStep' = TRUE
  /\ passed' = {}
  /\ pending' = NothingPending
  /\ approval' = [a \in Approval |->
       IF approval[a].at \in {"taken", "live", "expired"} THEN Over ELSE approval[a]]
  /\ call' = [c \in Caller |-> Idle]
  /\ UNCHANGED <<files, verified, performed>>

-----------------------------------------------------------------------------
PlanStep(c) ==
  \/ IntegrationPlan(c) \/ Offer(c)
  \/ IntegrationConfirmationBinding(c) \/ BuildBinding(c)
  \/ PublicationPlan(c) \/ PublicationConfirmationBinding(c)

ActStep(c) ==
  \/ \E token \in Approval \cup {None} : Integrate(c, token) \/ PublicationExecute(c, token)
  \/ BuildIntegration(c)
  \/ Authorise(c) \/ AuthoriseDenied(c) \/ AuthoriseRefused(c)

OperatorStep(a) ==
  \/ \E class \in Class : Approve(a, class)
  \/ TakePending(a) \/ IssueConfirmation(a) \/ ConfirmationExpires(a)

Next ==
  \/ \E c \in Caller : PlanStep(c) \/ ActStep(c) \/ Fails(c)
  \/ \E a \in Approval : OperatorStep(a)
  \/ PlanVerification \/ (\E pass \in BOOLEAN : RunVerification(pass)) \/ DeniedCall
  \/ \E s \in Content : Edit(s)
  \/ SessionExpires \/ Restart

Spec == Init /\ [][Next]_vars
=============================================================================
