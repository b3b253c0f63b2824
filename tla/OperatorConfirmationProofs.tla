---------------------- MODULE OperatorConfirmationProofs ----------------------
(***************************************************************************)
(* Theorems about OperatorConfirmation, for any number of callers,         *)
(* approvals, sessions, contents and edits.                                *)
(***************************************************************************)
EXTENDS OperatorConfirmationProps, TLAPS

\* An approval names something from when it is sent until it is over.
NamesSomething ==
  \A a \in Approval :
    approval[a].binding # None <=> approval[a].at \in {"sent", "taken", "live", "expired"}

\* A token was issued before it was presented.
TokensWereIssued ==
  \A c \in Caller :
    call[c].at \in {"build", "authorise"} /\ call[c].token # None =>
      approval[call[c].token].at \in {"live", "expired", "over"}

Inv == TypeOK /\ NamesSomething /\ TokensWereIssued

-----------------------------------------------------------------------------
LEMMA InitInv == Init => Inv
<1> SUFFICES ASSUME Init
             PROVE  Inv
  OBVIOUS
<1>1. TypeOK
  <2>1. pending \in [Class -> Binding \cup {None}] /\ \A class \in Class : pending[class] = None
    BY DEF Init
  <2>2. approval \in [Approval -> Confirmation]
    BY DEF Init, NoApproval, Confirmation
  <2>3. call \in [Caller -> Call]
    BY DEF Init, Call
  <2>4. performed \in [count : Nat, by : Approval \cup {None}, action : Binding \cup {None}]
    BY DEF Init
  <2>5. edits \in 0 .. MaxEdits /\ session \in 0 .. MaxSession
    BY ConfirmationAssumption DEF Init
  <2>6. /\ tree \in Content /\ passed \subseteq Content /\ verified \subseteq Content
        /\ expired \in BOOLEAN /\ inStep \in BOOLEAN
    BY Zenon DEF Init
  <2> QED
    BY <2>1, <2>2, <2>3, <2>4, <2>5, <2>6 DEF TypeOK
<1>2. NamesSomething /\ TokensWereIssued
  BY DEF Init, NamesSomething, TokensWereIssued, NoApproval, Idle
<1> QED
  BY <1>1, <1>2 DEF Inv

\* What a plan or a publication is named by.
LEMMA BindingTypes ==
  ASSUME TypeOK
  PROVE  /\ \A s \in Content : /\ IntegrationBinding(s) \in Binding
                               /\ IntegrationBinding(s).class = "destructive"
                               /\ IntegrationBinding(s).session = session
         /\ \A s \in Content, m \in Mode : /\ PublicationBinding(s, m) \in Binding
                                           /\ PublicationBinding(s, m).class = "publication"
                                           /\ PublicationBinding(s, m).session = session
         /\ \A b \in Binding : b.class \in Class
BY DEF TypeOK, Binding, IntegrationBinding, PublicationBinding, Class, Mode

LEMMA StepInv == Inv /\ [Next]_vars => Inv'
<1> SUFFICES ASSUME Inv, [Next]_vars
             PROVE  Inv'
  OBVIOUS
<1> USE ConfirmationAssumption DEF Inv, TypeOK, NamesSomething, TokensWereIssued, files, engine, results
<1>1. ASSUME NEW c \in Caller, PlanStep(c)
      PROVE  Inv'
  <2>1. CASE IntegrationPlan(c)
    BY <2>1 DEF IntegrationPlan, Begins, Call, Idle
  <2>2. CASE Offer(c)
    BY <2>2, BindingTypes DEF Offer, Returns, Goes, Remember, Call, Idle
  <2>3. CASE IntegrationConfirmationBinding(c)
    BY <2>3 DEF IntegrationConfirmationBinding, Begins, Call, Idle
  <2>4. CASE BuildBinding(c)
    BY <2>4, BindingTypes DEF BuildBinding, Returns, Goes, Remember, Call, Idle
  <2>5. CASE PublicationPlan(c)
    BY <2>5, BindingTypes DEF PublicationPlan, Offered, Remember, Mode
  <2>6. CASE PublicationConfirmationBinding(c)
    BY <2>6, BindingTypes DEF PublicationConfirmationBinding, Offered, Remember, Mode
  <2> QED
    BY <1>1, <2>1, <2>2, <2>3, <2>4, <2>5, <2>6 DEF PlanStep
<1>2. ASSUME NEW c \in Caller, ActStep(c)
      PROVE  Inv'
  <2>1. ASSUME NEW token \in Approval \cup {None}, Integrate(c, token)
        PROVE  Inv'
    BY <2>1 DEF Integrate, Begins, Token, Call, Idle
  <2>2. ASSUME NEW token \in Approval \cup {None}, PublicationExecute(c, token)
        PROVE  Inv'
    <3>1. PublicationBinding(tree, "") \in Binding
      BY BindingTypes DEF Mode
    <3>2. TypeOK'
      <4>1. [at |-> "authorise", token |-> token, binding |-> PublicationBinding(tree, "")] \in Call
        BY <3>1 DEF Call
      <4>2. call' \in [Caller -> Call]
        BY <2>2, <4>1 DEF PublicationExecute, Begins
      <4> QED
        BY <2>2, <4>2 DEF PublicationExecute
    <3>3. NamesSomething' /\ TokensWereIssued'
      BY <2>2 DEF PublicationExecute, Begins, Token, Call, Idle
    <3> QED
      BY <3>2, <3>3
  <2>3. CASE BuildIntegration(c)
    BY <2>3, BindingTypes DEF BuildIntegration, Goes, Call, Idle
  <2>4. CASE Authorise(c)
    BY <2>4 DEF Authorise, Confirms, ConsumedConfirmation, Over, Call, Idle, Confirmation
  <2>5. CASE AuthoriseDenied(c)
    <3> USE DEF AuthoriseDenied, Returns, Goes, ConsumedConfirmation, FallOutOfStep, Over, Idle
    <3>1. CASE call[c].token = None
      BY <2>5, <3>1 DEF Call
    <3>2. CASE call[c].token \in Approval
      <4>1. approval' \in [Approval -> Confirmation] /\ call' \in [Caller -> Call]
        BY <2>5, <3>2 DEF Confirmation, Call
      <4>2. TypeOK'
        BY <2>5, <4>1
      <4>3. NamesSomething' /\ TokensWereIssued'
        BY <2>5, <3>2
      <4> QED
        BY <4>2, <4>3
    <3> QED
      BY <2>5, <3>1, <3>2 DEF Call
  <2>6. CASE AuthoriseRefused(c)
    BY <2>6 DEF AuthoriseRefused, Returns, Goes, Call, Idle
  <2> QED
    BY <1>2, <2>1, <2>2, <2>3, <2>4, <2>5, <2>6 DEF ActStep
<1>3. ASSUME NEW c \in Caller, Fails(c)
      PROVE  Inv'
  BY <1>3 DEF Fails, Call, Idle
<1>4. ASSUME NEW a \in Approval, OperatorStep(a)
      PROVE  Inv'
  <2>1. ASSUME NEW class \in Class, Approve(a, class)
        PROVE  Inv'
    BY <2>1 DEF Approve, Confirmation
  <2>2. CASE TakePending(a)
    <3> DEFINE binding == approval[a].binding
    <3>1. binding \in Binding /\ binding.class \in Class
      BY <2>2, BindingTypes DEF TakePending, Confirmation
    <3>2. CASE pending[binding.class] = binding /\ binding.session = session
      <4>1. /\ approval' = [approval EXCEPT ![a].at = "taken"]
            /\ pending' = [pending EXCEPT ![binding.class] = None]
            /\ UNCHANGED <<engine, files, results, inStep, call, performed>>
        BY <2>2, <3>2 DEF TakePending
      <4>2. approval' \in [Approval -> Confirmation]
        BY <4>1 DEF Confirmation
      <4>3. TypeOK'
        BY <4>1, <4>2, <3>1
      <4>4. NamesSomething' /\ TokensWereIssued'
        BY <2>2, <4>1 DEF TakePending, Confirmation
      <4> QED
        BY <4>3, <4>4
    <3>3. CASE ~(pending[binding.class] = binding /\ binding.session = session)
      <4>1. /\ approval' = [approval EXCEPT ![a] = Over]
            /\ UNCHANGED <<pending, engine, files, results, inStep, call, performed>>
        BY <2>2, <3>3 DEF TakePending
      <4>2. approval' \in [Approval -> Confirmation]
        BY <4>1 DEF Confirmation, Over
      <4>3. TypeOK'
        BY <4>1, <4>2
      <4>4. NamesSomething' /\ TokensWereIssued'
        BY <2>2, <4>1 DEF TakePending, Confirmation, Over
      <4> QED
        BY <4>3, <4>4
    <3> QED
      BY <3>2, <3>3
  <2>3. CASE IssueConfirmation(a)
    BY <2>3 DEF IssueConfirmation, Over, Confirmation
  <2>4. CASE ConfirmationExpires(a)
    BY <2>4 DEF ConfirmationExpires, Confirmation
  <2> QED
    BY <1>4, <2>1, <2>2, <2>3, <2>4 DEF OperatorStep
<1>5. CASE PlanVerification
  BY <1>5 DEF PlanVerification
<1>6. ASSUME NEW pass \in BOOLEAN, RunVerification(pass)
      PROVE  Inv'
  BY <1>6 DEF RunVerification
<1>7. CASE DeniedCall
  BY <1>7 DEF DeniedCall, FallOutOfStep
<1>8. ASSUME NEW s \in Content, Edit(s)
      PROVE  Inv'
  BY <1>8 DEF Edit
<1>9. CASE SessionExpires
  BY <1>9 DEF SessionExpires
<1>10. CASE Restart
  <2> USE <1>10 DEF Restart, NothingPending, Over, Call, Idle, Confirmation
  <2>1. session' \in 0 .. MaxSession
    OBVIOUS
  <2>2. approval' \in [Approval -> Confirmation]
    OBVIOUS
  <2>3. pending' \in [Class -> Binding \cup {None}] /\ \A class \in Class : pending'[class] = None
    OBVIOUS
  <2>4. TypeOK'
    BY <2>1, <2>2, <2>3
  <2>5. NamesSomething' /\ TokensWereIssued'
    OBVIOUS
  <2> QED
    BY <2>4, <2>5
<1>11. CASE UNCHANGED vars
  BY <1>11 DEF vars
<1> QED
  BY <1>1, <1>2, <1>3, <1>4, <1>5, <1>6, <1>7, <1>8, <1>9, <1>10, <1>11 DEF Next

\* The invariant holds throughout.
LEMMA Invariant == Spec => []Inv
<1>1. Init => Inv
  BY InitInv
<1>2. Inv /\ [Next]_vars => Inv'
  BY StepInv
<1> QED
  BY <1>1, <1>2, PTL DEF Spec

(***************************************************************************)
(* Every reachable state is well typed: what waits for the operator is of  *)
(* the session that runs (plane.go:338-358).                               *)
(***************************************************************************)
THEOREM TypesHold == Spec => []TypeOK
<1>1. Inv => TypeOK
  BY DEF Inv
<1> QED
  BY <1>1, Invariant, PTL

-----------------------------------------------------------------------------
(* One-time approval.                                                      *)

\* Approvals that are set aside, for whatever reason, have lapsed.
LEMMA SetAside ==
  ASSUME NEW S \in SUBSET Approval, Inv,
         \A a \in S : approval'[a].at \in {"expired", "over"} /\ a \in Approval,
         \A a \in S : approval[a].at # "none",
         \A a \in Approval \ S : approval'[a] = approval[a],
         UNCHANGED performed
  PROVE  OneTime!Lapse(S)
BY DEF OneTime!Lapse, OneTime!Forget, Lapsed

LEMMA InitAbstract == Init => OneTime!Init
BY DEF Init, OneTime!Init, Lapsed, NoApproval

\* A step that leaves approvals and what was performed alone is none of the
\* abstract specification.
LEMMA Stutters == UNCHANGED <<approval, performed>> => UNCHANGED OneTime!vars
BY DEF OneTime!vars, Lapsed

\* Every step is one of the abstract specification or changes nothing there.
LEMMA StepSimulation == Inv /\ [Next]_vars => [OneTime!Next]_(OneTime!vars)
<1> SUFFICES ASSUME Inv, [Next]_vars
             PROVE  OneTime!Next \/ UNCHANGED OneTime!vars
  OBVIOUS
<1>a. ASSUME NEW S \in SUBSET Approval, OneTime!Lapse(S)
      PROVE  OneTime!Next
  BY <1>a DEF OneTime!Next
<1>1. ASSUME NEW c \in Caller, PlanStep(c)
      PROVE  UNCHANGED <<approval, performed>>
  BY <1>1 DEF PlanStep, IntegrationPlan, Offer, IntegrationConfirmationBinding, BuildBinding,
              PublicationPlan, PublicationConfirmationBinding, Offered
<1>2. ASSUME NEW c \in Caller, ActStep(c)
      PROVE  OneTime!Next \/ UNCHANGED <<approval, performed>>
  <2>1. CASE Authorise(c)
    <3>1. PICK a \in Approval :
            /\ a = call[c].token
            /\ approval[a].at = "live" /\ approval[a].binding = call[c].binding
      BY <2>1 DEF Authorise, Confirms, Inv, TypeOK, Call, Idle
    <3>2. approval' = [approval EXCEPT ![a] = Over]
      BY <2>1, <3>1 DEF Authorise, Confirms, ConsumedConfirmation
    <3>3. performed' = [count |-> performed.count + 1, by |-> a, action |-> approval[a].binding]
      BY <2>1, <3>1 DEF Authorise
    <3>4. OneTime!Perform(a)
      BY <3>1, <3>2, <3>3 DEF OneTime!Perform, OneTime!Forget, Lapsed, Over, Inv, TypeOK
    <3> QED
      BY <3>1, <3>4 DEF OneTime!Next
  <2>2. CASE AuthoriseDenied(c)
    <3>1. CASE call[c].token = None
      BY <2>2, <3>1 DEF AuthoriseDenied, ConsumedConfirmation
    <3>2. CASE call[c].token # None
      <4>1. PICK a \in Approval : a = call[c].token /\ approval[a].at # "none"
        BY <2>2, <3>2 DEF AuthoriseDenied, Returns, Goes, Inv, TypeOK, TokensWereIssued, Call, Idle
      <4>2. approval' = [approval EXCEPT ![a] = Over] /\ UNCHANGED performed
        BY <2>2, <3>2, <4>1 DEF AuthoriseDenied, ConsumedConfirmation
      <4>3. OneTime!Lapse({a})
        BY <4>1, <4>2, SetAside DEF Over, Inv, TypeOK
      <4> QED
        BY <4>3, <1>a
    <3> QED
      BY <3>1, <3>2
  <2> QED
    BY <1>2, <2>1, <2>2 DEF ActStep, Integrate, PublicationExecute, BuildIntegration, AuthoriseRefused
<1>3. ASSUME NEW a \in Approval, OperatorStep(a)
      PROVE  OneTime!Next \/ UNCHANGED OneTime!vars
  <2>1. ASSUME NEW class \in Class, Approve(a, class)
        PROVE  OneTime!Next
    <3>1. PICK action \in Binding : action = pending[class] /\ approval[a].at = "none"
      BY <2>1 DEF Approve, Inv, TypeOK
    <3>2. OneTime!Approve(a, action)
      BY <2>1, <3>1 DEF Approve, OneTime!Approve, Lapsed, Inv, TypeOK, NamesSomething, Confirmation
    <3> QED
      BY <3>1, <3>2 DEF OneTime!Next
  <2>2. CASE TakePending(a)
    <3>1. approval[a].at = "sent" /\ UNCHANGED performed
      BY <2>2 DEF TakePending
    <3>2. CASE approval' = [approval EXCEPT ![a].at = "taken"]
      BY <3>1, <3>2 DEF OneTime!vars, Lapsed, Inv, TypeOK, Confirmation
    <3>3. CASE approval' = [approval EXCEPT ![a] = Over]
      <4>1. OneTime!Lapse({a})
        BY <3>1, <3>3, SetAside DEF Over, Inv, TypeOK
      <4> QED
        BY <4>1, <1>a
    <3> QED
      BY <2>2, <3>2, <3>3 DEF TakePending
  <2>3. CASE IssueConfirmation(a)
    <3>1. approval[a].at = "taken" /\ UNCHANGED performed
      BY <2>3 DEF IssueConfirmation
    <3>2. CASE approval' = [approval EXCEPT ![a].at = "live"]
      <4>1. OneTime!Confirm(a)
        BY <3>1, <3>2 DEF OneTime!Confirm, Lapsed, Inv, TypeOK, NamesSomething, Confirmation
      <4> QED
        BY <4>1 DEF OneTime!Next
    <3>3. CASE approval' = [approval EXCEPT ![a] = Over]
      <4>1. OneTime!Lapse({a})
        BY <3>1, <3>3, SetAside DEF Over, Inv, TypeOK
      <4> QED
        BY <4>1, <1>a
    <3> QED
      BY <2>3, <3>2, <3>3 DEF IssueConfirmation, Inv, TypeOK
  <2>4. CASE ConfirmationExpires(a)
    <3>1. /\ approval[a].at = "live" /\ UNCHANGED performed
          /\ approval' = [approval EXCEPT ![a].at = "expired"]
      BY <2>4 DEF ConfirmationExpires
    <3>2. OneTime!Lapse({a})
      BY <3>1, SetAside DEF Inv, TypeOK, Confirmation
    <3> QED
      BY <3>2, <1>a
  <2> QED
    BY <1>3, <2>1, <2>2, <2>3, <2>4 DEF OperatorStep
<1>4. CASE Restart
  <2>1. PICK S \in SUBSET Approval :
          S = {a \in Approval : approval[a].at \in {"taken", "live", "expired"}}
    OBVIOUS
  <2>2. /\ \A a \in S : approval'[a] = Over
        /\ \A a \in Approval \ S : approval'[a] = approval[a]
        /\ UNCHANGED performed
    BY <1>4, <2>1 DEF Restart
  <2>3. OneTime!Lapse(S)
    BY <2>1, <2>2, SetAside DEF Over
  <2> QED
    BY <2>3, <1>a
<1>5. \/ \E c \in Caller : Fails(c)
      \/ PlanVerification \/ (\E pass \in BOOLEAN : RunVerification(pass)) \/ DeniedCall
      \/ (\E s \in Content : Edit(s)) \/ SessionExpires \/ UNCHANGED vars
      => UNCHANGED <<approval, performed>>
  BY DEF Fails, PlanVerification, RunVerification, DeniedCall, Edit, SessionExpires, vars
<1> QED
  BY <1>1, <1>2, <1>3, <1>4, <1>5, Stutters DEF Next

(***************************************************************************)
(* For any number of approvals, calls, edits and restarts, each approval   *)
(* lets the action it names through at most once, and only after it was    *)
(* confirmed (plane.go:327-345, policy.go:353-379, 691-703).               *)
(***************************************************************************)
THEOREM ApprovalsAreOneTime == Spec => ImplementsOneTimeApproval
<1>1. Init => OneTime!Init
  BY InitAbstract
<1>2. Inv /\ [Next]_vars => [OneTime!Next]_(OneTime!vars)
  BY StepSimulation
<1> QED
  BY <1>1, <1>2, Invariant, PTL DEF Spec, ImplementsOneTimeApproval, OneTime!Spec

-----------------------------------------------------------------------------
(* An unverified candidate needs two edits.                                *)

\* An integration of contents that never passed.
Unverified(binding) == binding.class = "destructive" /\ binding.content \notin verified

\* One that is offered took an edit; if there was no other, the candidate is
\* still what the check saw, or still what was offered.
Noticed(binding) ==
  Unverified(binding) =>
    /\ edits >= 1
    /\ edits = 1 => tree \in verified \/ tree = binding.content

\* The first half: between check and build of what is offered.
OffersNotice ==
  /\ passed \subseteq verified
  /\ \A c \in Caller : call[c].at = "offer" => call[c].content = tree \/ edits >= 1
  /\ \A c \in Caller : call[c].at = "bind" => tree \in verified \/ edits >= 1
  /\ \A class \in Class : pending[class] # None => Noticed(pending[class])
  /\ \A a \in Approval : approval[a].at \in {"sent", "taken", "live"} => Noticed(approval[a].binding)

\* The token of a call would let an unverified integration through.
Presents(c) ==
  /\ call[c].token # None
  /\ approval[call[c].token].at = "live"
  /\ Unverified(approval[call[c].token].binding)

\* The second half: between check and build of what is integrated.
ActsNotice ==
  /\ \A c \in Caller : call[c].at = "build" /\ Presents(c) =>
       edits >= 1 /\ (edits = 1 => tree \in verified)
  /\ \A c \in Caller :
       call[c].at = "authorise" /\ Presents(c)
       /\ call[c].binding = approval[call[c].token].binding => edits >= 2

EditInv == Inv /\ OffersNotice /\ ActsNotice

LEMMA InitNotice == Init => OffersNotice /\ ActsNotice
BY DEF Init, OffersNotice, ActsNotice, NoApproval, Idle

LEMMA StepOffers == EditInv /\ [Next]_vars => OffersNotice'
<1> SUFFICES ASSUME EditInv, [Next]_vars
             PROVE  OffersNotice'
  OBVIOUS
<1> USE ConfirmationAssumption
    DEF EditInv, Inv, TypeOK, OffersNotice, Noticed, Unverified, files, engine, results
<1>1. ASSUME NEW c \in Caller, PlanStep(c)
      PROVE  OffersNotice'
  <2>1. CASE IntegrationPlan(c)
    BY <2>1 DEF IntegrationPlan, Begins
  <2>2. CASE Offer(c)
    <3>1. CASE HasVerified(tree)
      BY <2>2, <3>1, BindingTypes DEF Offer, Returns, Goes, Remember, Idle, HasVerified, IntegrationBinding
    <3>2. CASE ~HasVerified(tree)
      BY <2>2, <3>2 DEF Offer, Returns, Goes, Idle
    <3> QED
      BY <3>1, <3>2
  <2>3. CASE IntegrationConfirmationBinding(c)
    BY <2>3 DEF IntegrationConfirmationBinding, Begins, HasVerified
  <2>4. CASE BuildBinding(c)
    BY <2>4, BindingTypes DEF BuildBinding, Returns, Goes, Remember, Idle, IntegrationBinding
  <2>5. CASE PublicationPlan(c) \/ PublicationConfirmationBinding(c)
    <3>1. PICK m \in Mode : Offered(c, PublicationBinding(tree, m))
      BY <2>5 DEF PublicationPlan, PublicationConfirmationBinding, Mode
    <3>2. /\ pending' = [pending EXCEPT !["publication"] = PublicationBinding(tree, m)]
          /\ PublicationBinding(tree, m).class = "publication"
          /\ UNCHANGED <<engine, files, results, inStep, approval, call, performed>>
      BY <3>1, BindingTypes DEF Offered, Remember
    <3> QED
      BY <3>2
  <2> QED
    BY <1>1, <2>1, <2>2, <2>3, <2>4, <2>5 DEF PlanStep
<1>2. ASSUME NEW c \in Caller, ActStep(c)
      PROVE  OffersNotice'
  <2>1. ASSUME NEW token \in Approval \cup {None},
               Integrate(c, token) \/ PublicationExecute(c, token)
        PROVE  OffersNotice'
    <3>1. CASE Integrate(c, token)
      BY <3>1 DEF Integrate, Begins
    <3>2. CASE PublicationExecute(c, token)
      BY <3>2 DEF PublicationExecute, Begins
    <3> QED
      BY <2>1, <3>1, <3>2
  <2>2. CASE BuildIntegration(c) \/ AuthoriseRefused(c)
    BY <2>2 DEF BuildIntegration, AuthoriseRefused, Returns, Goes, Idle
  <2>3. CASE Authorise(c)
    BY <2>3 DEF Authorise, ConsumedConfirmation, Over, Idle
  <2>4. CASE AuthoriseDenied(c)
    BY <2>4 DEF AuthoriseDenied, ConsumedConfirmation, Over, Returns, Goes, Idle
  <2> QED
    BY <1>2, <2>1, <2>2, <2>3, <2>4 DEF ActStep
<1>3. ASSUME NEW c \in Caller, Fails(c)
      PROVE  OffersNotice'
  BY <1>3 DEF Fails, Idle
<1>4. ASSUME NEW a \in Approval, OperatorStep(a)
      PROVE  OffersNotice'
  BY <1>4 DEF OperatorStep, Approve, TakePending, IssueConfirmation, ConfirmationExpires, Over, Confirmation
<1>5. CASE PlanVerification
  BY <1>5 DEF PlanVerification
<1>6. ASSUME NEW pass \in BOOLEAN, RunVerification(pass)
      PROVE  OffersNotice'
  BY <1>6 DEF RunVerification
<1>7. CASE DeniedCall
  BY <1>7 DEF DeniedCall
<1>8. ASSUME NEW s \in Content, Edit(s)
      PROVE  OffersNotice'
  BY <1>8 DEF Edit
<1>9. CASE SessionExpires
  BY <1>9 DEF SessionExpires
<1>10. CASE Restart
  BY <1>10 DEF Restart, NothingPending, Over, Idle
<1>11. CASE UNCHANGED vars
  BY <1>11 DEF vars
<1> QED
  BY <1>1, <1>2, <1>3, <1>4, <1>5, <1>6, <1>7, <1>8, <1>9, <1>10, <1>11 DEF Next

LEMMA StepActs == EditInv /\ [Next]_vars => ActsNotice'
<1> SUFFICES ASSUME EditInv, [Next]_vars
             PROVE  ActsNotice'
  OBVIOUS
<1> USE ConfirmationAssumption
    DEF EditInv, Inv, TypeOK, TokensWereIssued, ActsNotice, Presents, Unverified, files, engine, results
<1>1. ASSUME NEW c \in Caller, PlanStep(c)
      PROVE  ActsNotice'
  <2>1. CASE IntegrationPlan(c)
    BY <2>1 DEF IntegrationPlan, Begins
  <2>2. CASE Offer(c)
    BY <2>2 DEF Offer, Returns, Goes, Idle
  <2>3. CASE IntegrationConfirmationBinding(c)
    BY <2>3 DEF IntegrationConfirmationBinding, Begins
  <2>4. CASE BuildBinding(c)
    BY <2>4 DEF BuildBinding, Returns, Goes, Idle
  <2>5. CASE PublicationPlan(c) \/ PublicationConfirmationBinding(c)
    <3>1. UNCHANGED <<tree, edits, verified, approval, call>>
      BY <2>5 DEF PublicationPlan, PublicationConfirmationBinding, Offered
    <3> QED
      BY <3>1
  <2> QED
    BY <1>1, <2>1, <2>2, <2>3, <2>4, <2>5 DEF PlanStep
<1>2. ASSUME NEW c \in Caller, ActStep(c)
      PROVE  ActsNotice'
  <2>1. ASSUME NEW token \in Approval \cup {None}, Integrate(c, token)
        PROVE  ActsNotice'
    BY <2>1 DEF Integrate, Begins, HasVerified, OffersNotice, Noticed
  <2>2. ASSUME NEW token \in Approval \cup {None}, PublicationExecute(c, token)
        PROVE  ActsNotice'
    <3>1. PublicationBinding(tree, "").class # "destructive"
      BY BindingTypes DEF Mode
    <3>2. /\ call' = [call EXCEPT ![c] = [at |-> "authorise", token |-> token,
                                         binding |-> PublicationBinding(tree, "")]]
          /\ UNCHANGED <<engine, files, results, inStep, pending, approval, performed>>
      BY <2>2 DEF PublicationExecute, Begins
    <3> QED
      BY <3>1, <3>2
  <2>3. CASE BuildIntegration(c)
    BY <2>3 DEF BuildIntegration, IntegrationBinding, Goes
  <2>4. CASE Authorise(c)
    BY <2>4 DEF Authorise, ConsumedConfirmation, Over, Idle
  <2>5. CASE AuthoriseDenied(c)
    BY <2>5 DEF AuthoriseDenied, ConsumedConfirmation, Over, Returns, Goes, Idle
  <2>6. CASE AuthoriseRefused(c)
    BY <2>6 DEF AuthoriseRefused, Returns, Goes, Idle
  <2> QED
    BY <1>2, <2>1, <2>2, <2>3, <2>4, <2>5, <2>6 DEF ActStep
<1>3. ASSUME NEW c \in Caller, Fails(c)
      PROVE  ActsNotice'
  BY <1>3 DEF Fails, Idle
<1>4. ASSUME NEW a \in Approval, OperatorStep(a)
      PROVE  ActsNotice'
  <2>1. ASSUME NEW class \in Class, Approve(a, class)
        PROVE  ActsNotice'
    <3>1. /\ UNCHANGED <<tree, edits, verified, call>>
          /\ \A b \in Approval : approval'[b].at = "live" => approval'[b] = approval[b]
      BY <2>1 DEF Approve, Confirmation
    <3> QED
      BY <3>1 DEF Call, Idle
  <2>2. CASE TakePending(a)
    <3>1. /\ UNCHANGED <<tree, edits, verified, call>>
          /\ \A b \in Approval : approval'[b].at = "live" => approval'[b] = approval[b]
      BY <2>2 DEF TakePending, Over, Confirmation
    <3> QED
      BY <3>1 DEF Call, Idle
  <2>3. CASE IssueConfirmation(a)
    BY <2>3 DEF IssueConfirmation, Over, Confirmation
  <2>4. CASE ConfirmationExpires(a)
    BY <2>4 DEF ConfirmationExpires, Confirmation
  <2> QED
    BY <1>4, <2>1, <2>2, <2>3, <2>4 DEF OperatorStep
<1>5. CASE PlanVerification
  BY <1>5 DEF PlanVerification
<1>6. ASSUME NEW pass \in BOOLEAN, RunVerification(pass)
      PROVE  ActsNotice'
  BY <1>6 DEF RunVerification
<1>7. CASE DeniedCall
  BY <1>7 DEF DeniedCall
<1>8. ASSUME NEW s \in Content, Edit(s)
      PROVE  ActsNotice'
  BY <1>8 DEF Edit
<1>9. CASE SessionExpires
  BY <1>9 DEF SessionExpires
<1>10. CASE Restart
  BY <1>10 DEF Restart, Idle
<1>11. CASE UNCHANGED vars
  BY <1>11 DEF vars
<1> QED
  BY <1>1, <1>2, <1>3, <1>4, <1>5, <1>6, <1>7, <1>8, <1>9, <1>10, <1>11 DEF Next

\* Only an authorised call performs something, with the token it presents.
LEMMA StepPerforms ==
  ASSUME EditInv, [Next]_vars, performed' # performed,
         performed'.action.class = "destructive", performed'.action.content \notin verified
  PROVE  edits >= 2
<1>1. PICK c \in Caller : Authorise(c)
  BY DEF Next, vars, PlanStep, ActStep, OperatorStep, IntegrationPlan, Offer,
         IntegrationConfirmationBinding, BuildBinding, PublicationPlan,
         PublicationConfirmationBinding, Offered, Integrate, PublicationExecute, BuildIntegration,
         AuthoriseDenied, AuthoriseRefused, Fails, Approve, TakePending, IssueConfirmation,
         ConfirmationExpires, PlanVerification, RunVerification, DeniedCall, Edit, SessionExpires,
         Restart
<1>2. performed'.action = call[c].binding
  BY <1>1 DEF Authorise
<1>3. Presents(c) /\ call[c].binding = approval[call[c].token].binding
  BY <1>1, <1>2 DEF Authorise, Confirms, Presents, Unverified
<1> QED
  BY <1>1, <1>3 DEF EditInv, ActsNotice, Authorise

(***************************************************************************)
(* For any number of calls, approvals and edits, a candidate that never    *)
(* passed reaches the live root only if it was edited at least twice, once *)
(* inside the plan and once inside the integration (plane.go:460-498).     *)
(***************************************************************************)
THEOREM VerifiedUnlessEdited == Spec => IntegratesVerifiedUnlessEdited
<1>1. Init => EditInv
  BY InitInv, InitNotice DEF EditInv
<1>2. EditInv /\ [Next]_vars => EditInv'
  BY StepInv, StepOffers, StepActs DEF EditInv
<1>3. EditInv /\ [Next]_vars =>
        [performed' # performed =>
           LET action == performed'.action
           IN  action.class = "destructive" /\ action.content \notin verified => edits >= 2]_vars
  BY StepPerforms
<1> QED
  BY <1>1, <1>2, <1>3, PTL DEF Spec, IntegratesVerifiedUnlessEdited

=============================================================================
