---------------------------- MODULE OneTimeApproval ----------------------------
(***************************************************************************)
(* What an operator's approvals promise: each one lets the action it names *)
(* be performed at most once, and lapses when it is misused or too old.    *)
(***************************************************************************)
EXTENDS Naturals

CONSTANTS
  Approval,      \* identities of approvals
  Action,        \* what can be approved
  None

VARIABLES
  approved,      \* what each approval names, or None
  usable,        \* approvals that are confirmed and may be used
  over,          \* approvals that were used or have lapsed
  performed      \* how many actions were performed, and the last one

vars == <<approved, usable, over, performed>>

Init ==
  /\ approved = [a \in Approval |-> None]
  /\ usable = {}
  /\ over = {}
  /\ performed = [count |-> 0, by |-> None, action |-> None]

Approve(a, action) ==
  /\ approved[a] = None /\ a \notin over
  /\ approved' = [approved EXCEPT ![a] = action]
  /\ UNCHANGED <<usable, over, performed>>

Confirm(a) ==
  /\ approved[a] # None /\ a \notin usable
  /\ usable' = usable \cup {a}
  /\ UNCHANGED <<approved, over, performed>>

Forget(S) ==
  /\ approved' = [a \in Approval |-> IF a \in S THEN None ELSE approved[a]]
  /\ usable' = usable \ S
  /\ over' = over \cup S

Perform(a) ==
  /\ a \in usable
  /\ performed' = [count |-> performed.count + 1, by |-> a, action |-> approved[a]]
  /\ Forget({a})

Lapse(S) == Forget(S) /\ UNCHANGED performed

Next ==
  \/ \E a \in Approval : Confirm(a) \/ Perform(a) \/ \E action \in Action : Approve(a, action)
  \/ \E S \in SUBSET Approval : Lapse(S)

Spec == Init /\ [][Next]_vars
=============================================================================
