------------------------------- MODULE TaskTable -------------------------------
(***************************************************************************)
(* What task state promises: a table of handoffs that only grows, in which *)
(* a task keeps where it began, and one whose head moved is not GREEN any  *)
(* more until it is verified again.                                        *)
(***************************************************************************)
CONSTANTS
  Task,
  Commit,
  None,
  Damaged        \* a record something else destroyed

VARIABLE tasks

Init == tasks = [t \in Task |-> None]

Live(t) == tasks[t] \notin {None, Damaged}

Becomes(t, record) == tasks' = [tasks EXCEPT ![t] = record]

Add(t, c) ==
  /\ tasks[t] = None
  /\ Becomes(t, [base |-> c, head |-> c, verified |-> None, state |-> "RED"])

Move(t, c) ==
  /\ Live(t) /\ c # tasks[t].head
  /\ Becomes(t, [tasks[t] EXCEPT !.head = c, !.state = "RED"])

Verify(t) ==
  /\ Live(t)
  /\ Becomes(t, [tasks[t] EXCEPT !.verified = tasks[t].head, !.state = "GREEN"])

Damage(t) == Live(t) /\ Becomes(t, Damaged)

Next == \E t \in Task : Verify(t) \/ Damage(t) \/ \E c \in Commit : Add(t, c) \/ Move(t, c)

Spec == Init /\ [][Next]_tasks
=============================================================================
