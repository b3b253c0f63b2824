------------------------ MODULE SupervisedProcessProps ------------------------
(***************************************************************************)
(* The properties of SupervisedProcess that the runs check.                *)
(***************************************************************************)
EXTENDS SupervisedProcess

(***************************************************************************)
(* Reading by cursor (process.go:265-303), while chunks are appended and   *)
(* the memory moves to the spill file (208-240), gives each chunk that is  *)
(* kept once and in order, and within a stream as it was written; unless   *)
(* the spill file fails, none is missing.                                  *)
(***************************************************************************)
ReadsInOrder ==
  /\ \A i, j \in 1 .. Len(client) : i < j => client[i] < client[j]
  /\ \A i \in 1 .. Len(Kept) : Kept[i] # Broken =>
       /\ Kept[i].cursor <= Seen => \E k \in 1 .. Len(client) : client[k] = Kept[i].cursor
       /\ \A j \in 1 .. i - 1 :
            Kept[j] # Broken /\ Kept[j].stream = Kept[i].stream =>
              Kept[j].from + Kept[j].units <= Kept[i].from
  /\ ~failed => \A i \in 1 .. Len(client) : client[i] = i

(***************************************************************************)
(* When Wait returns the output is all there: no reader adds to it, and    *)
(* what the outcome says of it (spilled, truncated) stays true             *)
(* (process.go:195-205).                                                   *)
(***************************************************************************)
FinishedIsFinal ==
  [][supervisor = "done" => Kept' = Kept /\ spilled' = outcome.spilled /\ outcome' = outcome]_vars

(***************************************************************************)
(* A process that was started is over one day and Wait returns: the        *)
(* supervisor waits for its own readers and for a process that may ignore  *)
(* what asks it to end (process.go:186-206, 318-330).                      *)
(***************************************************************************)
WaitReturns == <>(supervisor \in {"done", "refused"})

-----------------------------------------------------------------------------
(* Statements of the tests the code does not keep.                         *)

(***************************************************************************)
(* A process that exits by itself leaves all it wrote                      *)
(* (process_test.go:29-44 expects both streams after Wait).                *)
(***************************************************************************)
OutputIsComplete ==
  supervisor = "done" /\ ctx = "open" /\ ~child.killed => taken = written
=============================================================================
