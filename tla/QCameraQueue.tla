---------------------------- MODULE QCameraQueue ----------------------------
(***************************************************************************)
(* The queue of the camera HAL (QCameraQueue.cpp): a list under a mutex,   *)
(* so every operation is one step.  A command with priority goes to the    *)
(* head, in front of other commands with priority.                         *)
(***************************************************************************)
EXTENDS Sequences, Naturals, FiniteSets

enqueue(q, data) == Append(q, data)

enqueueWithPriority(q, data) == <<data>> \o q

\* flushNodes() with a matching function, given here by the nodes it matches:
\* the others stay, in their order.  nth(n) is the place of the n-th that stays.
flushNodes(q, matched) ==
  LET kept   == {i \in 1 .. Len(q) : q[i] \notin matched}
      nth(n) == CHOOSE i \in kept : Cardinality({j \in kept : j <= i}) = n
  IN  [n \in 1 .. Cardinality(kept) |-> q[nth(n)]]
=============================================================================
