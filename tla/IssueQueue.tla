------------------------------ MODULE IssueQueue ------------------------------
(***************************************************************************)
(* The issue queue (mkIssueQueue of IssueQueue.bsv) as functions of its    *)
(* contents: a sequence of entries in dispatch order, each with the        *)
(* physical registers it reads and a ready bit per register.               *)
(***************************************************************************)
EXTENDS Naturals, Sequences

iqReady(q) == {k \in 1 .. Len(q) : q[k].rdy[1] /\ q[k].rdy[2]}

(* issue.first / issue.deq take the oldest ready entry.                    *)
iqFirst(q, k) == k \in iqReady(q) /\ \A j \in iqReady(q) : k <= j

iqDeq(q, k) == [j \in 1 .. Len(q) - 1 |-> IF j < k THEN q[j] ELSE q[j + 1]]

iqEnq(q, entry) == Append(q, entry)

(* Faulty variant: the second operand never wakes up.                      *)
iqWakeup_first(q, pdst) ==
  [k \in 1 .. Len(q) |->
     [q[k] EXCEPT !.rdy = [j \in 1 .. 2 |-> q[k].rdy[j] \/ (j = 1 /\ q[k].regs[j] = pdst)]]]

iqWakeup(q, pdst) ==
  [k \in 1 .. Len(q) |->
     [q[k] EXCEPT !.rdy = [j \in 1 .. 2 |-> q[k].rdy[j] \/ q[k].regs[j] = pdst]]]
=============================================================================
