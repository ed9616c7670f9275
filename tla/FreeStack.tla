------------------------------ MODULE FreeStack ------------------------------
(***************************************************************************)
(* What a free list promises: a stack of distinct free registers, its last *)
(* element on top.                                                         *)
(***************************************************************************)
EXTENDS Naturals, Sequences

CONSTANTS Reg,         \* registers that can be freed
          initial      \* the stack at reset

VARIABLE stack

StackInit == stack = initial

StackAlloc == Len(stack') < Len(stack) /\ stack' = SubSeq(stack, 1, Len(stack) - 1)

StackFree ==
  LET top == stack'[Len(stack')] IN
  /\ Len(stack') = Len(stack) + 1
  /\ top \in Reg /\ \A k \in 1 .. Len(stack) : stack[k] # top
  /\ stack' = Append(stack, top)

StackSpec == StackInit /\ [][StackAlloc \/ StackFree]_stack
=============================================================================
