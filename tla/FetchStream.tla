----------------------------- MODULE FetchStream -----------------------------
(***************************************************************************)
(* What the core expects of the fetch unit, and what OOOCore assumes: an   *)
(* instruction is the word at its pc, the next one is at the pc it was     *)
(* predicted to continue at, and a redirection starts a new epoch at a new *)
(* pc without disturbing what was fetched before.                          *)
(***************************************************************************)
EXTENDS Naturals, Sequences

CONSTANTS Pc, NumEpoch

VARIABLES fetchPc, epoch, fetched

StreamInit == fetchPc \in Pc /\ epoch = 0 /\ fetched = <<>>

StreamFetch ==
  \E pred \in Pc :
    /\ fetched' = Append(fetched, [pc |-> fetchPc, word |-> fetchPc, pred |-> pred,
                                   epoch |-> epoch])
    /\ fetchPc' = pred
    /\ UNCHANGED epoch

StreamTake == fetched # <<>> /\ fetched' = Tail(fetched) /\ UNCHANGED <<fetchPc, epoch>>

StreamRedirect ==
  /\ fetchPc' \in Pc
  /\ epoch' = (epoch + 1) % NumEpoch
  /\ UNCHANGED fetched

StreamSpec ==
  StreamInit /\ [][StreamFetch \/ StreamTake \/ StreamRedirect]_<<fetchPc, epoch, fetched>>
=============================================================================
