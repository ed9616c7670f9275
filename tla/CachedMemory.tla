----------------------------- MODULE CachedMemory -----------------------------
(***************************************************************************)
(* What a cache promises to its processor: a memory that takes one request *)
(* at a time.  A write acts at once on the word it names, and a read is    *)
(* owed the contents of the word it names at that moment, in order.        *)
(* Invalidations change nothing.                                           *)
(***************************************************************************)
EXTENDS Naturals, Sequences

CONSTANTS Address, Byte, Value

VARIABLES contents,    \* of every word: a value for each byte
          asked,       \* the read or write that waits to be served
          reads        \* answers owed to the processor

NoRequest == [op |-> "none"]
ReadRequest == [op : {"Read"}, a : Address]
WriteRequest == [op : {"Write"}, a : Address, data : [Byte -> Value], mask : SUBSET Byte]

CachedInit ==
  contents \in [Address -> [Byte -> Value]] /\ asked = NoRequest /\ reads = <<>>

CachedAsk ==
  /\ asked = NoRequest /\ asked' \in ReadRequest \cup WriteRequest
  /\ UNCHANGED <<contents, reads>>

CachedRead ==
  /\ asked \in ReadRequest /\ asked' = NoRequest
  /\ reads' = Append(reads, contents[asked.a])
  /\ UNCHANGED contents

CachedWrite ==
  /\ asked \in WriteRequest /\ asked' = NoRequest
  /\ contents' = [contents EXCEPT ![asked.a] =
                    [b \in Byte |-> IF b \in asked.mask THEN asked.data[b] ELSE @[b]]]
  /\ UNCHANGED reads

CachedAnswer == reads # <<>> /\ reads' = Tail(reads) /\ UNCHANGED <<contents, asked>>

CachedSpec ==
  /\ CachedInit
  /\ [][CachedAsk \/ CachedRead \/ CachedWrite \/ CachedAnswer]_<<contents, asked, reads>>
=============================================================================
