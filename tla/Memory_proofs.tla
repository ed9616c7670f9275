---------------------------- MODULE Memory_proofs ----------------------------
(***************************************************************************)
(* The load-store unit implements a sequential memory: what its loads have *)
(* read is what the program may see when they retire, or they are          *)
(* re-executed.                                                            *)
(***************************************************************************)
EXTENDS LSU_proofs

-----------------------------------------------------------------------------
(* Least and greatest elements.                                            *)

LEMMA LeastNat ==
  ASSUME NEW T, T \subseteq Nat, T # {}
  PROVE  \E x \in T : \A y \in T : x <= y
<1>1. PICK x \in T : \A y \in T : ~(<<y, x>> \in OpToRel(<, Nat))
  BY NatLessThanWellFounded, WFMin, Zenon
<1>2. \A y \in T : ~(y < x)
  BY <1>1, Zenon DEF OpToRel
<1> QED  BY <1>2

LEMMA GreatestBelow ==
  ASSUME NEW n \in Nat, NEW S, S \subseteq 1 .. n, S # {}
  PROVE  \E x \in S : \A y \in S : y <= x
<1> DEFINE T == {n - k : k \in S}
<1>1. T \subseteq Nat /\ T # {}
  <2>1. PICK k \in S : TRUE
    OBVIOUS
  <2>2. n - k \in T
    OBVIOUS
  <2>3. \A j \in S : n - j \in Nat
    OBVIOUS
  <2> QED  BY <2>2, <2>3
<1>2. PICK t \in T : \A u \in T : t <= u
  BY <1>1, LeastNat
<1>3. PICK x \in S : t = n - x
  BY <1>2
<1>4. ASSUME NEW y \in S PROVE y <= x
  <2>1. n - y \in T /\ x \in 1 .. n /\ y \in 1 .. n
    OBVIOUS
  <2> QED  BY <1>2, <1>3, <2>1
<1> QED  BY <1>4


-----------------------------------------------------------------------------
(* What a store buffer q over contents m shows.                            *)

Covers(q, w, l) == {k \in 1 .. Len(q) : q[k].word = w /\ l \in q[k].mask}

Shown(q, m, w, l) ==
  LET S == Covers(q, w, l) IN
  IF S = {} THEN m[w][l] ELSE q[CHOOSE k \in S : \A j \in S : j <= k].data[l]

Image(q, m) == [w \in Word |-> [l \in Lane |-> Shown(q, m, w, l)]]

LEMMA ImageIs == programMem = Image(stb, mem)
BY DEF programMem, Image, visible, Shown, buffered, Covers

LEMMA ShownLast ==
  ASSUME NEW q, NEW m, NEW w, NEW l, Len(q) \in Nat, NEW k \in Covers(q, w, l),
         \A j \in Covers(q, w, l) : j <= k
  PROVE  Shown(q, m, w, l) = q[k].data[l]
<1> DEFINE S == Covers(q, w, l)
           c == CHOOSE x \in S : \A j \in S : j <= x
<1>1. S \subseteq 1 .. Len(q) /\ k \in S /\ \A j \in S : j <= k
  BY DEF Covers
<1> HIDE DEF S
<1>2. c \in S /\ \A j \in S : j <= c
  BY <1>1
<1> HIDE DEF c
<1>3. c = k
  <2>1. c \in Nat /\ k \in Nat
    BY <1>1, <1>2
  <2>2. c <= k /\ k <= c
    BY <1>1, <1>2
  <2> QED  BY <2>1, <2>2
<1> QED  BY <1>1, <1>3 DEF Shown, S, c

(* The youngest of the stores that cover a lane.                           *)
LEMMA CoversLast ==
  ASSUME NEW q, NEW w, NEW l, Len(q) \in Nat, Covers(q, w, l) # {}
  PROVE  \E k \in Covers(q, w, l) : \A j \in Covers(q, w, l) : j <= k
<1>1. Covers(q, w, l) \subseteq 1 .. Len(q)
  BY DEF Covers
<1> QED  BY <1>1, GreatestBelow

LEMMA ShownPush ==
  ASSUME NEW q \in Seq(StbEntry), NEW e \in StbEntry, NEW m, NEW w, NEW l
  PROVE  /\ e.word = w /\ l \in e.mask => Shown(Append(q, e), m, w, l) = e.data[l]
         /\ ~(e.word = w /\ l \in e.mask) => Shown(Append(q, e), m, w, l) = Shown(q, m, w, l)
<1> DEFINE n == Len(q)
           q2 == Append(q, e)
<1>1. /\ n \in Nat /\ Len(q2) = n + 1 /\ q2[n + 1] = e /\ \A k \in 1 .. n : q2[k] = q[k]
  BY AppendFacts
<1> HIDE DEF q2, n
<1>2. \A k \in 1 .. n : k \in 1 .. n + 1 /\ k <= n + 1 /\ k # n + 1
  BY <1>1
<1>3. \A k \in 1 .. n + 1 : k \in 1 .. n \/ k = n + 1
  BY <1>1
<1>4. \A k \in Covers(q2, w, l) : k <= n + 1
  BY <1>1 DEF Covers
<1>5. ASSUME e.word = w, l \in e.mask PROVE Shown(q2, m, w, l) = e.data[l]
  <2>1. n + 1 \in Covers(q2, w, l)
    BY <1>1, <1>5 DEF Covers
  <2> QED  BY <1>1, <1>4, <2>1, ShownLast
<1>6. ASSUME ~(e.word = w /\ l \in e.mask) PROVE Shown(q2, m, w, l) = Shown(q, m, w, l)
  <2>1. Covers(q2, w, l) = Covers(q, w, l)
    BY <1>1, <1>2, <1>3, <1>6 DEF Covers, n
  <2>2. CASE Covers(q, w, l) = {}
    BY <2>1, <2>2 DEF Shown
  <2>3. CASE Covers(q, w, l) # {}
    <3>1. PICK k \in Covers(q, w, l) : \A j \in Covers(q, w, l) : j <= k
      BY <1>1, <2>3, CoversLast DEF n
    <3>2. Shown(q, m, w, l) = q[k].data[l] /\ Shown(q2, m, w, l) = q2[k].data[l]
      BY <1>1, <2>1, <3>1, ShownLast DEF n
    <3>3. k \in 1 .. n
      BY <3>1 DEF Covers, n
    <3> QED  BY <1>1, <3>2, <3>3
  <2> QED  BY <2>2, <2>3
<1> QED  BY <1>5, <1>6 DEF q2

(* The first n writes of q are done: m holds the youngest of them.         *)
Written(q, n, m) ==
  \A w \in Word, l \in Lane : \A k \in Covers(q, w, l) :
    k <= n /\ (\A j \in Covers(q, w, l) : j <= n => j <= k) => m[w][l] = q[k].data[l]

LEMMA WrittenPush ==
  ASSUME NEW q \in Seq(StbEntry), NEW e \in StbEntry, NEW m, NEW n \in Nat, n <= Len(q), Written(q, n, m)
  PROVE  Written(Append(q, e), n, m)
<1> DEFINE q2 == Append(q, e)
<1>1. /\ Len(q) \in Nat /\ Len(q2) = Len(q) + 1 /\ \A k \in 1 .. Len(q) : q2[k] = q[k]
  BY AppendFacts
<1> HIDE DEF q2
<1>2. SUFFICES ASSUME NEW w \in Word, NEW l \in Lane, NEW k \in Covers(q2, w, l), k <= n,
                      \A j \in Covers(q2, w, l) : j <= n => j <= k
               PROVE  m[w][l] = q2[k].data[l]
  BY DEF Written, q2
<1>3. k \in 1 .. Len(q) /\ q2[k] = q[k] /\ k \in Covers(q, w, l)
  BY <1>1, <1>2 DEF Covers
<1>4. \A j \in Covers(q, w, l) : j \in Covers(q2, w, l)
  BY <1>1 DEF Covers
<1> QED  BY <1>2, <1>3, <1>4 DEF Written

LEMMA TailCovers ==
  ASSUME NEW q \in Seq(StbEntry), q # <<>>, NEW w, NEW l
  PROVE  /\ \A k \in Covers(Tail(q), w, l) : k \in Nat /\ k + 1 \in Covers(q, w, l) /\ Tail(q)[k] = q[k + 1]
         /\ \A k \in Covers(q, w, l) : k \in Nat /\ k >= 1 /\ (k # 1 => k - 1 \in Covers(Tail(q), w, l))
         /\ Len(q) \in Nat /\ Len(Tail(q)) \in Nat
<1> DEFINE n == Len(q)
<1>1. /\ n \in Nat \ {0} /\ Len(Tail(q)) = n - 1
      /\ \A k \in 1 .. n - 1 : k + 1 \in 1 .. n /\ Tail(q)[k] = q[k + 1]
  BY TailFacts
<1>2. ASSUME NEW k \in Covers(Tail(q), w, l)
      PROVE  k \in Nat /\ k + 1 \in Covers(q, w, l) /\ Tail(q)[k] = q[k + 1]
  BY <1>1 DEF Covers
<1>3. ASSUME NEW k \in Covers(q, w, l), k # 1 PROVE k - 1 \in Covers(Tail(q), w, l)
  <2>1. k \in 1 .. n /\ q[k].word = w /\ l \in q[k].mask
    BY DEF Covers
  <2>2. k - 1 \in 1 .. n - 1 /\ (k - 1) + 1 = k
    BY <1>1, <1>3, <2>1
  <2>3. Tail(q)[k - 1] = q[k]
    BY <1>1, <2>2
  <2> QED  BY <1>1, <2>1, <2>2, <2>3 DEF Covers
<1>4. \A k \in Covers(q, w, l) : k \in Nat /\ k >= 1
  BY <1>1 DEF Covers
<1>5. n \in Nat /\ Len(Tail(q)) \in Nat
  BY <1>1
<1> QED  BY <1>2, <1>3, <1>4, <1>5

LEMMA WrittenPop ==
  ASSUME NEW q \in Seq(StbEntry), q # <<>>, NEW m, NEW n \in Nat, Written(q, n + 1, m)
  PROVE  Written(Tail(q), n, m)
<1> SUFFICES ASSUME NEW w \in Word, NEW l \in Lane, NEW k \in Covers(Tail(q), w, l), k <= n,
                    \A j \in Covers(Tail(q), w, l) : j <= n => j <= k
             PROVE  m[w][l] = Tail(q)[k].data[l]
  BY DEF Written
<1>1. k \in Nat /\ k + 1 \in Covers(q, w, l) /\ Tail(q)[k] = q[k + 1]
  BY TailCovers
<1>2. ASSUME NEW j \in Covers(q, w, l), j <= n + 1 PROVE j <= k + 1
  <2>1. j \in Nat /\ j >= 1 /\ (j # 1 => j - 1 \in Covers(Tail(q), w, l))
    BY TailCovers
  <2>2. CASE j # 1
    <3>1. j - 1 \in Covers(Tail(q), w, l) /\ j - 1 <= n
      BY <1>2, <2>1, <2>2
    <3>2. j - 1 <= k
      BY <3>1
    <3> QED  BY <1>1, <2>1, <3>2
  <2> QED  BY <1>1, <2>1, <2>2
<1>3. k + 1 <= n + 1
  BY <1>1
<1> QED  BY <1>1, <1>2, <1>3 DEF Written

(* The oldest write, once done, may leave the buffer.                      *)
LEMMA ShownPop ==
  ASSUME NEW q \in Seq(StbEntry), q # <<>>, NEW m, NEW n \in Nat \ {0}, Written(q, n, m),
         NEW w \in Word, NEW l \in Lane
  PROVE  Shown(Tail(q), m, w, l) = Shown(q, m, w, l)
<1> DEFINE t  == Tail(q)
           S  == Covers(q, w, l)
           S2 == Covers(t, w, l)
<1>0. /\ Len(q) \in Nat /\ Len(t) \in Nat
      /\ \A k \in S2 : k \in Nat /\ k + 1 \in S /\ t[k] = q[k + 1]
      /\ \A k \in S : k \in Nat /\ k >= 1 /\ (k # 1 => k - 1 \in S2)
  BY TailCovers
<1> HIDE DEF t
<1>1. CASE S2 # {}
  <2>1. PICK k \in S2 : \A j \in S2 : j <= k
    BY <1>0, <1>1, CoversLast
  <2>2. k + 1 \in S /\ \A j \in S : j <= k + 1
    <3>1. ASSUME NEW j \in S PROVE j <= k + 1
      <4>1. j = 1 \/ j - 1 <= k
        BY <1>0, <2>1
      <4> QED  BY <1>0, <4>1
    <3> QED  BY <1>0, <3>1
  <2>3. Shown(t, m, w, l) = t[k].data[l]
    BY <1>0, <2>1, ShownLast
  <2>4. Shown(q, m, w, l) = q[k + 1].data[l]
    BY <1>0, <2>2, ShownLast
  <2> QED  BY <1>0, <2>1, <2>3, <2>4 DEF t
<1>2. CASE S2 = {} /\ S # {}
  <2>1. \A k \in S : k = 1
    BY <1>0, <1>2
  <2>2. 1 \in S /\ \A j \in S : j <= 1
    BY <1>2, <2>1
  <2>3. m[w][l] = q[1].data[l]
    BY <2>2 DEF Written
  <2>4. Shown(q, m, w, l) = q[1].data[l]
    BY <1>0, <2>2, ShownLast
  <2> QED  BY <1>2, <2>3, <2>4 DEF Shown, t
<1>3. CASE S2 = {} /\ S = {}
  BY <1>3 DEF Shown, t
<1> QED  BY <1>1, <1>2, <1>3

(* The oldest write that is not done is done.                              *)
LEMMA WriteShown ==
  ASSUME NEW q \in Seq(StbEntry), NEW m \in [Word -> Data], NEW n \in Nat, n + 1 <= Len(q),
         Written(q, n, m)
  PROVE  LET m2 == [m EXCEPT ![q[n + 1].word] = merge(@, q[n + 1])]
         IN  /\ Written(q, n + 1, m2)
             /\ \A w \in Word, l \in Lane : Shown(q, m2, w, l) = Shown(q, m, w, l)
<1> DEFINE e  == q[n + 1]
           m2 == [m EXCEPT ![e.word] = merge(@, e)]
<1>0. Len(q) \in Nat /\ n + 1 \in 1 .. Len(q) /\ e \in StbEntry
  OBVIOUS
<1>1. e.word \in Word /\ e.mask \subseteq Lane
  BY <1>0 DEF StbEntry
<1> HIDE DEF e
<1>2. ASSUME NEW w \in Word, NEW l \in Lane
      PROVE  /\ e.word = w /\ l \in e.mask => m2[w][l] = e.data[l]
             /\ ~(e.word = w /\ l \in e.mask) => m2[w][l] = m[w][l]
  BY <1>1 DEF merge
<1> HIDE DEF m2
<1>3. ASSUME NEW w \in Word, NEW l \in Lane PROVE n + 1 \in Covers(q, w, l) <=> e.word = w /\ l \in e.mask
  BY <1>0 DEF Covers, e
<1>4. ASSUME NEW w \in Word, NEW l \in Lane PROVE Shown(q, m2, w, l) = Shown(q, m, w, l)
  <2>1. CASE Covers(q, w, l) = {}
    BY <1>2, <1>3, <2>1 DEF Shown
  <2>2. CASE Covers(q, w, l) # {}
    BY <2>2 DEF Shown
  <2> QED  BY <2>1, <2>2
<1>5. ASSUME NEW w \in Word, NEW l \in Lane, NEW k \in Covers(q, w, l), k <= n + 1,
             \A j \in Covers(q, w, l) : j <= n + 1 => j <= k
      PROVE  m2[w][l] = q[k].data[l]
  <2>0. k \in Nat /\ \A j \in Covers(q, w, l) : j \in Nat
    BY <1>0 DEF Covers
  <2>1. CASE k = n + 1
    BY <1>2, <1>3, <2>1 DEF e
  <2>2. CASE k # n + 1
    <3>1. n + 1 \notin Covers(q, w, l)
      BY <1>5, <2>0, <2>2
    <3>2. k <= n
      BY <1>5, <2>0, <2>2
    <3>3. \A j \in Covers(q, w, l) : j <= n => j <= k
      BY <1>5, <2>0
    <3>4. m[w][l] = q[k].data[l]
      BY <3>2, <3>3 DEF Written
    <3> QED  BY <1>2, <1>3, <3>1, <3>4
  <2> QED  BY <2>1, <2>2
<1>6. Written(q, n + 1, m2)
  BY <1>5 DEF Written
<1> QED  BY <1>4, <1>6 DEF m2, e


-----------------------------------------------------------------------------
(* The memory the program sees, in each step.                              *)

sent == Len(stb) - Len(wrequestQ)

(* What was written and is still in the store buffer is in memory.         *)
WrittenInv == Written(stb, sent, mem)

LEMMA SentType ==
  ASSUME LsuTypeInv, PairInv
  PROVE  sent \in Nat /\ sent <= Len(stb) /\ stbDeqQ <= sent
BY DEF LsuTypeInv, WriteT, PairInv, sent

SameImage(q, m, q2, m2) == \A w \in Word, l \in Lane : Shown(q2, m2, w, l) = Shown(q, m, w, l)

LEMMA SameProgram ==
  ASSUME SameImage(stb, mem, stb', mem')
  PROVE  programMem' = programMem
<1>1. programMem = Image(stb, mem) /\ programMem' = Image(stb', mem')
  BY DEF programMem, Image, visible, Shown, buffered, Covers
<1> QED  BY <1>1 DEF Image, SameImage

LEMMA ProgramWrite ==
  ASSUME LsuTypeInv, PairInv, WrittenInv, writeRequest
  PROVE  WrittenInv' /\ programMem' = programMem /\ stb' = stb
<1>1. /\ stb' = stb /\ wrequestQ # <<>> /\ wrequestQ' = Tail(wrequestQ)
      /\ mem' = [mem EXCEPT ![Head(wrequestQ).word] = merge(@, Head(wrequestQ))]
  BY DEF writeRequest
<1>2. stb \in Seq(StbEntry) /\ wrequestQ \in Seq(StbEntry) /\ mem \in [Word -> Data]
  BY DEF LsuTypeInv, WriteT
<1>3. /\ Len(wrequestQ) \in Nat /\ Len(wrequestQ) > 0 /\ Head(wrequestQ) = wrequestQ[1]
      /\ Len(wrequestQ') = Len(wrequestQ) - 1 /\ Len(stb) \in Nat
  BY <1>1, <1>2, TailFacts
<1>4. /\ sent \in Nat /\ sent + 1 <= Len(stb) /\ sent' = sent + 1
      /\ Head(wrequestQ) = stb[sent + 1]
  <2>1. wrequestQ[1] = stb[sent + 1]
    BY <1>3 DEF PairInv, sent
  <2> QED  BY <1>1, <1>3, <2>1, SentType DEF sent
<1> DEFINE n == sent
<1>5. mem' = [mem EXCEPT ![stb[n + 1].word] = merge(@, stb[n + 1])]
  BY <1>1, <1>4
<1>6. n \in Nat /\ n + 1 <= Len(stb) /\ Written(stb, n, mem)
  BY <1>4 DEF WrittenInv
<1>7. sent' = n + 1
  BY <1>4
<1> HIDE DEF n
<1>8. Written(stb, n + 1, mem') /\ SameImage(stb, mem, stb, mem')
  BY <1>2, <1>5, <1>6, WriteShown DEF SameImage
<1> QED  BY <1>1, <1>7, <1>8, SameProgram DEF WrittenInv

LEMMA ProgramDeq ==
  ASSUME LsuTypeInv, PairInv, WrittenInv, doDeqSTB
  PROVE  /\ WrittenInv' /\ programMem' = programMem
         /\ \A w : stbSearch(w)' => stbSearch(w)
<1>1. /\ stb # <<>> /\ stb' = Tail(stb) /\ wrequestQ' = wrequestQ /\ mem' = mem
      /\ stbDeqQ > 0
  BY DEF doDeqSTB
<1>2. stb \in Seq(StbEntry) /\ wrequestQ \in Seq(StbEntry) /\ stbDeqQ \in Nat
  BY DEF LsuTypeInv, WriteT
<1>3. /\ Len(stb) \in Nat /\ Len(Tail(stb)) = Len(stb) - 1
      /\ \A k \in 1 .. Len(Tail(stb)) : k + 1 \in 1 .. Len(stb) /\ Tail(stb)[k] = stb[k + 1]
  BY <1>1, <1>2, TailFacts
<1>4. sent \in Nat \ {0} /\ sent' = sent - 1
  BY <1>1, <1>2, <1>3, SentType DEF sent
<1> DEFINE n == sent - 1
<1>5. n \in Nat /\ Written(stb, n + 1, mem) /\ sent' = n /\ n + 1 \in Nat \ {0}
  BY <1>4 DEF WrittenInv
<1> HIDE DEF n
<1>6. Written(Tail(stb), n, mem) /\ SameImage(stb, mem, Tail(stb), mem)
  BY <1>1, <1>2, <1>5, WrittenPop, ShownPop DEF SameImage
<1>7. \A w : stbSearch(w)' => stbSearch(w)
  BY <1>1, <1>3 DEF stbSearch
<1> QED  BY <1>1, <1>5, <1>6, <1>7, SameProgram DEF WrittenInv

(* A store enters the buffer.                                              *)
LEMMA ProgramStore ==
  ASSUME LsuTypeInv, PairInv, WrittenInv, NEW e \in StbEntry,
         stb' = Append(stb, e), wrequestQ' = Append(wrequestQ, e), mem' = mem
  PROVE  /\ WrittenInv'
         /\ programMem' = [programMem EXCEPT ![e.word] = merge(@, e)]
         /\ \A w : stbSearch(w)' <=> stbSearch(w) \/ w = e.word
<1>1. stb \in Seq(StbEntry) /\ wrequestQ \in Seq(StbEntry) /\ e.word \in Word
  BY DEF LsuTypeInv, WriteT, StbEntry
<1>2. /\ Len(stb) \in Nat /\ Len(stb') = Len(stb) + 1 /\ stb'[Len(stb) + 1] = e
      /\ \A k \in 1 .. Len(stb) : stb'[k] = stb[k]
      /\ \A k \in 1 .. Len(stb') : k \in 1 .. Len(stb) \/ k = Len(stb) + 1
      /\ \A k \in 1 .. Len(stb) : k \in 1 .. Len(stb')
      /\ Len(stb) + 1 \in 1 .. Len(stb')
  BY <1>1, AppendFacts
<1>3. Len(wrequestQ) \in Nat /\ Len(wrequestQ') = Len(wrequestQ) + 1
  BY <1>1, AppendFacts
<1>4. sent \in Nat /\ sent <= Len(stb) /\ sent' = sent
  BY <1>2, <1>3, SentType DEF sent
<1>5. WrittenInv'
  BY <1>1, <1>4, WrittenPush DEF WrittenInv
<1>6. \A w : stbSearch(w)' <=> stbSearch(w) \/ w = e.word
  BY <1>2 DEF stbSearch
<1>7. programMem = Image(stb, mem) /\ programMem' = Image(stb', mem)
  BY DEF programMem, Image, visible, Shown, buffered, Covers
<1>8. \A w \in Word, l \in Lane :
        /\ e.word = w /\ l \in e.mask => Shown(stb', mem, w, l) = e.data[l]
        /\ ~(e.word = w /\ l \in e.mask) => Shown(stb', mem, w, l) = Shown(stb, mem, w, l)
  BY <1>1, ShownPush
<1>9. Image(stb', mem) = [Image(stb, mem) EXCEPT ![e.word] = merge(@, e)]
  <2>1. Image(stb, mem) = [w \in Word |-> Image(stb, mem)[w]] /\ e.word \in Word
    BY <1>1 DEF Image
  <2>2. ASSUME NEW w \in Word
        PROVE  Image(stb', mem)[w] = IF w = e.word THEN merge(Image(stb, mem)[w], e) ELSE Image(stb, mem)[w]
    <3>1. CASE w = e.word
      <4>1. \A l \in Lane : Shown(stb', mem, w, l) = IF l \in e.mask THEN e.data[l] ELSE Shown(stb, mem, w, l)
        BY <1>8, <3>1
      <4> QED  BY <3>1, <4>1 DEF Image, merge
    <3>2. CASE w # e.word
      <4>1. \A l \in Lane : Shown(stb', mem, w, l) = Shown(stb, mem, w, l)
        BY <1>8, <3>2
      <4> QED  BY <3>2, <4>1 DEF Image
    <3> QED  BY <3>1, <3>2
  <2>3. Image(stb', mem) = [w \in Word |-> Image(stb', mem)[w]]
    BY DEF Image
  <2> QED  BY <2>1, <2>2, <2>3
<1> QED  BY <1>5, <1>6, <1>7, <1>9

LEMMA ProgramSame ==
  ASSUME UNCHANGED <<stb, wrequestQ, mem>>
  PROVE  /\ programMem' = programMem /\ (\A w : stbSearch(w)' <=> stbSearch(w))
         /\ WrittenInv => WrittenInv'
BY DEF programMem, visible, buffered, stbSearch, WrittenInv, sent


-----------------------------------------------------------------------------
(* What retirement does, and the two invariants it rests on.               *)

(* Operations of the current epoch follow those of older ones; only loads  *)
(* are killed, and no load that has left.                                  *)
EpochInv ==
  \A i, j \in Live : pos[i] < pos[j] /\ data[i].epoch = epoch => data[j].epoch = epoch

KilledInv == \A i \in killed : i \in Live /\ data[i].op.kind = "load"

quiet == UNCHANGED <<stb, wrequestQ>> /\ killed' = killed \ {firstP}

stores ==
  /\ newEntry \in StbEntry
  /\ stb' = Append(stb, newEntry) /\ wrequestQ' = Append(wrequestQ, newEntry)
  /\ killed' = (killed \cup disowned(storeWord)) \ {firstP}

retires ==
  /\ data[firstP].epoch = epoch /\ firstP \notin killed /\ results[firstP].ok
  /\ \/ quiet /\ data[firstP].op.kind # "store"
     \/ stores /\ data[firstP].op.kind = "store"
  /\ LET o == data[firstP].op IN
     retired' = CASE o.kind = "load"  -> <<"load", o.addr, o.size, results[firstP].data>>
                  [] o.kind = "store" -> <<"store", o.addr, o.size, o.data>>
                  [] OTHER            -> retired

retireKinds ==
  \/ quiet /\ data[firstP].epoch # epoch /\ epoch' = epoch /\ retired' = retired
  \/ quiet /\ data[firstP].epoch = epoch /\ epoch' # epoch /\ retired' = retired
  \/ retires

LEMMA EpochMoves ==
  ASSUME epoch \in Epoch
  PROVE  (epoch + 1) % NumEpoch # epoch
<1>1. NumEpoch \in Nat /\ NumEpoch > 1 /\ epoch \in 0 .. NumEpoch - 1
  BY LSUCoreAssumption DEF Epoch
<1>2. CASE epoch + 1 < NumEpoch
  <2>1. (epoch + 1) % NumEpoch = epoch + 1
    BY <1>1, <1>2
  <2> QED  BY <1>1, <2>1
<1>3. CASE epoch + 1 = NumEpoch
  <2>1. (epoch + 1) % NumEpoch = 0
    BY <1>1, <1>3
  <2> QED  BY <1>1, <1>3, <2>1
<1> QED  BY <1>1, <1>2, <1>3

LEMMA CommitKinds ==
  ASSUME LsuTypeInv, RingInv, KilledInv, NEW must \in BOOLEAN, commit_dmem(must), firstP \in Live
  PROVE  /\ data[firstP].op.kind # "store" \/ must = FALSE => quiet
         /\ data[firstP].op.kind = "store" /\ must = TRUE => stores
<1> DEFINE k == data[firstP].op.kind
<1>1. firstP \in waitDmemCommit <=> k \in {"load", "store"}
  BY DEF RingInv, WaitInv, slotsOf
<1>2. RingT
  BY DEF LsuTypeInv
<1>3. CASE k = "load"
  <2>1. commitLoad /\ killed' = killed \ {firstP}
    BY <1>1, <1>3 DEF commit_dmem, first
  <2> QED  BY <1>2, <1>3, <2>1, CommitLoad DEF quiet
<1>4. CASE k = "store"
  <2>1. /\ commitStore(must)
        /\ killed' = (IF must THEN killed \cup disowned(storeWord) ELSE killed) \ {firstP}
    BY <1>1, <1>4 DEF commit_dmem, first
  <2> QED  BY <1>2, <1>4, <2>1, CommitStore DEF quiet, stores
<1>5. CASE k \notin {"load", "store"}
  <2>1. UNCHANGED <<stb, wrequestQ, killed>>
    BY <1>1, <1>5 DEF commit_dmem
  <2>2. firstP \notin killed
    BY <1>5 DEF KilledInv
  <2> QED  BY <1>5, <2>1, <2>2 DEF quiet
<1> QED  BY <1>3, <1>4, <1>5

LEMMA RetireKinds ==
  ASSUME LsuTypeInv, RingInv, KilledInv, Retirement
  PROVE  /\ retireKinds /\ mem' = mem /\ firstP \in resultValid
         /\ firstP \in Live /\ Live' = Live \ {firstP} /\ data' = data
         /\ Leaves(Live, pos, pos', firstP)
         /\ results' = results /\ resultValid' = resultValid \ {firstP}
<1>0. RingOK /\ epoch \in Epoch /\ results[firstP] \in ResultT
  BY DEF LsuTypeInv, CoreT, RobT, RingOK
<1>1. deq /\ mem' = mem /\ firstP \in resultValid
  BY RetireEffect DEF retireVars, first_done
<1>2. /\ firstP \in Live /\ Live' = Live \ {firstP} /\ data' = data
      /\ Leaves(Live, pos, pos', firstP)
      /\ results' = results /\ resultValid' = resultValid \ {firstP}
  BY <1>0, <1>1, PosDeq DEF deq
<1>3. results[firstP].ok \in BOOLEAN
  BY <1>0 DEF ResultT
<1>4. CASE discard_instruction
  <2>1. commit_dmem(FALSE) /\ data[firstP].epoch # epoch /\ epoch' = epoch /\ retired' = retired
    BY <1>4 DEF discard_instruction, first
  <2> QED  BY <1>1, <1>2, <2>1, CommitKinds DEF retireKinds
<1>5. CASE commit_restart
  <2>1. /\ commit_dmem(results[firstP].ok) /\ data[firstP].epoch = epoch /\ retired' = retired
        /\ epoch' = (epoch + 1) % NumEpoch
        /\ firstP \in killed \/ ~results[firstP].ok
    BY <1>5 DEF commit_restart, first, first_result, flush
  <2>2. data[firstP].op.kind # "store" \/ results[firstP].ok = FALSE
    BY <1>3, <2>1 DEF KilledInv
  <2>3. quiet
    BY <1>2, <1>3, <2>1, <2>2, CommitKinds
  <2>4. epoch' # epoch
    BY <1>0, <2>1, EpochMoves
  <2> QED  BY <1>1, <1>2, <2>1, <2>3, <2>4 DEF retireKinds
<1>6. CASE commit_ok
  <2>1. /\ commit_dmem(TRUE) /\ data[firstP].epoch = epoch
        /\ firstP \notin killed /\ results[firstP].ok
        /\ LET o == data[firstP].op IN
           retired' = CASE o.kind = "load"  -> <<"load", o.addr, o.size, results[firstP].data>>
                        [] o.kind = "store" -> <<"store", o.addr, o.size, o.data>>
                        [] OTHER            -> retired
    BY <1>6 DEF commit_ok, first, first_result
  <2>2. \/ quiet /\ data[firstP].op.kind # "store"
        \/ stores /\ data[firstP].op.kind = "store"
    BY <1>2, <2>1, CommitKinds
  <2>3. retires
    BY <2>1, <2>2 DEF retires
  <2> QED  BY <1>1, <1>2, <2>3 DEF retireKinds
<1> QED  BY <1>4, <1>5, <1>6 DEF Retirement

(* The loads a store disowns are in the ring.                              *)
LEMMA DisownedLive ==
  ASSUME LsuTypeInv, RingInv, PlaceInv, NEW w
  PROVE  \A i \in disowned(w) : i \in Live /\ data[i].op.kind = "load"
<1>1. loadQ.executed \subseteq loadQ.valid
  BY DEF PlaceInv, Placed, LoadsPlaced, LoadAt
<1>2. \A s \in loadQ.valid : /\ loadQ.entries[s].index \in Live
                             /\ data[loadQ.entries[s].index].op.kind = "load"
  BY RingOwn
<1>3. \A i \in disowned(w) : \E s \in loadQ.executed : i = loadQ.entries[s].index
  BY DEF disowned, isFirstFrom
<1> QED  BY <1>1, <1>2, <1>3

(* An operation of the current epoch that retires is followed by such      *)
(* operations only.                                                        *)
LEMMA AllCurrent ==
  ASSUME EpochInv, NEW x \in Live, Leaves(Live, pos, pos', x), data[x].epoch = epoch, RingOK
  PROVE  \A i \in Live : data[i].epoch = epoch
<1>1. \A i \in Live : i \in RobIndex /\ x \in RobIndex /\ (i # x => pos[i] # pos[x])
  <2>1. \A i, j \in RobIndex : robPos(i) = robPos(j) => i = j
    BY RingOrder
  <2>2. Live \subseteq RobIndex
    BY DEF Live
  <2> QED  BY <2>1, <2>2 DEF pos
<1>2. \A i \in Live : i # x => pos[x] < pos[i]
  BY <1>1 DEF Leaves
<1> QED  BY <1>2 DEF EpochInv

LEMMA EpochRetire ==
  ASSUME LsuTypeInv, RingInv, PlaceInv, EpochInv, KilledInv, Retirement
  PROVE  EpochInv' /\ KilledInv'
<1>1. /\ retireKinds /\ firstP \in Live /\ Live' = Live \ {firstP} /\ data' = data
      /\ Leaves(Live, pos, pos', firstP)
  BY RetireKinds
<1>2. RingOK
  BY DEF LsuTypeInv, RobT
<1>3. \A i \in disowned(storeWord) : i \in Live /\ data[i].op.kind = "load"
  BY DisownedLive
<1>4. KilledInv'
  BY <1>1, <1>3 DEF KilledInv, retireKinds, quiet, retires, stores
<1>5. CASE epoch' = epoch
  <2>1. \A i, j \in Live' : pos'[i] < pos'[j] => pos[i] < pos[j]
    BY <1>1 DEF Leaves
  <2> QED  BY <1>1, <1>4, <1>5, <2>1 DEF EpochInv
<1>6. CASE epoch' # epoch
  <2>1. data[firstP].epoch = epoch
    BY <1>1, <1>6 DEF retireKinds, retires
  <2>2. \A i \in Live : data[i].epoch = epoch
    BY <1>1, <1>2, <2>1, AllCurrent
  <2>3. \A i \in Live' : data'[i].epoch # epoch'
    BY <1>1, <1>6, <2>2
  <2> QED  BY <1>4, <2>3 DEF EpochInv
<1> QED  BY <1>5, <1>6

LEMMA EpochStep ==
  ASSUME LsuTypeInv, RingInv, PlaceInv, EpochInv, KilledInv, [Next]_vars
  PROVE  EpochInv' /\ KilledInv'
<1>0. RingOK
  BY DEF LsuTypeInv, RobT
<1>1. CASE UNCHANGED <<data, firstP, nextP, empty, full, epoch, killed>>
  <2>1. Live' = Live /\ pos' = pos
    BY <1>1, SameRob
  <2> QED  BY <1>1, <2>1 DEF EpochInv, KilledInv
<1>2. CASE Retirement
  BY <1>2, EpochRetire
<1>3. ASSUME NEW o \in Ops, dispatch(o) PROVE EpochInv' /\ KilledInv'
  <2>1. /\ enq(data'[nextP]) /\ data'[nextP].epoch = epoch /\ epoch' = epoch /\ killed' = killed
    BY <1>3, DispatchEffect
  <2>2. /\ pos' = pos /\ nextP \notin Live /\ Live' = Live \cup {nextP}
        /\ \A i \in Live : data'[i] = data[i] /\ pos[i] < pos[nextP]
    BY <1>0, <2>1, PosEnq DEF Joins
  <2>3. ASSUME NEW i \in Live', NEW j \in Live', pos'[i] < pos'[j], data'[i].epoch = epoch'
        PROVE  data'[j].epoch = epoch'
    <3>1. CASE j = nextP
      BY <2>1, <3>1
    <3>2. CASE j \in Live /\ i \in Live
      BY <2>1, <2>2, <2>3, <3>2 DEF EpochInv
    <3>3. CASE j \in Live /\ i = nextP
      <4>1. pos[j] < pos[nextP] /\ pos[nextP] < pos[j] /\ pos[j] \in Int /\ pos[nextP] \in Int
        <5>1. nextP \in RobIndex /\ j \in RobIndex /\ \A k \in RobIndex : robPos(k) \in RobIndex
          BY <1>0, <3>3, RingOrder DEF Live, RingOK
        <5>2. pos[j] \in Int /\ pos[nextP] \in Int
          BY <5>1 DEF pos, RobIndex
        <5> QED  BY <2>2, <2>3, <3>3, <5>2
      <4> QED  BY <4>1
    <3> QED  BY <2>2, <3>1, <3>2, <3>3
  <2> QED  BY <2>1, <2>2, <2>3 DEF EpochInv, KilledInv
<1>4. CASE connect \/ write_back \/ write_back_branch \/ execute_direct \/ Rules \/ UNCHANGED vars
  BY <1>1, <1>4 DEF connect, write_back, write_back_branch, execute_direct, Rules, vars, writeBack,
                    robVars, coreVars
<1> QED  BY <1>2, <1>3, <1>4 DEF Next


-----------------------------------------------------------------------------
(* The operands in the rings.                                              *)

opOf(D, E, s) == D[E[s].index].op

(* Slots V with entries E hold the addresses W of operations that are no   *)
(* longer in Q; those in A have been found aligned.                        *)
LoadAddr(V, A, E, W, D, Q) ==
  \A s \in V : /\ E[s].index \notin Q => W[s] = opOf(D, E, s).addr
               /\ s \in A => aligned(opOf(D, E, s).addr, opOf(D, E, s).size)

StoreAddr(V, E, W, T, D, Q) ==
  \A s \in V : E[s].index \notin Q => W[s] = opOf(D, E, s).addr /\ T[s] = opOf(D, E, s).data

AddrInv ==
  /\ LoadAddr(loadQ.valid, loadQ.addrValid \cup loadQ.executed, loadQ.entries, loadQ.addresses, data, lsu_iq)
  /\ StoreAddr(storeQ.valid, storeQ.entries, storeQ.addresses, storeQ.datas, data, lsu_iq)

(* Operations that stay waiting or stay out, and keep their data.          *)
Same(L, D, D2, Q, Q2) == \A i \in L : D2[i] = D[i] /\ (i \in Q2 <=> i \in Q)

LEMMA LoadAddrKept ==
  ASSUME NEW V, NEW V2, NEW A, NEW A2, NEW E, NEW W, NEW D, NEW D2, NEW Q, NEW Q2, NEW L,
         LoadAddr(V, A, E, W, D, Q), V2 \subseteq V, A2 \cap V2 \subseteq A, Same(L, D, D2, Q, Q2),
         \A s \in V : E[s].index \in L
  PROVE  LoadAddr(V2, A2, E, W, D2, Q2)
<1> SUFFICES ASSUME NEW s \in V2
             PROVE  /\ E[s].index \notin Q2 => W[s] = opOf(D2, E, s).addr
                    /\ s \in A2 => aligned(opOf(D2, E, s).addr, opOf(D2, E, s).size)
  BY DEF LoadAddr
<1>1. s \in V /\ E[s].index \in L /\ (s \in A2 => s \in A)
  OBVIOUS
<1>2. opOf(D2, E, s) = opOf(D, E, s) /\ (E[s].index \notin Q2 => E[s].index \notin Q)
  BY <1>1 DEF Same, opOf
<1> QED  BY <1>1, <1>2 DEF LoadAddr

LEMMA StoreAddrKept ==
  ASSUME NEW V, NEW V2, NEW E, NEW W, NEW T, NEW D, NEW D2, NEW Q, NEW Q2, NEW L,
         StoreAddr(V, E, W, T, D, Q), V2 \subseteq V, Same(L, D, D2, Q, Q2),
         \A s \in V : E[s].index \in L
  PROVE  StoreAddr(V2, E, W, T, D2, Q2)
BY DEF StoreAddr, Same, opOf

LEMMA LoadAddrPush ==
  ASSUME NEW V, NEW A, NEW A2, NEW E, NEW E2, NEW W, NEW D, NEW Q, NEW t, NEW x,
         LoadAddr(V, A, E, W, D, Q), t \notin A2, A2 \subseteq A, x \in Q,
         \A s \in V : E2[s] = E[s], E2[t].index = x
  PROVE  LoadAddr(V \cup {t}, A2, E2, W, D, Q)
BY DEF LoadAddr, opOf

LEMMA StoreAddrPush ==
  ASSUME NEW V, NEW E, NEW E2, NEW W, NEW T, NEW D, NEW Q, NEW t, NEW x,
         StoreAddr(V, E, W, T, D, Q), x \in Q,
         \A s \in V : E2[s] = E[s], E2[t].index = x
  PROVE  StoreAddr(V \cup {t}, E2, W, T, D, Q)
BY DEF StoreAddr, opOf

LEMMA ExecutedValid ==
  ASSUME LsuTypeInv, RingInv, PlaceInv
  PROVE  /\ loadQ.executed \subseteq loadQ.valid /\ resultValid \subseteq Live
         /\ \A s \in loadQ.executed : loadQ.entries[s].index \notin lsu_iq
         /\ \A s \in (loadQ.valid \cap loadQ.addrValid) \ loadQ.executed :
              loadQ.entries[s].index \notin lsu_iq
         /\ resultValid \cap lsu_iq = {} /\ lsu_iq \subseteq Live
<1>1. PICK pl \in [RobIndex -> Places] : Placed(pl)
  BY DEF PlaceInv
<1>2. /\ loadQ.executed \subseteq loadQ.valid
      /\ \A s \in loadQ.valid : pl[loadQ.entries[s].index] = "iq" => s \notin loadQ.addrValid \cup loadQ.executed
  BY <1>1 DEF Placed, LoadsPlaced, LoadAt
<1>3. /\ resultValid \subseteq Live
      /\ \A i \in RobIndex : /\ pl[i] # "none" <=> i \in Live \ resultValid /\ isDmem(data[i].op)
                             /\ pl[i] = "iq" <=> i \in lsu_iq
  BY <1>1 DEF Placed, RobPlaced, RobAt
<1>4. lsu_iq \subseteq RobIndex /\ \A s \in loadQ.valid : loadQ.entries[s].index \in RobIndex
  BY RingOwn DEF LsuTypeInv, CoreT, Own
<1>5. \A s \in loadQ.valid : s \in loadQ.addrValid \cup loadQ.executed => loadQ.entries[s].index \notin lsu_iq
  BY <1>2, <1>3, <1>4
<1>6. \A i \in lsu_iq : i \in Live \ resultValid
  BY <1>3, <1>4
<1> QED  BY <1>2, <1>3, <1>5, <1>6


LEMMA AddrRingSame ==
  ASSUME LsuTypeInv, RingInv, AddrInv, Same(Live, data, data', lsu_iq, lsu_iq'),
         loadQ'.valid \subseteq loadQ.valid, loadQ'.entries = loadQ.entries,
         loadQ'.addresses = loadQ.addresses,
         loadQ'.valid \cap (loadQ'.addrValid \cup loadQ'.executed) \subseteq loadQ.addrValid \cup loadQ.executed,
         storeQ'.valid \subseteq storeQ.valid, storeQ'.entries = storeQ.entries,
         storeQ'.addresses = storeQ.addresses, storeQ'.datas = storeQ.datas
  PROVE  AddrInv'
<1>1. /\ \A s \in loadQ.valid : loadQ.entries[s].index \in Live
      /\ \A s \in storeQ.valid : storeQ.entries[s].index \in Live
  BY RingOwn
<1>2. LoadAddr(loadQ'.valid, loadQ'.addrValid \cup loadQ'.executed, loadQ.entries, loadQ.addresses, data', lsu_iq')
  <2> DEFINE A == loadQ.addrValid \cup loadQ.executed
             A2 == loadQ'.addrValid \cup loadQ'.executed
  <2>1. LoadAddr(loadQ.valid, A, loadQ.entries, loadQ.addresses, data, lsu_iq)
    BY DEF AddrInv
  <2>2. A2 \cap loadQ'.valid \subseteq A
    OBVIOUS
  <2> HIDE DEF A, A2
  <2>3. LoadAddr(loadQ'.valid, A2, loadQ.entries, loadQ.addresses, data', lsu_iq')
    BY <1>1, <2>1, <2>2, LoadAddrKept
  <2> QED  BY <2>3 DEF A2
<1>3. StoreAddr(storeQ'.valid, storeQ.entries, storeQ.addresses, storeQ.datas, data', lsu_iq')
  BY <1>1, StoreAddrKept DEF AddrInv
<1> QED  BY <1>2, <1>3 DEF AddrInv

LEMMA AddrDispatch ==
  ASSUME LsuTypeInv, RingInv, PlaceInv, AddrInv, NEW o \in Ops, dispatch(o)
  PROVE  AddrInv'
<1> DEFINE x == nextP
           e == ringEntry(o)
           A == loadQ.addrValid \cup loadQ.executed
<1>0. RingOK /\ RingT
  BY DEF LsuTypeInv, RobT
<1>1. /\ e \in LsuEntry /\ enq(data'[x])
      /\ \/ o.kind = "load" /\ enqLoad(e)
         \/ o.kind = "store" /\ enqStore(e)
         \/ ~isDmem(o) /\ UNCHANGED ringVars
      /\ isDmem(o) => lsu_iq' = lsu_iq \cup {x}
      /\ ~isDmem(o) => lsu_iq' = lsu_iq
  BY DispatchEffect
<1>2. x \notin Live /\ \A i \in Live : data'[i] = data[i]
  BY <1>0, <1>1, PosEnq DEF Joins
<1>3. e.index = x
  BY DEF ringEntry
<1>4. Same(Live, data, data', lsu_iq, lsu_iq')
  BY <1>1, <1>2 DEF Same
<1>5. loadQ.executed \subseteq loadQ.valid
  BY ExecutedValid
<1>6. /\ \A s \in loadQ.valid : loadQ.entries[s].index \in Live
      /\ \A s \in storeQ.valid : storeQ.entries[s].index \in Live
  BY RingOwn
<1>7. LoadAddr(loadQ.valid, A, loadQ.entries, loadQ.addresses, data', lsu_iq')
  BY <1>4, <1>6, LoadAddrKept DEF AddrInv
<1>8. StoreAddr(storeQ.valid, storeQ.entries, storeQ.addresses, storeQ.datas, data', lsu_iq')
  BY <1>4, <1>6, StoreAddrKept DEF AddrInv
<1> HIDE DEF x, e
<1>9. CASE o.kind = "load" /\ enqLoad(e)
  <2> DEFINE t == loadQ.tail
             A2 == (loadQ.addrValid \ {t}) \cup loadQ.executed
  <2>1. /\ t \in LqIndex /\ t \notin loadQ.valid
        /\ loadQ'.valid = loadQ.valid \cup {t} /\ loadQ'.addrValid = loadQ.addrValid \ {t}
        /\ loadQ'.executed = loadQ.executed /\ loadQ'.addresses = loadQ.addresses
        /\ loadQ'.entries = [loadQ.entries EXCEPT ![t] = e] /\ storeQ' = storeQ
    BY <1>0, <1>1, <1>9, EnqLoad
  <2>2. loadQ.entries \in [LqIndex -> LsuEntry] /\ loadQ.valid \subseteq LqIndex
    BY <1>0, LoadFields DEF RingT
  <2>3. loadQ'.entries[t].index = x /\ \A s \in loadQ.valid : loadQ'.entries[s] = loadQ.entries[s]
    BY <1>3, <2>1, <2>2
  <2>4. t \notin A2 /\ A2 \subseteq A /\ x \in lsu_iq'
    BY <1>1, <1>5, <1>9, <2>1 DEF isDmem
  <2> HIDE DEF t, A2, A
  <2>5. LoadAddr(loadQ.valid \cup {t}, A2, loadQ'.entries, loadQ.addresses, data', lsu_iq')
    BY <1>7, <2>3, <2>4, LoadAddrPush
  <2> QED  BY <1>8, <2>1, <2>5 DEF AddrInv, A2
<1>10. CASE o.kind = "store" /\ enqStore(e)
  <2> DEFINE t == storeQ.tail
  <2>1. /\ t \in SqIndex /\ t \notin storeQ.valid
        /\ storeQ'.valid = storeQ.valid \cup {t} /\ storeQ'.addresses = storeQ.addresses
        /\ storeQ'.datas = storeQ.datas
        /\ storeQ'.entries = [storeQ.entries EXCEPT ![t] = e] /\ loadQ' = loadQ
    BY <1>0, <1>1, <1>10, EnqStore
  <2>2. storeQ.entries \in [SqIndex -> LsuEntry] /\ storeQ.valid \subseteq SqIndex
    BY <1>0, StoreFields DEF RingT
  <2>3. storeQ'.entries[t].index = x /\ \A s \in storeQ.valid : storeQ'.entries[s] = storeQ.entries[s]
    BY <1>3, <2>1, <2>2
  <2>4. x \in lsu_iq'
    BY <1>1, <1>10 DEF isDmem
  <2> HIDE DEF t
  <2>5. StoreAddr(storeQ.valid \cup {t}, storeQ'.entries, storeQ.addresses, storeQ.datas, data', lsu_iq')
    BY <1>8, <2>3, <2>4, StoreAddrPush
  <2> QED  BY <1>7, <2>1, <2>5 DEF AddrInv, A
<1>11. CASE ~isDmem(o) /\ UNCHANGED ringVars
  BY <1>7, <1>8, <1>11 DEF AddrInv, ringVars, A
<1> QED  BY <1>1, <1>9, <1>10, <1>11

LEMMA AddrConnect ==
  ASSUME LsuTypeInv, RingInv, PlaceInv, AddrInv, connect
  PROVE  AddrInv'
<1>0. RingT /\ ReplyT
  BY DEF LsuTypeInv
<1>1. PICK i \in RobIndex : woken(i)
  BY ConnectEffect
<1>2. data' = data /\ lsu_iq' = lsu_iq \ {i} /\ i \in Live
  BY <1>1, ConnectEffect, ExecutedValid DEF woken, robVars
<1>3. /\ Own(loadQ.valid, loadQ.entries) /\ Own(storeQ.valid, storeQ.entries)
      /\ \A s \in loadQ.valid : data[loadQ.entries[s].index].op.kind = "load"
      /\ \A s \in storeQ.valid : data[storeQ.entries[s].index].op.kind = "store"
      /\ data[i].op.kind = "load" =>
           data[i].slot \in loadQ.valid /\ loadQ.entries[data[i].slot].index = i
      /\ data[i].op.kind = "store" =>
           data[i].slot \in storeQ.valid /\ storeQ.entries[data[i].slot].index = i
  BY <1>2, RingOwn
<1> DEFINE s == data[i].slot
           o == data[i].op
<1>4. CASE o.kind = "load" /\ s \in LqIndex /\ wakeupLoad(s, o.addr) /\ o.addr \in Addr
  <2>1. /\ loadQ'.valid = loadQ.valid /\ loadQ'.executed = loadQ.executed
        /\ loadQ'.entries = loadQ.entries /\ loadQ'.addresses = [loadQ.addresses EXCEPT ![s] = o.addr]
        /\ storeQ' = storeQ
        /\ \/ aligned(o.addr, loadQ.entries[s].size) /\ loadQ'.addrValid = loadQ.addrValid \cup {s}
           \/ loadQ'.addrValid = loadQ.addrValid
    BY <1>0, <1>4, WakeupLoad
  <2>2. loadQ.addresses \in [LqIndex -> Addr] /\ loadQ.valid \subseteq LqIndex
    BY <1>0, LoadFields DEF RingT
  <2>3. loadQ.entries[s].size = o.size
    <3>0. Linked(loadQ.valid, loadQ.entries, Live, data, "load")
      BY DEF RingInv, FifoInv, Fifo
    <3>1. s \in loadQ.valid /\ loadQ.entries[s].index = i
      BY <1>3, <1>4
    <3>2. \A u \in loadQ.valid : loadQ.entries[u] = entryOf(data, loadQ.entries[u].index)
      BY <3>0, Zenon DEF Linked
    <3>3. loadQ.entries[s] = entryOf(data, i)
      BY <3>1, <3>2, Zenon
    <3> QED  BY <3>3 DEF entryOf
  <2>4. ASSUME NEW u \in loadQ.valid
        PROVE  /\ loadQ.entries[u].index \notin lsu_iq' => loadQ'.addresses[u] = opOf(data, loadQ.entries, u).addr
               /\ u \in loadQ'.addrValid \cup loadQ'.executed =>
                    aligned(opOf(data, loadQ.entries, u).addr, opOf(data, loadQ.entries, u).size)
    <3>1. CASE u = s
      <4>1. opOf(data, loadQ.entries, u) = o /\ loadQ'.addresses[u] = o.addr
        BY <1>3, <1>4, <2>1, <2>2, <3>1 DEF opOf
      <4> QED  BY <2>1, <2>3, <3>1, <4>1 DEF AddrInv, LoadAddr
    <3>2. CASE u # s
      <4>1. loadQ.entries[u].index # i
        BY <1>3, <1>4, <3>2 DEF Own
      <4>2. loadQ'.addresses[u] = loadQ.addresses[u]
        BY <2>1, <2>2, <3>2
      <4>3. u \in loadQ'.addrValid \cup loadQ'.executed => u \in loadQ.addrValid \cup loadQ.executed
        BY <2>1, <3>2
      <4> QED  BY <1>2, <4>1, <4>2, <4>3 DEF AddrInv, LoadAddr
    <3> QED  BY <3>1, <3>2
  <2>5. StoreAddr(storeQ.valid, storeQ.entries, storeQ.addresses, storeQ.datas, data, lsu_iq')
    <3>1. \A u \in storeQ.valid : storeQ.entries[u].index # i
      BY <1>3, <1>4
    <3> QED  BY <1>2, <3>1 DEF AddrInv, StoreAddr
  <2> QED  BY <1>2, <2>1, <2>4, <2>5 DEF AddrInv, LoadAddr
<1>5. CASE o.kind = "store" /\ s \in SqIndex /\ wakeupStore(s, o.addr, o.data) /\ o.addr \in Addr /\ o.data \in Data
  <2>1. /\ storeQ'.valid = storeQ.valid /\ storeQ'.entries = storeQ.entries
        /\ storeQ'.addresses = [storeQ.addresses EXCEPT ![s] = o.addr]
        /\ storeQ'.datas = [storeQ.datas EXCEPT ![s] = o.data]
    BY <1>0, <1>5, WakeupStore
  <2>0. loadQ' = loadQ
    BY <1>5 DEF wakeupStore
  <2>2. /\ storeQ.addresses \in [SqIndex -> Addr] /\ storeQ.datas \in [SqIndex -> Data]
        /\ storeQ.valid \subseteq SqIndex
    BY <1>0, StoreFields DEF RingT
  <2>3. ASSUME NEW u \in storeQ.valid, storeQ.entries[u].index \notin lsu_iq'
        PROVE  /\ storeQ'.addresses[u] = opOf(data, storeQ.entries, u).addr
               /\ storeQ'.datas[u] = opOf(data, storeQ.entries, u).data
    <3>1. CASE u = s
      <4>1. opOf(data, storeQ.entries, u) = o
        BY <1>3, <1>5, <3>1 DEF opOf
      <4>2. storeQ'.addresses[u] = o.addr /\ storeQ'.datas[u] = o.data
        BY <1>5, <2>1, <2>2, <3>1
      <4> QED  BY <4>1, <4>2
    <3>2. CASE u # s
      <4>1. storeQ.entries[u].index # i
        BY <1>3, <1>5, <3>2 DEF Own
      <4>2. storeQ'.addresses[u] = storeQ.addresses[u] /\ storeQ'.datas[u] = storeQ.datas[u]
        BY <2>1, <2>2, <3>2
      <4> QED  BY <1>2, <2>3, <4>1, <4>2 DEF AddrInv, StoreAddr
    <3> QED  BY <3>1, <3>2
  <2>4. LoadAddr(loadQ.valid, loadQ.addrValid \cup loadQ.executed, loadQ.entries, loadQ.addresses, data, lsu_iq')
    <3>1. \A u \in loadQ.valid : loadQ.entries[u].index # i
      BY <1>3, <1>5
    <3> QED  BY <1>2, <3>1 DEF AddrInv, LoadAddr
  <2> QED  BY <1>2, <2>0, <2>1, <2>3, <2>4 DEF AddrInv, StoreAddr
<1>6. o.kind \in {"load", "store"}
  <2>1. PICK pl \in [RobIndex -> Places] : Placed(pl)
    BY DEF PlaceInv
  <2>2. /\ pl[i] # "none" <=> i \in Live \ resultValid /\ isDmem(data[i].op)
        /\ pl[i] = "iq" <=> i \in lsu_iq
    BY <2>1 DEF Placed, RobPlaced, RobAt
  <2> QED  BY <1>1, <2>2 DEF woken, isDmem
<1> QED  BY <1>1, <1>4, <1>5, <1>6 DEF woken


LEMMA AddrStep ==
  ASSUME LsuTypeInv, RingInv, PlaceInv, AddrInv, [Next]_vars
  PROVE  AddrInv'
<1>0. RingT /\ RingOK
  BY DEF LsuTypeInv, RobT
<1>1. CASE UNCHANGED <<data, lsu_iq, loadQ, storeQ>>
  BY <1>1 DEF AddrInv
<1>2. CASE \E o \in Ops : dispatch(o)
  BY <1>2, AddrDispatch
<1>3. CASE connect
  BY <1>3, AddrConnect
<1>4. CASE Retirement
  <2>1. data' = data /\ lsu_iq' = lsu_iq
    BY <1>0, <1>4, RetireEffect, PosDeq DEF retireVars
  <2>2. Same(Live, data, data', lsu_iq, lsu_iq')
    BY <2>1 DEF Same
  <2>3. CASE commitLoad
    <3>1. /\ loadQ'.valid \subseteq loadQ.valid /\ loadQ'.entries = loadQ.entries
          /\ loadQ'.addresses = loadQ.addresses /\ loadQ'.addrValid = loadQ.addrValid
          /\ loadQ'.executed \subseteq loadQ.executed /\ storeQ' = storeQ
      BY <1>0, <2>3, CommitLoad
    <3> QED  BY <2>2, <3>1, AddrRingSame
  <2>4. ASSUME NEW must \in BOOLEAN, commitStore(must) PROVE AddrInv'
    <3>1. /\ storeQ'.valid \subseteq storeQ.valid /\ storeQ'.entries = storeQ.entries
          /\ storeQ'.addresses = storeQ.addresses /\ storeQ'.datas = storeQ.datas /\ loadQ' = loadQ
      BY <1>0, <2>4, CommitStore
    <3> QED  BY <2>2, <3>1, AddrRingSame
  <2>5. CASE UNCHANGED ringVars
    BY <1>1, <2>1, <2>5 DEF ringVars
  <2> QED  BY <1>4, <2>3, <2>4, <2>5, RingRetire
<1>5. CASE issueLoad /\ UNCHANGED <<data, lsu_iq>>
  <2>1. PICK i \in LqIndex :
          /\ canRead(i) /\ loadQ'.executed = loadQ.executed \cup {i}
          /\ loadQ'.valid = loadQ.valid /\ loadQ'.addrValid = loadQ.addrValid
          /\ loadQ'.entries = loadQ.entries /\ loadQ'.addresses = loadQ.addresses
          /\ storeQ' = storeQ
    BY <1>5, IssueLoadEffect
  <2>2. i \in loadQ.addrValid
    BY <2>1 DEF canRead, isFirstFrom
  <2>3. Same(Live, data, data', lsu_iq, lsu_iq')
    BY <1>5 DEF Same
  <2> QED  BY <2>1, <2>2, <2>3, AddrRingSame
<1>6. CASE issueStore /\ UNCHANGED <<data, lsu_iq>>
  <2>1. /\ storeQ'.valid = storeQ.valid /\ storeQ'.entries = storeQ.entries
        /\ storeQ'.addresses = storeQ.addresses /\ storeQ'.datas = storeQ.datas
        /\ loadQ' = loadQ
    BY <1>6, IssueStoreEffect
  <2>2. Same(Live, data, data', lsu_iq, lsu_iq')
    BY <1>6 DEF Same
  <2> QED  BY <2>1, <2>2, AddrRingSame
<1>7. CASE write_back \/ write_back_branch \/ execute_direct \/ UNCHANGED vars
  BY <1>1, <1>7 DEF write_back, write_back_branch, execute_direct, vars, writeBack, robVars, coreVars,
                    lsuVars, ringVars
<1>8. CASE Rules
  <2>1. UNCHANGED <<data, lsu_iq>>
    BY <1>8 DEF Rules, robVars, coreVars
  <2>2. CASE readRequest \/ loadResponse \/ writeRequest \/ deqSTB \/ doDeqSTB
    BY <1>1, <2>1, <2>2 DEF readRequest, loadResponse, writeRequest, deqSTB, doDeqSTB, ringVars
  <2> QED  BY <1>5, <1>6, <1>8, <2>1, <2>2 DEF Rules, lsuRules
<1> QED  BY <1>2, <1>3, <1>4, <1>7, <1>8 DEF Next


-----------------------------------------------------------------------------
(* The loads that will not be re-executed.                                 *)

(* No load of the current epoch up to i is killed.                         *)
Right(i) == data[i].epoch = epoch /\ \A j \in killed : data[j].epoch = epoch => pos[i] < pos[j]

wordOf(i) == data[i].op.addr[1]

(* Load i has been read, or is being read.                                 *)
Executed(i) == data[i].op.kind = "load" /\ data[i].slot \in loadQ.executed

(* If load i is right after a step, it was right before and the step left  *)
(* its word alone.                                                         *)
keeps(i) ==
  /\ data'[i] = data[i]
  /\ Executed(i) => /\ Executed(i)'
                    /\ Right(i)' => /\ Right(i)
                                    /\ programMem'[wordOf(i)] = programMem[wordOf(i)]
                                    /\ \A v : stbSearch(v)' => stbSearch(v) \/ v # wordOf(i)

LEMMA WordType ==
  ASSUME LsuTypeInv, NEW i \in Live
  PROVE  /\ data[i].op.addr \in Addr /\ wordOf(i) \in Word /\ data[i].op.size \in Size
         /\ data[i].op.data \in Data
<1>1. i \in RobIndex
  BY DEF Live
<1>2. data[i].op \in Ops
  BY <1>1 DEF LsuTypeInv, RobT, Entry
<1>3. data[i].op.addr \in Addr /\ data[i].op.size \in Size /\ data[i].op.data \in Data
  BY <1>2, OpType
<1> QED  BY <1>3, AddrParts DEF wordOf

LEMMA FirstExists ==
  ASSUME NEW N \in Nat \ {0}, NEW h \in 0 .. N - 1, NEW T, T \subseteq 0 .. N - 1, T # {}
  PROVE  \E u \in T : isFirstFrom(u, T, h, N)
<1> DEFINE U == {distance(h, j, N) : j \in T}
<1>1. \A j \in T : distance(h, j, N) \in Nat
  BY DEF distance
<1>2. U \subseteq Nat /\ U # {}
  BY <1>1
<1>3. PICK d \in U : \A y \in U : d <= y
  BY <1>2, LeastNat
<1>4. PICK u \in T : d = distance(h, u, N)
  BY <1>3
<1>5. \A j \in T : distance(h, u, N) <= distance(h, j, N)
  BY <1>3, <1>4
<1> QED  BY <1>5 DEF isFirstFrom

(* A store that enters the buffer leaves no load of its word right.        *)
LEMMA StoreDisowns ==
  ASSUME LsuTypeInv, RingInv, PlaceInv, AddrInv, NEW i \in Live, Executed(i), NEW w, wordOf(i) = w
  PROVE  \E u \in disowned(w) : u \in Live /\ data[u].op.kind = "load" /\ ~(pos[i] < pos[u])
<1> DEFINE s == data[i].slot
           h == loadQ.head
           E == loadQ.entries
           T == {j \in loadQ.executed : loadQ.addresses[j][1] = w}
<1>0. loadQ.executed \subseteq LqIndex /\ h \in LqIndex /\ LqSize \in Nat \ {0}
  BY LoadFields, LsuAssumption DEF LsuTypeInv, RingT
<1>1. s \in loadQ.executed /\ data[i].op.kind = "load" /\ data[i].op.addr[1] = w
  BY DEF Executed, wordOf
<1>2. s \in loadQ.valid /\ E[s].index = i
  BY <1>1, RingOwn
<1>3. loadQ.addresses[s] = data[i].op.addr
  BY <1>1, <1>2, ExecutedValid DEF AddrInv, LoadAddr, opOf
<1>4. s \in T /\ T \subseteq 0 .. LqSize - 1
  BY <1>0, <1>1, <1>3 DEF LqIndex
<1> HIDE DEF T
<1>5. PICK u \in T : isFirstFrom(u, T, h, LqSize)
  BY <1>0, <1>4, FirstExists DEF LqIndex
<1>6. E[u].index \in disowned(w)
  BY <1>4, <1>5 DEF disowned, LqIndex, T
<1>7. u \in loadQ.valid /\ E[u].index \in Live /\ data[E[u].index].op.kind = "load"
  BY <1>5, ExecutedValid, RingOwn DEF T
<1>8. distance(h, u, LqSize) <= distance(h, s, LqSize)
  BY <1>4, <1>5 DEF isFirstFrom
<1>9. ~(pos[i] < pos[E[u].index])
  <2>0. \A k \in Live : pos[k] \in Int
    <3>1. \A k \in Live : k \in RobIndex /\ robPos(k) \in RobIndex
      BY RingOrder DEF LsuTypeInv, RobT, Live
    <3> QED  BY <3>1 DEF pos, RobIndex
  <2>1. CASE u = s
    BY <1>2, <2>0, <2>1
  <2>2. CASE u # s
    <3>1. distance(h, u, LqSize) < distance(h, s, LqSize)
      <4>1. h \in 0 .. LqSize - 1 /\ u \in 0 .. LqSize - 1 /\ s \in 0 .. LqSize - 1
        BY <1>0, <1>4 DEF LqIndex
      <4> QED  BY <1>0, <1>8, <2>2, <4>1 DEF distance
    <3>2. pos[E[u].index] < pos[E[s].index]
      BY <1>2, <1>7, <3>1 DEF RingInv, FifoInv, Fifo, Ordered
    <3> QED  BY <1>2, <1>7, <2>0, <3>2
  <2> QED  BY <2>1, <2>2
<1> QED  BY <1>6, <1>7, <1>9

LEMMA KeepsRetire ==
  ASSUME LsuTypeInv, RingInv, PlaceInv, PairInv, WrittenInv, EpochInv, KilledInv, AddrInv, Retirement,
         NEW i \in Live, i # firstP
  PROVE  keeps(i)
<1> DEFINE x == firstP
           w == wordOf(i)
<1>1. /\ retireKinds /\ mem' = mem /\ x \in resultValid
      /\ x \in Live /\ Live' = Live \ {x} /\ data' = data
      /\ Leaves(Live, pos, pos', x)
  BY RetireKinds
<1>2. RingOK /\ RingT
  BY DEF LsuTypeInv, RobT
<1>3. ASSUME Executed(i) PROVE Executed(i)'
  <2>1. CASE commitLoad /\ loadQ.entries[loadQ.head].index = x
    <3>1. loadQ'.executed = loadQ.executed \ {loadQ.head}
      BY <1>2, <2>1, CommitLoad
    <3>2. loadQ.entries[data[i].slot].index = i
      BY <1>3, RingOwn DEF Executed
    <3> QED  BY <1>1, <1>3, <2>1, <3>1, <3>2 DEF Executed
  <2>2. CASE loadQ' = loadQ
    BY <1>1, <1>3, <2>2 DEF Executed
  <2> QED  BY <2>1, <2>2, RingRetire DEF ringVars
<1>4. \A j, k \in Live \ {x} : pos'[j] < pos'[k] => pos[j] < pos[k]
  BY <1>1 DEF Leaves
<1>5. data[x].epoch = epoch => \A j \in Live : data[j].epoch = epoch
  BY <1>1, <1>2, AllCurrent
<1>6. ASSUME Right(i)', epoch' = epoch,
             \A j \in killed : data[j].epoch = epoch => j # x /\ j \in killed'
      PROVE  Right(i)
  BY <1>1, <1>4, <1>6 DEF Right, KilledInv
<1>7. CASE quiet
  <2>1. programMem' = programMem /\ \A v : stbSearch(v)' <=> stbSearch(v)
    BY <1>1, <1>7, ProgramSame DEF quiet
  <2>2. Right(i)' => Right(i)
    <3>1. CASE epoch' # epoch
      <4>1. data[x].epoch = epoch
        BY <1>1, <3>1 DEF retireKinds, retires
      <4> QED  BY <1>1, <1>5, <3>1, <4>1 DEF Right
    <3>2. CASE epoch' = epoch
      <4>1. \A j \in killed : data[j].epoch = epoch => j # x
        BY <1>1, <3>2 DEF retireKinds, retires
      <4> QED  BY <1>6, <1>7, <3>2, <4>1 DEF quiet
    <3> QED  BY <3>1, <3>2
  <2> QED  BY <1>1, <1>3, <2>1, <2>2 DEF keeps
<1>8. CASE retires /\ stores /\ data[x].op.kind = "store"
  <2>0. \A j \in Live : data[j].epoch = epoch
    BY <1>5, <1>8 DEF retires
  <2>1. ASSUME Right(i)' PROVE epoch' = epoch /\ Right(i)
    <3>1. epoch' = epoch
      BY <1>1, <2>0, <2>1 DEF Right
    <3>2. \A j \in killed : j # x /\ j \in killed'
      BY <1>8 DEF retires, stores
    <3> QED  BY <1>6, <2>1, <3>1, <3>2
  <2>2. ASSUME Right(i)', Executed(i) PROVE w # storeWord
    <3> SUFFICES ASSUME w = storeWord PROVE FALSE
      OBVIOUS
    <3>1. PICK u \in disowned(storeWord) : u \in Live /\ data[u].op.kind = "load" /\ ~(pos[i] < pos[u])
      BY <2>2, StoreDisowns
    <3>2. u # x /\ u \in killed'
      BY <1>8, <3>1 DEF stores
    <3>3. data'[u].epoch = epoch'
      BY <1>1, <2>0, <2>1, <2>2, <3>1
    <3>4. pos'[i] < pos'[u]
      BY <2>2, <3>2, <3>3 DEF Right
    <3> QED  BY <1>4, <3>1, <3>2, <3>4
  <2>3. newEntry.word = storeWord
    BY DEF newEntry, toStb, storeWord
  <2>4. /\ newEntry \in StbEntry
        /\ programMem' = [programMem EXCEPT ![newEntry.word] = merge(@, newEntry)]
        /\ \A v : stbSearch(v)' <=> stbSearch(v) \/ v = newEntry.word
    <3> DEFINE e == newEntry
    <3>1. e \in StbEntry /\ stb' = Append(stb, e) /\ wrequestQ' = Append(wrequestQ, e)
      BY <1>8 DEF stores
    <3> HIDE DEF e
    <3>2. /\ programMem' = [programMem EXCEPT ![e.word] = merge(@, e)]
          /\ \A v : stbSearch(v)' <=> stbSearch(v) \/ v = e.word
      BY <1>1, <3>1, ProgramStore
    <3> QED  BY <3>1, <3>2 DEF e
  <2>5. programMem = [v \in Word |-> programMem[v]] /\ w \in Word
    BY WordType DEF programMem
  <2>6. w # storeWord => /\ programMem'[w] = programMem[w]
                         /\ \A v : stbSearch(v)' => stbSearch(v) \/ v # w
    <3> HIDE DEF w
    <3> QED  BY <2>3, <2>4, <2>5
  <2> QED  BY <1>1, <1>3, <2>1, <2>2, <2>6 DEF keeps
<1> QED  BY <1>1, <1>7, <1>8 DEF retireKinds, retires


LEMMA KeepsSame ==
  ASSUME KilledInv, UNCHANGED <<epoch, killed>>, pos' = pos, \A j \in Live : data'[j] = data[j],
         loadQ.executed \subseteq loadQ'.executed, programMem' = programMem,
         \A v : stbSearch(v)' => stbSearch(v), NEW i \in Live
  PROVE  keeps(i)
<1>1. Executed(i) => Executed(i)'
  BY DEF Executed
<1>2. Right(i)' => Right(i)
  BY DEF Right, KilledInv
<1> QED  BY <1>1, <1>2 DEF keeps

LEMMA KeepsStep ==
  ASSUME LsuTypeInv, RingInv, PlaceInv, PairInv, WrittenInv, EpochInv, KilledInv, AddrInv, [Next]_vars,
         NEW i \in Live, i \in Live'
  PROVE  keeps(i)
<1>0. RingOK /\ RingT
  BY DEF LsuTypeInv, RobT
<1>1. CASE UNCHANGED <<data, firstP, nextP, empty, full, epoch, killed, loadQ, stb, wrequestQ, mem>>
  <2>1. pos' = pos /\ programMem' = programMem /\ \A v : stbSearch(v)' => stbSearch(v)
    BY <1>1, SameRob, ProgramSame
  <2> QED  BY <1>1, <2>1, KeepsSame
<1>2. CASE Retirement
  <2>1. Live' = Live \ {firstP}
    BY <1>0, <1>2, RetireEffect, PosDeq
  <2> QED  BY <1>2, <2>1, KeepsRetire
<1>3. ASSUME NEW o \in Ops, dispatch(o) PROVE keeps(i)
  <2>1. /\ enq(data'[nextP]) /\ epoch' = epoch /\ killed' = killed /\ UNCHANGED <<stb, wrequestQ, mem>>
        /\ ringEntry(o) \in LsuEntry
        /\ enqLoad(ringEntry(o)) \/ enqStore(ringEntry(o)) \/ UNCHANGED ringVars
    BY <1>3, DispatchEffect DEF writeVars
  <2>2. pos' = pos /\ \A j \in Live : data'[j] = data[j]
    BY <1>0, <2>1, PosEnq DEF Joins
  <2>3. loadQ'.executed = loadQ.executed
    BY <1>0, <2>1, EnqLoad, EnqStore DEF ringVars
  <2>4. programMem' = programMem /\ \A v : stbSearch(v)' => stbSearch(v)
    BY <2>1, ProgramSame
  <2> QED  BY <2>1, <2>2, <2>3, <2>4, KeepsSame
<1>4. CASE connect
  <2>1. /\ UNCHANGED <<data, firstP, nextP, empty, full, epoch, killed, stb, wrequestQ, mem>>
    BY <1>4, ConnectEffect DEF robVars, writeVars
  <2>2. loadQ'.executed = loadQ.executed
    <3>1. PICK j \in RobIndex : woken(j)
      BY <1>4, ConnectEffect
    <3>2. CASE data[j].slot \in LqIndex /\ data[j].op.addr \in Addr /\ wakeupLoad(data[j].slot, data[j].op.addr)
      <4>1. ReplyT
        BY DEF LsuTypeInv
      <4> QED  BY <1>0, <3>2, <4>1, WakeupLoad
    <3>3. CASE wakeupStore(data[j].slot, data[j].op.addr, data[j].op.data)
      BY <3>3 DEF wakeupStore
    <3> QED  BY <3>1, <3>2, <3>3 DEF woken
  <2>3. pos' = pos /\ programMem' = programMem /\ \A v : stbSearch(v)' => stbSearch(v)
    BY <2>1, SameRob, ProgramSame
  <2> QED  BY <2>1, <2>2, <2>3, KeepsSame
<1>5. CASE write_back \/ write_back_branch \/ execute_direct \/ UNCHANGED vars
  BY <1>1, <1>5 DEF write_back, write_back_branch, execute_direct, vars, writeBack, robVars, coreVars,
                    lsuVars, ringVars, writeVars
<1>6. CASE Rules
  <2>1. UNCHANGED <<data, firstP, nextP, empty, full, epoch, killed>>
    BY <1>6 DEF Rules, robVars, coreVars
  <2>2. pos' = pos
    BY <2>1, SameRob
  <2>3. CASE issueStore \/ readRequest \/ loadResponse \/ deqSTB
    BY <1>1, <2>1, <2>3 DEF issueStore, readRequest, loadResponse, deqSTB, ringVars, writeVars
  <2>4. CASE issueLoad
    <3>1. UNCHANGED <<stb, wrequestQ, mem>> /\ loadQ.executed \subseteq loadQ'.executed
      BY <2>4, IssueLoadEffect DEF writeVars
    <3>2. programMem' = programMem /\ \A v : stbSearch(v)' => stbSearch(v)
      BY <3>1, ProgramSame
    <3> QED  BY <2>1, <2>2, <3>1, <3>2, KeepsSame
  <2>5. CASE writeRequest
    <3>1. programMem' = programMem /\ loadQ' = loadQ /\ stb' = stb
      BY <2>5, ProgramWrite DEF writeRequest, ringVars
    <3>2. \A v : stbSearch(v)' => stbSearch(v)
      BY <3>1 DEF stbSearch
    <3> QED  BY <2>1, <2>2, <3>1, <3>2, KeepsSame
  <2>6. CASE doDeqSTB
    <3>1. programMem' = programMem /\ loadQ' = loadQ /\ \A v : stbSearch(v)' => stbSearch(v)
      <4>1. loadQ' = loadQ
        BY <2>6 DEF doDeqSTB, ringVars
      <4> QED  BY <2>6, <4>1, ProgramDeq
    <3> QED  BY <2>1, <2>2, <3>1, KeepsSame
  <2> QED  BY <1>6, <2>3, <2>4, <2>5, <2>6 DEF Rules, lsuRules
<1> QED  BY <1>2, <1>3, <1>4, <1>5, <1>6 DEF Next

LEMMA WrittenStep ==
  ASSUME LsuTypeInv, RingInv, PairInv, KilledInv, WrittenInv, [Next]_vars
  PROVE  WrittenInv'
<1>1. CASE UNCHANGED <<stb, wrequestQ, mem>>
  BY <1>1, ProgramSame
<1>2. CASE Retirement
  <2>1. retireKinds /\ mem' = mem
    BY <1>2, RetireKinds
  <2>2. CASE quiet
    BY <1>1, <2>1, <2>2 DEF quiet
  <2>3. CASE stores
    <3> DEFINE e == newEntry
    <3>1. e \in StbEntry /\ stb' = Append(stb, e) /\ wrequestQ' = Append(wrequestQ, e)
      BY <2>3 DEF stores
    <3> HIDE DEF e
    <3> QED  BY <2>1, <3>1, ProgramStore
  <2> QED  BY <2>1, <2>2, <2>3 DEF retireKinds, retires
<1>3. CASE writeRequest
  BY <1>3, ProgramWrite
<1>4. CASE doDeqSTB
  BY <1>4, ProgramDeq
<1>5. CASE (\E o \in Ops : dispatch(o)) \/ connect \/ write_back \/ write_back_branch \/ execute_direct
  BY <1>1, <1>5 DEF dispatch, connect, write_back, write_back_branch, execute_direct, writeVars, lsuVars
<1>6. CASE issueLoad \/ issueStore \/ readRequest \/ loadResponse \/ deqSTB \/ UNCHANGED vars
  BY <1>1, <1>6 DEF issueLoad, issueStore, readRequest, loadResponse, deqSTB, writeVars, vars, lsuVars
<1> QED  BY <1>2, <1>3, <1>4, <1>5, <1>6 DEF Next, Rules, lsuRules


-----------------------------------------------------------------------------
(* Requests and the loads they are for: of the loads q of one kind, the    *)
(* first g have been read, and f gives each request of that kind in r the  *)
(* one it is for, in order.  W holds the addresses.                        *)

Feeds(f, r, m, g, q, W) ==
  /\ \A k \in 1 .. Len(r) : isMMIO(r[k]) = m => f[k] \in g + 1 .. Len(q) /\ W[q[f[k]]][1] = r[k]
  /\ \A j, k \in 1 .. Len(r) : j < k /\ isMMIO(r[j]) = m /\ isMMIO(r[k]) = m => f[j] < f[k]
  /\ \A p \in g + 1 .. Len(q) : \E k \in 1 .. Len(r) : isMMIO(r[k]) = m /\ f[k] = p

Fed(r, m, g, q, W) == g <= Len(q) /\ \E f \in [1 .. Len(r) -> Nat] : Feeds(f, r, m, g, q, W)

LEMMA FedIssue ==
  ASSUME NEW r \in Seq(Word), NEW q \in Seq(LqIndex), NEW m, NEW g \in Nat, NEW W, NEW s \in LqIndex,
         NEW w \in Word, W[s][1] = w, isMMIO(w) = m, Fed(r, m, g, q, W)
  PROVE  Fed(Append(r, w), m, g, Append(q, s), W)
<1> DEFINE n  == Len(r)
           c  == Len(q)
           r2 == Append(r, w)
           q2 == Append(q, s)
<1>1. PICK f \in [1 .. n -> Nat] : Feeds(f, r, m, g, q, W)
  BY DEF Fed
<1>2. /\ n \in Nat /\ Len(r2) = n + 1 /\ r2[n + 1] = w /\ \A k \in 1 .. n : r2[k] = r[k]
  BY AppendFacts
<1>3. /\ c \in Nat /\ Len(q2) = c + 1 /\ q2[c + 1] = s /\ \A k \in 1 .. c : q2[k] = q[k]
  BY AppendFacts
<1> DEFINE f2 == [k \in 1 .. n + 1 |-> IF k = n + 1 THEN c + 1 ELSE f[k]]
<1>4. f2 \in [1 .. n + 1 -> Nat] /\ f2[n + 1] = c + 1 /\ \A k \in 1 .. n : f2[k] = f[k]
  BY <1>2, <1>3
<1>5. g <= c
  BY DEF Fed
<1>6. \A k \in 1 .. n : isMMIO(r[k]) = m => f[k] \in g + 1 .. c /\ W[q[f[k]]][1] = r[k]
  BY <1>1 DEF Feeds
<1> HIDE DEF n, c, r2, q2, f2
<1>7. ASSUME NEW k \in 1 .. n + 1, isMMIO(r2[k]) = m
      PROVE  f2[k] \in g + 1 .. c + 1 /\ W[q2[f2[k]]][1] = r2[k]
  <2>1. CASE k = n + 1
    BY <1>2, <1>3, <1>4, <1>5, <2>1
  <2>2. CASE k \in 1 .. n
    <3>1. f[k] \in g + 1 .. c /\ W[q[f[k]]][1] = r[k]
      BY <1>2, <1>6, <1>7, <2>2
    <3>2. f2[k] = f[k] /\ f[k] \in 1 .. c /\ r2[k] = r[k]
      BY <1>2, <1>3, <1>4, <2>2, <3>1
    <3> QED  BY <1>3, <3>1, <3>2
  <2> QED  BY <1>2, <2>1, <2>2
<1>8. ASSUME NEW j \in 1 .. n + 1, NEW k \in 1 .. n + 1, j < k, isMMIO(r2[j]) = m, isMMIO(r2[k]) = m
      PROVE  f2[j] < f2[k]
  <2>0. j \in 1 .. n /\ r2[j] = r[j] /\ f2[j] = f[j] /\ f[j] \in g + 1 .. c
    BY <1>2, <1>4, <1>6, <1>8
  <2>1. CASE k = n + 1
    BY <1>3, <1>4, <2>0, <2>1
  <2>2. CASE k \in 1 .. n
    <3>1. r2[k] = r[k] /\ f2[k] = f[k]
      BY <1>2, <1>4, <2>2
    <3> QED  BY <1>1, <1>8, <2>0, <2>2, <3>1 DEF Feeds, n
  <2> QED  BY <1>2, <2>1, <2>2
<1>9. ASSUME NEW p \in g + 1 .. c + 1 PROVE \E k \in 1 .. n + 1 : isMMIO(r2[k]) = m /\ f2[k] = p
  <2>1. CASE p = c + 1
    <3>1. n + 1 \in 1 .. n + 1 /\ r2[n + 1] = w /\ f2[n + 1] = p
      BY <1>2, <1>4, <2>1
    <3> QED  BY <3>1
  <2>2. CASE p \in g + 1 .. c
    <3>1. PICK k \in 1 .. n : isMMIO(r[k]) = m /\ f[k] = p
      BY <1>1, <2>2 DEF Feeds, n, c
    <3>2. k \in 1 .. n + 1 /\ r2[k] = r[k] /\ f2[k] = f[k]
      BY <1>2, <1>4
    <3> QED  BY <3>1, <3>2
  <2> QED  BY <1>3, <2>1, <2>2
<1>10. Feeds(f2, r2, m, g, q2, W)
  BY <1>2, <1>3, <1>7, <1>8, <1>9 DEF Feeds
<1>11. g <= c + 1
  BY <1>3, <1>5
<1> QED  BY <1>2, <1>3, <1>4, <1>10, <1>11 DEF Fed, r2, q2

LEMMA FedOtherIssue ==
  ASSUME NEW r \in Seq(Word), NEW q \in Seq(LqIndex), NEW m, NEW g \in Nat, NEW W,
         NEW w \in Word, isMMIO(w) # m, Fed(r, m, g, q, W)
  PROVE  Fed(Append(r, w), m, g, q, W)
<1> DEFINE n  == Len(r)
           r2 == Append(r, w)
<1>1. PICK f \in [1 .. n -> Nat] : Feeds(f, r, m, g, q, W)
  BY DEF Fed
<1>2. /\ n \in Nat /\ Len(r2) = n + 1 /\ r2[n + 1] = w /\ \A k \in 1 .. n : r2[k] = r[k]
  BY AppendFacts
<1> DEFINE f2 == [k \in 1 .. n + 1 |-> IF k = n + 1 THEN 0 ELSE f[k]]
<1>3. f2 \in [1 .. n + 1 -> Nat] /\ \A k \in 1 .. n : f2[k] = f[k]
  BY <1>2
<1> HIDE DEF n, r2, f2
<1>4. \A k \in 1 .. n + 1 : isMMIO(r2[k]) = m => k \in 1 .. n /\ r2[k] = r[k] /\ f2[k] = f[k]
  BY <1>2, <1>3
<1>5. \A k \in 1 .. n : k \in 1 .. n + 1 /\ r2[k] = r[k] /\ f2[k] = f[k]
  BY <1>2, <1>3
<1>6. \A k \in 1 .. n + 1 : isMMIO(r2[k]) = m => f2[k] \in g + 1 .. Len(q) /\ W[q[f2[k]]][1] = r2[k]
  BY <1>1, <1>4 DEF Feeds, n
<1>7. \A j, k \in 1 .. n + 1 : j < k /\ isMMIO(r2[j]) = m /\ isMMIO(r2[k]) = m => f2[j] < f2[k]
  BY <1>1, <1>4 DEF Feeds, n
<1>8. \A p \in g + 1 .. Len(q) : \E k \in 1 .. n + 1 : isMMIO(r2[k]) = m /\ f2[k] = p
  BY <1>1, <1>5 DEF Feeds, n
<1>9. Feeds(f2, r2, m, g, q, W)
  BY <1>2, <1>6, <1>7, <1>8 DEF Feeds
<1> QED  BY <1>2, <1>3, <1>9 DEF Fed, r2

LEMMA FedRead ==
  ASSUME NEW r \in Seq(Word), r # <<>>, NEW q \in Seq(LqIndex), NEW m, NEW g \in Nat, NEW W,
         isMMIO(Head(r)) = m, Fed(r, m, g, q, W)
  PROVE  Fed(Tail(r), m, g + 1, q, W) /\ g + 1 <= Len(q) /\ W[q[g + 1]][1] = Head(r)
<1> DEFINE n  == Len(Tail(r))
           r2 == Tail(r)
           c  == Len(q)
<1>1. PICK f \in [1 .. Len(r) -> Nat] : Feeds(f, r, m, g, q, W)
  BY DEF Fed
<1>2. /\ n \in Nat /\ Len(r) = n + 1 /\ Head(r) = r[1] /\ 1 \in 1 .. Len(r)
      /\ \A k \in 1 .. n : k + 1 \in 1 .. Len(r) /\ r2[k] = r[k + 1]
      /\ \A k \in 1 .. Len(r) : k = 1 \/ (k - 1 \in 1 .. n /\ r2[k - 1] = r[k])
  <2>1. Len(Tail(r)) \in Nat /\ Len(r) = Len(Tail(r)) + 1
    BY TailFacts
  <2> QED  BY <2>1, TailFacts
<1>3. c \in Nat
  OBVIOUS
<1> DEFINE f2 == [k \in 1 .. n |-> f[k + 1]]
<1>4. f2 \in [1 .. n -> Nat] /\ \A k \in 1 .. n : f2[k] = f[k + 1]
  BY <1>2
<1> HIDE DEF n, r2, c, f2
<1>5. \A k \in 1 .. Len(r) : isMMIO(r[k]) = m => f[k] \in g + 1 .. c /\ W[q[f[k]]][1] = r[k]
  BY <1>1 DEF Feeds, c
<1>6. \A j, k \in 1 .. Len(r) : j < k /\ isMMIO(r[j]) = m /\ isMMIO(r[k]) = m => f[j] < f[k]
  BY <1>1 DEF Feeds
<1>7. f[1] = g + 1 /\ g + 1 <= c
  <2>1. f[1] \in g + 1 .. c
    BY <1>2, <1>5
  <2>2. g + 1 \in g + 1 .. c
    BY <1>3, <2>1
  <2>3. PICK k \in 1 .. Len(r) : isMMIO(r[k]) = m /\ f[k] = g + 1
    BY <1>1, <2>2 DEF Feeds, c
  <2>4. k = 1 \/ f[1] < f[k]
    BY <1>2, <1>6, <2>3
  <2> QED  BY <1>3, <2>1, <2>3, <2>4
<1>8. W[q[g + 1]][1] = Head(r)
  BY <1>2, <1>5, <1>7
<1>9. ASSUME NEW k \in 1 .. n, isMMIO(r2[k]) = m
      PROVE  f2[k] \in (g + 1) + 1 .. c /\ W[q[f2[k]]][1] = r2[k]
  <2>1. k + 1 \in 1 .. Len(r) /\ r2[k] = r[k + 1] /\ f2[k] = f[k + 1] /\ 1 < k + 1
    BY <1>2, <1>4
  <2>2. f[1] < f[k + 1] /\ f[k + 1] \in g + 1 .. c /\ W[q[f[k + 1]]][1] = r[k + 1]
    BY <1>2, <1>5, <1>6, <1>9, <2>1
  <2>3. f2[k] \in (g + 1) + 1 .. c
    BY <1>3, <1>7, <2>1, <2>2
  <2> QED  BY <2>1, <2>2, <2>3
<1>10. ASSUME NEW j \in 1 .. n, NEW k \in 1 .. n, j < k, isMMIO(r2[j]) = m, isMMIO(r2[k]) = m
       PROVE  f2[j] < f2[k]
  <2>1. /\ k + 1 \in 1 .. Len(r) /\ r2[k] = r[k + 1] /\ f2[k] = f[k + 1]
        /\ j + 1 \in 1 .. Len(r) /\ r2[j] = r[j + 1] /\ f2[j] = f[j + 1] /\ j + 1 < k + 1
    BY <1>2, <1>4, <1>10
  <2> QED  BY <1>6, <1>10, <2>1
<1>11. ASSUME NEW p \in (g + 1) + 1 .. c PROVE \E k \in 1 .. n : isMMIO(r2[k]) = m /\ f2[k] = p
  <2>1. p \in g + 1 .. c /\ p # g + 1
    BY <1>3
  <2>2. PICK k \in 1 .. Len(r) : isMMIO(r[k]) = m /\ f[k] = p
    BY <1>1, <2>1 DEF Feeds, c
  <2>3. k # 1
    BY <1>7, <2>1, <2>2
  <2>4. k - 1 \in 1 .. n /\ r2[k - 1] = r[k] /\ f2[k - 1] = f[k]
    <3>1. k - 1 \in 1 .. n /\ r2[k - 1] = r[k] /\ (k - 1) + 1 = k
      BY <1>2, <2>3
    <3> QED  BY <1>4, <3>1
  <2> QED  BY <2>2, <2>4
<1>12. Feeds(f2, r2, m, g + 1, q, W)
  BY <1>9, <1>10, <1>11 DEF Feeds, n, r2, c
<1> QED  BY <1>4, <1>7, <1>8, <1>12 DEF Fed, n, r2, c


LEMMA FedOtherRead ==
  ASSUME NEW r \in Seq(Word), r # <<>>, NEW q \in Seq(LqIndex), NEW m, NEW g \in Nat, NEW W,
         isMMIO(Head(r)) # m, Fed(r, m, g, q, W)
  PROVE  Fed(Tail(r), m, g, q, W)
<1> DEFINE n  == Len(Tail(r))
           r2 == Tail(r)
<1>1. PICK f \in [1 .. Len(r) -> Nat] : Feeds(f, r, m, g, q, W)
  BY DEF Fed
<1>2. /\ n \in Nat /\ Len(r) = n + 1 /\ Head(r) = r[1] /\ 1 \in 1 .. Len(r)
      /\ \A k \in 1 .. n : k + 1 \in 1 .. Len(r) /\ r2[k] = r[k + 1]
      /\ \A k \in 1 .. Len(r) : k = 1 \/ (k - 1 \in 1 .. n /\ r2[k - 1] = r[k])
  <2>1. Len(Tail(r)) \in Nat /\ Len(r) = Len(Tail(r)) + 1
    BY TailFacts
  <2> QED  BY <2>1, TailFacts
<1> DEFINE f2 == [k \in 1 .. n |-> f[k + 1]]
<1>3. f2 \in [1 .. n -> Nat] /\ \A k \in 1 .. n : f2[k] = f[k + 1]
  BY <1>2
<1> HIDE DEF n, r2, f2
<1>4. ASSUME NEW k \in 1 .. n, isMMIO(r2[k]) = m
      PROVE  f2[k] \in g + 1 .. Len(q) /\ W[q[f2[k]]][1] = r2[k]
  <2>1. k + 1 \in 1 .. Len(r) /\ r2[k] = r[k + 1] /\ f2[k] = f[k + 1]
    BY <1>2, <1>3
  <2> QED  BY <1>1, <1>4, <2>1 DEF Feeds
<1>5. ASSUME NEW j \in 1 .. n, NEW k \in 1 .. n, j < k, isMMIO(r2[j]) = m, isMMIO(r2[k]) = m
      PROVE  f2[j] < f2[k]
  <2>1. /\ k + 1 \in 1 .. Len(r) /\ r2[k] = r[k + 1] /\ f2[k] = f[k + 1]
        /\ j + 1 \in 1 .. Len(r) /\ r2[j] = r[j + 1] /\ f2[j] = f[j + 1] /\ j + 1 < k + 1
    BY <1>2, <1>3, <1>5
  <2> QED  BY <1>1, <1>5, <2>1 DEF Feeds
<1>6. ASSUME NEW p \in g + 1 .. Len(q) PROVE \E k \in 1 .. n : isMMIO(r2[k]) = m /\ f2[k] = p
  <2>1. PICK k \in 1 .. Len(r) : isMMIO(r[k]) = m /\ f[k] = p
    BY <1>1 DEF Feeds
  <2>2. k # 1
    BY <1>2, <2>1
  <2>3. k - 1 \in 1 .. n /\ r2[k - 1] = r[k] /\ f2[k - 1] = f[k]
    <3>1. k - 1 \in 1 .. n /\ r2[k - 1] = r[k] /\ (k - 1) + 1 = k
      BY <1>2, <2>2
    <3> QED  BY <1>3, <3>1
  <2> QED  BY <2>1, <2>3
<1>7. Feeds(f2, r2, m, g, q, W)
  BY <1>4, <1>5, <1>6 DEF Feeds, n, r2
<1> QED  BY <1>3, <1>7 DEF Fed, n, r2

LEMMA FedAnswer ==
  ASSUME NEW r \in Seq(Word), NEW q \in Seq(LqIndex), q # <<>>, NEW m, NEW g \in Nat, NEW W,
         Fed(r, m, g + 1, q, W)
  PROVE  Fed(r, m, g, Tail(q), W)
<1> DEFINE n  == Len(r)
           c  == Len(Tail(q))
           q2 == Tail(q)
<1>1. PICK f \in [1 .. n -> Nat] : Feeds(f, r, m, g + 1, q, W)
  BY DEF Fed
<1>2. /\ c \in Nat /\ Len(q) = c + 1
      /\ \A k \in 1 .. c : k + 1 \in 1 .. Len(q) /\ q2[k] = q[k + 1]
      /\ \A k \in 1 .. Len(q) : k = 1 \/ (k - 1 \in 1 .. c /\ q2[k - 1] = q[k])
  <2>1. Len(Tail(q)) \in Nat /\ Len(q) = Len(Tail(q)) + 1
    BY TailFacts
  <2> QED  BY <2>1, TailFacts
<1>3. g <= c
  BY <1>2 DEF Fed
<1> DEFINE f2 == [k \in 1 .. n |-> IF f[k] = 0 THEN 0 ELSE f[k] - 1]
<1>4. f2 \in [1 .. n -> Nat] /\ \A k \in 1 .. n : f[k] > 0 => f2[k] = f[k] - 1
  BY <1>2
<1> HIDE DEF n, q2, c, f2
<1>5. \A k \in 1 .. n : isMMIO(r[k]) = m => f[k] \in (g + 1) + 1 .. c + 1 /\ W[q[f[k]]][1] = r[k]
  BY <1>1, <1>2 DEF Feeds, n
<1>6. ASSUME NEW k \in 1 .. n, isMMIO(r[k]) = m
      PROVE  f2[k] \in g + 1 .. c /\ f2[k] = f[k] - 1 /\ f[k] \in Nat /\ W[q2[f2[k]]][1] = r[k]
  <2>1. f[k] \in (g + 1) + 1 .. c + 1 /\ W[q[f[k]]][1] = r[k]
    BY <1>5, <1>6
  <2>2. f2[k] = f[k] - 1 /\ f2[k] \in g + 1 .. c /\ f[k] \in Nat /\ f[k] \in 1 .. Len(q) /\ f[k] # 1
    BY <1>2, <1>4, <2>1
  <2>3. q2[f2[k]] = q[f[k]]
    BY <1>2, <2>2
  <2> QED  BY <2>1, <2>2, <2>3
<1>7. ASSUME NEW j \in 1 .. n, NEW k \in 1 .. n, j < k, isMMIO(r[j]) = m, isMMIO(r[k]) = m
      PROVE  f2[j] < f2[k]
  <2>1. f[j] < f[k]
    BY <1>1, <1>7 DEF Feeds, n
  <2>2. f2[j] = f[j] - 1 /\ f2[k] = f[k] - 1 /\ f[j] \in Nat /\ f[k] \in Nat
    BY <1>6, <1>7
  <2> QED  BY <2>1, <2>2
<1>8. ASSUME NEW p \in g + 1 .. c PROVE \E k \in 1 .. n : isMMIO(r[k]) = m /\ f2[k] = p
  <2>1. p + 1 \in (g + 1) + 1 .. Len(q)
    BY <1>2
  <2>2. PICK k \in 1 .. n : isMMIO(r[k]) = m /\ f[k] = p + 1
    BY <1>1, <2>1 DEF Feeds, n
  <2>3. f2[k] = p
    BY <1>6, <2>2
  <2> QED  BY <2>2, <2>3
<1>9. Feeds(f2, r, m, g, q2, W)
  BY <1>6, <1>7, <1>8 DEF Feeds, n, q2, c
<1> QED  BY <1>3, <1>4, <1>9 DEF Fed, n, q2, c

(* Other addresses may change.                                             *)
LEMMA FedOther ==
  ASSUME NEW r, NEW q \in Seq(LqIndex), NEW m, NEW g \in Nat, NEW W, NEW W2,
         \A k \in 1 .. Len(q) : W2[q[k]] = W[q[k]], Fed(r, m, g, q, W)
  PROVE  Fed(r, m, g, q, W2)
<1>1. PICK f \in [1 .. Len(r) -> Nat] : Feeds(f, r, m, g, q, W)
  BY DEF Fed
<1>2. \A k \in 1 .. Len(r) : isMMIO(r[k]) = m => f[k] \in 1 .. Len(q)
  BY <1>1 DEF Feeds
<1>3. Feeds(f, r, m, g, q, W2)
  BY <1>1, <1>2 DEF Feeds
<1> QED  BY <1>3 DEF Fed


-----------------------------------------------------------------------------
(* What loads have read.                                                   *)

FedInv ==
  /\ Fed(rrequestQ, TRUE, Len(rresponseQ), pendingMmioLoadsQ, loadQ.addresses)
  /\ Fed(rrequestQ, FALSE, Len(cacheRead), pendingDmemLoadsQ, loadQ.addresses)

(* A right load has the contents of its word, or no buffered store covers  *)
(* the word it is about to read.                                           *)
Fresh(i, d) == Right(i) => d = programMem[wordOf(i)]
Clear(i)    == Right(i) => ~stbSearch(wordOf(i))

Answered(i, ok, d) ==
  LET o == data[i].op IN
  ok => /\ aligned(o.addr, o.size)
        /\ o.kind = "load" => /\ Executed(i)
                              /\ Right(i) => d = finish(o.addr, o.size, programMem[wordOf(i)])

reader(s) == loadQ.entries[s].index

(* q are the loads being read and g the words that came back.              *)
ReadAs(i, k, g) == (k <= Len(g) => Fresh(i, g[k])) /\ (k > Len(g) => Clear(i))

ReadOK(q, g) ==
  \A k \in 1 .. Len(q) :
    q[k] \in loadQ.executed /\ \A i \in RobIndex : reader(q[k]) = i => ReadAs(i, k, g)

ReplyOK(q) == \A k \in 1 .. Len(q) : Answered(q[k].index, q[k].ok, q[k].data)

ReadInv  == ReadOK(pendingMmioLoadsQ, rresponseQ) /\ ReadOK(pendingDmemLoadsQ, cacheRead)
ReplyInv == ReplyOK(loadSuccessQ) /\ ReplyOK(loadFailureQ) /\ ReplyOK(storeSuccessQ)

ResultInv ==
  \A i \in resultValid : isDmem(data[i].op) => Answered(i, results[i].ok, results[i].data)

LEMMA ValueKept ==
  ASSUME NEW i, keeps(i), NEW ok, NEW d
  PROVE  /\ Answered(i, ok, d) => Answered(i, ok, d)'
         /\ Executed(i) => /\ Fresh(i, d) => Fresh(i, d)'
                           /\ Clear(i) => Clear(i)'
<1>1. data'[i] = data[i] /\ wordOf(i)' = wordOf(i)
  BY DEF keeps, wordOf
<1>2. ASSUME Executed(i)
      PROVE  /\ Executed(i)'
             /\ Right(i)' => /\ Right(i)
                             /\ programMem'[wordOf(i)] = programMem[wordOf(i)]
                             /\ \A v : stbSearch(v)' => stbSearch(v) \/ v # wordOf(i)
  BY <1>2 DEF keeps
<1>3. ASSUME Executed(i), Fresh(i, d) PROVE Fresh(i, d)'
  BY <1>1, <1>2, <1>3 DEF Fresh
<1>4. ASSUME Executed(i), Clear(i) PROVE Clear(i)'
  <2>1. PICK w : w = wordOf(i)
    OBVIOUS
  <2>2. Right(i)' => Right(i) /\ (stbSearch(w)' => stbSearch(w))
    BY <1>2, <1>4, <2>1
  <2>3. Right(i) => ~stbSearch(w)
    BY <1>4, <2>1 DEF Clear
  <2>4. wordOf(i)' = w
    BY <1>1, <2>1
  <2> QED  BY <2>2, <2>3, <2>4 DEF Clear, stbSearch
<1>5. ASSUME Answered(i, ok, d) PROVE Answered(i, ok, d)'
  BY <1>1, <1>2, <1>5 DEF Answered
<1> QED  BY <1>3, <1>4, <1>5

(* An operation without a result stays.                                    *)
LEMMA Waiting ==
  ASSUME LsuTypeInv, [Next]_vars, NEW i \in Live, i \notin resultValid
  PROVE  i \in Live'
<1>0. RingOK
  BY DEF LsuTypeInv, RobT
<1>1. CASE Retirement
  <2>1. Live' = Live \ {firstP} /\ firstP \in resultValid
    BY <1>0, <1>1, RetireEffect, PosDeq DEF first_done
  <2> QED  BY <2>1
<1>2. CASE \E o \in Ops : dispatch(o)
  BY <1>0, <1>2, DispatchEffect, PosEnq
<1>3. CASE UNCHANGED <<data, firstP, nextP, empty, full>>
  BY <1>3, SameRob
<1>4. CASE connect \/ write_back \/ write_back_branch \/ execute_direct \/ Rules \/ UNCHANGED vars
  BY <1>3, <1>4 DEF connect, write_back, write_back_branch, execute_direct, Rules, vars, writeBack, robVars
<1> QED  BY <1>1, <1>2, <1>4 DEF Next

LEMMA EntriesKept ==
  ASSUME LsuTypeInv, [Next]_vars, NEW s \in loadQ.valid
  PROVE  loadQ'.entries[s] = loadQ.entries[s]
<1>0. RingT /\ ReplyT
  BY DEF LsuTypeInv
<1>1. CASE loadQ'.entries = loadQ.entries
  BY <1>1
<1>2. ASSUME NEW o \in Ops, dispatch(o) PROVE loadQ'.entries[s] = loadQ.entries[s]
  <2>1. /\ ringEntry(o) \in LsuEntry
        /\ enqLoad(ringEntry(o)) \/ enqStore(ringEntry(o)) \/ UNCHANGED ringVars
    BY <1>2, DispatchEffect
  <2>2. CASE enqLoad(ringEntry(o))
    <3>1. /\ loadQ.tail \notin loadQ.valid
          /\ loadQ'.entries = [loadQ.entries EXCEPT ![loadQ.tail] = ringEntry(o)]
      BY <1>0, <2>1, <2>2, EnqLoad
    <3>2. loadQ.entries \in [LqIndex -> LsuEntry] /\ s \in LqIndex
      BY <1>0, LoadFields DEF RingT
    <3> QED  BY <3>1, <3>2
  <2>3. CASE enqStore(ringEntry(o)) \/ UNCHANGED ringVars
    BY <1>1, <2>3 DEF enqStore, ringVars
  <2> QED  BY <2>1, <2>2, <2>3
<1>3. CASE connect
  <2>1. PICK j \in RobIndex : woken(j)
    BY <1>3, ConnectEffect
  <2>2. CASE data[j].slot \in LqIndex /\ data[j].op.addr \in Addr /\ wakeupLoad(data[j].slot, data[j].op.addr)
    BY <1>0, <1>1, <2>2, WakeupLoad
  <2>3. CASE wakeupStore(data[j].slot, data[j].op.addr, data[j].op.data)
    BY <1>1, <2>3 DEF wakeupStore
  <2> QED  BY <2>1, <2>2, <2>3 DEF woken
<1>4. CASE Retirement
  <2>1. PICK must \in BOOLEAN : commit_dmem(must)
    BY <1>4, RetireEffect
  <2>2. commitLoad \/ commitStore(must) \/ UNCHANGED ringVars
    BY <2>1, CommitEffect
  <2> QED  BY <1>0, <1>1, <2>2, CommitLoad, CommitStore DEF ringVars
<1>5. CASE issueLoad
  BY <1>1, <1>5, IssueLoadEffect
<1>6. CASE write_back \/ write_back_branch \/ execute_direct \/ UNCHANGED vars
  BY <1>1, <1>6 DEF write_back, write_back_branch, execute_direct, vars, lsuVars, ringVars
<1>7. CASE issueStore \/ readRequest \/ loadResponse \/ writeRequest \/ deqSTB \/ doDeqSTB
  BY <1>1, <1>7 DEF issueStore, readRequest, loadResponse, writeRequest, deqSTB, doDeqSTB, ringVars
<1> QED  BY <1>2, <1>3, <1>4, <1>5, <1>6, <1>7 DEF Next, Rules, lsuRules


(* Loads being read and replies belong to operations without a result.     *)
Unanswered(q) == \A k \in 1 .. Len(q) : q[k] \in loadQ.valid /\ reader(q[k]) \in Live \ resultValid
Unwritten(q)  == \A k \in 1 .. Len(q) : q[k].index \in Live \ resultValid

LEMMA NoResult ==
  ASSUME PlaceInv
  PROVE  /\ Unanswered(pendingMmioLoadsQ) /\ Unanswered(pendingDmemLoadsQ)
         /\ Unwritten(loadSuccessQ) /\ Unwritten(loadFailureQ) /\ Unwritten(storeSuccessQ)
<1>1. PICK pl \in [RobIndex -> Places] : Placed(pl)
  BY DEF PlaceInv
<1>2. \A i \in RobIndex : pl[i] # "none" => i \in Live \ resultValid
  BY <1>1 DEF Placed, RobPlaced, RobAt
<1>3. ASSUME NEW q, NEW p, p # "none", ReadsAt(q, loadQ.valid, loadQ.entries, pl, p)
      PROVE  Unanswered(q)
  <2> SUFFICES ASSUME NEW k \in 1 .. Len(q)
               PROVE  q[k] \in loadQ.valid /\ reader(q[k]) \in Live \ resultValid
    BY DEF Unanswered
  <2>1. /\ q[k] \in loadQ.valid /\ reads(q, loadQ.entries)[k] = reader(q[k])
        /\ reads(q, loadQ.entries)[k] \in RobIndex /\ pl[reads(q, loadQ.entries)[k]] = p
    BY <1>3 DEF ReadsAt, Listed, reads, reader
  <2> QED  BY <1>2, <1>3, <2>1
<1>4. ASSUME NEW q, NEW p, p # "none", RepliesAt(q, pl, p)
      PROVE  Unwritten(q)
  <2> SUFFICES ASSUME NEW k \in 1 .. Len(q) PROVE q[k].index \in Live \ resultValid
    BY DEF Unwritten
  <2>1. /\ indexes(q)[k] = q[k].index
        /\ indexes(q)[k] \in RobIndex /\ pl[indexes(q)[k]] = p
    BY <1>4 DEF RepliesAt, Listed, indexes
  <2> QED  BY <1>2, <1>4, <2>1
<1>5. ReadsPlaced(pl) /\ RepliesPlaced(pl)
  BY <1>1 DEF Placed
<1> QED  BY <1>3, <1>4, <1>5 DEF ReadsPlaced, RepliesPlaced

LEMMA FedStep ==
  ASSUME LsuTypeInv, RingInv, PlaceInv, ReadInv, FedInv, [Next]_vars
  PROVE  FedInv'
<1> DEFINE r  == rrequestQ
           qm == pendingMmioLoadsQ
           qd == pendingDmemLoadsQ
           W  == loadQ.addresses
<1>0. RingT /\ ReplyT
  BY DEF LsuTypeInv
<1>1. CASE loadQ'.addresses = W /\ UNCHANGED readVars
  BY <1>1 DEF FedInv, readVars
<1>2. /\ r \in Seq(Word) /\ qm \in Seq(LqIndex) /\ qd \in Seq(LqIndex)
      /\ rresponseQ \in Seq(Data) /\ cacheRead \in Seq(Data)
      /\ Len(rresponseQ) \in Nat /\ Len(cacheRead) \in Nat
  BY DEF LsuTypeInv, ReadT
<1>3. ASSUME NEW o \in Ops, dispatch(o) PROVE FedInv'
  <2>1. /\ ringEntry(o) \in LsuEntry /\ UNCHANGED readVars
        /\ enqLoad(ringEntry(o)) \/ enqStore(ringEntry(o)) \/ UNCHANGED ringVars
    BY <1>3, DispatchEffect
  <2>2. loadQ'.addresses = W
    BY <1>0, <2>1, EnqLoad, EnqStore DEF ringVars
  <2> QED  BY <1>1, <2>1, <2>2
<1>4. CASE connect
  <2>1. PICK j \in RobIndex : woken(j)
    BY <1>4, ConnectEffect
  <2>2. UNCHANGED readVars
    BY <1>4, ConnectEffect
  <2> DEFINE s == data[j].slot
             a == data[j].op.addr
  <2>3. CASE data[j].op.kind = "load" /\ s \in LqIndex /\ a \in Addr /\ wakeupLoad(s, a)
    <3>1. loadQ'.addresses = [W EXCEPT ![s] = a]
      BY <1>0, <2>3, WakeupLoad
    <3>2. W \in [LqIndex -> Addr] /\ \A u \in LqIndex : u # s => loadQ'.addresses[u] = W[u]
      BY <1>0, <3>1, LoadFields DEF RingT
    <3>3. j \in lsu_iq /\ loadQ.entries[s].index = j
      BY <2>1, <2>3, RingOwn, ExecutedValid DEF woken
    <3>4. \A u \in loadQ.executed : u # s /\ u \in LqIndex
      BY <1>0, <3>3, ExecutedValid, LoadFields DEF RingT
    <3>5. /\ \A k \in 1 .. Len(qm) : loadQ'.addresses[qm[k]] = W[qm[k]]
          /\ \A k \in 1 .. Len(qd) : loadQ'.addresses[qd[k]] = W[qd[k]]
      BY <3>2, <3>4 DEF ReadInv, ReadOK
    <3> DEFINE W2 == loadQ'.addresses
    <3> HIDE DEF W2, W, r, qm, qd
    <3>6. /\ Fed(r, TRUE, Len(rresponseQ), qm, W2) /\ Fed(r, FALSE, Len(cacheRead), qd, W2)
      <4>1. /\ \A k \in 1 .. Len(qm) : W2[qm[k]] = W[qm[k]]
            /\ \A k \in 1 .. Len(qd) : W2[qd[k]] = W[qd[k]]
        BY <3>5 DEF W2
      <4>2. Fed(r, TRUE, Len(rresponseQ), qm, W) /\ Fed(r, FALSE, Len(cacheRead), qd, W)
        BY DEF FedInv, W, r, qm, qd
      <4> QED  BY <1>2, <4>1, <4>2, FedOther
    <3> QED  BY <2>2, <3>6 DEF FedInv, readVars, W2, r, qm, qd
  <2>4. CASE wakeupStore(s, a, data[j].op.data)
    BY <1>1, <2>2, <2>4 DEF wakeupStore
  <2> QED  BY <2>1, <2>3, <2>4 DEF woken
<1>5. CASE Retirement
  <2>1. UNCHANGED readVars /\ \E must \in BOOLEAN : commit_dmem(must)
    BY <1>5, RetireEffect DEF retireVars
  <2>2. PICK must \in BOOLEAN : commit_dmem(must)
    BY <2>1
  <2>3. commitLoad \/ commitStore(must) \/ UNCHANGED ringVars
    BY <2>2, CommitEffect
  <2>4. loadQ'.addresses = W
    BY <1>0, <2>3, CommitLoad, CommitStore DEF ringVars
  <2> QED  BY <1>1, <2>1, <2>4
<1>6. CASE issueLoad
  <2>1. PICK i \in LqIndex :
          /\ loadQ'.addresses = W /\ rrequestQ' = Append(r, W[i][1])
          /\ \/ /\ isMMIO(W[i][1]) /\ pendingDmemLoadsQ' = qd /\ pendingMmioLoadsQ' = Append(qm, i)
             \/ /\ ~isMMIO(W[i][1]) /\ pendingMmioLoadsQ' = qm /\ pendingDmemLoadsQ' = Append(qd, i)
          /\ UNCHANGED <<cacheRead, rresponseQ>>
    BY <1>6, IssueLoadEffect
  <2>2. W[i] \in Addr
    BY <1>0, LoadFields DEF RingT
  <2>3. PICK w \in Word : w = W[i][1]
    BY <2>2, AddrParts
  <2>4. Fed(r, TRUE, Len(rresponseQ), qm, W) /\ Fed(r, FALSE, Len(cacheRead), qd, W)
    BY DEF FedInv
  <2> HIDE DEF W, r, qm, qd
  <2>5. CASE isMMIO(w)
    <3>1. Fed(Append(r, w), TRUE, Len(rresponseQ), Append(qm, i), W)
      <4>1. isMMIO(w) = TRUE
        BY <2>5 DEF isMMIO
      <4> QED  BY <1>2, <2>3, <2>4, <4>1, FedIssue
    <3>2. Fed(Append(r, w), FALSE, Len(cacheRead), qd, W)
      <4>1. isMMIO(w) # FALSE
        BY <2>5 DEF isMMIO
      <4> QED  BY <1>2, <2>4, <4>1, FedOtherIssue
    <3> QED  BY <2>1, <2>3, <2>5, <3>1, <3>2 DEF FedInv
  <2>6. CASE ~isMMIO(w)
    <3>1. Fed(Append(r, w), FALSE, Len(cacheRead), Append(qd, i), W)
      <4>1. isMMIO(w) = FALSE
        BY <2>6 DEF isMMIO
      <4> QED  BY <1>2, <2>3, <2>4, <4>1, FedIssue
    <3>2. Fed(Append(r, w), TRUE, Len(rresponseQ), qm, W)
      <4>1. isMMIO(w) # TRUE
        BY <2>6 DEF isMMIO
      <4> QED  BY <1>2, <2>4, <4>1, FedOtherIssue
    <3> QED  BY <2>1, <2>3, <2>6, <3>1, <3>2 DEF FedInv
  <2> QED  BY <2>5, <2>6
<1>7. CASE readRequest
  <2>1. /\ r # <<>> /\ rrequestQ' = Tail(r) /\ loadQ'.addresses = W
        /\ UNCHANGED <<pendingDmemLoadsQ, pendingMmioLoadsQ>>
        /\ \/ /\ isMMIO(Head(r)) /\ rresponseQ' = Append(rresponseQ, mem[Head(r)]) /\ cacheRead' = cacheRead
           \/ /\ ~isMMIO(Head(r)) /\ cacheRead' = Append(cacheRead, mem[Head(r)]) /\ rresponseQ' = rresponseQ
    BY <1>7 DEF readRequest, ringVars
  <2>2. Fed(r, TRUE, Len(rresponseQ), qm, W) /\ Fed(r, FALSE, Len(cacheRead), qd, W)
    BY DEF FedInv
  <2>3. mem[Head(r)] \in Data
    <3>1. Head(r) \in Word
      BY <1>2, <2>1, Pop
    <3> QED  BY <3>1 DEF LsuTypeInv, WriteT
  <2> HIDE DEF W, r, qm, qd
  <2>4. CASE isMMIO(Head(r))
    <3>1. isMMIO(Head(r)) = TRUE /\ isMMIO(Head(r)) # FALSE
      BY <2>4 DEF isMMIO
    <3>2. Fed(Tail(r), TRUE, Len(rresponseQ) + 1, qm, W) /\ Fed(Tail(r), FALSE, Len(cacheRead), qd, W)
      BY <1>2, <2>1, <2>2, <3>1, FedRead, FedOtherRead
    <3>3. Len(rresponseQ') = Len(rresponseQ) + 1
      BY <1>2, <2>1, <2>3, <2>4, AppendFacts
    <3> QED  BY <2>1, <2>4, <3>2, <3>3 DEF FedInv, qm, qd
  <2>5. CASE ~isMMIO(Head(r))
    <3>1. isMMIO(Head(r)) = FALSE /\ isMMIO(Head(r)) # TRUE
      <4>1. isMMIO(Head(r)) \in BOOLEAN
        BY DEF isMMIO
      <4> QED  BY <2>5, <4>1
    <3>2. Fed(Tail(r), FALSE, Len(cacheRead) + 1, qd, W) /\ Fed(Tail(r), TRUE, Len(rresponseQ), qm, W)
      BY <1>2, <2>1, <2>2, <3>1, FedRead, FedOtherRead
    <3>3. Len(cacheRead') = Len(cacheRead) + 1
      BY <1>2, <2>1, <2>3, <2>5, AppendFacts
    <3> QED  BY <2>1, <2>5, <3>2, <3>3 DEF FedInv, qm, qd
  <2> QED  BY <2>4, <2>5
<1>8. CASE loadResponse
  <2>1. PICK i \in LqIndex, d \in Data : answered(i, d)
    BY <1>8, ResponseEffect
  <2>2. loadQ'.addresses = W /\ rrequestQ' = r
    BY <1>8, ResponseEffect DEF ringVars
  <2>3. Fed(r, TRUE, Len(rresponseQ), qm, W) /\ Fed(r, FALSE, Len(cacheRead), qd, W)
    BY DEF FedInv
  <2> HIDE DEF W, r
  <2>4. CASE /\ qd # <<>> /\ cacheRead # <<>> /\ cacheRead' = Tail(cacheRead)
             /\ pendingDmemLoadsQ' = Tail(qd) /\ UNCHANGED <<rresponseQ, pendingMmioLoadsQ>>
    <3>1. Len(cacheRead) = Len(cacheRead') + 1 /\ Len(cacheRead') \in Nat
      BY <1>2, <2>4, TailFacts
    <3>2. Fed(r, FALSE, Len(cacheRead'), Tail(qd), W)
      BY <1>2, <2>3, <2>4, <3>1, FedAnswer
    <3> QED  BY <2>2, <2>3, <2>4, <3>2 DEF FedInv
  <2>5. CASE /\ qm # <<>> /\ rresponseQ # <<>> /\ rresponseQ' = Tail(rresponseQ)
             /\ pendingMmioLoadsQ' = Tail(qm) /\ UNCHANGED <<cacheRead, pendingDmemLoadsQ>>
    <3>1. Len(rresponseQ) = Len(rresponseQ') + 1 /\ Len(rresponseQ') \in Nat
      BY <1>2, <2>5, TailFacts
    <3>2. Fed(r, TRUE, Len(rresponseQ'), Tail(qm), W)
      BY <1>2, <2>3, <2>5, <3>1, FedAnswer
    <3> QED  BY <2>2, <2>3, <2>5, <3>2 DEF FedInv
  <2> QED  BY <2>1, <2>4, <2>5 DEF answered
<1>9. CASE write_back \/ write_back_branch \/ execute_direct \/ UNCHANGED vars
  BY <1>1, <1>9 DEF write_back, write_back_branch, execute_direct, vars, lsuVars, ringVars
<1>10. CASE issueStore \/ writeRequest \/ deqSTB \/ doDeqSTB
  BY <1>1, <1>10 DEF issueStore, writeRequest, deqSTB, doDeqSTB, ringVars
<1> QED  BY <1>3, <1>4, <1>5, <1>6, <1>7, <1>8, <1>9, <1>10 DEF Next, Rules, lsuRules


(* The operation that a valid slot of the load ring serves.                *)
LEMMA SlotOf ==
  ASSUME RingInv, NEW s \in loadQ.valid
  PROVE  /\ reader(s) \in Live /\ reader(s) \in RobIndex
         /\ data[reader(s)].op.kind = "load" /\ data[reader(s)].slot = s
         /\ loadQ.entries[s].size = data[reader(s)].op.size
<1>1. Linked(loadQ.valid, loadQ.entries, Live, data, "load")
  BY DEF RingInv, FifoInv, Fifo
<1>2. /\ reader(s) \in Live /\ loadQ.entries[s] = entryOf(data, reader(s))
      /\ data[reader(s)].op.kind = "load" /\ data[reader(s)].slot = s
  BY <1>1 DEF Linked, reader
<1>3. reader(s) \in RobIndex
  BY <1>2 DEF Live
<1>4. entryOf(data, reader(s)).size = data[reader(s)].op.size
  BY DEF entryOf
<1> QED  BY <1>2, <1>3, <1>4

LEMMA ReadKept ==
  ASSUME LsuTypeInv, RingInv, PlaceInv, PairInv, WrittenInv, EpochInv, KilledInv, AddrInv, [Next]_vars,
         NEW q, NEW g, Unanswered(q), ReadOK(q, g)
  PROVE  ReadOK(q, g)'
<1> SUFFICES ASSUME NEW k \in 1 .. Len(q)
             PROVE  /\ q[k] \in loadQ'.executed
                    /\ \A i \in RobIndex : reader(q[k])' = i => ReadAs(i, k, g)'
  BY DEF ReadOK
<1> DEFINE s == q[k]
<1>1. s \in loadQ.valid /\ s \in loadQ.executed /\ reader(s) \in Live \ resultValid
  BY DEF Unanswered, ReadOK
<1>2. PICK i \in RobIndex : reader(s) = i /\ i \in Live /\ i \notin resultValid
                            /\ data[i].op.kind = "load" /\ data[i].slot = s
  BY <1>1, SlotOf
<1>3. Executed(i)
  BY <1>1, <1>2 DEF Executed
<1>4. keeps(i)
  <2>1. i \in Live'
    BY <1>2, Waiting
  <2> QED  BY <1>2, <2>1, KeepsStep
<1>5. s \in loadQ'.executed
  BY <1>2, <1>3, <1>4 DEF keeps, Executed
<1>6. reader(s)' = i
  BY <1>1, <1>2, EntriesKept DEF reader
<1>7. ReadAs(i, k, g)
  BY <1>2 DEF ReadOK
<1>8. ReadAs(i, k, g)'
  <2>1. /\ Fresh(i, g[k]) => Fresh(i, g[k])'
        /\ Clear(i) => Clear(i)'
    BY <1>3, <1>4, ValueKept
  <2> QED  BY <1>7, <2>1 DEF ReadAs
<1> QED  BY <1>5, <1>6, <1>7, <1>8

LEMMA ReadPush ==
  ASSUME NEW q \in Seq(LqIndex), NEW g \in Seq(Data), NEW s \in LqIndex, Len(g) <= Len(q),
         ReadOK(q, g)', s \in loadQ'.executed, \A i \in RobIndex : reader(s)' = i => Clear(i)'
  PROVE  ReadOK(Append(q, s), g)'
<1> DEFINE n  == Len(q)
           q2 == Append(q, s)
<1>1. /\ n \in Nat /\ Len(q2) = n + 1 /\ q2[n + 1] = s
      /\ \A k \in 1 .. n + 1 : (k \in 1 .. n /\ q2[k] = q[k]) \/ k = n + 1
  BY AppendFacts
<1>2. Len(g) \in Nat /\ Len(g) <= n
  OBVIOUS
<1> HIDE DEF n, q2
<1> SUFFICES ASSUME NEW k \in 1 .. n + 1
             PROVE  /\ q2[k] \in loadQ'.executed
                    /\ \A i \in RobIndex : reader(q2[k])' = i => ReadAs(i, k, g)'
  BY <1>1 DEF ReadOK, q2
<1>3. CASE k \in 1 .. n /\ q2[k] = q[k]
  BY <1>3 DEF ReadOK, n
<1>4. CASE k = n + 1
  <2>1. q2[k] = s /\ ~(k <= Len(g))
    BY <1>1, <1>2, <1>4
  <2> QED  BY <2>1 DEF ReadAs
<1> QED  BY <1>1, <1>3, <1>4

LEMMA ReadCome ==
  ASSUME NEW q \in Seq(LqIndex), NEW g \in Seq(Data), NEW d \in Data, Len(g) + 1 <= Len(q),
         ReadOK(q, g), \A i \in RobIndex : reader(q[Len(g) + 1]) = i => (Clear(i) => Fresh(i, d))
  PROVE  ReadOK(q, Append(g, d))
<1> DEFINE n  == Len(g)
           g2 == Append(g, d)
<1>1. /\ n \in Nat /\ Len(g2) = n + 1 /\ g2[n + 1] = d
      /\ \A k \in 1 .. n : g2[k] = g[k]
  BY AppendFacts
<1>2. Len(q) \in Nat
  OBVIOUS
<1>3. \A k \in 1 .. Len(q) :
        /\ q[k] \in loadQ.executed
        /\ \A i \in RobIndex : reader(q[k]) = i => ReadAs(i, k, g)
  BY DEF ReadOK
<1> HIDE DEF g2
<1> SUFFICES ASSUME NEW k \in 1 .. Len(q), NEW i \in RobIndex, reader(q[k]) = i
             PROVE  ReadAs(i, k, g2)
  BY <1>1, <1>3 DEF ReadOK, g2
<1>7. /\ k <= n => Fresh(i, g[k])
      /\ k > n => Clear(i)
  <2>1. ReadAs(i, k, g)
    BY <1>3
  <2> QED  BY <2>1 DEF ReadAs
<1> SUFFICES /\ k <= n + 1 => Fresh(i, g2[k])
             /\ k > n + 1 => Clear(i)
  BY <1>1 DEF ReadAs
<1> HIDE DEF n
<1>4. CASE k <= n
  <2>1. k \in 1 .. n /\ g2[k] = g[k] /\ ~(k > n + 1)
    BY <1>1, <1>2, <1>4
  <2>2. Fresh(i, g[k])
    BY <1>4, <1>7
  <2> QED  BY <2>1, <2>2
<1>5. CASE k = n + 1
  <2>1. Clear(i) /\ g2[k] = d /\ ~(k > n + 1)
    BY <1>1, <1>2, <1>5, <1>7
  <2> QED  BY <1>5, <2>1 DEF n
<1>6. CASE k > n + 1
  <2>1. Clear(i) /\ ~(k <= n + 1)
    BY <1>1, <1>2, <1>6, <1>7
  <2> QED  BY <2>1
<1> QED  BY <1>1, <1>2, <1>4, <1>5, <1>6

LEMMA ReadTaken ==
  ASSUME NEW q \in Seq(LqIndex), NEW g \in Seq(Data), q # <<>>, g # <<>>, ReadOK(q, g)
  PROVE  /\ ReadOK(Tail(q), Tail(g)) /\ Head(q) \in loadQ.executed
         /\ \A i \in RobIndex : reader(Head(q)) = i => Fresh(i, Head(g))
<1> DEFINE n  == Len(Tail(q))
           c  == Len(Tail(g))
           q2 == Tail(q)
           g2 == Tail(g)
<1>1. /\ n \in Nat /\ Len(q) = n + 1 /\ Head(q) = q[1] /\ 1 \in 1 .. Len(q)
      /\ \A k \in 1 .. n : k + 1 \in 1 .. Len(q) /\ q2[k] = q[k + 1]
  <2>1. Len(Tail(q)) \in Nat /\ Len(q) = Len(Tail(q)) + 1
    BY TailFacts
  <2> QED  BY <2>1, TailFacts
<1>2. /\ c \in Nat /\ Len(g) = c + 1 /\ Head(g) = g[1] /\ 1 <= c + 1
      /\ \A k \in 1 .. c : g2[k] = g[k + 1]
  <2>1. Len(Tail(g)) \in Nat /\ Len(g) = Len(Tail(g)) + 1
    BY TailFacts
  <2> QED  BY <2>1, TailFacts
<1>3. \A k \in 1 .. Len(q) :
        /\ q[k] \in loadQ.executed
        /\ \A i \in RobIndex : reader(q[k]) = i => ReadAs(i, k, g)
  BY DEF ReadOK
<1>4. Head(q) \in loadQ.executed /\ \A i \in RobIndex : reader(Head(q)) = i => Fresh(i, Head(g))
  <2>1. Head(q) \in loadQ.executed /\ \A i \in RobIndex : reader(Head(q)) = i => ReadAs(i, 1, g)
    BY <1>1, <1>3
  <2> QED  BY <1>2, <2>1 DEF ReadAs
<1>5. ASSUME NEW k \in 1 .. n, NEW i \in RobIndex
      PROVE  q2[k] \in loadQ.executed /\ (reader(q2[k]) = i => ReadAs(i, k, g2))
  <2> HIDE DEF n, c, q2, g2
  <2>1. k + 1 \in 1 .. Len(q) /\ q2[k] = q[k + 1]
    BY <1>1
  <2>2. (k <= c => g2[k] = g[k + 1] /\ k + 1 <= c + 1) /\ (k > c => k + 1 > c + 1)
    BY <1>1, <1>2
  <2>3. ReadAs(i, k + 1, g) => ReadAs(i, k, g2)
    BY <1>2, <2>2 DEF ReadAs, c, g2
  <2> QED  BY <1>3, <2>1, <2>3
<1>6. ReadOK(q2, g2)
  BY <1>5 DEF ReadOK
<1> QED  BY <1>4, <1>6


LEMMA ReadPrime ==
  ASSUME NEW qm, NEW gm, NEW qd, NEW gd, ReadOK(qm, gm)', ReadOK(qd, gd)',
         pendingMmioLoadsQ' = qm, rresponseQ' = gm, pendingDmemLoadsQ' = qd, cacheRead' = gd
  PROVE  ReadInv'
<1>1. ReadOK(pendingMmioLoadsQ, rresponseQ)'
  BY DEF ReadOK, ReadAs, Fresh, reader
<1>2. ReadOK(pendingDmemLoadsQ, cacheRead)'
  BY DEF ReadOK, ReadAs, Fresh, reader
<1> QED  BY <1>1, <1>2 DEF ReadInv

(* Without buffered stores the caches and devices hold the word.           *)
LEMMA MemoryRead ==
  ASSUME mem \in [Word -> Data], NEW w \in Word, ~stbSearch(w)
  PROVE  programMem[w] = mem[w]
<1>1. ASSUME NEW l \in Lane PROVE visible(w, l) = mem[w][l]
  <2>1. buffered(w, l) = {}
    BY DEF buffered, stbSearch
  <2> QED  BY <2>1 DEF visible
<1>2. programMem[w] = [l \in Lane |-> mem[w][l]]
  BY <1>1 DEF programMem
<1>3. mem[w] \in [Lane -> Byte]
  BY DEF Data
<1>4. mem[w] = [l \in Lane |-> mem[w][l]]
  BY <1>3
<1> QED  BY <1>2, <1>4

(* The address a load was read at is its own.                              *)
LEMMA ReadAddr ==
  ASSUME LsuTypeInv, RingInv, PlaceInv, AddrInv, NEW s \in loadQ.valid,
         s \in loadQ.executed \/ s \in loadQ.addrValid
  PROVE  /\ loadQ.addresses[s] = data[reader(s)].op.addr
         /\ aligned(data[reader(s)].op.addr, data[reader(s)].op.size)
<1>1. reader(s) \notin lsu_iq
  BY ExecutedValid DEF reader
<1> QED  BY <1>1 DEF AddrInv, LoadAddr, opOf, reader

LEMMA UnansweredTail ==
  ASSUME NEW q \in Seq(LqIndex), q # <<>>, Unanswered(q)
  PROVE  Unanswered(Tail(q))
BY TailFacts DEF Unanswered

LEMMA ReadStep ==
  ASSUME LsuTypeInv, RingInv, PlaceInv, PairInv, WrittenInv, EpochInv, KilledInv, AddrInv, [Next]_vars,
         FedInv, ReadInv
  PROVE  ReadInv'
<1>1. PICK qm \in Seq(LqIndex), gm \in Seq(Data), qd \in Seq(LqIndex), gd \in Seq(Data) :
        qm = pendingMmioLoadsQ /\ gm = rresponseQ /\ qd = pendingDmemLoadsQ /\ gd = cacheRead
  BY DEF LsuTypeInv, ReadT
<1>2. ReadOK(qm, gm) /\ ReadOK(qd, gd) /\ Unanswered(qm) /\ Unanswered(qd)
  BY <1>1, NoResult DEF ReadInv
<1>3. ReadOK(qm, gm)' /\ ReadOK(qd, gd)'
  BY <1>2, ReadKept
<1>4. CASE UNCHANGED <<pendingMmioLoadsQ, rresponseQ, pendingDmemLoadsQ, cacheRead>>
  BY <1>1, <1>3, <1>4, ReadPrime
<1>5. /\ Fed(rrequestQ, TRUE, Len(gm), qm, loadQ.addresses) /\ Len(gm) <= Len(qm)
      /\ Fed(rrequestQ, FALSE, Len(gd), qd, loadQ.addresses) /\ Len(gd) <= Len(qd)
  BY <1>1 DEF FedInv, Fed
<1>6. CASE issueLoad /\ UNCHANGED data
  <2>1. PICK s \in LqIndex :
          /\ canRead(s) /\ ~loadBlocked(s)
          /\ loadQ'.executed = loadQ.executed \cup {s} /\ loadQ'.entries = loadQ.entries
          /\ \/ pendingDmemLoadsQ' = qd /\ pendingMmioLoadsQ' = Append(qm, s)
             \/ pendingMmioLoadsQ' = qm /\ pendingDmemLoadsQ' = Append(qd, s)
          /\ UNCHANGED <<cacheRead, rresponseQ, writeVars>>
    BY <1>1, <1>6, IssueLoadEffect
  <2>2. s \in loadQ.valid /\ s \in loadQ.addrValid
    BY <2>1 DEF canRead, isFirstFrom
  <2>3. ASSUME NEW i \in RobIndex, reader(s)' = i PROVE Clear(i)'
    <3>1. reader(s) = i
      BY <2>1, <2>3 DEF reader
    <3>2. loadQ.addresses[s][1] = wordOf(i)
      BY <2>2, <3>1, ReadAddr DEF wordOf
    <3>3. ~stbSearch(wordOf(i))
      BY <2>1, <3>2 DEF loadBlocked
    <3>4. stb' = stb /\ data' = data
      BY <1>6, <2>1 DEF writeVars
    <3> QED  BY <3>3, <3>4 DEF Clear, stbSearch, wordOf
  <2>4. s \in loadQ'.executed
    BY <2>1
  <2>5. ReadOK(Append(qm, s), gm)' /\ ReadOK(Append(qd, s), gd)'
    BY <1>3, <1>5, <2>3, <2>4, ReadPush
  <2> QED  BY <1>1, <1>3, <2>1, <2>5, ReadPrime
<1>7. CASE readRequest
  <2> DEFINE w == Head(rrequestQ)
             d == mem[w]
  <2>1. /\ rrequestQ # <<>> /\ UNCHANGED <<pendingDmemLoadsQ, pendingMmioLoadsQ>>
        /\ \/ isMMIO(w) /\ rresponseQ' = Append(rresponseQ, d) /\ cacheRead' = cacheRead
           \/ ~isMMIO(w) /\ cacheRead' = Append(cacheRead, d) /\ rresponseQ' = rresponseQ
    BY <1>7 DEF readRequest
  <2>2. rrequestQ \in Seq(Word) /\ w \in Word /\ mem \in [Word -> Data] /\ d \in Data
    <3>1. rrequestQ \in Seq(Word) /\ mem \in [Word -> Data]
      BY DEF LsuTypeInv, ReadT, WriteT
    <3>2. w \in Word
      BY <2>1, <3>1, Pop
    <3> QED  BY <3>1, <3>2
  <2>3. ASSUME NEW q \in Seq(LqIndex), NEW g \in Seq(Data), ReadOK(q, g), Unanswered(q),
               NEW m, m = isMMIO(w), Fed(rrequestQ, m, Len(g), q, loadQ.addresses)
        PROVE  ReadOK(q, Append(g, d))
    <3>1. Len(g) \in Nat /\ Len(g) + 1 <= Len(q) /\ loadQ.addresses[q[Len(g) + 1]][1] = w
      BY <2>1, <2>2, <2>3, FedRead
    <3> DEFINE s == q[Len(g) + 1]
    <3>2. s \in loadQ.valid /\ s \in loadQ.executed
      <4>1. Len(g) + 1 \in 1 .. Len(q)
        BY <3>1
      <4> QED  BY <2>3, <4>1 DEF ReadOK, Unanswered
    <3>3. ASSUME NEW i \in RobIndex, reader(s) = i, Clear(i) PROVE Fresh(i, d)
      <4>1. wordOf(i) = w
        BY <3>1, <3>2, <3>3, ReadAddr DEF wordOf
      <4>2. ~stbSearch(w) => programMem[w] = d
        BY <2>2, MemoryRead
      <4> QED  BY <3>3, <4>1, <4>2 DEF Clear, Fresh
    <3> HIDE DEF d
    <3> QED  BY <2>2, <2>3, <3>1, <3>3, ReadCome
  <2>4. isMMIO(w) \in BOOLEAN
    BY DEF isMMIO
  <2>5. PICK e \in Data : e = d
    BY <2>2
  <2>6. CASE isMMIO(w) /\ rresponseQ' = Append(rresponseQ, d) /\ cacheRead' = cacheRead
    <3>1. isMMIO(w) = TRUE
      BY <2>4, <2>6
    <3>2. ReadOK(qm, Append(gm, e))
      BY <1>2, <1>5, <2>3, <2>5, <3>1
    <3>3. ReadOK(qm, Append(gm, e))'
      BY <1>2, <3>2, ReadKept
    <3> QED  BY <1>1, <1>3, <2>1, <2>5, <2>6, <3>3, ReadPrime
  <2>7. CASE ~isMMIO(w) /\ cacheRead' = Append(cacheRead, d) /\ rresponseQ' = rresponseQ
    <3>1. isMMIO(w) = FALSE
      BY <2>4, <2>7
    <3>2. ReadOK(qd, Append(gd, e))
      BY <1>2, <1>5, <2>3, <2>5, <3>1
    <3>3. ReadOK(qd, Append(gd, e))'
      BY <1>2, <3>2, ReadKept
    <3> QED  BY <1>1, <1>3, <2>1, <2>5, <2>7, <3>3, ReadPrime
  <2> QED  BY <2>1, <2>6, <2>7
<1>8. CASE loadResponse
  <2>1. PICK i \in LqIndex, d \in Data : answered(i, d)
    BY <1>8, ResponseEffect
  <2>2. ASSUME NEW q \in Seq(LqIndex), NEW g \in Seq(Data), ReadOK(q, g), Unanswered(q), q # <<>>, g # <<>>
        PROVE  ReadOK(Tail(q), Tail(g))'
    <3>1. ReadOK(Tail(q), Tail(g)) /\ Unanswered(Tail(q))
      BY <2>2, ReadTaken, UnansweredTail
    <3> QED  BY <3>1, ReadKept
  <2>3. CASE /\ qd # <<>> /\ gd # <<>> /\ cacheRead' = Tail(gd)
             /\ pendingDmemLoadsQ' = Tail(qd) /\ UNCHANGED <<rresponseQ, pendingMmioLoadsQ>>
    BY <1>1, <1>2, <1>3, <2>2, <2>3, ReadPrime
  <2>4. CASE /\ qm # <<>> /\ gm # <<>> /\ rresponseQ' = Tail(gm)
             /\ pendingMmioLoadsQ' = Tail(qm) /\ UNCHANGED <<cacheRead, pendingDmemLoadsQ>>
    BY <1>1, <1>2, <1>3, <2>2, <2>4, ReadPrime
  <2> QED  BY <1>1, <2>1, <2>3, <2>4 DEF answered
<1>9. CASE (\E o \in Ops : dispatch(o)) \/ connect \/ write_back \/ write_back_branch \/ execute_direct
  BY <1>4, <1>9 DEF dispatch, connect, write_back, write_back_branch, execute_direct, readVars, lsuVars
<1>10. CASE Retirement
  BY <1>4, <1>10, RetireEffect DEF retireVars, readVars
<1>11. CASE issueStore \/ writeRequest \/ deqSTB \/ doDeqSTB \/ UNCHANGED vars
  BY <1>4, <1>11 DEF issueStore, writeRequest, deqSTB, doDeqSTB, readVars, vars, lsuVars
<1>12. CASE Rules
  BY <1>6, <1>7, <1>8, <1>11, <1>12 DEF Rules, lsuRules, robVars
<1> QED  BY <1>9, <1>10, <1>11, <1>12 DEF Next


-----------------------------------------------------------------------------
(* What replies and results say.                                           *)

LEMMA ReplyKept ==
  ASSUME LsuTypeInv, RingInv, PlaceInv, PairInv, WrittenInv, EpochInv, KilledInv, AddrInv, [Next]_vars,
         NEW q, Unwritten(q), ReplyOK(q)
  PROVE  ReplyOK(q)'
<1> SUFFICES ASSUME NEW k \in 1 .. Len(q)
             PROVE  Answered(q[k].index, q[k].ok, q[k].data)'
  BY DEF ReplyOK
<1>1. q[k].index \in Live /\ q[k].index \notin resultValid /\ Answered(q[k].index, q[k].ok, q[k].data)
  BY DEF Unwritten, ReplyOK
<1>2. keeps(q[k].index)
  <2>1. q[k].index \in Live'
    BY <1>1, Waiting
  <2> QED  BY <1>1, <2>1, KeepsStep
<1> QED  BY <1>1, <1>2, ValueKept

LEMMA ReplyPush ==
  ASSUME NEW q \in Seq(LsuReply), NEW r \in LsuReply, ReplyOK(q), Unwritten(q),
         Answered(r.index, r.ok, r.data), r.index \in Live \ resultValid
  PROVE  ReplyOK(Append(q, r)) /\ Unwritten(Append(q, r))
<1> DEFINE q2 == Append(q, r)
<1>1. \A k \in 1 .. Len(q2) : (k \in 1 .. Len(q) /\ q2[k] = q[k]) \/ q2[k] = r
  BY AppendFacts
<1> HIDE DEF q2
<1>2. ReplyOK(q2)
  BY <1>1 DEF ReplyOK
<1>3. Unwritten(q2)
  BY <1>1 DEF Unwritten
<1> QED  BY <1>2, <1>3 DEF q2

LEMMA ReplyTaken ==
  ASSUME NEW q \in Seq(LsuReply), q # <<>>, ReplyOK(q), Unwritten(q)
  PROVE  /\ ReplyOK(Tail(q)) /\ Unwritten(Tail(q))
         /\ Answered(Head(q).index, Head(q).ok, Head(q).data) /\ Head(q).index \in Live \ resultValid
<1> DEFINE q2 == Tail(q)
<1>1. /\ 1 \in 1 .. Len(q) /\ Head(q) = q[1]
      /\ \A k \in 1 .. Len(q2) : k + 1 \in 1 .. Len(q) /\ q2[k] = q[k + 1]
  BY TailFacts
<1> HIDE DEF q2
<1>2. ReplyOK(q2) /\ Unwritten(q2)
  BY <1>1 DEF ReplyOK, Unwritten
<1>3. Answered(q[1].index, q[1].ok, q[1].data) /\ q[1].index \in Live \ resultValid
  BY <1>1 DEF ReplyOK, Unwritten
<1> QED  BY <1>1, <1>2, <1>3 DEF q2

LEMMA ReplyPrime ==
  ASSUME NEW a, NEW b, NEW c, ReplyOK(a)', ReplyOK(b)', ReplyOK(c)',
         loadSuccessQ' = a, loadFailureQ' = b, storeSuccessQ' = c
  PROVE  ReplyInv'
<1>1. ReplyOK(loadSuccessQ)'
  BY DEF ReplyOK, Answered, Executed, Right, wordOf
<1>2. ReplyOK(loadFailureQ)'
  BY DEF ReplyOK, Answered, Executed, Right, wordOf
<1>3. ReplyOK(storeSuccessQ)'
  BY DEF ReplyOK, Answered, Executed, Right, wordOf
<1> QED  BY <1>1, <1>2, <1>3 DEF ReplyInv

(* The replies that the rules produce.                                     *)
LEMMA ResponseAnswers ==
  ASSUME LsuTypeInv, RingInv, PlaceInv, AddrInv, ReadInv, NEW s \in LqIndex, NEW d \in Data, answered(s, d)
  PROVE  \E r \in LsuReply : /\ loadSuccessQ' = Append(loadSuccessQ, r)
                             /\ Answered(r.index, r.ok, r.data) /\ r.index \in Live \ resultValid
<1>1. /\ s \in loadQ.executed /\ \A i \in RobIndex : reader(s) = i => Fresh(i, d)
      /\ reader(s) \in Live \ resultValid /\ s \in loadQ.valid
  <2>1. ASSUME NEW q \in Seq(LqIndex), NEW g \in Seq(Data), ReadOK(q, g), Unanswered(q),
               q # <<>>, g # <<>>, s = Head(q), d = Head(g)
        PROVE  /\ s \in loadQ.executed /\ \A i \in RobIndex : reader(s) = i => Fresh(i, d)
               /\ reader(s) \in Live \ resultValid /\ s \in loadQ.valid
    <3>1. s \in loadQ.executed /\ \A i \in RobIndex : reader(s) = i => Fresh(i, d)
      BY <2>1, ReadTaken
    <3>2. 1 \in 1 .. Len(q) /\ s = q[1]
      BY <2>1, TailFacts
    <3> QED  BY <2>1, <3>1, <3>2 DEF Unanswered
  <2>2. /\ pendingMmioLoadsQ \in Seq(LqIndex) /\ rresponseQ \in Seq(Data)
        /\ pendingDmemLoadsQ \in Seq(LqIndex) /\ cacheRead \in Seq(Data)
    BY DEF LsuTypeInv, ReadT
  <2>3. /\ ReadOK(pendingMmioLoadsQ, rresponseQ) /\ ReadOK(pendingDmemLoadsQ, cacheRead)
        /\ Unanswered(pendingMmioLoadsQ) /\ Unanswered(pendingDmemLoadsQ)
    BY NoResult DEF ReadInv
  <2>4. \/ pendingDmemLoadsQ # <<>> /\ s = Head(pendingDmemLoadsQ) /\ cacheRead # <<>> /\ d = Head(cacheRead)
        \/ pendingMmioLoadsQ # <<>> /\ s = Head(pendingMmioLoadsQ) /\ rresponseQ # <<>> /\ d = Head(rresponseQ)
    BY DEF answered
  <2>5. CASE pendingDmemLoadsQ # <<>> /\ s = Head(pendingDmemLoadsQ) /\ cacheRead # <<>> /\ d = Head(cacheRead)
    BY <2>1, <2>2, <2>3, <2>5
  <2>6. CASE pendingMmioLoadsQ # <<>> /\ s = Head(pendingMmioLoadsQ) /\ rresponseQ # <<>> /\ d = Head(rresponseQ)
    BY <2>1, <2>2, <2>3, <2>6
  <2> QED  BY <2>4, <2>5, <2>6
<1>2. PICK i \in RobIndex : /\ reader(s) = i /\ i \in Live \ resultValid /\ data[i].op.kind = "load"
                            /\ data[i].slot = s /\ loadQ.entries[s].size = data[i].op.size
  BY <1>1, SlotOf
<1>3. /\ loadQ.addresses[s] = data[i].op.addr /\ aligned(data[i].op.addr, data[i].op.size)
      /\ data[i].op.addr \in Addr
  BY <1>1, <1>2, ReadAddr, WordType
<1> DEFINE f == finish(data[i].op.addr, data[i].op.size, d)
           r == Answer(loadQ.entries[s], TRUE, f)
<1>4. loadSuccessQ' = Append(loadSuccessQ, r)
  BY <1>2, <1>3 DEF answered
<1>5. r \in LsuReply /\ r.index = i /\ r.ok = TRUE /\ r.data = f
  <2>1. f \in Data
    BY <1>3, ShiftTypes
  <2>2. loadQ.entries[s] \in LsuEntry
    BY LoadFields DEF LsuTypeInv, RingT
  <2> HIDE DEF f
  <2>3. r \in LsuReply
    BY <2>1, <2>2, AnswerType
  <2> QED  BY <1>2, <2>3 DEF Answer, reader
<1>6. Answered(i, TRUE, f)
  <2>1. Right(i) => d = programMem[wordOf(i)]
    BY <1>1, <1>2 DEF Fresh
  <2>2. Executed(i)
    BY <1>1, <1>2 DEF Executed
  <2> QED  BY <1>3, <2>1, <2>2 DEF Answered
<1> HIDE DEF r, f
<1> QED  BY <1>2, <1>4, <1>5, <1>6

LEMMA FailureAnswers ==
  ASSUME LsuTypeInv, RingInv, PlaceInv, NEW j \in RobIndex, woken(j),
         loadFailureQ' # loadFailureQ
  PROVE  \E r \in LsuReply : /\ loadFailureQ' = Append(loadFailureQ, r)
                             /\ Answered(r.index, r.ok, r.data) /\ r.index \in Live \ resultValid
<1> DEFINE s == data[j].slot
           a == data[j].op.addr
<1>0. RingT /\ ReplyT
  BY DEF LsuTypeInv
<1>1. data[j].op.kind = "load" /\ s \in LqIndex /\ a \in Addr /\ wakeupLoad(s, a)
  BY DEF woken, wakeupStore, replyVars
<1> DEFINE r == Answer(loadQ.entries[s], FALSE, zeroData)
<1>2. loadFailureQ' = Append(loadFailureQ, r)
  BY <1>0, <1>1, WakeupLoad
<1>3. j \in lsu_iq /\ j \in Live \ resultValid
  BY ExecutedValid DEF woken
<1>4. loadQ.entries[s].index = j
  BY <1>1, <1>3, RingOwn
<1>5. r.index = j /\ r.ok = FALSE
  BY <1>4 DEF Answer
<1>6. r \in LsuReply
  <2>1. loadQ.entries[s] \in LsuEntry
    BY <1>0, <1>1, LoadFields DEF RingT
  <2>2. zeroData \in Data
    BY LsuTypesAssumption DEF zeroData, Data
  <2> QED  BY <2>1, <2>2, AnswerType
<1>7. Answered(j, FALSE, r.data)
  BY DEF Answered
<1> HIDE DEF r
<1> QED  BY <1>2, <1>3, <1>5, <1>6, <1>7

LEMMA StoreAnswers ==
  ASSUME LsuTypeInv, RingInv, PlaceInv, AddrInv, issueStore
  PROVE  \E r \in LsuReply : /\ storeSuccessQ' = Append(storeSuccessQ, r)
                             /\ Answered(r.index, r.ok, r.data) /\ r.index \in Live \ resultValid
<1>1. PICK s \in SqIndex :
        /\ s \in storeQ.toIssue \cap storeQ.ready \cap storeQ.valid
        /\ storeSuccessQ' = Append(storeSuccessQ,
             Answer(storeQ.entries[s], aligned(storeQ.addresses[s], storeQ.entries[s].size), zeroData))
  BY IssueStoreEffect
<1> DEFINE ok == aligned(storeQ.addresses[s], storeQ.entries[s].size)
           r  == Answer(storeQ.entries[s], ok, zeroData)
<1>2. PICK i \in RobIndex : storeQ.entries[s].index = i /\ i \in Live /\ data[i].op.kind = "store"
                            /\ storeQ.entries[s].size = data[i].op.size
  <2>1. Linked(storeQ.valid, storeQ.entries, Live, data, "store")
    BY DEF RingInv, FifoInv, Fifo
  <2> DEFINE j == storeQ.entries[s].index
  <2>2. j \in Live /\ storeQ.entries[s] = entryOf(data, j) /\ data[j].op.kind = "store"
    BY <1>1, <2>1 DEF Linked
  <2>3. entryOf(data, j).size = data[j].op.size /\ j \in RobIndex
    BY <2>2 DEF entryOf, Live
  <2> QED  BY <2>2, <2>3
<1>3. i \notin resultValid /\ i \notin lsu_iq
  <2>1. PICK pl \in [RobIndex -> Places] : Placed(pl)
    BY DEF PlaceInv
  <2>2. pl[i] = "ready"
    BY <1>1, <1>2, <2>1 DEF Placed, StoresPlaced, StoreAt
  <2>3. /\ pl[i] # "none" <=> i \in Live \ resultValid /\ isDmem(data[i].op)
        /\ pl[i] = "iq" <=> i \in lsu_iq
    BY <2>1 DEF Placed, RobPlaced, RobAt
  <2> QED  BY <2>2, <2>3
<1>4. storeQ.addresses[s] = data[i].op.addr
  BY <1>1, <1>2, <1>3 DEF AddrInv, StoreAddr, opOf
<1>5. r \in LsuReply
  <2>1. storeQ.entries[s] \in LsuEntry
    BY StoreFields DEF LsuTypeInv, RingT
  <2>2. zeroData \in Data
    BY LsuTypesAssumption DEF zeroData, Data
  <2>3. ok \in BOOLEAN
    BY DEF aligned
  <2> HIDE DEF ok
  <2> QED  BY <2>1, <2>2, <2>3, AnswerType
<1>6. r.index = i /\ r.ok = ok
  BY <1>2 DEF Answer
<1>7. ok = aligned(data[i].op.addr, data[i].op.size)
  BY <1>2, <1>4
<1> HIDE DEF r, ok
<1>8. Answered(i, ok, r.data)
  BY <1>2, <1>7 DEF Answered
<1> QED  BY <1>1, <1>2, <1>3, <1>5, <1>6, <1>8 DEF r, ok

LEMMA ReplyStep ==
  ASSUME LsuTypeInv, RingInv, PlaceInv, PairInv, WrittenInv, EpochInv, KilledInv, AddrInv, [Next]_vars,
         ReadInv, ReplyInv
  PROVE  ReplyInv'
<1>0. RingT /\ ReplyT
  BY DEF LsuTypeInv
<1>1. PICK a \in Seq(LsuReply), b \in Seq(LsuReply), c \in Seq(LsuReply) :
        a = loadSuccessQ /\ b = loadFailureQ /\ c = storeSuccessQ
  BY <1>0 DEF ReplyT
<1>2. /\ ReplyOK(a) /\ ReplyOK(b) /\ ReplyOK(c)
      /\ Unwritten(a) /\ Unwritten(b) /\ Unwritten(c)
  BY <1>1, NoResult DEF ReplyInv
<1>3. ReplyOK(a)' /\ ReplyOK(b)' /\ ReplyOK(c)'
  BY <1>2, ReplyKept
<1>4. CASE UNCHANGED replyVars
  BY <1>1, <1>3, <1>4, ReplyPrime DEF replyVars
<1>5. ASSUME NEW q \in Seq(LsuReply), ReplyOK(q), Unwritten(q), NEW r \in LsuReply,
             Answered(r.index, r.ok, r.data), r.index \in Live \ resultValid
      PROVE  ReplyOK(Append(q, r))'
  <2>1. ReplyOK(Append(q, r)) /\ Unwritten(Append(q, r))
    BY <1>5, ReplyPush
  <2> QED  BY <2>1, ReplyKept
<1>6. ASSUME NEW q \in Seq(LsuReply), q # <<>>, ReplyOK(q), Unwritten(q) PROVE ReplyOK(Tail(q))'
  <2>1. ReplyOK(Tail(q)) /\ Unwritten(Tail(q))
    BY <1>6, ReplyTaken
  <2> QED  BY <2>1, ReplyKept
<1>7. CASE connect
  <2>1. PICK j \in RobIndex : woken(j)
    BY <1>7, ConnectEffect
  <2>2. loadSuccessQ' = a /\ storeSuccessQ' = c
    BY <1>1, <2>1 DEF woken, wakeupLoad, wakeupStore, replyVars
  <2>3. CASE loadFailureQ' = loadFailureQ
    BY <1>1, <1>3, <2>2, <2>3, ReplyPrime
  <2>4. CASE loadFailureQ' # loadFailureQ
    <3>1. PICK r \in LsuReply : /\ loadFailureQ' = Append(b, r)
                                /\ Answered(r.index, r.ok, r.data) /\ r.index \in Live \ resultValid
      BY <1>1, <2>1, <2>4, FailureAnswers
    <3>2. ReplyOK(Append(b, r))'
      BY <1>2, <1>5, <3>1
    <3> QED  BY <1>3, <2>2, <3>1, <3>2, ReplyPrime
  <2> QED  BY <2>3, <2>4
<1>8. CASE write_back
  <2>1. \/ a # <<>> /\ loadSuccessQ' = Tail(a) /\ loadFailureQ' = b /\ storeSuccessQ' = c
        \/ b # <<>> /\ loadFailureQ' = Tail(b) /\ loadSuccessQ' = a /\ storeSuccessQ' = c
        \/ c # <<>> /\ storeSuccessQ' = Tail(c) /\ loadSuccessQ' = a /\ loadFailureQ' = b
    BY <1>0, <1>1, <1>8, ReplyEffect DEF write_back
  <2>2. CASE a # <<>> /\ loadSuccessQ' = Tail(a) /\ loadFailureQ' = b /\ storeSuccessQ' = c
    BY <1>2, <1>3, <1>6, <2>2, ReplyPrime
  <2>3. CASE b # <<>> /\ loadFailureQ' = Tail(b) /\ loadSuccessQ' = a /\ storeSuccessQ' = c
    BY <1>2, <1>3, <1>6, <2>3, ReplyPrime
  <2>4. CASE c # <<>> /\ storeSuccessQ' = Tail(c) /\ loadSuccessQ' = a /\ loadFailureQ' = b
    BY <1>2, <1>3, <1>6, <2>4, ReplyPrime
  <2> QED  BY <2>1, <2>2, <2>3, <2>4
<1>9. CASE loadResponse
  <2>1. PICK s \in LqIndex, d \in Data : answered(s, d)
    BY <1>9, ResponseEffect
  <2>2. PICK r \in LsuReply : /\ loadSuccessQ' = Append(a, r)
                              /\ Answered(r.index, r.ok, r.data) /\ r.index \in Live \ resultValid
    BY <1>1, <2>1, ResponseAnswers
  <2>3. ReplyOK(Append(a, r))'
    BY <1>2, <1>5, <2>2
  <2>4. loadFailureQ' = b /\ storeSuccessQ' = c
    BY <1>1, <1>9, ResponseEffect
  <2> QED  BY <1>3, <2>2, <2>3, <2>4, ReplyPrime
<1>10. CASE issueStore
  <2>1. PICK r \in LsuReply : /\ storeSuccessQ' = Append(c, r)
                              /\ Answered(r.index, r.ok, r.data) /\ r.index \in Live \ resultValid
    BY <1>1, <1>10, StoreAnswers
  <2>2. ReplyOK(Append(c, r))'
    BY <1>2, <1>5, <2>1
  <2>3. loadSuccessQ' = a /\ loadFailureQ' = b
    BY <1>1, <1>10 DEF issueStore
  <2> QED  BY <1>3, <2>1, <2>2, <2>3, ReplyPrime
<1>11. CASE (\E o \in Ops : dispatch(o)) \/ write_back_branch \/ execute_direct \/ UNCHANGED vars
  BY <1>4, <1>11 DEF dispatch, write_back_branch, execute_direct, lsuVars, vars
<1>12. CASE Retirement
  BY <1>4, <1>12, RetireEffect DEF retireVars
<1>13. CASE issueLoad \/ readRequest \/ writeRequest \/ deqSTB \/ doDeqSTB
  BY <1>4, <1>13 DEF issueLoad, readRequest, writeRequest, deqSTB, doDeqSTB
<1> QED  BY <1>7, <1>8, <1>9, <1>10, <1>11, <1>12, <1>13 DEF Next, Rules, lsuRules


LEMMA ResultStep ==
  ASSUME LsuTypeInv, RingInv, PlaceInv, PairInv, WrittenInv, EpochInv, KilledInv, AddrInv, [Next]_vars,
         ReplyInv, ResultInv
  PROVE  ResultInv'
<1>0. RingOK /\ ReplyT /\ results \in [RobIndex -> ResultT] /\ resultValid \subseteq Live
  BY ExecutedValid DEF LsuTypeInv, RobT
<1>1. ASSUME NEW i \in Live, i \in Live', NEW ok, NEW d, Answered(i, ok, d),
             results'[i].ok = ok, results'[i].data = d
      PROVE  Answered(i, results[i].ok, results[i].data)'
  <2>1. Answered(i, ok, d)'
    BY <1>1, KeepsStep, ValueKept
  <2> QED  BY <1>1, <2>1 DEF Answered, Executed, Right, wordOf
<1>2. ASSUME NEW i \in resultValid, i \in Live', results'[i] = results[i], isDmem(data'[i].op)
      PROVE  Answered(i, results[i].ok, results[i].data)'
  <2>1. i \in Live
    BY <1>0
  <2>2. data'[i] = data[i]
    BY <1>2, <2>1, KeepsStep DEF keeps
  <2>3. Answered(i, results[i].ok, results[i].data)
    BY <1>2, <2>2 DEF ResultInv
  <2> QED  BY <1>1, <1>2, <2>1, <2>3
<1>3. CASE resultValid' \subseteq resultValid /\ results' = results /\ resultValid' \subseteq Live'
  BY <1>2, <1>3 DEF ResultInv
<1>4. CASE Retirement
  <2>1. results' = results /\ resultValid' = resultValid \ {firstP} /\ Live' = Live \ {firstP}
    BY <1>4, RetireKinds
  <2> QED  BY <1>0, <1>3, <2>1
<1>5. CASE \E o \in Ops : dispatch(o)
  <2>1. Live \subseteq Live' /\ results' = results /\ resultValid' = resultValid
    <3>1. PICK o \in Ops : dispatch(o)
      BY <1>5
    <3>2. enq(data'[nextP])
      BY <3>1, DispatchEffect
    <3>3. results' = results /\ resultValid' = resultValid
      BY <3>2 DEF enq
    <3> QED  BY <1>0, <3>2, <3>3, PosEnq
  <2> QED  BY <1>0, <1>3, <2>1
<1>6. ASSUME NEW x \in Live, NEW r, writeBack(x, r), isDmem(data[x].op) => Answered(x, r.ok, r.data)
      PROVE  ResultInv'
  <2>1. /\ Live' = Live /\ data' = data /\ resultValid' = resultValid \cup {x}
        /\ results' = [results EXCEPT ![x] = r]
    BY <1>6, SameRob DEF writeBack
  <2>2. x \in RobIndex /\ resultValid \subseteq RobIndex
    BY <1>0 DEF Live
  <2>3. results'[x] = r /\ \A i \in resultValid : i # x => results'[i] = results[i]
    BY <1>0, <2>1, <2>2
  <2> SUFFICES ASSUME NEW i \in resultValid', isDmem(data'[i].op)
               PROVE  Answered(i, results[i].ok, results[i].data)'
    BY DEF ResultInv
  <2>4. CASE i = x
    BY <1>1, <1>6, <2>1, <2>3, <2>4
  <2>5. CASE i # x /\ i \in resultValid
    BY <1>0, <1>2, <2>1, <2>3, <2>5
  <2> QED  BY <2>1, <2>4, <2>5
<1>7. CASE write_back
  <2> DEFINE r == Head(reply)
  <2>1. PICK mispredicted \in Mispredictions :
          lsuDeq /\ writeBack(r.index, Result(r.ok, r.data, mispredicted))
    BY <1>7 DEF write_back
  <2>2. r.index \in Live /\ Answered(r.index, r.ok, r.data)
    <3>1. ASSUME NEW q \in Seq(LsuReply), q # <<>>, ReplyOK(q), Unwritten(q), reply = q
          PROVE  r.index \in Live /\ Answered(r.index, r.ok, r.data)
      BY <3>1, ReplyTaken
    <3>2. /\ ReplyOK(loadSuccessQ) /\ ReplyOK(loadFailureQ) /\ ReplyOK(storeSuccessQ)
          /\ Unwritten(loadSuccessQ) /\ Unwritten(loadFailureQ) /\ Unwritten(storeSuccessQ)
      BY NoResult DEF ReplyInv
    <3>3. \/ loadSuccessQ # <<>> /\ reply = loadSuccessQ
          \/ loadFailureQ # <<>> /\ reply = loadFailureQ
          \/ storeSuccessQ # <<>> /\ reply = storeSuccessQ
      BY <1>0, <2>1, ReplyEffect
    <3> HIDE DEF r
    <3>4. CASE loadSuccessQ # <<>> /\ reply = loadSuccessQ
      BY <1>0, <3>1, <3>2, <3>4 DEF ReplyT
    <3>5. CASE loadFailureQ # <<>> /\ reply = loadFailureQ
      BY <1>0, <3>1, <3>2, <3>5 DEF ReplyT
    <3>6. CASE storeSuccessQ # <<>> /\ reply = storeSuccessQ
      BY <1>0, <3>1, <3>2, <3>6 DEF ReplyT
    <3> QED  BY <3>3, <3>4, <3>5, <3>6
  <2> DEFINE v == Result(r.ok, r.data, mispredicted)
  <2>3. v.ok = r.ok /\ v.data = r.data
    BY DEF Result
  <2>4. Answered(r.index, v.ok, v.data) /\ writeBack(r.index, v)
    BY <2>1, <2>2, <2>3
  <2> HIDE DEF r, v
  <2> QED  BY <1>6, <2>2, <2>4
<1>8. CASE write_back_branch
  <2>1. PICK i \in Live \ resultValid, mispredicted \in BOOLEAN :
          data[i].op.kind = "branch" /\ writeBack(i, Result(TRUE, zeroData, mispredicted))
    BY <1>8 DEF write_back_branch
  <2>2. ~isDmem(data[i].op)
    BY <2>1 DEF isDmem
  <2> QED  BY <1>6, <2>1, <2>2
<1>9. CASE execute_direct
  <2>1. /\ ~empty /\ data[firstP].op.kind \in {"fence", "cbo"}
        /\ writeBack(firstP, Result(TRUE, zeroData, first.op.kind = "fence"))
    BY <1>9 DEF execute_direct, first
  <2>2. ~isDmem(data[firstP].op)
    BY <2>1 DEF isDmem
  <2>3. firstP \in Live
    BY <2>1, RobSizeAssumption DEF LsuTypeInv, RobT, RingOK, Live, robPos, RobIndex
  <2> QED  BY <1>6, <2>1, <2>2, <2>3
<1>10. CASE UNCHANGED robVars
  <2>1. Live' = Live /\ results' = results /\ resultValid' = resultValid
    BY <1>10, SameRob DEF robVars
  <2> QED  BY <1>0, <1>3, <2>1
<1>11. CASE connect \/ Rules \/ UNCHANGED vars
  BY <1>10, <1>11 DEF connect, Rules, vars
<1> QED  BY <1>4, <1>5, <1>7, <1>8, <1>9, <1>11 DEF Next

-----------------------------------------------------------------------------
(* The conversions of the load-store unit are those of the memory.         *)

LEMMA LoadConverts ==
  ASSUME NEW a \in Addr, NEW s \in Size, NEW d \in Data, aligned(a, s)
  PROVE  finish(a, s, d) = Mem!loaded(a, s, d)
<1>1. a[2] \in Lane /\ d \in [Lane -> Byte] /\ Lane = {0, 1}
  BY AddrParts DEF Data, Lane
<1>2. CASE s = "Word"
  <2>1. a[2] = 0
    BY <1>2 DEF aligned
  <2>2. finish(a, s, d) = [l \in Lane |-> d[l]]
    BY <1>1, <1>2, <2>1 DEF finish
  <2>3. d = [l \in Lane |-> d[l]]
    BY <1>1
  <2> QED  BY <1>2, <2>2, <2>3 DEF Mem!loaded
<1>3. CASE s = "Byte"
  <2>1. ASSUME NEW l \in Lane
        PROVE  (IF l + a[2] \in Lane /\ (s = "Word" \/ l = 0) THEN d[l + a[2]] ELSE 0)
                 = IF l = 0 THEN d[a[2]] ELSE 0
    BY <1>1, <1>3
  <2>2. finish(a, s, d) = [l \in Lane |-> IF l = 0 THEN d[a[2]] ELSE 0]
    BY <2>1 DEF finish
  <2> QED  BY <1>3, <2>2 DEF Mem!loaded, Mem!Lane, Lane
<1> QED  BY <1>2, <1>3 DEF Size

LEMMA StoreConverts ==
  ASSUME NEW a \in Addr, NEW s \in Size, NEW d \in Data, NEW old \in Data, aligned(a, s)
  PROVE  merge(old, toStb(a, s, d)) = Mem!stored(a, s, d, old)
<1> DEFINE e == toStb(a, s, d)
<1>1. a[2] \in Lane /\ d \in [Lane -> Byte] /\ old \in [Lane -> Byte] /\ Lane = {0, 1}
  BY AddrParts DEF Data, Lane
<1>2. /\ e.mask = {l \in Lane : l >= a[2] /\ (s = "Word" \/ l = a[2])}
      /\ \A l \in Lane : e.data[l] = IF l >= a[2] THEN d[l - a[2]] ELSE 0
  BY DEF toStb
<1>3. merge(old, e) = [l \in Lane |-> IF l \in e.mask THEN e.data[l] ELSE old[l]]
  BY DEF merge
<1> HIDE DEF e
<1>4. CASE s = "Word"
  <2>1. a[2] = 0
    BY <1>4 DEF aligned
  <2>2. \A l \in Lane : l \in e.mask /\ e.data[l] = d[l]
    BY <1>1, <1>2, <1>4, <2>1
  <2>3. merge(old, e) = [l \in Lane |-> d[l]]
    BY <1>3, <2>2
  <2>4. d = [l \in Lane |-> d[l]]
    BY <1>1
  <2> QED  BY <1>4, <2>3, <2>4 DEF Mem!stored, e
<1>5. CASE s = "Byte"
  <2>1. \A l \in Lane : l \in e.mask <=> l = a[2]
    BY <1>1, <1>2, <1>5
  <2>2. e.data[a[2]] = d[0]
    BY <1>1, <1>2
  <2>3. merge(old, e) = [l \in Lane |-> IF l = a[2] THEN d[0] ELSE old[l]]
    BY <1>3, <2>1, <2>2
  <2>4. [old EXCEPT ![a[2]] = d[0]] = [l \in Lane |-> IF l = a[2] THEN d[0] ELSE old[l]]
    BY <1>1
  <2> QED  BY <1>5, <2>3, <2>4 DEF Mem!stored, e
<1> QED  BY <1>4, <1>5 DEF Size


LEMMA ProgramType ==
  ASSUME WriteT
  PROVE  programMem \in [Word -> Data]
<1>1. stb \in Seq(StbEntry) /\ Len(stb) \in Nat /\ mem \in [Word -> Data]
  BY DEF WriteT
<1>2. ASSUME NEW w \in Word, NEW l \in Lane PROVE Shown(stb, mem, w, l) \in Byte
  <2>1. CASE Covers(stb, w, l) = {}
    <3>1. mem[w] \in [Lane -> Byte]
      BY <1>1 DEF Data
    <3> QED  BY <2>1, <3>1 DEF Shown
  <2>2. CASE Covers(stb, w, l) # {}
    <3>1. PICK k \in Covers(stb, w, l) : \A j \in Covers(stb, w, l) : j <= k
      BY <1>1, <2>2, CoversLast
    <3>2. Shown(stb, mem, w, l) = stb[k].data[l]
      BY <1>1, <3>1, ShownLast
    <3>3. stb[k] \in StbEntry
      BY <1>1 DEF Covers
    <3>4. stb[k].data \in [Lane -> Byte]
      BY <3>3 DEF StbEntry, Data
    <3> QED  BY <3>2, <3>4
  <2> QED  BY <2>1, <2>2
<1>3. \A w \in Word : [l \in Lane |-> Shown(stb, mem, w, l)] \in Data
  BY <1>2 DEF Data
<1>4. Image(stb, mem) \in [Word -> Data]
  BY <1>3 DEF Image
<1> QED  BY <1>4, ImageIs

-----------------------------------------------------------------------------
(* The invariant, and the refinement.                                      *)

MemInv ==
  /\ LsuTypeInv /\ PairInv /\ CountInv /\ RingInv /\ PlaceInv /\ WrittenInv /\ EpochInv /\ KilledInv
  /\ AddrInv /\ FedInv /\ ReadInv /\ ReplyInv /\ ResultInv

LEMMA MemInit == Init => MemInv /\ Mem!MemInit
<1> SUFFICES ASSUME Init PROVE MemInv /\ Mem!MemInit
  OBVIOUS
<1>1. LsuTypeInv /\ PairInv /\ CountInv /\ RingInv /\ PlaceInv
  BY TypesInit, PairInit, RingInit, PlaceInit
<1>2. /\ empty = TRUE /\ resultValid = {} /\ killed = {} /\ retired = <<>>
      /\ stb = <<>> /\ wrequestQ = <<>> /\ rrequestQ = <<>>
      /\ pendingMmioLoadsQ = <<>> /\ pendingDmemLoadsQ = <<>> /\ rresponseQ = <<>> /\ cacheRead = <<>>
      /\ loadSuccessQ = <<>> /\ loadFailureQ = <<>> /\ storeSuccessQ = <<>>
      /\ loadQ.valid = {} /\ storeQ.valid = {}
      /\ mem = [w \in Word |-> [l \in Lane |-> 0]]
  BY DEF Init, mkROB, mkLSU
<1>3. Live = {}
  BY <1>2 DEF Live
<1>4. EpochInv /\ KilledInv /\ ResultInv
  BY <1>2, <1>3 DEF EpochInv, KilledInv, ResultInv
<1>5. AddrInv
  BY <1>2 DEF AddrInv, LoadAddr, StoreAddr
<1>6. \A k : k \notin 1 .. Len(<<>>)
  OBVIOUS
<1>7. WrittenInv
  BY <1>2, <1>6 DEF WrittenInv, Written, Covers
<1>8. ReadInv /\ ReplyInv
  BY <1>2, <1>6 DEF ReadInv, ReadOK, ReplyInv, ReplyOK
<1>9. FedInv
  <2>1. ASSUME NEW m, NEW W PROVE Fed(<<>>, m, Len(<<>>), <<>>, W)
    <3>1. Len(<<>>) = 0 /\ \A k : k \notin 0 + 1 .. 0
      OBVIOUS
    <3> DEFINE f == [k \in 1 .. Len(<<>>) |-> 0]
    <3>2. f \in [1 .. Len(<<>>) -> Nat]
      OBVIOUS
    <3>3. Feeds(f, <<>>, m, Len(<<>>), <<>>, W)
      BY <1>6, <3>1 DEF Feeds
    <3>4. \E g \in [1 .. Len(<<>>) -> Nat] : Feeds(g, <<>>, m, Len(<<>>), <<>>, W)
      BY <3>2, <3>3, Zenon
    <3>5. Len(<<>>) <= Len(<<>>)
      BY <3>1
    <3> HIDE DEF f
    <3> QED  BY <3>4, <3>5, Zenon DEF Fed
  <2> QED  BY <1>2, <2>1 DEF FedInv
<1>10. programMem = [w \in Word |-> [l \in Lane |-> 0]]
  <2>1. \A w \in Word : ~stbSearch(w)
    BY <1>2, <1>6 DEF stbSearch
  <2>2. mem \in [Word -> Data]
    BY <1>1 DEF LsuTypeInv, WriteT
  <2>3. \A w \in Word : programMem[w] = [l \in Lane |-> 0]
    BY <1>2, <2>1, <2>2, MemoryRead
  <2>4. programMem = [w \in Word |-> programMem[w]]
    BY DEF programMem
  <2> QED  BY <2>3, <2>4
<1>11. Mem!MemInit
  BY <1>2, <1>10 DEF Mem!MemInit, Mem!Word, Mem!Lane, Word, Lane
<1> QED  BY <1>1, <1>4, <1>5, <1>7, <1>8, <1>9, <1>11 DEF MemInv

LEMMA MemStep == MemInv /\ [Next]_vars => MemInv'
<1> SUFFICES ASSUME MemInv, [Next]_vars PROVE MemInv'
  OBVIOUS
<1>1. /\ LsuTypeInv /\ PairInv /\ CountInv /\ RingInv /\ PlaceInv /\ WrittenInv /\ EpochInv /\ KilledInv
      /\ AddrInv /\ FedInv /\ ReadInv /\ ReplyInv /\ ResultInv
  BY DEF MemInv
<1>2. LsuTypeInv' /\ PairInv' /\ CountInv' /\ RingInv' /\ PlaceInv'
  BY <1>1, TypesStep, PairStep, RingStep, PlaceStep
<1>3. WrittenInv' /\ EpochInv' /\ KilledInv' /\ AddrInv'
  BY <1>1, WrittenStep, EpochStep, AddrStep
<1>4. FedInv' /\ ReadInv'
  BY <1>1, FedStep, ReadStep
<1>5. ReplyInv' /\ ResultInv'
  BY <1>1, ReplyStep, ResultStep
<1> QED  BY <1>2, <1>3, <1>4, <1>5 DEF MemInv

(* The oldest operation is right when it retires.                          *)
LEMMA FirstRight ==
  ASSUME LsuTypeInv, KilledInv, firstP \in Live, Leaves(Live, pos, pos', firstP),
         data[firstP].epoch = epoch, firstP \notin killed
  PROVE  Right(firstP)
<1>1. \A j \in killed : j \in Live /\ j # firstP
  BY DEF KilledInv
<1>2. \A i \in Live : i # firstP => pos[firstP] < pos[i]
  <2>1. \A i, j \in RobIndex : robPos(i) = robPos(j) => i = j
    BY RingOrder DEF LsuTypeInv, RobT
  <2>2. Live \subseteq RobIndex
    BY DEF Live
  <2>3. \A i \in Live : i # firstP => pos[i] # pos[firstP]
    BY <2>1, <2>2 DEF pos
  <2> QED  BY <2>3 DEF Leaves
<1> QED  BY <1>1, <1>2 DEF Right

LEMMA RetiresMem ==
  ASSUME MemInv, Retirement
  PROVE  [Mem!MemNext]_<<programMem, retired>>
<1> DEFINE x == firstP
           o == data[x].op
<1>0. /\ LsuTypeInv /\ RingInv /\ PlaceInv /\ PairInv /\ KilledInv /\ WrittenInv /\ AddrInv /\ ResultInv
  BY DEF MemInv
<1>1. /\ retireKinds /\ mem' = mem /\ x \in resultValid /\ x \in Live
      /\ Leaves(Live, pos, pos', x)
  BY <1>0, RetireKinds
<1>2. quiet => programMem' = programMem
  BY <1>1, ProgramSame DEF quiet
<1>3. CASE quiet /\ retired' = retired
  BY <1>2, <1>3
<1>4. o.addr \in Addr /\ o.size \in Size /\ o.data \in Data /\ o.addr[1] \in Word /\ wordOf(x) = o.addr[1]
  BY <1>0, <1>1, WordType, AddrParts DEF wordOf
<1>5. programMem \in [Word -> Data]
  BY <1>0, ProgramType DEF LsuTypeInv
<1>6. ASSUME retires, isDmem(o)
      PROVE  /\ aligned(o.addr, o.size)
             /\ o.kind = "load" => results[x].data = finish(o.addr, o.size, programMem[o.addr[1]])
  <2>1. Right(x) /\ results[x].ok
    BY <1>0, <1>1, <1>6, FirstRight DEF retires
  <2>2. Answered(x, results[x].ok, results[x].data)
    BY <1>0, <1>1, <1>6 DEF ResultInv
  <2> QED  BY <1>4, <2>1, <2>2 DEF Answered
<1>7. CASE retires /\ o.kind = "load"
  <2>1. /\ retired' = <<"load", o.addr, o.size, results[x].data>> /\ programMem' = programMem
    BY <1>2, <1>7 DEF retires
  <2>2. /\ aligned(o.addr, o.size)
        /\ results[x].data = Mem!loaded(o.addr, o.size, programMem[o.addr[1]])
    BY <1>4, <1>5, <1>6, <1>7, LoadConverts DEF isDmem
  <2> HIDE DEF o
  <2>3. Mem!MemLoad
    BY <1>4, <2>1, <2>2 DEF Mem!MemLoad, Mem!Addr, Mem!Size, Mem!Word, Mem!Lane, Mem!aligned,
                            Addr, Size, Word, Lane, aligned
  <2> QED  BY <2>3 DEF Mem!MemNext
<1>8. CASE retires /\ o.kind = "store"
  <2>1. stores /\ retired' = <<"store", o.addr, o.size, o.data>>
    BY <1>8 DEF retires
  <2>2. aligned(o.addr, o.size)
    BY <1>6, <1>8 DEF isDmem
  <2>3. newEntry = toStb(o.addr, o.size, o.data)
    <3>1. storeQ.entries[storeQ.head].index = x
      BY <1>0, <1>8, RingRetire DEF isDmem
    <3>2. storeQ.head \in storeQ.valid
      <4>1. \E must \in BOOLEAN : commitStore(must)
        BY <1>0, <1>8, RingRetire DEF isDmem
      <4> QED  BY <4>1 DEF commitStore
    <3>3. x \notin lsu_iq
      BY <1>0, <1>1, ExecutedValid
    <3>4. storeQ.addresses[storeQ.head] = o.addr /\ storeQ.datas[storeQ.head] = o.data
      BY <1>0, <3>1, <3>2, <3>3 DEF AddrInv, StoreAddr, opOf
    <3>5. storeQ.entries[storeQ.head].size = o.size
      <4>1. storeQ.entries[storeQ.head] = entryOf(data, x)
        BY <1>0, <3>1, <3>2 DEF RingInv, FifoInv, Fifo, Linked
      <4> QED  BY <4>1 DEF entryOf
    <3> QED  BY <3>4, <3>5 DEF newEntry
  <2> DEFINE e == toStb(o.addr, o.size, o.data)
  <2>4. e \in StbEntry /\ stb' = Append(stb, e) /\ wrequestQ' = Append(wrequestQ, e) /\ e.word = o.addr[1]
    BY <2>1, <2>3 DEF stores, toStb
  <2>5. PICK y \in StbEntry : y = e
    BY <2>4
  <2> HIDE DEF e
  <2>6. programMem' = [programMem EXCEPT ![o.addr[1]] = merge(@, e)]
    BY <1>0, <1>1, <2>4, <2>5, ProgramStore
  <2>7. programMem[o.addr[1]] \in Data
    BY <1>4, <1>5
  <2>8. merge(programMem[o.addr[1]], e) = Mem!stored(o.addr, o.size, o.data, programMem[o.addr[1]])
    BY <1>4, <2>2, <2>7, StoreConverts DEF e
  <2>9. programMem' = [programMem EXCEPT ![o.addr[1]] = Mem!stored(o.addr, o.size, o.data, @)]
    BY <2>6, <2>8
  <2> HIDE DEF o
  <2>10. Mem!MemStore
    BY <1>4, <2>1, <2>2, <2>9 DEF Mem!MemStore, Mem!Addr, Mem!Size, Mem!Word, Mem!Lane, Mem!Data, Mem!aligned,
                            Addr, Size, Word, Lane, Data, aligned
  <2> QED  BY <2>10 DEF Mem!MemNext
<1>9. CASE retires /\ o.kind # "load" /\ o.kind # "store"
  BY <1>3, <1>9 DEF retires
<1> QED  BY <1>1, <1>3, <1>7, <1>8, <1>9 DEF retireKinds

LEMMA MemNextStep == MemInv /\ [Next]_vars => [Mem!MemNext]_<<programMem, retired>>
<1> SUFFICES ASSUME MemInv, [Next]_vars PROVE [Mem!MemNext]_<<programMem, retired>>
  OBVIOUS
<1>0. LsuTypeInv /\ PairInv /\ WrittenInv
  BY DEF MemInv
<1>1. CASE UNCHANGED <<stb, wrequestQ, mem, retired>>
  BY <1>1, ProgramSame
<1>2. CASE Retirement
  BY <1>2, RetiresMem
<1>3. CASE writeRequest /\ UNCHANGED coreVars
  BY <1>0, <1>3, ProgramWrite DEF coreVars
<1>4. CASE doDeqSTB /\ UNCHANGED coreVars
  BY <1>0, <1>4, ProgramDeq DEF coreVars
<1>5. CASE (\E o \in Ops : dispatch(o)) \/ connect \/ write_back \/ write_back_branch \/ execute_direct
  BY <1>1, <1>5 DEF dispatch, connect, write_back, write_back_branch, execute_direct, writeVars, lsuVars,
                    coreVars
<1>6. CASE (issueLoad \/ issueStore \/ readRequest \/ loadResponse \/ deqSTB) /\ UNCHANGED coreVars
  BY <1>1, <1>6 DEF issueLoad, issueStore, readRequest, loadResponse, deqSTB, writeVars, coreVars
<1>7. CASE UNCHANGED vars
  BY <1>1, <1>7 DEF writeVars, vars, lsuVars, coreVars
<1> QED  BY <1>2, <1>3, <1>4, <1>5, <1>6, <1>7 DEF Next, Rules, lsuRules

(* Loads that read early, kills, flushes, the store buffer and the answers *)
(* that come in two streams are invisible: whatever the operations, their  *)
(* timing and the sizes of the queues, the loads that retire return what   *)
(* the stores that retired before them wrote.                              *)
THEOREM MemoryCorrect == Spec => ImplementsMemory
<1>1. MemInv /\ [Next]_vars => [Mem!MemNext]_<<programMem, retired>>
  BY MemNextStep
<1> QED  BY <1>1, MemInit, MemStep, PTL DEF Spec, ImplementsMemory, Mem!MemSpec
=============================================================================
