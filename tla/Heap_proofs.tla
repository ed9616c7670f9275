----------------------------- MODULE Heap_proofs -----------------------------
(***************************************************************************)
(* The holes of the kernel heap are exactly the memory that no block       *)
(* covers, whatever is allocated, freed and added, in any order.           *)
(***************************************************************************)
EXTENDS Heap, FiniteSetTheorems, SequenceTheorems, NaturalsInduction, TLAPS

-----------------------------------------------------------------------------
(* Multiples of a word.                                                    *)

LEMMA DivMod ==
  ASSUME NEW x \in Int, NEW w \in Nat \ {0}
  PROVE  \E q \in Int, r \in 0 .. w - 1 : x = w * q + r /\ x % w = r
<1> DEFINE q == x \div w
           r == x % w
<1>1. q \in Int /\ r \in 0 .. w - 1
  OBVIOUS
<1>2. PICK a \in Int, b \in 0 .. w - 1 : a = q /\ b = r
  BY <1>1
<1>3. x = w * a + b
  BY <1>2
<1> QED  BY <1>2, <1>3

LEMMA MultipleMod ==
  ASSUME NEW w \in Nat \ {0}, NEW q \in Int, NEW r \in 0 .. w - 1
  PROVE  (w * q + r) % w = r /\ (w * q) % w = 0
OBVIOUS

(* A multiple of w below w is zero.                                        *)
LEMMA SmallMultiple ==
  ASSUME NEW w \in Nat \ {0}, NEW d \in Int, w * d >= 0, w * d < w
  PROVE  d = 0
OBVIOUS

LEMMA ModIsMultiple ==
  ASSUME NEW w \in Nat \ {0}, NEW x \in Int
  PROVE  x % w = 0 <=> \E q \in Int : x = w * q
<1>1. ASSUME x % w = 0 PROVE \E q \in Int : x = w * q
  <2>1. PICK q \in Int, r \in 0 .. w - 1 : x = w * q + r /\ x % w = r
    BY DivMod
  <2> QED  BY <1>1, <2>1
<1>2. ASSUME NEW q \in Int, x = w * q PROVE x % w = 0
  BY <1>2, MultipleMod
<1> QED  BY <1>1, <1>2

LEMMA ModSum ==
  ASSUME NEW w \in Nat \ {0}, NEW x \in Int, NEW y \in Int, x % w = 0, y % w = 0
  PROVE  (x + y) % w = 0 /\ (x - y) % w = 0
<1>1. PICK p \in Int : x = w * p
  BY ModIsMultiple
<1>2. PICK q \in Int : y = w * q
  BY ModIsMultiple
<1>3. x + y = w * (p + q) /\ x - y = w * (p - q)
  BY <1>1, <1>2, SMT
<1>4. p + q \in Int /\ p - q \in Int /\ x + y \in Int /\ x - y \in Int
  OBVIOUS
<1> QED  BY <1>3, <1>4, ModIsMultiple

LEMMA ModSelf == ASSUME NEW w \in Nat \ {0} PROVE w % w = 0
<1>1. w = w * 1 /\ w \in Int /\ 1 \in Int
  OBVIOUS
<1> QED  BY <1>1, MultipleMod

(* Multiples are apart by a word.                                          *)
LEMMA ModApart ==
  ASSUME NEW w \in Nat \ {0}, NEW x \in Int, NEW y \in Int, x % w = 0, y % w = 0, x < y
  PROVE  x + w <= y
<1>1. PICK d \in Int : y - x = w * d
  <2>1. y - x \in Int
    OBVIOUS
  <2>2. (y - x) % w = 0
    BY ModSum, Zenon
  <2> QED  BY <2>1, <2>2, ModIsMultiple
<1>2. d # 0
  BY <1>1
<1> QED  BY <1>1, <1>2, SmallMultiple

LEMMA ModTrans ==
  ASSUME NEW w \in Nat \ {0}, NEW a \in Nat \ {0}, NEW x \in Int, x % a = 0, a % w = 0
  PROVE  x % w = 0
<1>1. PICK p \in Int : x = a * p
  BY ModIsMultiple, Zenon
<1>2. PICK q \in Int : a = w * q
  BY ModIsMultiple
<1>3. x = w * (q * p) /\ q * p \in Int
  BY <1>1, <1>2, SMT
<1> QED  BY <1>3, ModIsMultiple

(* align_down_size and align_up.                                           *)
LEMMA AlignDown ==
  ASSUME NEW x \in Int, NEW a \in Nat \ {0}
  PROVE  /\ align_down_size(x, a) \in Int
         /\ align_down_size(x, a) % a = 0
         /\ align_down_size(x, a) <= x /\ x < align_down_size(x, a) + a
         /\ x % a = 0 => align_down_size(x, a) = x
<1>1. PICK q \in Int, r \in 0 .. a - 1 : x = a * q + r /\ x % a = r
  BY DivMod
<1>2. x - r = a * q /\ (a * q) % a = 0
  BY <1>1, MultipleMod
<1> QED  BY <1>1, <1>2 DEF align_down_size

LEMMA AlignUp ==
  ASSUME NEW x \in Nat, NEW a \in Nat \ {0}
  PROVE  /\ align_up(x, a) \in Nat
         /\ align_up(x, a) % a = 0
         /\ x <= align_up(x, a) /\ align_up(x, a) < x + a
         /\ x % a = 0 => align_up(x, a) = x
<1>1. PICK q \in Int, r \in 0 .. a - 1 : x = a * q + r /\ x % a = r
  <2>1. x \in Int
    OBVIOUS
  <2> QED  BY <2>1, DivMod
<1>2. CASE r = 0
  BY <1>1, <1>2, ModSelf DEF align_up
<1>3. CASE r # 0
  <2>1. a - r \in 0 .. a - 1 /\ a - r = a * 0 + (a - r)
    BY <1>3
  <2>2. (a - r) % a = a - r
    BY <2>1, MultipleMod
  <2>3. align_up(x, a) = a * q + a
    BY <1>1, <2>2 DEF align_up
  <2>4. (a * q + a) % a = 0
    <3>1. a * q \in Int /\ a \in Int /\ (a * q) % a = 0 /\ a % a = 0
      BY ModSelf, MultipleMod
    <3> QED  BY <3>1, ModSum
  <2> QED  BY <1>1, <1>3, <2>3, <2>4
<1> QED  BY <1>2, <1>3

-----------------------------------------------------------------------------
(* Layouts and holes.                                                      *)

Hole == [addr : Nat, size : Nat]
isAligned(a) == a % Word = 0

LEMMA LayoutSize ==
  ASSUME NEW l \in [size : Nat, align : Nat \ {0}]
  PROVE  /\ align_layout(l).size \in Nat /\ align_layout(l).size >= min_size
         /\ isAligned(align_layout(l).size) /\ align_layout(l).align = l.align
         /\ isAligned(l.size) /\ l.size >= min_size => align_layout(l).size = l.size
<1> DEFINE n == IF l.size < min_size THEN min_size ELSE l.size
           r == align_down_size(n + Word - 1, Word)
<1>1. n \in Nat /\ n >= min_size /\ n + Word - 1 \in Int /\ Word \in Nat \ {0} /\ min_size \in Nat
  BY HoleListAssumption DEF min_size
<1>2. align_layout(l).size = r /\ align_layout(l).align = l.align
  BY DEF align_layout, align_up_size, HoleAlign
<1>3. r \in Int /\ r % Word = 0 /\ r <= n + Word - 1 /\ n + Word - 1 < r + Word
  BY <1>1, AlignDown
<1>4. ASSUME isAligned(l.size), l.size >= min_size PROVE r = l.size
  <2>1. n = l.size /\ n % Word = 0 /\ n \in Int
    BY <1>1, <1>4 DEF isAligned
  <2> HIDE DEF n, r
  <2>2. CASE n < r
    <3>1. n + Word <= r
      BY <1>1, <1>3, <2>1, <2>2, ModApart
    <3> QED  BY <1>1, <1>3, <3>1
  <2> QED  BY <1>1, <1>3, <2>1, <2>2
<1> HIDE DEF n, r
<1> QED  BY <1>1, <1>2, <1>3, <1>4 DEF isAligned

LEMMA MinSize == min_size \in Nat /\ min_size = Word + Word /\ min_size > Word /\ isAligned(min_size)
<1>1. Word \in Nat \ {0} /\ min_size = Word + Word /\ Word \in Int
  BY HoleListAssumption DEF min_size
<1>2. Word % Word = 0
  BY <1>1, ModSelf
<1>3. (Word + Word) % Word = 0
  BY <1>1, <1>2, ModSum
<1> QED  BY <1>1, <1>3 DEF isAligned

(* A hole that is well made, between two bounds.                           *)
Placed(h, bottom, top) ==
  /\ h \in Hole /\ isAligned(h.addr) /\ isAligned(h.size) /\ h.size >= min_size
  /\ bottom <= h.addr /\ holeEnd(h) <= top

LEMMA HoleEnd ==
  ASSUME NEW h \in Hole, isAligned(h.addr), isAligned(h.size)
  PROVE  holeEnd(h) \in Nat /\ isAligned(holeEnd(h)) /\ align_up(holeEnd(h), HoleAlign) = holeEnd(h)
<1>1. h.addr \in Nat /\ h.size \in Nat /\ h.addr \in Int /\ h.size \in Int /\ Word \in Nat \ {0}
  BY HoleListAssumption DEF Hole
<1>2. (h.addr + h.size) % Word = 0
  BY <1>1, ModSum DEF isAligned
<1>3. h.addr + h.size \in Nat
  BY <1>1
<1>4. align_up(h.addr + h.size, Word) = h.addr + h.size
  BY <1>1, <1>2, <1>3, AlignUp
<1> QED  BY <1>2, <1>3, <1>4 DEF isAligned, holeEnd, HoleAlign

(* A hole behind which there is nothing or room for a node is not          *)
(* stretched.                                                              *)
LEMMA NotStretched ==
  ASSUME NEW h \in Hole, isAligned(h.addr), isAligned(h.size), NEW top \in Nat,
         holeEnd(h) < top => holeEnd(h) + min_size <= top
  PROVE  check_merge_top(h, top) = h
BY HoleEnd, MinSize DEF check_merge_top

-----------------------------------------------------------------------------
(* Lists of holes.                                                         *)

Elems(s) == {s[n] : n \in 1 .. Len(s)}

(* In order of their addresses, perhaps touching.                          *)
Ordered(s) == \A m, n \in 1 .. Len(s) : m < n => holeEnd(s[m]) <= s[n].addr

(* And apart, but for those at E and behind.                               *)
ApartBut(s, E) == \A n \in 1 .. Len(s) - 1 : n \in E \/ holeEnd(s[n]) < s[n + 1].addr

splice(s, i, mid, j) == SubSeq(s, 1, i) \o mid \o SubSeq(s, j, Len(s))

Spliced(t, s, i, n, mid, j) ==
  /\ Len(t) = i + n + (Len(s) - j + 1)
  /\ n \in Nat /\ Len(s) - j + 1 \in Nat /\ Len(s) \in Nat
  /\ \A k \in 1 .. i : t[k] = s[k]
  /\ \A k \in i + 1 .. i + n : t[k] = mid[k - i]
  /\ \A k \in i + n + 1 .. Len(t) : t[k] = s[k - i - n + j - 1]

LEMMA SpliceFacts ==
  ASSUME NEW S, NEW s \in Seq(S), NEW mid \in Seq(S), NEW i \in 0 .. Len(s), NEW j \in i + 1 .. Len(s) + 1
  PROVE  /\ splice(s, i, mid, j) \in Seq(S)
         /\ Spliced(splice(s, i, mid, j), s, i, Len(mid), mid, j)
<1> DEFINE n == Len(mid)
           t == splice(s, i, mid, j)
           a == SubSeq(s, 1, i)
           b == SubSeq(s, j, Len(s))
           z == Len(s) - j + 1
           c == a \o mid
<1>0. Len(s) \in Nat /\ n \in Nat /\ z \in Nat /\ i \in Int /\ j \in Int /\ \A k \in 1 .. Len(s) : s[k] \in S
  BY LenProperties, ElementOfSeq
<1>1. a \in Seq(S) /\ Len(a) = i /\ \A k \in 1 .. i : a[k] = s[k]
  <2>1. \A k \in 1 .. i : s[k] \in S
    BY <1>0
  <2>2. /\ a \in Seq(S) /\ Len(a) = (IF 1 <= i THEN i - 1 + 1 ELSE 0)
        /\ \A k \in 1 .. i - 1 + 1 : a[k] = s[1 + k - 1]
    BY <1>0, <2>1, SubSeqProperties
  <2> HIDE DEF a
  <2>3. \A k \in 1 .. i : k \in 1 .. i - 1 + 1 /\ 1 + k - 1 = k
    OBVIOUS
  <2>4. Len(a) = i
    BY <2>2
  <2> QED  BY <2>2, <2>3, <2>4
<1>2. b \in Seq(S) /\ Len(b) = z /\ \A k \in 1 .. z : b[k] = s[j + k - 1]
  <2>1. \A k \in j .. Len(s) : s[k] \in S
    BY <1>0
  <2>2. /\ b \in Seq(S) /\ Len(b) = (IF j <= Len(s) THEN Len(s) - j + 1 ELSE 0)
        /\ \A k \in 1 .. Len(s) - j + 1 : b[k] = s[j + k - 1]
    BY <1>0, <2>1, SubSeqProperties
  <2> HIDE DEF b
  <2>4. Len(b) = z
    BY <1>0, <2>2
  <2> QED  BY <2>2, <2>4
<1>3. t = c \o b
  BY DEF splice
<1> HIDE DEF a, b, t, n
<1>4. /\ c \in Seq(S) /\ Len(c) = i + n
      /\ \A k \in 1 .. i + n : c[k] = IF k <= i THEN a[k] ELSE mid[k - i]
  BY <1>1, ConcatProperties DEF n
<1> HIDE DEF c, z
<1>5. c \in Seq(S) /\ b \in Seq(S)
  BY <1>2, <1>4
<1>6. /\ t \in Seq(S) /\ Len(t) = Len(c) + Len(b)
      /\ \A k \in 1 .. Len(c) + Len(b) : t[k] = IF k <= Len(c) THEN c[k] ELSE b[k - Len(c)]
  BY <1>3, <1>5, ConcatProperties
<1>7. Len(t) = i + n + z
  BY <1>2, <1>4, <1>6
<1>8. ASSUME NEW k \in 1 .. i PROVE t[k] = s[k]
  <2>1. k \in 1 .. Len(c) + Len(b) /\ k <= Len(c) /\ k <= i /\ k \in 1 .. i + n
    BY <1>0, <1>2, <1>4
  <2> QED  BY <1>1, <1>4, <1>6, <2>1
<1>9. ASSUME NEW k \in i + 1 .. i + n PROVE t[k] = mid[k - i]
  <2>1. k \in 1 .. Len(c) + Len(b) /\ k <= Len(c) /\ ~(k <= i) /\ k \in 1 .. i + n
    BY <1>0, <1>2, <1>4
  <2> QED  BY <1>4, <1>6, <2>1
<1>10. ASSUME NEW k \in i + n + 1 .. Len(t) PROVE t[k] = s[k - i - n + j - 1]
  <2>1. k \in 1 .. Len(c) + Len(b) /\ ~(k <= Len(c)) /\ k - Len(c) \in 1 .. z
        /\ j + (k - Len(c)) - 1 = k - i - n + j - 1
    BY <1>0, <1>2, <1>4, <1>7
  <2>2. t[k] = b[k - Len(c)]
    BY <1>6, <2>1
  <2>3. b[k - Len(c)] = s[j + (k - Len(c)) - 1]
    BY <1>2, <2>1
  <2> QED  BY <2>1, <2>2, <2>3
<1> QED  BY <1>0, <1>6, <1>7, <1>8, <1>9, <1>10 DEF z, n, t, Spliced

frontOf(s, i) == {s[k] : k \in 1 .. i}
backOf(s, j) == {s[k] : k \in j .. Len(s)}

LEMMA SpliceElems ==
  ASSUME NEW S, NEW s \in Seq(S), NEW mid \in Seq(S), NEW i \in 0 .. Len(s), NEW j \in i + 1 .. Len(s) + 1
  PROVE  Elems(splice(s, i, mid, j)) = frontOf(s, i) \cup Elems(mid) \cup backOf(s, j)
<1>1. PICK t, n : t = splice(s, i, mid, j) /\ n = Len(mid)
  OBVIOUS
<1>a. Spliced(t, s, i, n, mid, j)
  BY <1>1, SpliceFacts
<1>2. /\ Len(t) = i + n + (Len(s) - j + 1) /\ n \in Nat /\ Len(s) - j + 1 \in Nat /\ Len(s) \in Nat
      /\ \A k \in 1 .. i : t[k] = s[k]
      /\ \A k \in i + 1 .. i + n : t[k] = mid[k - i]
      /\ \A k \in i + n + 1 .. Len(t) : t[k] = s[k - i - n + j - 1]
  BY <1>a DEF Spliced
<1> DEFINE A == {s[k] : k \in 1 .. i}
           C == {s[k] : k \in j .. Len(s)}
<1>3. ASSUME NEW k \in 1 .. Len(t) PROVE t[k] \in A \cup Elems(mid) \cup C
  <2>1. CASE k \in 1 .. i
    BY <1>2, <2>1
  <2>2. CASE k \in i + 1 .. i + n
    <3>1. k - i \in 1 .. n /\ t[k] = mid[k - i]
      BY <1>2, <2>2
    <3> QED  BY <1>1, <3>1 DEF Elems
  <2>3. CASE k \in i + n + 1 .. Len(t)
    <3>1. k - i - n + j - 1 \in j .. Len(s) /\ t[k] = s[k - i - n + j - 1]
      BY <1>2, <2>3
    <3> QED  BY <3>1
  <2> QED  BY <1>2, <2>1, <2>2, <2>3
<1>4. ASSUME NEW k \in 1 .. i PROVE s[k] \in Elems(t)
  <2>1. k \in 1 .. Len(t)
    BY <1>2
  <2> QED  BY <1>2, <2>1 DEF Elems
<1>5. ASSUME NEW k \in 1 .. n PROVE mid[k] \in Elems(t)
  <2>1. i + k \in 1 .. Len(t) /\ i + k \in i + 1 .. i + n /\ (i + k) - i = k
    BY <1>2
  <2>2. t[i + k] = mid[(i + k) - i]
    BY <1>2, <2>1
  <2> QED  BY <2>1, <2>2 DEF Elems
<1>6. ASSUME NEW k \in j .. Len(s) PROVE s[k] \in Elems(t)
  <2> DEFINE m == k + i + n - j + 1
  <2>1. m \in 1 .. Len(t) /\ m \in i + n + 1 .. Len(t) /\ m - i - n + j - 1 = k
    BY <1>2
  <2> HIDE DEF m
  <2>2. t[m] = s[m - i - n + j - 1]
    BY <1>2, <2>1
  <2> QED  BY <2>1, <2>2 DEF Elems
<1>7. Elems(t) \subseteq A \cup Elems(mid) \cup C
  BY <1>3 DEF Elems
<1>8. A \subseteq Elems(t) /\ C \subseteq Elems(t)
  BY <1>4, <1>6
<1>9. Elems(mid) \subseteq Elems(t)
  BY <1>1, <1>5 DEF Elems
<1> QED  BY <1>1, <1>7, <1>8, <1>9 DEF frontOf, backOf

(* There are d bytes or more between them.                                 *)
Gaps(s, d) == \A m, n \in 1 .. Len(s) : m < n => holeEnd(s[m]) + d <= s[n].addr

LEMMA GapsFacts ==
  ASSUME NEW s \in Seq(Hole)
  PROVE  (Ordered(s) <=> Gaps(s, 0)) /\ (Ordered(s) /\ ApartBut(s, {}) <=> Gaps(s, 1))
<1>0. Len(s) \in Nat /\ \A n \in 1 .. Len(s) : s[n].addr \in Nat /\ s[n].size \in Nat /\ holeEnd(s[n]) = s[n].addr + s[n].size
  <2>1. Len(s) \in Nat /\ \A n \in 1 .. Len(s) : s[n] \in Hole
    BY LenProperties, ElementOfSeq
  <2> QED  BY <2>1 DEF Hole, holeEnd
<1>1. \A n \in 1 .. Len(s) : holeEnd(s[n]) \in Nat
  BY <1>0
<1>2. Ordered(s) <=> Gaps(s, 0)
  BY <1>0, <1>1, SMTT(60) DEF Ordered, Gaps
<1>3. ASSUME Ordered(s), ApartBut(s, {}), NEW m \in 1 .. Len(s), NEW n \in 1 .. Len(s), m < n
      PROVE  holeEnd(s[m]) + 1 <= s[n].addr
  <2>1. m \in 1 .. Len(s) - 1 /\ m + 1 \in 1 .. Len(s)
    BY <1>0, <1>3
  <2>2. holeEnd(s[m]) < s[m + 1].addr
    BY <1>3, <2>1 DEF ApartBut
  <2>3. CASE n = m + 1
    BY <1>0, <2>1, <2>2, <2>3
  <2>4. CASE m + 1 < n
    <3>1. holeEnd(s[m + 1]) <= s[n].addr
      BY <1>3, <2>1, <2>4 DEF Ordered
    <3>2. s[m + 1].addr \in Nat /\ s[m + 1].size \in Nat /\ holeEnd(s[m + 1]) = s[m + 1].addr + s[m + 1].size
      BY <1>0, <2>1
    <3>3. holeEnd(s[m]) \in Nat /\ s[n].addr \in Nat
      BY <1>0, <1>1
    <3> QED  BY <2>2, <3>1, <3>2, <3>3
  <2> QED  BY <1>3, <2>1, <2>3, <2>4
<1>4. ASSUME Gaps(s, 1), NEW n \in 1 .. Len(s) - 1 PROVE holeEnd(s[n]) < s[n + 1].addr
  <2>1. n \in 1 .. Len(s) /\ n + 1 \in 1 .. Len(s) /\ n < n + 1
    BY <1>0
  <2>2. holeEnd(s[n]) + 1 <= s[n + 1].addr
    BY <1>4, <2>1 DEF Gaps
  <2> QED  BY <1>0, <1>1, <2>1, <2>2
<1>5. ASSUME Gaps(s, 1), NEW m \in 1 .. Len(s), NEW n \in 1 .. Len(s), m < n
      PROVE  holeEnd(s[m]) <= s[n].addr
  <2>1. holeEnd(s[m]) + 1 <= s[n].addr
    BY <1>5 DEF Gaps
  <2> QED  BY <1>0, <1>1, <2>1
<1>6. Ordered(s) /\ ApartBut(s, {}) => Gaps(s, 1)
  BY <1>3 DEF Gaps
<1>7. Gaps(s, 1) => Ordered(s) /\ ApartBut(s, {})
  BY <1>4, <1>5 DEF Ordered, ApartBut
<1> QED  BY <1>2, <1>6, <1>7

(* A list stays in order when holes are replaced by others of their place. *)
LEMMA SpliceGaps ==
  ASSUME NEW s \in Seq(Hole), NEW mid \in Seq(Hole), NEW i \in 0 .. Len(s), NEW j \in i + 1 .. Len(s) + 1,
         NEW d, Gaps(s, d), Gaps(mid, d),
         \A m \in 1 .. Len(mid) : /\ \A k \in 1 .. i : holeEnd(s[k]) + d <= mid[m].addr
                                  /\ \A k \in j .. Len(s) : holeEnd(mid[m]) + d <= s[k].addr
  PROVE  Gaps(splice(s, i, mid, j), d)
<1>0. PICK t, n : t = splice(s, i, mid, j) /\ n = Len(mid)
  OBVIOUS
<1>a. Spliced(t, s, i, n, mid, j)
  BY <1>0, SpliceFacts
<1>1. /\ Len(t) = i + n + (Len(s) - j + 1) /\ n \in Nat /\ Len(s) - j + 1 \in Nat /\ Len(s) \in Nat
      /\ \A k \in 1 .. i : t[k] = s[k]
      /\ \A k \in i + 1 .. i + n : t[k] = mid[k - i]
      /\ \A k \in i + n + 1 .. Len(t) : t[k] = s[k - i - n + j - 1]
  BY <1>a DEF Spliced
<1>2. SUFFICES ASSUME NEW p \in 1 .. Len(t), NEW q \in 1 .. Len(t), p < q
               PROVE  holeEnd(t[p]) + d <= t[q].addr
  BY <1>0 DEF Gaps
<1>3. ASSUME NEW k \in 1 .. Len(t), k > i, k <= i + n PROVE k - i \in 1 .. n /\ t[k] = mid[k - i]
  <2>1. i \in Int /\ n \in Int /\ k \in Int
    BY <1>1
  <2>2. k \in i + 1 .. i + n /\ k - i \in 1 .. n
    BY <1>3, <2>1
  <2> QED  BY <1>1, <2>2
<1>4. ASSUME NEW k \in 1 .. Len(t), k > i + n
      PROVE  k - i - n + j - 1 \in j .. Len(s) /\ t[k] = s[k - i - n + j - 1]
  BY <1>1, <1>4
<1>5. CASE q <= i
  <2>1. p \in 1 .. i /\ q \in 1 .. i /\ p \in 1 .. Len(s) /\ q \in 1 .. Len(s)
    BY <1>1, <1>2, <1>5
  <2> QED  BY <1>1, <1>2, <2>1 DEF Gaps
<1>6. CASE p <= i /\ q > i /\ q <= i + n
  <2>1. p \in 1 .. i /\ t[p] = s[p]
    BY <1>1, <1>6
  <2> QED  BY <1>0, <1>3, <1>6, <2>1
<1>7. CASE p <= i /\ q > i + n
  <2>1. t[q] = s[q - i - n + j - 1] /\ q - i - n + j - 1 \in j .. Len(s)
    BY <1>4, <1>7
  <2>2. t[p] = s[p] /\ p \in 1 .. Len(s) /\ q - i - n + j - 1 \in 1 .. Len(s) /\ p < q - i - n + j - 1
    BY <1>1, <1>7, <2>1
  <2> QED  BY <2>1, <2>2 DEF Gaps
<1>8. CASE p > i /\ q <= i + n
  <2>1. p <= i + n /\ q > i
    BY <1>1, <1>2, <1>8
  <2>2. p - i \in 1 .. n /\ t[p] = mid[p - i] /\ q - i \in 1 .. n /\ t[q] = mid[q - i] /\ p - i < q - i
    BY <1>2, <1>3, <1>8, <2>1
  <2> QED  BY <1>0, <2>2 DEF Gaps
<1>9. CASE p > i /\ p <= i + n /\ q > i + n
  <2>1. p - i \in 1 .. n /\ t[p] = mid[p - i]
    BY <1>3, <1>9
  <2>2. t[q] = s[q - i - n + j - 1] /\ q - i - n + j - 1 \in j .. Len(s)
    BY <1>4, <1>9
  <2> QED  BY <1>0, <2>1, <2>2
<1>10. CASE p > i + n
  <2>1. q > i + n
    BY <1>1, <1>2, <1>10
  <2>2. /\ t[p] = s[p - i - n + j - 1] /\ p - i - n + j - 1 \in j .. Len(s)
        /\ t[q] = s[q - i - n + j - 1] /\ q - i - n + j - 1 \in j .. Len(s)
    BY <1>4, <1>10, <2>1
  <2>3. /\ p - i - n + j - 1 \in 1 .. Len(s) /\ q - i - n + j - 1 \in 1 .. Len(s)
        /\ p - i - n + j - 1 < q - i - n + j - 1
    BY <1>1, <1>2, <2>2
  <2> QED  BY <2>2, <2>3 DEF Gaps
<1> QED  BY <1>1, <1>5, <1>6, <1>7, <1>8, <1>9, <1>10

LEMMA SpliceOrdered ==
  ASSUME NEW s \in Seq(Hole), NEW mid \in Seq(Hole), NEW i \in 0 .. Len(s), NEW j \in i + 1 .. Len(s) + 1,
         Ordered(s), Ordered(mid),
         \A m \in 1 .. Len(mid) : /\ \A k \in 1 .. i : holeEnd(s[k]) <= mid[m].addr
                                  /\ \A k \in j .. Len(s) : holeEnd(mid[m]) <= s[k].addr
  PROVE  Ordered(splice(s, i, mid, j))
<1>0. Len(s) \in Nat /\ Len(mid) \in Nat /\ (\A n \in 1 .. Len(s) : s[n] \in Hole) /\ \A n \in 1 .. Len(mid) : mid[n] \in Hole
  BY LenProperties, ElementOfSeq
<1>1. /\ \A n \in 1 .. Len(s) : holeEnd(s[n]) \in Nat
      /\ \A n \in 1 .. Len(mid) : holeEnd(mid[n]) \in Nat
  <2>1. \A h \in Hole : holeEnd(h) \in Nat
    BY DEF Hole, holeEnd
  <2> QED  BY <1>0, <2>1
<1>2. Gaps(s, 0) /\ Gaps(mid, 0)
  BY GapsFacts
<1>3. \A m \in 1 .. Len(mid) : /\ \A k \in 1 .. i : holeEnd(s[k]) + 0 <= mid[m].addr
                               /\ \A k \in j .. Len(s) : holeEnd(mid[m]) + 0 <= s[k].addr
  <2>1. \A k \in 1 .. i : k \in 1 .. Len(s)
    BY <1>0
  <2> QED  BY <1>1, <2>1
<1>4. Gaps(splice(s, i, mid, j), 0)
  BY <1>2, <1>3, SpliceGaps
<1>5. splice(s, i, mid, j) \in Seq(Hole)
  BY SpliceFacts
<1> QED  BY <1>4, <1>5, GapsFacts

-----------------------------------------------------------------------------
(* Merging.                                                                *)

Cover(s) == UNION {Bytes(h.addr, h.size) : h \in Elems(s)}

(* The holes of s are well made, lie between bottom and end and are in     *)
(* order.                                                                  *)
ListOf(s, bottom, end) ==
  s \in Seq(Hole) /\ (\A n \in 1 .. Len(s) : Placed(s[n], bottom, end)) /\ Ordered(s)

(* Behind the hole there is nothing below top or room for a node.          *)
Room(h, top) == holeEnd(h) < top => holeEnd(h) + min_size <= top
AllRoom(s, top) == \A n \in 1 .. Len(s) : Room(s[n], top)

LEMMA OneElement ==
  ASSUME NEW h \in Hole
  PROVE  <<h>> \in Seq(Hole) /\ Len(<<h>>) = 1 /\ <<h>>[1] = h /\ Elems(<<h>>) = {h} /\ Ordered(<<h>>)
<1>1. <<h>> \in Seq(Hole) /\ Len(<<h>>) = 1 /\ <<h>>[1] = h
  OBVIOUS
<1>2. 1 .. 1 = {1}
  OBVIOUS
<1>3. Elems(<<h>>) = {h}
  BY <1>1, <1>2 DEF Elems
<1>4. Ordered(<<h>>)
  BY <1>1 DEF Ordered
<1> QED  BY <1>1, <1>3, <1>4

(* The hole that takes the place of two, of the nth and the next.          *)
join(g, h) == [addr |-> g.addr, size |-> g.size + h.size]
joined(s, n) == join(s[n], s[n + 1])

LEMMA JoinedPlaced ==
  ASSUME NEW g, NEW h, NEW b, NEW e, Placed(g, b, e), Placed(h, b, e), holeEnd(g) = h.addr
  PROVE  /\ Placed(join(g, h), b, e) /\ holeEnd(join(g, h)) = holeEnd(h) /\ join(g, h).addr = g.addr
         /\ Bytes(join(g, h).addr, join(g, h).size) = Bytes(g.addr, g.size) \cup Bytes(h.addr, h.size)
<1> DEFINE j == join(g, h)
<1>1. /\ g.addr \in Nat /\ g.size \in Nat /\ h.addr \in Nat /\ h.size \in Nat /\ h.addr = g.addr + g.size
      /\ g.size \in Int /\ h.size \in Int
  BY DEF Placed, Hole, holeEnd
<1>2. isAligned(g.size + h.size)
  BY <1>1, ModSum, HoleListAssumption DEF Placed, isAligned
<1>3. j \in Hole /\ j.addr = g.addr /\ j.size = g.size + h.size
  BY <1>1 DEF Hole, join
<1> HIDE DEF j
<1>4. holeEnd(j) = holeEnd(h)
  BY <1>1, <1>3 DEF holeEnd
<1>5. j.size >= min_size
  BY <1>1, <1>3, MinSize DEF Placed
<1>6. Bytes(j.addr, j.size) = Bytes(g.addr, g.size) \cup Bytes(h.addr, h.size)
  <2>1. Bytes(g.addr, g.size + h.size) = Bytes(g.addr, g.size) \cup Bytes(g.addr + g.size, h.size)
    BY <1>1 DEF Bytes
  <2> QED  BY <1>1, <1>3, <2>1, Zenon
<1> QED  BY <1>1, <1>2, <1>3, <1>4, <1>5, <1>6 DEF Placed, j

(* F has the cursors of E once the nth and the next are one.               *)
afterMerge(E, n, F) == \A k \in Nat : (k < n /\ k \in E) \/ (k >= n /\ k + 1 \in E) => k \in F

LEMMA MergeNext ==
  ASSUME NEW s, NEW b, NEW e, ListOf(s, b, e), NEW top, AllRoom(s, top), NEW E,
         NEW n \in 1 .. Len(s) - 1, ApartBut(s, E), holeEnd(s[n]) = s[n + 1].addr,
         NEW t, t = splice(s, n - 1, <<joined(s, n)>>, n + 2),
         NEW F, afterMerge(E, n, F)
  PROVE  /\ ListOf(t, b, e) /\ AllRoom(t, top) /\ Cover(t) = Cover(s) /\ Len(t) = Len(s) - 1
         /\ ApartBut(t, F)
<1> DEFINE j == joined(s, n)
           i == n - 1
<1>0. s \in Seq(Hole) /\ Len(s) \in Nat /\ n \in 1 .. Len(s) /\ n + 1 \in 1 .. Len(s)
      /\ i \in 0 .. Len(s) /\ n + 2 \in i + 1 .. Len(s) + 1
  BY LenProperties DEF ListOf
<1>1. Placed(s[n], b, e) /\ Placed(s[n + 1], b, e)
  BY <1>0 DEF ListOf
<1>2. /\ Placed(j, b, e) /\ holeEnd(j) = holeEnd(s[n + 1]) /\ j.addr = s[n].addr
      /\ Bytes(j.addr, j.size) = Bytes(s[n].addr, s[n].size) \cup Bytes(s[n + 1].addr, s[n + 1].size)
  BY <1>1, JoinedPlaced, Zenon DEF joined
<1> HIDE DEF j, i
<1>3. j \in Hole /\ <<j>> \in Seq(Hole) /\ Len(<<j>>) = 1 /\ <<j>>[1] = j /\ Elems(<<j>>) = {j} /\ Ordered(<<j>>)
  BY <1>2, OneElement DEF Placed
<1>t. t = splice(s, i, <<j>>, n + 2)
  BY DEF i, j
<1>4. t \in Seq(Hole) /\ Spliced(t, s, i, 1, <<j>>, n + 2)
  BY <1>0, <1>3, <1>t, SpliceFacts
<1>5. /\ Len(t) = Len(s) - 1
      /\ \A k \in 1 .. n - 1 : t[k] = s[k]
      /\ t[n] = j
      /\ \A k \in n + 1 .. Len(t) : t[k] = s[k + 1]
  <2>1. Len(t) = i + 1 + (Len(s) - (n + 2) + 1)
    BY <1>4 DEF Spliced
  <2>2. Len(t) = Len(s) - 1
    BY <1>0, <2>1 DEF i
  <2>3. \A k \in 1 .. n - 1 : t[k] = s[k]
    BY <1>4 DEF Spliced, i
  <2>4. n \in i + 1 .. i + 1 /\ n - i = 1
    BY <1>0 DEF i
  <2>5. t[n] = j
    BY <1>3, <1>4, <2>4 DEF Spliced
  <2>6. ASSUME NEW k \in n + 1 .. Len(t) PROVE t[k] = s[k + 1]
    <3>1. k \in i + 1 + 1 .. Len(t) /\ k - i - 1 + (n + 2) - 1 = k + 1
      BY <1>0, <2>2 DEF i
    <3> QED  BY <1>4, <3>1 DEF Spliced
  <2> QED  BY <2>2, <2>3, <2>5, <2>6
<1>6. ASSUME NEW k \in 1 .. Len(t)
      PROVE  \/ k \in 1 .. n - 1 /\ t[k] = s[k] /\ k \in 1 .. Len(s)
             \/ k = n /\ t[k] = j
             \/ k \in n + 1 .. Len(t) /\ t[k] = s[k + 1] /\ k + 1 \in 1 .. Len(s)
  BY <1>0, <1>5, SMTT(60)
<1>7. \A k \in 1 .. Len(t) : Placed(t[k], b, e)
  BY <1>2, <1>6 DEF ListOf
<1>8. AllRoom(t, top)
  BY <1>0, <1>2, <1>6 DEF AllRoom, Room
<1>9. Ordered(t)
  <2>1. ASSUME NEW k \in 1 .. i PROVE holeEnd(s[k]) <= j.addr
    BY <1>0, <1>2 DEF ListOf, Ordered, i
  <2>2. ASSUME NEW k \in n + 2 .. Len(s) PROVE holeEnd(j) <= s[k].addr
    <3>1. n + 1 \in 1 .. Len(s) /\ k \in 1 .. Len(s) /\ n + 1 < k
      BY <1>0
    <3> QED  BY <1>2, <3>1 DEF ListOf, Ordered
  <2>3. \A m \in 1 .. Len(<<j>>) : /\ \A k \in 1 .. i : holeEnd(s[k]) <= <<j>>[m].addr
                                   /\ \A k \in n + 2 .. Len(s) : holeEnd(<<j>>[m]) <= s[k].addr
    <3>1. \A m \in 1 .. Len(<<j>>) : m = 1
      BY <1>3
    <3> QED  BY <1>3, <2>1, <2>2, <3>1
  <2> QED  BY <1>0, <1>3, <1>t, <2>3, SpliceOrdered DEF ListOf
<1>10. Cover(t) = Cover(s)
  <2>1. Elems(t) = frontOf(s, i) \cup {j} \cup backOf(s, n + 2)
    <3>1. Elems(t) = frontOf(s, i) \cup Elems(<<j>>) \cup backOf(s, n + 2)
      <4>1. PICK mid \in Seq(Hole), m \in i + 1 .. Len(s) + 1 : mid = <<j>> /\ m = n + 2
        BY <1>0, <1>3
      <4>2. s \in Seq(Hole) /\ i \in 0 .. Len(s)
        BY <1>0
      <4>3. Elems(splice(s, i, mid, m)) = frontOf(s, i) \cup Elems(mid) \cup backOf(s, m)
        BY <4>2, SpliceElems, ZenonT(60)
      <4> QED  BY <1>t, <4>1, <4>3, Zenon
    <3> QED  BY <1>3, <3>1, Zenon
  <2>2. Elems(s) = frontOf(s, i) \cup {s[n], s[n + 1]} \cup backOf(s, n + 2)
    <3>1. 1 .. Len(s) = (1 .. i) \cup {n, n + 1} \cup (n + 2 .. Len(s))
      BY <1>0 DEF i
    <3> QED  BY <3>1 DEF Elems, frontOf, backOf
  <2> QED  BY <1>2, <2>1, <2>2, ZenonT(60) DEF Cover
<1>11. ASSUME NEW k \in 1 .. Len(t) - 1
       PROVE  (k < n /\ k \in E) \/ (k >= n /\ k + 1 \in E) \/ holeEnd(t[k]) < t[k + 1].addr
  <2>1. CASE k + 1 < n
    <3>1. k \in 1 .. n - 1 /\ k + 1 \in 1 .. n - 1 /\ k \in 1 .. Len(s) - 1
      BY <1>0, <2>1
    <3> QED  BY <1>5, <2>1, <3>1 DEF ApartBut
  <2>2. CASE k + 1 = n
    <3>1. k \in 1 .. n - 1 /\ k \in 1 .. Len(s) - 1 /\ k < n
      BY <1>0, <2>2
    <3>2. t[k] = s[k] /\ t[k + 1] = j /\ j.addr = s[k + 1].addr
      BY <1>2, <1>5, <2>2, <3>1
    <3> QED  BY <3>1, <3>2 DEF ApartBut
  <2>3. CASE k = n
    <3>1. k + 1 \in n + 1 .. Len(t) /\ k + 1 \in 1 .. Len(s) - 1 /\ k >= n
      BY <1>0, <1>5, <2>3
    <3>2. t[k] = j /\ t[k + 1] = s[k + 1 + 1] /\ holeEnd(j) = holeEnd(s[k + 1])
      BY <1>2, <1>5, <2>3, <3>1
    <3> QED  BY <3>1, <3>2 DEF ApartBut
  <2>4. CASE k > n
    <3>1. k \in n + 1 .. Len(t) /\ k + 1 \in n + 1 .. Len(t) /\ k + 1 \in 1 .. Len(s) - 1 /\ k >= n
      BY <1>0, <1>5, <2>4
    <3>2. t[k] = s[k + 1] /\ t[k + 1] = s[k + 1 + 1]
      BY <1>5, <3>1
    <3> QED  BY <3>1, <3>2 DEF ApartBut
  <2> QED  BY <1>0, <2>1, <2>2, <2>3, <2>4
<1>12. ApartBut(t, F)
  <2>1. \A k \in 1 .. Len(t) - 1 : k \in Nat
    BY <1>0, <1>5
  <2> QED  BY <1>11, <2>1 DEF ApartBut, afterMerge
<1> QED  BY <1>4, <1>5, <1>7, <1>8, <1>9, <1>10, <1>12 DEF ListOf

(* A turn at a cursor where the hole may touch the next, and the next the  *)
(* one behind it.                                                          *)
LEMMA FirstTurn ==
  ASSUME NEW s, NEW b, NEW e, ListOf(s, b, e), NEW top, AllRoom(s, top),
         NEW n \in 1 .. Len(s) - 1, ApartBut(s, {n, n + 1})
  PROVE  \E t, m : /\ mergeTurn([holes |-> s, at |-> n, done |-> FALSE], top)
                        = [holes |-> t, at |-> m, done |-> FALSE]
                   /\ ListOf(t, b, e) /\ AllRoom(t, top) /\ Cover(t) = Cover(s)
                   /\ m \in 1 .. Len(t) /\ ApartBut(t, {m})
<1> DEFINE c == [holes |-> s, at |-> n, done |-> FALSE]
<1>0. s \in Seq(Hole) /\ Len(s) \in Nat /\ n \in 1 .. Len(s) /\ n < Len(s) /\ n # Len(s) /\ n + 1 \in 1 .. Len(s)
  BY LenProperties DEF ListOf
<1>1. CASE holeEnd(s[n]) = s[n + 1].addr
  <2> DEFINE t == splice(s, n - 1, <<joined(s, n)>>, n + 2)
  <2>1. mergeTurn(c, top) = [holes |-> t, at |-> n, done |-> FALSE]
    BY <1>0, <1>1 DEF mergeTurn, splice, joined, join
  <2>2. ListOf(t, b, e) /\ AllRoom(t, top) /\ Cover(t) = Cover(s) /\ Len(t) = Len(s) - 1 /\ ApartBut(t, {n})
    <3> HIDE DEF t
    <3>1. PICK E, F : E = {n, n + 1} /\ F = {n}
      OBVIOUS
    <3>2. ApartBut(s, E) /\ t = splice(s, n - 1, <<joined(s, n)>>, n + 2)
      BY <3>1 DEF t
    <3>3. afterMerge(E, n, F)
      BY <3>1 DEF afterMerge
    <3>4. ListOf(t, b, e) /\ AllRoom(t, top) /\ Cover(t) = Cover(s) /\ Len(t) = Len(s) - 1 /\ ApartBut(t, F)
      BY <1>1, <3>2, <3>3, MergeNext
    <3> QED  BY <3>1, <3>4
  <2>3. n \in 1 .. Len(t)
    BY <1>0, <2>2
  <2> HIDE DEF t
  <2> QED  BY <2>1, <2>2, <2>3
<1>2. CASE holeEnd(s[n]) # s[n + 1].addr
  <2>1. mergeTurn(c, top) = [holes |-> s, at |-> n + 1, done |-> FALSE]
    BY <1>0, <1>2 DEF mergeTurn
  <2>2. holeEnd(s[n]) < s[n + 1].addr
    <3>1. holeEnd(s[n]) <= s[n + 1].addr
      BY <1>0 DEF ListOf, Ordered
    <3>2. holeEnd(s[n]) \in Int /\ s[n + 1].addr \in Int
      BY <1>0 DEF ListOf, Placed, Hole, holeEnd
    <3> QED  BY <1>2, <3>1, <3>2
  <2>3. ApartBut(s, {n + 1})
    BY <2>2 DEF ApartBut
  <2> QED  BY <1>0, <2>1, <2>3
<1> QED  BY <1>1, <1>2

(* A turn at a cursor where the hole may touch the next.                   *)
LEMMA LastTurn ==
  ASSUME NEW s, NEW b, NEW e, ListOf(s, b, e), NEW top \in Nat, AllRoom(s, top),
         NEW n \in 1 .. Len(s), ApartBut(s, {n})
  PROVE  \E t : /\ mergeTurn([holes |-> s, at |-> n, done |-> FALSE], top).holes = t
                /\ ListOf(t, b, e) /\ Cover(t) = Cover(s) /\ ApartBut(t, {})
<1> DEFINE c == [holes |-> s, at |-> n, done |-> FALSE]
<1>0. s \in Seq(Hole) /\ Len(s) \in Nat
  BY LenProperties DEF ListOf
<1>1. CASE n = Len(s)
  <2>1. check_merge_top(s[n], top) = s[n]
    BY NotStretched DEF ListOf, Placed, AllRoom, Room
  <2>2. mergeTurn(c, top).holes = [s EXCEPT ![n] = check_merge_top(s[n], top)]
    <3>1. mergeTurn(c, top) = [c EXCEPT !.holes[n] = check_merge_top(@, top), !.done = TRUE]
      BY <1>1 DEF mergeTurn
    <3> QED  BY <3>1
  <2>3. [s EXCEPT ![n] = s[n]] = s
    BY <1>0
  <2>4. ApartBut(s, {})
    BY <1>0, <1>1 DEF ApartBut
  <2> QED  BY <2>1, <2>2, <2>3, <2>4
<1>2. CASE n # Len(s) /\ holeEnd(s[n]) = s[n + 1].addr
  <2> DEFINE t == splice(s, n - 1, <<joined(s, n)>>, n + 2)
  <2>0. n \in 1 .. Len(s) - 1 /\ n < Len(s)
    BY <1>0, <1>2
  <2>1. mergeTurn(c, top).holes = t
    BY <1>2, <2>0 DEF mergeTurn, splice, joined, join
  <2>2. ListOf(t, b, e) /\ Cover(t) = Cover(s) /\ ApartBut(t, {})
    <3> HIDE DEF t
    <3>1. PICK E, F : E = {n} /\ F = {}
      OBVIOUS
    <3>2. ApartBut(s, E) /\ t = splice(s, n - 1, <<joined(s, n)>>, n + 2)
      BY <3>1 DEF t
    <3>3. afterMerge(E, n, F)
      BY <3>1 DEF afterMerge
    <3>4. ListOf(t, b, e) /\ Cover(t) = Cover(s) /\ ApartBut(t, F)
      BY <1>2, <2>0, <3>2, <3>3, MergeNext
    <3> QED  BY <3>1, <3>4
  <2> HIDE DEF t
  <2> QED  BY <2>1, <2>2
<1>3. CASE n # Len(s) /\ holeEnd(s[n]) # s[n + 1].addr
  <2>0. n \in 1 .. Len(s) - 1 /\ n < Len(s) /\ n + 1 \in 1 .. Len(s)
    BY <1>0, <1>3
  <2>1. mergeTurn(c, top).holes = s
    BY <1>3, <2>0 DEF mergeTurn
  <2>2. holeEnd(s[n]) < s[n + 1].addr
    <3>1. holeEnd(s[n]) <= s[n + 1].addr
      BY <2>0 DEF ListOf, Ordered
    <3>2. holeEnd(s[n]) \in Int /\ s[n + 1].addr \in Int
      BY <2>0 DEF ListOf, Placed, Hole, holeEnd
    <3> QED  BY <1>3, <3>1, <3>2
  <2>3. ApartBut(s, {})
    BY <2>2 DEF ApartBut
  <2> QED  BY <2>1, <2>3
<1> QED  BY <1>1, <1>2, <1>3

(* A hole is put behind the nth.                                           *)
InsertedAt(t, s, b, e, top, n, h) ==
  /\ ListOf(t, b, e) /\ AllRoom(t, top) /\ Cover(t) = Cover(s) \cup Bytes(h.addr, h.size)
  /\ Len(t) = Len(s) + 1 /\ ApartBut(t, {n, n + 1})

LEMMA Inserted ==
  ASSUME NEW s, NEW b, NEW e, ListOf(s, b, e), NEW top, AllRoom(s, top), ApartBut(s, {}),
         NEW n \in 0 .. Len(s), NEW h, Placed(h, b, e), Room(h, top),
         n # 0 => holeEnd(s[n]) <= h.addr, n # Len(s) => holeEnd(h) <= s[n + 1].addr,
         NEW t, t = splice(s, n, <<h>>, n + 1)
  PROVE  InsertedAt(t, s, b, e, top, n, h)
<1>0. s \in Seq(Hole) /\ Len(s) \in Nat /\ n + 1 \in n + 1 .. Len(s) + 1
  BY LenProperties DEF ListOf
<1>3. h \in Hole /\ <<h>> \in Seq(Hole) /\ Len(<<h>>) = 1 /\ <<h>>[1] = h /\ Elems(<<h>>) = {h} /\ Ordered(<<h>>)
  BY OneElement DEF Placed
<1>4. t \in Seq(Hole) /\ Spliced(t, s, n, 1, <<h>>, n + 1)
  BY <1>0, <1>3, SpliceFacts
<1>5. /\ Len(t) = Len(s) + 1
      /\ \A k \in 1 .. n : t[k] = s[k]
      /\ t[n + 1] = h
      /\ \A k \in n + 2 .. Len(t) : t[k] = s[k - 1]
  <2>1. Len(t) = n + 1 + (Len(s) - (n + 1) + 1)
    BY <1>4 DEF Spliced
  <2>2. Len(t) = Len(s) + 1
    BY <1>0, <2>1
  <2>3. \A k \in 1 .. n : t[k] = s[k]
    BY <1>4 DEF Spliced
  <2>4. n + 1 \in n + 1 .. n + 1 /\ (n + 1) - n = 1
    BY <1>0
  <2>5. t[n + 1] = h
    BY <1>3, <1>4, <2>4 DEF Spliced
  <2>6. ASSUME NEW k \in n + 2 .. Len(t) PROVE t[k] = s[k - 1]
    <3>1. k \in n + 1 + 1 .. Len(t) /\ k - n - 1 + (n + 1) - 1 = k - 1
      BY <1>0, <2>2
    <3> QED  BY <1>4, <3>1 DEF Spliced
  <2> QED  BY <2>2, <2>3, <2>5, <2>6
<1>6. ASSUME NEW k \in 1 .. Len(t)
      PROVE  \/ k \in 1 .. n /\ t[k] = s[k] /\ k \in 1 .. Len(s)
             \/ k = n + 1 /\ t[k] = h
             \/ k \in n + 2 .. Len(t) /\ t[k] = s[k - 1] /\ k - 1 \in 1 .. Len(s)
  BY <1>0, <1>5
<1>7. \A k \in 1 .. Len(t) : Placed(t[k], b, e)
  BY <1>6 DEF ListOf
<1>8. AllRoom(t, top)
  BY <1>6 DEF AllRoom
<1>9. Ordered(t)
  <2>0. \A k \in 1 .. Len(s) : s[k].addr \in Nat /\ s[k].size \in Nat /\ holeEnd(s[k]) = s[k].addr + s[k].size
    BY DEF ListOf, Placed, Hole, holeEnd
  <2>1. ASSUME NEW k \in 1 .. n PROVE holeEnd(s[k]) <= h.addr
    <3>1. n # 0 /\ n \in 1 .. Len(s) /\ k \in 1 .. Len(s)
      BY <1>0
    <3>2. CASE k = n
      BY <3>1, <3>2
    <3>3. CASE k < n
      <4>1. holeEnd(s[k]) <= s[n].addr
        BY <3>1, <3>3 DEF ListOf, Ordered
      <4>2. h.addr \in Nat /\ s[n].addr <= holeEnd(s[n]) /\ holeEnd(s[n]) <= h.addr
        BY <1>3, <2>0, <3>1 DEF Hole
      <4>3. holeEnd(s[k]) \in Nat /\ holeEnd(s[n]) \in Nat /\ s[n].addr \in Nat
        BY <2>0, <3>1
      <4> QED  BY <4>1, <4>2, <4>3
    <3> QED  BY <3>2, <3>3
  <2>2. ASSUME NEW k \in n + 1 .. Len(s) PROVE holeEnd(h) <= s[k].addr
    <3>1. n # Len(s) /\ n + 1 \in 1 .. Len(s) /\ k \in 1 .. Len(s)
      BY <1>0
    <3>2. CASE k = n + 1
      BY <3>1, <3>2
    <3>3. CASE k > n + 1
      <4>1. holeEnd(s[n + 1]) <= s[k].addr
        BY <3>1, <3>3 DEF ListOf, Ordered
      <4>2. h.addr \in Nat /\ h.size \in Nat /\ holeEnd(h) = h.addr + h.size
        BY <1>3 DEF Hole, holeEnd
      <4> QED  BY <2>0, <3>1, <4>1, <4>2, SMTT(60)
    <3> QED  BY <3>2, <3>3
  <2>3. \A m \in 1 .. Len(<<h>>) : /\ \A k \in 1 .. n : holeEnd(s[k]) <= <<h>>[m].addr
                                   /\ \A k \in n + 1 .. Len(s) : holeEnd(<<h>>[m]) <= s[k].addr
    <3>1. \A m \in 1 .. Len(<<h>>) : m = 1
      BY <1>3
    <3> QED  BY <1>3, <2>1, <2>2, <3>1
  <2> QED  BY <1>0, <1>3, <2>3, SpliceOrdered DEF ListOf
<1>10. Cover(t) = Cover(s) \cup Bytes(h.addr, h.size)
  <2>1. Elems(t) = frontOf(s, n) \cup {h} \cup backOf(s, n + 1)
    <3>1. PICK mid \in Seq(Hole), m \in n + 1 .. Len(s) + 1 : mid = <<h>> /\ m = n + 1
      BY <1>0, <1>3
    <3>2. s \in Seq(Hole) /\ n \in 0 .. Len(s)
      BY <1>0
    <3>3. Elems(splice(s, n, mid, m)) = frontOf(s, n) \cup Elems(mid) \cup backOf(s, m)
      BY <3>2, SpliceElems, ZenonT(60)
    <3> QED  BY <1>3, <3>1, <3>3, Zenon
  <2>2. Elems(s) = frontOf(s, n) \cup backOf(s, n + 1)
    <3>1. 1 .. Len(s) = (1 .. n) \cup (n + 1 .. Len(s))
      BY <1>0
    <3> QED  BY <3>1 DEF Elems, frontOf, backOf
  <2> QED  BY <2>1, <2>2, Zenon DEF Cover
<1>11. ASSUME NEW k \in 1 .. Len(t) - 1
       PROVE  k \in {n, n + 1} \/ holeEnd(t[k]) < t[k + 1].addr
  <2>1. CASE k < n
    <3>1. k \in 1 .. n /\ k + 1 \in 1 .. n /\ k \in 1 .. Len(s) - 1
      BY <1>0, <2>1
    <3> QED  BY <1>5, <3>1 DEF ApartBut
  <2>2. CASE k > n + 1
    <3>1. k \in n + 2 .. Len(t) /\ k + 1 \in n + 2 .. Len(t) /\ k - 1 \in 1 .. Len(s) - 1 /\ (k + 1) - 1 = (k - 1) + 1
      BY <1>0, <1>5, <2>2
    <3>2. t[k] = s[k - 1] /\ t[k + 1] = s[(k - 1) + 1]
      BY <1>5, <3>1
    <3> QED  BY <3>1, <3>2 DEF ApartBut
  <2> QED  BY <1>0, <2>1, <2>2
<1>12. ApartBut(t, {n, n + 1})
  BY <1>11 DEF ApartBut
<1> QED  BY <1>4, <1>5, <1>7, <1>8, <1>9, <1>10, <1>12 DEF ListOf, InsertedAt

-----------------------------------------------------------------------------
(* Deallocation.                                                           *)

LEMMA GreatestBelow ==
  ASSUME NEW n \in Nat, NEW S, S \subseteq 1 .. n, S # {}
  PROVE  \E x \in S : \A y \in S : y <= x
<1> DEFINE T == {n - k : k \in S}
<1>1. T \subseteq Nat /\ T # {}
  <2>1. PICK k \in S : TRUE
    OBVIOUS
  <2>2. n - k \in T
    OBVIOUS
  <2>3. \A j \in S : n - j \in Nat
    OBVIOUS
  <2> QED  BY <2>2, <2>3
<1>2. PICK t \in T : \A u \in T : t <= u
  <2>1. PICK x \in T : \A y \in T : ~(<<y, x>> \in OpToRel(<, Nat))
    BY <1>1, NatLessThanWellFounded, WFMin, Zenon
  <2>2. \A y \in T : ~(y < x)
    BY <1>1, <2>1, Zenon DEF OpToRel
  <2> HIDE DEF T
  <2> QED  BY <1>1, <2>2
<1>3. PICK x \in S : t = n - x
  BY <1>2
<1>4. ASSUME NEW y \in S PROVE y <= x
  <2>1. n - y \in T /\ x \in 1 .. n /\ y \in 1 .. n
    OBVIOUS
  <2> QED  BY <1>2, <1>3, <2>1
<1> QED  BY <1>4

(* The cursors that accept an address are the last ones before it.         *)
LEMMA CursorBefore ==
  ASSUME NEW s, NEW b, NEW e, ListOf(s, b, e), NEW a \in Nat, s # <<>>, a >= s[1].addr
  PROVE  /\ \E n \in 1 .. Len(s) : insertsAfter(s, n, a)
         /\ \A n \in 1 .. Len(s) : insertsAfter(s, n, a) => s[n].addr <= a
<1>0. s \in Seq(Hole) /\ Len(s) \in Nat /\ 1 \in 1 .. Len(s)
      /\ \A n \in 1 .. Len(s) : s[n].addr \in Nat /\ s[n].size \in Nat /\ holeEnd(s[n]) = s[n].addr + s[n].size
  BY LenProperties, EmptySeq DEF ListOf, Placed, Hole, holeEnd
<1>1. PICK n \in {k \in 1 .. Len(s) : s[k].addr <= a} : \A k \in {i \in 1 .. Len(s) : s[i].addr <= a} : k <= n
  <2> DEFINE S == {k \in 1 .. Len(s) : s[k].addr <= a}
  <2>1. S \subseteq 1 .. Len(s) /\ S # {}
    BY <1>0
  <2> HIDE DEF S
  <2>2. \E n \in S : \A k \in S : k <= n
    BY <1>0, <2>1, GreatestBelow
  <2> QED  BY <2>2 DEF S
<1>2. ASSUME n < Len(s) PROVE a < s[n + 1].addr
  <2>1. n + 1 \in 1 .. Len(s) /\ ~(n + 1 <= n)
    BY <1>0, <1>2
  <2>2. ~(s[n + 1].addr <= a)
    BY <1>1, <2>1
  <2> QED  BY <1>0, <2>1, <2>2
<1>3. ASSUME NEW k \in 1 .. n - 1 PROVE a >= s[k + 1].addr
  <2>1. k + 1 \in 1 .. Len(s) /\ n \in 1 .. Len(s)
    BY <1>0
  <2>2. CASE k + 1 < n
    <3>1. holeEnd(s[k + 1]) <= s[n].addr
      BY <2>1, <2>2 DEF ListOf, Ordered
    <3> QED  BY <1>0, <2>1, <3>1
  <2> QED  BY <2>1, <2>2
<1>4. insertsAfter(s, n, a)
  BY <1>2, <1>3 DEF insertsAfter
<1>5. ASSUME NEW m \in 1 .. Len(s), insertsAfter(s, m, a) PROVE s[m].addr <= a
  <2>1. CASE m = 1
    BY <1>0, <2>1
  <2>2. CASE m # 1
    <3>1. m - 1 \in 1 .. m - 1 /\ (m - 1) + 1 = m
      BY <2>2
    <3>2. a >= s[(m - 1) + 1].addr
      BY <1>5, <3>1 DEF insertsAfter
    <3> QED  BY <1>0, <3>1, <3>2
  <2> QED  BY <2>1, <2>2
<1> QED  BY <1>4, <1>5

LEMMA BottomKept ==
  ASSUME NEW h \in Hole, NEW bottom \in Nat, h.addr = bottom \/ bottom + min_size <= h.addr
  PROVE  check_merge_bottom(h, bottom) = h
<1>1. CASE bottom + min_size <= h.addr
  BY <1>1, MinSize DEF check_merge_bottom, Hole
<1>2. CASE h.addr = bottom
  <2>1. h = [addr |-> h.addr, size |-> h.size] /\ h.addr \in Nat /\ h.size \in Nat
    BY DEF Hole
  <2>2. h.size + (h.addr - bottom) = h.size /\ bottom + min_size > h.addr
    BY <1>2, <2>1, MinSize, HoleListAssumption
  <2> QED  BY <1>2, <2>1, <2>2 DEF check_merge_bottom
<1> QED  BY <1>1, <1>2

LEMMA InsertedFirst ==
  ASSUME NEW s \in Seq(Hole), NEW h \in Hole
  PROVE  <<h>> \o s = splice(s, 0, <<h>>, 1)
<1>1. SubSeq(s, 1, 0) = <<>> /\ SubSeq(s, 1, Len(s)) = s
  BY SubSeqEmpty, SubSeqFull
<1>2. <<>> \o <<h>> = <<h>>
  BY ConcatEmptySeq, OneElement
<1> QED  BY <1>1, <1>2 DEF splice

(* Freeing h, apart from the holes, adds its bytes to them, and the        *)
(* assertions of the list hold.                                            *)
LEMMA Deallocated ==
  ASSUME NEW list \in [chain : Seq(Hole), bottom : Nat, top : Nat, pending : Nat], NEW e,
         ListOf(list.chain, list.bottom, e), ApartBut(list.chain, {}), AllRoom(list.chain, list.top),
         NEW h, Placed(h, list.bottom, e), Room(h, list.top),
         h.addr = list.bottom \/ list.bottom + min_size <= h.addr,
         \A n \in 1 .. Len(list.chain) : holeEnd(list.chain[n]) <= h.addr \/ holeEnd(h) <= list.chain[n].addr
  PROVE  /\ ~ bad_free(list, h.addr, h.size)
         /\ \E t : /\ deallocate(list, h.addr, h.size) = [list EXCEPT !.chain = t]
                   /\ ListOf(t, list.bottom, e) /\ ApartBut(t, {})
                   /\ Cover(t) = Cover(list.chain) \cup Bytes(h.addr, h.size)
<1>0. PICK s, b, top : s = list.chain /\ b = list.bottom /\ top = list.top
  OBVIOUS
<1>1. /\ s \in Seq(Hole) /\ Len(s) \in Nat /\ b \in Nat /\ top \in Nat
      /\ ListOf(s, b, e) /\ ApartBut(s, {}) /\ AllRoom(s, top) /\ Placed(h, b, e) /\ Room(h, top)
  BY <1>0, LenProperties
<1>2. /\ h \in Hole /\ h.addr \in Nat /\ h.size \in Nat /\ holeEnd(h) = h.addr + h.size /\ h.size > 0
      /\ h = [addr |-> h.addr, size |-> h.size]
  BY MinSize, HoleListAssumption DEF Placed, Hole, holeEnd
<1>3. \A n \in 1 .. Len(s) : /\ s[n].addr \in Nat /\ s[n].size \in Nat /\ holeEnd(s[n]) = s[n].addr + s[n].size
                             /\ s[n].size > 0
  <2>1. \A n \in 1 .. Len(s) : s[n] \in Hole /\ s[n].size >= min_size
    BY <1>1 DEF ListOf, Placed
  <2> QED  BY <2>1, MinSize, HoleListAssumption DEF Hole, holeEnd
<1>4. \A n \in 1 .. Len(s) : holeEnd(s[n]) <= h.addr \/ holeEnd(h) <= s[n].addr
  BY <1>0
<1>5. ~ bad_free(list, h.addr, h.size)
  <2>1. s # <<>> => 1 \in 1 .. Len(s)
    BY <1>1, EmptySeq
  <2>2. ~(s # <<>> /\ h.addr < s[1].addr /\ h.addr + h.size > s[1].addr)
    BY <1>2, <1>3, <1>4, <2>1
  <2>3. ASSUME s # <<>>, h.addr >= s[1].addr, NEW n \in 1 .. Len(s), insertsAfter(s, n, h.addr),
               (n < Len(s) /\ h.addr + h.size > s[n + 1].addr) \/ holeEnd(s[n]) > h.addr
        PROVE  FALSE
    <3>1. s[n].addr <= h.addr
      BY <1>1, <1>2, <2>3, CursorBefore
    <3>2. holeEnd(s[n]) <= h.addr
      BY <1>2, <1>3, <1>4, <3>1
    <3>3. n < Len(s) /\ h.addr + h.size > s[n + 1].addr
      <4>1. holeEnd(s[n]) \in Nat
        BY <1>3
      <4>2. ~(holeEnd(s[n]) > h.addr)
        BY <1>2, <3>2, <4>1
      <4> QED  BY <2>3, <4>2
    <3>4. n + 1 \in 1 .. Len(s) /\ h.addr < s[n + 1].addr
      BY <1>1, <2>3, <3>3 DEF insertsAfter
    <3>5. /\ s[n + 1].addr \in Nat /\ s[n + 1].size \in Nat /\ holeEnd(s[n + 1]) = s[n + 1].addr + s[n + 1].size
          /\ s[n + 1].size > 0
      BY <1>3, <3>4
    <3>6. holeEnd(s[n + 1]) <= h.addr \/ holeEnd(h) <= s[n + 1].addr
      BY <1>4, <3>4
    <3> QED  BY <1>2, <3>3, <3>4, <3>5, <3>6
  <2> QED  BY <1>0, <2>2, <2>3 DEF bad_free
<1>7. CASE s = <<>>
  <2>1. check_merge_bottom(h, b) = h /\ check_merge_top(h, top) = h
    BY <1>0, <1>1, <1>2, BottomKept, NotStretched DEF Placed, Room
  <2>2. deallocate(list, h.addr, h.size) = [list EXCEPT !.chain = <<h>>]
    BY <1>0, <1>2, <1>7, <2>1 DEF deallocate
  <2>3. <<h>> \in Seq(Hole) /\ Len(<<h>>) = 1 /\ <<h>>[1] = h /\ Elems(<<h>>) = {h} /\ Ordered(<<h>>)
    BY <1>2, OneElement
  <2>4. ListOf(<<h>>, b, e) /\ ApartBut(<<h>>, {})
    BY <1>1, <2>3 DEF ListOf, ApartBut
  <2>5. Elems(s) = {}
    BY <1>7 DEF Elems
  <2>6. Cover(<<h>>) = Cover(s) \cup Bytes(h.addr, h.size)
    BY <2>3, <2>5, Zenon DEF Cover
  <2> QED  BY <1>0, <1>5, <2>2, <2>4, <2>6
<1>8. CASE s # <<>> /\ h.addr < s[1].addr
  <2>0. 1 \in 1 .. Len(s) /\ holeEnd(h) <= s[1].addr
    <3>1. 1 \in 1 .. Len(s)
      BY <1>1, <1>8, EmptySeq
    <3>2. /\ s[1].addr \in Nat /\ s[1].size \in Nat /\ s[1].size > 0 /\ holeEnd(s[1]) = s[1].addr + s[1].size
          /\ holeEnd(s[1]) <= h.addr \/ holeEnd(h) <= s[1].addr
      BY <1>3, <1>4, <3>1
    <3> QED  BY <1>2, <1>8, <3>1, <3>2
  <2>1. check_merge_bottom(h, b) = h
    BY <1>0, <1>1, <1>2, BottomKept
  <2>2. PICK a : a = splice(s, 0, <<h>>, 1) /\ a = <<h>> \o s
    BY <1>1, <1>2, InsertedFirst
  <2>3. PICK n \in 0 .. Len(s) : n = 0
    BY <1>1
  <2>4. a = splice(s, n, <<h>>, n + 1) /\ (n # 0 => holeEnd(s[n]) <= h.addr) /\ (n # Len(s) => holeEnd(h) <= s[n + 1].addr)
    BY <2>0, <2>2, <2>3
  <2>5. /\ ListOf(a, b, e) /\ AllRoom(a, top) /\ Cover(a) = Cover(s) \cup Bytes(h.addr, h.size)
        /\ Len(a) = Len(s) + 1 /\ ApartBut(a, {n, n + 1})
    <3>1. InsertedAt(a, s, b, e, top, n, h)
      BY <1>1, <2>4, Inserted
    <3> QED  BY <3>1 DEF InsertedAt
  <2>6. ApartBut(a, {1}) /\ 1 \in 1 .. Len(a)
    BY <1>1, <2>3, <2>5 DEF ApartBut
  <2>7. PICK t : /\ mergeTurn([holes |-> a, at |-> 1, done |-> FALSE], top).holes = t
                 /\ ListOf(t, b, e) /\ Cover(t) = Cover(a) /\ ApartBut(t, {})
    BY <1>1, <2>5, <2>6, LastTurn
  <2>8. deallocate(list, h.addr, h.size) = [list EXCEPT !.chain = t]
    BY <1>0, <1>2, <1>8, <2>1, <2>2, <2>7 DEF deallocate, try_merge_next_n
  <2> QED  BY <1>0, <1>5, <2>5, <2>7, <2>8
<1>9. CASE s # <<>> /\ ~(h.addr < s[1].addr)
  <2> DEFINE n == CHOOSE k \in 1 .. Len(s) : insertsAfter(s, k, h.addr)
  <2>0. h.addr >= s[1].addr
    <3>1. 1 \in 1 .. Len(s)
      BY <1>1, <1>9, EmptySeq
    <3> QED  BY <1>2, <1>3, <1>9, <3>1
  <2>1. n \in 1 .. Len(s) /\ insertsAfter(s, n, h.addr) /\ s[n].addr <= h.addr
    BY <1>1, <1>2, <1>9, <2>0, CursorBefore
  <2>2. PICK a : a = splice(s, n, <<h>>, n + 1)
    OBVIOUS
  <2>n. deallocate(list, h.addr, h.size) = [list EXCEPT !.chain = try_merge_next_n(a, n, 2, top)]
    BY <1>0, <1>2, <1>9, <2>2 DEF deallocate, splice
  <2> HIDE DEF n
  <2>3. n \in 0 .. Len(s) /\ (n # 0 => holeEnd(s[n]) <= h.addr) /\ (n # Len(s) => holeEnd(h) <= s[n + 1].addr)
    <3>1. holeEnd(s[n]) <= h.addr
      BY <1>2, <1>3, <1>4, <2>1
    <3>2. ASSUME n # Len(s) PROVE holeEnd(h) <= s[n + 1].addr
      <4>1. n < Len(s) /\ n + 1 \in 1 .. Len(s) /\ h.addr < s[n + 1].addr
        BY <1>1, <2>1, <3>2 DEF insertsAfter
      <4> QED  BY <1>2, <1>3, <1>4, <4>1
    <3> QED  BY <2>1, <3>1, <3>2
  <2>4. /\ ListOf(a, b, e) /\ AllRoom(a, top) /\ Cover(a) = Cover(s) \cup Bytes(h.addr, h.size)
        /\ Len(a) = Len(s) + 1 /\ ApartBut(a, {n, n + 1})
    <3>1. InsertedAt(a, s, b, e, top, n, h)
      BY <1>1, <2>2, <2>3, Inserted
    <3> QED  BY <3>1 DEF InsertedAt
  <2>5. n \in 1 .. Len(a) - 1
    BY <1>1, <2>1, <2>4
  <2>6. PICK u, m : /\ mergeTurn([holes |-> a, at |-> n, done |-> FALSE], top)
                         = [holes |-> u, at |-> m, done |-> FALSE]
                    /\ ListOf(u, b, e) /\ AllRoom(u, top) /\ Cover(u) = Cover(a)
                    /\ m \in 1 .. Len(u) /\ ApartBut(u, {m})
    BY <2>4, <2>5, FirstTurn
  <2>7. PICK t : /\ mergeTurn([holes |-> u, at |-> m, done |-> FALSE], top).holes = t
                 /\ ListOf(t, b, e) /\ Cover(t) = Cover(u) /\ ApartBut(t, {})
    BY <1>1, <2>6, LastTurn
  <2>8. try_merge_next_n(a, n, 2, top) = t
    BY <2>6, <2>7 DEF try_merge_next_n
  <2> QED  BY <1>0, <1>5, <2>4, <2>6, <2>7, <2>8, <2>n
<1> QED  BY <1>7, <1>8, <1>9

-----------------------------------------------------------------------------
(* Allocation.                                                             *)

(* An alignment and the word, powers of two.                               *)
fitsWord(a) == a \in Nat \ {0} /\ (a % Word = 0 \/ Word % a = 0)

(* An allocation starts at a word, at the start of the hole or with room   *)
(* for a node in front of it.                                              *)
LEMMA AlignedStart ==
  ASSUME NEW h \in Hole, isAligned(h.addr), NEW a, fitsWord(a)
  PROVE  /\ aligned_addr(h, a) \in Nat /\ isAligned(aligned_addr(h, a))
         /\ aligned_addr(h, a) = h.addr \/ h.addr + min_size <= aligned_addr(h, a)
<1>1. h.addr \in Nat /\ h.addr \in Int /\ Word \in Nat \ {0} /\ a \in Nat \ {0} /\ h.addr + min_size \in Nat
  BY HoleListAssumption, MinSize DEF Hole, fitsWord
<1>2. CASE h.addr = align_up(h.addr, a)
  BY <1>1, <1>2 DEF aligned_addr
<1>3. CASE h.addr # align_up(h.addr, a)
  <2>1. h.addr % a # 0
    BY <1>1, <1>3, AlignUp
  <2>2. a % Word = 0
    <3>1. CASE Word % a = 0
      <4>1. h.addr % a = 0
        BY <1>1, <3>1, ModTrans DEF isAligned
      <4> QED  BY <2>1, <4>1
    <3> QED  BY <3>1 DEF fitsWord
  <2>3. PICK x \in Nat : x = align_up(h.addr + min_size, a)
    BY <1>1, AlignUp
  <2>4. x % a = 0 /\ h.addr + min_size <= x
    BY <1>1, <2>3, AlignUp
  <2>5. x % Word = 0
    <3>1. x \in Int
      BY <2>3
    <3> QED  BY <1>1, <2>2, <2>4, <3>1, ModTrans
  <2> QED  BY <1>3, <2>3, <2>4, <2>5 DEF aligned_addr, isAligned
<1> QED  BY <1>2, <1>3

(* What split_current puts in the place of the hole.                       *)
frontPad(h, start) == [addr |-> h.addr, size |-> start - h.addr]
backPad(h, end) == [addr |-> end, size |-> holeEnd(h) - end]
pads(h, start, end) ==
  (IF start = h.addr THEN <<>> ELSE <<frontPad(h, start)>>)
    \o (IF end = holeEnd(h) THEN <<>> ELSE <<backPad(h, end)>>)

(* mid are holes apart from each other in h, of all its bytes but those    *)
(* from start.                                                             *)
FillsAround(mid, h, start, size) ==
  /\ mid \in Seq(Hole) /\ \A m \in 1 .. Len(mid) : Placed(mid[m], h.addr, holeEnd(h))
  /\ Gaps(mid, 1)
  /\ Cover(mid) = Bytes(h.addr, h.size) \ Bytes(start, size)

LEMMA Pads ==
  ASSUME NEW h \in Hole, isAligned(h.addr), isAligned(h.size), NEW start \in Nat, NEW size \in Nat,
         isAligned(start), isAligned(size), size > 0, h.addr <= start, start + size <= holeEnd(h),
         start = h.addr \/ h.addr + min_size <= start,
         start + size = holeEnd(h) \/ start + size + min_size <= holeEnd(h)
  PROVE  FillsAround(pads(h, start, start + size), h, start, size)
<1> DEFINE f == frontPad(h, start)
           g == backPad(h, start + size)
           mid == pads(h, start, start + size)
<1>s. SUFFICES FillsAround(mid, h, start, size)
  OBVIOUS
<1>0. /\ h.addr \in Nat /\ h.size \in Nat /\ h.addr \in Int /\ h.size \in Int /\ start \in Int /\ size \in Int
      /\ Word \in Nat \ {0} /\ holeEnd(h) = h.addr + h.size /\ min_size \in Nat
  BY HoleListAssumption, MinSize DEF Hole, holeEnd
<1>1. /\ h.addr % Word = 0 /\ h.size % Word = 0 /\ start % Word = 0 /\ size % Word = 0
      /\ (start - h.addr) % Word = 0
  BY <1>0, ModSum DEF isAligned
<1>2. (start + size) % Word = 0 /\ (h.addr + h.size) % Word = 0 /\ start + size \in Int /\ h.addr + h.size \in Int
  BY <1>0, <1>1, ModSum, SMTT(60)
<1>3. ((h.addr + h.size) - (start + size)) % Word = 0
  BY <1>0, <1>2, ModSum
<1>4. ASSUME start # h.addr
      PROVE  f \in Hole /\ Placed(f, h.addr, holeEnd(h)) /\ holeEnd(f) = start /\ f.addr = h.addr /\ f.size = start - h.addr
  <2>1. start - h.addr \in Nat /\ start - h.addr >= min_size /\ f.addr = h.addr /\ f.size = start - h.addr
    BY <1>0, <1>4 DEF frontPad
  <2>2. f \in Hole
    BY <1>0, <2>1 DEF frontPad, Hole
  <2>3. holeEnd(f) = start
    BY <1>0, <2>1 DEF holeEnd
  <2> QED  BY <1>0, <1>1, <2>1, <2>2, <2>3 DEF Placed, isAligned
<1>5. ASSUME start + size # holeEnd(h)
      PROVE  /\ g \in Hole /\ Placed(g, h.addr, holeEnd(h)) /\ holeEnd(g) = holeEnd(h)
             /\ g.addr = start + size /\ g.size = holeEnd(h) - (start + size)
  <2>1. /\ holeEnd(h) - (start + size) \in Nat /\ holeEnd(h) - (start + size) >= min_size /\ g.addr = start + size
        /\ g.size = holeEnd(h) - (start + size)
    BY <1>0, <1>5 DEF backPad
  <2>2. g \in Hole
    BY <1>0, <2>1 DEF backPad, Hole
  <2>3. holeEnd(g) = holeEnd(h)
    <3>1. holeEnd(g) = (start + size) + (holeEnd(h) - (start + size))
      BY <2>1 DEF holeEnd
    <3> QED  BY <1>0, <3>1
  <2>4. isAligned(g.addr) /\ isAligned(g.size)
    BY <1>0, <1>2, <1>3, <2>1 DEF isAligned
  <2> QED  BY <1>0, <2>1, <2>2, <2>3, <2>4 DEF Placed
<1>6. CASE start = h.addr /\ start + size = holeEnd(h)
  <2>1. mid = <<>> /\ Len(mid) = 0 /\ mid \in Seq(Hole)
    BY <1>6 DEF pads
  <2>2. Elems(mid) = {} /\ Bytes(h.addr, h.size) = Bytes(start, size)
    BY <1>0, <1>6, <2>1 DEF Elems
  <2>3. Cover(mid) = Bytes(h.addr, h.size) \ Bytes(start, size)
    BY <2>2, Zenon DEF Cover
  <2> HIDE DEF mid
  <2>4. Gaps(mid, 1) /\ \A m \in 1 .. Len(mid) : Placed(mid[m], h.addr, holeEnd(h))
    BY <2>1 DEF Gaps
  <2> QED  BY <2>1, <2>3, <2>4 DEF FillsAround
<1>7. CASE start # h.addr /\ start + size = holeEnd(h)
  <2>1. mid = <<f>>
    BY <1>7 DEF pads
  <2>2. f \in Hole /\ Placed(f, h.addr, holeEnd(h))
    BY <1>4, <1>7
  <2>3. mid \in Seq(Hole) /\ Len(mid) = 1 /\ mid[1] = f /\ Elems(mid) = {f}
    BY <2>1, <2>2, OneElement
  <2>4. Bytes(f.addr, f.size) = Bytes(h.addr, h.size) \ Bytes(start, size)
    BY <1>0, <1>4, <1>7 DEF Bytes
  <2>5. Cover(mid) = Bytes(f.addr, f.size)
    BY <2>3, Zenon DEF Cover
  <2> HIDE DEF f, mid
  <2>6. Gaps(mid, 1) /\ \A m \in 1 .. Len(mid) : Placed(mid[m], h.addr, holeEnd(h))
    BY <2>2, <2>3 DEF Gaps
  <2> QED  BY <2>3, <2>4, <2>5, <2>6 DEF FillsAround
<1>8. CASE start = h.addr /\ start + size # holeEnd(h)
  <2>1. mid = <<g>>
    BY <1>8 DEF pads
  <2>2. g \in Hole /\ Placed(g, h.addr, holeEnd(h))
    BY <1>5, <1>8
  <2>3. mid \in Seq(Hole) /\ Len(mid) = 1 /\ mid[1] = g /\ Elems(mid) = {g}
    BY <2>1, <2>2, OneElement
  <2>4. Bytes(g.addr, g.size) = Bytes(h.addr, h.size) \ Bytes(start, size)
    BY <1>0, <1>5, <1>8 DEF Bytes
  <2>5. Cover(mid) = Bytes(g.addr, g.size)
    BY <2>3, Zenon DEF Cover
  <2> HIDE DEF g, mid
  <2>6. Gaps(mid, 1) /\ \A m \in 1 .. Len(mid) : Placed(mid[m], h.addr, holeEnd(h))
    BY <2>2, <2>3 DEF Gaps
  <2> QED  BY <2>3, <2>4, <2>5, <2>6 DEF FillsAround
<1>9. CASE start # h.addr /\ start + size # holeEnd(h)
  <2>1. mid = <<f>> \o <<g>>
    BY <1>9 DEF pads
  <2>2. f \in Hole /\ Placed(f, h.addr, holeEnd(h)) /\ g \in Hole /\ Placed(g, h.addr, holeEnd(h))
    BY <1>4, <1>5, <1>9
  <2>3. mid \in Seq(Hole) /\ Len(mid) = 2 /\ mid[1] = f /\ mid[2] = g /\ 1 .. 2 = {1, 2}
    <3> HIDE DEF f, g, mid
    <3>1. <<f>> \in Seq(Hole) /\ Len(<<f>>) = 1 /\ <<f>>[1] = f /\ <<g>> \in Seq(Hole) /\ Len(<<g>>) = 1 /\ <<g>>[1] = g
      BY <2>2, OneElement
    <3>2. PICK p \in Seq(Hole), q \in Seq(Hole) : p = <<f>> /\ q = <<g>>
      BY <3>1
    <3>3. /\ p \o q \in Seq(Hole) /\ Len(p \o q) = Len(p) + Len(q)
          /\ \A k \in 1 .. Len(p) + Len(q) : (p \o q)[k] = IF k <= Len(p) THEN p[k] ELSE q[k - Len(p)]
      BY ConcatProperties
    <3> QED  BY <2>1, <3>1, <3>2, <3>3
  <2>4. Elems(mid) = {f, g}
    BY <2>3 DEF Elems
  <2>5. Bytes(f.addr, f.size) \cup Bytes(g.addr, g.size) = Bytes(h.addr, h.size) \ Bytes(start, size)
    <3>1. PICK e \in Nat : e = holeEnd(h)
      BY <1>0
    <3>2. f.addr = h.addr /\ f.size = start - h.addr /\ g.addr = start + size /\ g.size = e - (start + size)
      BY <1>4, <1>5, <1>9, <3>1
    <3>3. Bytes(f.addr, f.size) = h.addr .. start - 1 /\ Bytes(g.addr, g.size) = start + size .. e - 1
      BY <1>0, <3>1, <3>2 DEF Bytes
    <3>4. Bytes(h.addr, h.size) = h.addr .. e - 1 /\ Bytes(start, size) = start .. start + size - 1
      BY <1>0, <3>1 DEF Bytes
    <3>5. (h.addr .. start - 1) \cup (start + size .. e - 1) = (h.addr .. e - 1) \ (start .. start + size - 1)
      BY <1>0, <3>1
    <3> QED  BY <3>3, <3>4, <3>5
  <2>6. Cover(mid) = Bytes(f.addr, f.size) \cup Bytes(g.addr, g.size)
    BY <2>4, Zenon DEF Cover
  <2>7. holeEnd(f) + 1 <= g.addr
    BY <1>0, <1>4, <1>5, <1>9
  <2> HIDE DEF f, g, mid
  <2>8. Gaps(mid, 1)
    BY <2>3, <2>7 DEF Gaps
  <2>9. \A m \in 1 .. Len(mid) : Placed(mid[m], h.addr, holeEnd(h))
    BY <2>2, <2>3
  <2> QED  BY <2>3, <2>5, <2>6, <2>8, <2>9 DEF FillsAround
<1> QED  BY <1>6, <1>7, <1>8, <1>9

(* Taking size bytes at a from the holes s leaves the holes t.             *)
AllocatedAt(t, s, b, e, a, size) ==
  /\ a \in Nat /\ isAligned(a) /\ b <= a /\ a + size <= e /\ Bytes(a, size) \subseteq Cover(s)
  /\ ListOf(t, b, e) /\ ApartBut(t, {}) /\ Cover(t) = Cover(s) \ Bytes(a, size)

LEMMA Replaced ==
  ASSUME NEW s, NEW b \in Nat, NEW e \in Nat, ListOf(s, b, e), ApartBut(s, {}), NEW n \in 1 .. Len(s),
         NEW mid, NEW a \in Nat, NEW size \in Nat, FillsAround(mid, s[n], a, size), s[n].addr <= a, a + size <= holeEnd(s[n])
  PROVE  /\ ListOf(splice(s, n - 1, mid, n + 1), b, e) /\ ApartBut(splice(s, n - 1, mid, n + 1), {})
         /\ Cover(splice(s, n - 1, mid, n + 1)) = Cover(s) \ Bytes(a, size)
<1>0. PICK h, i, j : h = s[n] /\ i = n - 1 /\ j = n + 1
  OBVIOUS
<1>1. /\ s \in Seq(Hole) /\ Len(s) \in Nat /\ i \in 0 .. Len(s) /\ j \in i + 1 .. Len(s) + 1 /\ mid \in Seq(Hole) /\ Len(mid) \in Nat
      /\ \A k \in 1 .. i : k \in 1 .. Len(s) /\ k < n
      /\ \A k \in j .. Len(s) : k \in 1 .. Len(s) /\ n < k
  BY <1>0, LenProperties, SMTT(60) DEF ListOf, FillsAround
<1>2. PICK t : t = splice(s, i, mid, j)
  OBVIOUS
<1>3. \A k \in 1 .. Len(s) : /\ s[k].addr \in Nat /\ s[k].size \in Nat /\ holeEnd(s[k]) = s[k].addr + s[k].size
                             /\ Placed(s[k], b, e)
  BY DEF ListOf, Placed, Hole, holeEnd
<1>4. /\ h.addr \in Nat /\ h.size \in Nat /\ holeEnd(h) = h.addr + h.size /\ b <= h.addr /\ holeEnd(h) <= e
      /\ h.addr <= a /\ a + size <= holeEnd(h)
  BY <1>0, <1>3 DEF Placed
<1>n. holeEnd(h) \in Nat
  <2>1. \A x, y \in Nat : x + y \in Nat
    OBVIOUS
  <2> QED  BY <1>4, <2>1, Zenon
<1>5. Gaps(s, 1) /\ Gaps(mid, 1)
  BY <1>1, GapsFacts DEF ListOf, FillsAround
<1>6. \A m \in 1 .. Len(mid) : Placed(mid[m], h.addr, holeEnd(h))
  BY <1>0 DEF FillsAround
<1>7. \A m \in 1 .. Len(mid) : /\ mid[m].addr \in Nat /\ mid[m].size \in Nat /\ holeEnd(mid[m]) = mid[m].addr + mid[m].size
                               /\ h.addr <= mid[m].addr /\ holeEnd(mid[m]) <= holeEnd(h)
  BY <1>6 DEF Placed, Hole, holeEnd
<1>m. \A m \in 1 .. Len(mid) : holeEnd(mid[m]) \in Nat
  <2>1. \A x, y \in Nat : x + y \in Nat
    OBVIOUS
  <2>2. ASSUME NEW m \in 1 .. Len(mid) PROVE holeEnd(mid[m]) \in Nat
    <3>1. mid[m].addr \in Nat /\ mid[m].size \in Nat /\ holeEnd(mid[m]) = mid[m].addr + mid[m].size
      BY <1>7
    <3> QED  BY <2>1, <3>1, Zenon
  <2> QED  BY <2>2
<1>8. \A k \in 1 .. i : holeEnd(s[k]) + 1 <= h.addr
  BY <1>0, <1>1, <1>5 DEF Gaps
<1>9. \A k \in j .. Len(s) : holeEnd(h) + 1 <= s[k].addr
  BY <1>0, <1>1, <1>5 DEF Gaps
<1>10. ASSUME NEW m \in 1 .. Len(mid), NEW k \in 1 .. i PROVE holeEnd(s[k]) + 1 <= mid[m].addr
  <2>1. holeEnd(s[k]) \in Nat /\ holeEnd(s[k]) + 1 <= h.addr
    <3>1. k \in 1 .. Len(s)
      BY <1>1
    <3> QED  BY <1>3, <1>8, <3>1, SMTT(60)
  <2>2. mid[m].addr \in Nat /\ h.addr <= mid[m].addr
    BY <1>7
  <2> QED  BY <1>4, <2>1, <2>2, SMTT(60)
<1>11. ASSUME NEW m \in 1 .. Len(mid), NEW k \in j .. Len(s) PROVE holeEnd(mid[m]) + 1 <= s[k].addr
  <2>1. s[k].addr \in Nat /\ holeEnd(h) + 1 <= s[k].addr
    BY <1>1, <1>3, <1>9
  <2>2. mid[m].addr \in Nat /\ mid[m].size \in Nat /\ holeEnd(mid[m]) = mid[m].addr + mid[m].size /\ holeEnd(mid[m]) <= holeEnd(h)
    BY <1>7
  <2>3. holeEnd(mid[m]) \in Nat /\ holeEnd(h) \in Nat
    BY <1>m, <1>n
  <2> QED  BY <2>1, <2>2, <2>3, SMTT(60)
<1>12. Gaps(t, 1) /\ t \in Seq(Hole)
  <2>1. \A m \in 1 .. Len(mid) : /\ \A k \in 1 .. i : holeEnd(s[k]) + 1 <= mid[m].addr
                                 /\ \A k \in j .. Len(s) : holeEnd(mid[m]) + 1 <= s[k].addr
    BY <1>10, <1>11
  <2> QED  BY <1>1, <1>2, <1>5, <2>1, SpliceGaps, SpliceFacts
<1>13. Ordered(t) /\ ApartBut(t, {})
  BY <1>12, GapsFacts
<1>14. Elems(t) = frontOf(s, i) \cup Elems(mid) \cup backOf(s, j)
  BY <1>1, <1>2, SpliceElems, ZenonT(60)
<1>15. \A g \in Elems(t) : Placed(g, b, e)
  <2>1. \A g \in frontOf(s, i) \cup backOf(s, j) : Placed(g, b, e)
    BY <1>1, <1>3 DEF frontOf, backOf
  <2>2. ASSUME NEW m \in 1 .. Len(mid) PROVE Placed(mid[m], b, e)
    <3>1. Placed(mid[m], h.addr, holeEnd(h))
      BY <1>6
    <3>2. /\ h.addr <= mid[m].addr /\ holeEnd(mid[m]) <= holeEnd(h) /\ mid[m].addr \in Nat /\ mid[m].size \in Nat
          /\ holeEnd(mid[m]) = mid[m].addr + mid[m].size
      BY <1>7
    <3>4. holeEnd(mid[m]) \in Nat /\ holeEnd(h) \in Nat
      BY <1>m, <1>n
    <3>3. b <= mid[m].addr /\ holeEnd(mid[m]) <= e
      BY <1>4, <3>2, <3>4, SMTT(60)
    <3> QED  BY <3>1, <3>3 DEF Placed
  <2>3. \A g \in Elems(mid) : Placed(g, b, e)
    BY <2>2 DEF Elems
  <2> QED  BY <1>14, <2>1, <2>3, Zenon
<1>16. ListOf(t, b, e)
  <2>1. \A k \in 1 .. Len(t) : t[k] \in Elems(t)
    BY DEF Elems
  <2> QED  BY <1>12, <1>13, <1>15, <2>1 DEF ListOf
<1>17. Cover(t) = Cover(s) \ Bytes(a, size)
  <2>1. Elems(s) = frontOf(s, i) \cup {h} \cup backOf(s, j)
    <3>1. 1 .. Len(s) = (1 .. i) \cup {n} \cup (j .. Len(s))
      BY <1>0, <1>1
    <3> QED  BY <1>0, <3>1 DEF Elems, frontOf, backOf
  <2> DEFINE Rest == UNION {Bytes(g.addr, g.size) : g \in frontOf(s, i) \cup backOf(s, j)}
  <2>2. Cover(s) = Rest \cup Bytes(h.addr, h.size) /\ Cover(t) = Rest \cup Cover(mid)
    BY <1>14, <2>1, Zenon DEF Cover
  <2>3. Cover(mid) = Bytes(h.addr, h.size) \ Bytes(a, size)
    BY <1>0 DEF FillsAround
  <2>4. ASSUME NEW g \in frontOf(s, i) \cup backOf(s, j) PROVE Bytes(g.addr, g.size) \cap Bytes(a, size) = {}
    <3>1. PICK k \in 1 .. Len(s) : g = s[k] /\ (holeEnd(s[k]) + 1 <= h.addr \/ holeEnd(h) + 1 <= s[k].addr)
      BY <1>1, <1>8, <1>9 DEF frontOf, backOf
    <3>2. g.addr \in Nat /\ g.size \in Nat /\ holeEnd(g) = g.addr + g.size /\ (holeEnd(g) + 1 <= h.addr \/ holeEnd(h) + 1 <= g.addr)
      BY <1>3, <3>1
    <3>3. PICK x \in Nat, y \in Nat, v \in Nat, w \in Nat : x = g.addr /\ y = g.size /\ v = h.addr /\ w = holeEnd(h)
      BY <1>4, <1>n, <3>2
    <3>4. (x + y + 1 <= v \/ w + 1 <= x) /\ v <= a /\ a + size <= w
      BY <1>4, <3>2, <3>3
    <3>5. (x .. x + y - 1) \cap (a .. a + size - 1) = {}
      BY <3>4
    <3> QED  BY <3>3, <3>5 DEF Bytes
  <2>5. Rest \cap Bytes(a, size) = {}
    BY <2>4
  <2> HIDE DEF Rest
  <2> QED  BY <2>2, <2>3, <2>5
<1> QED  BY <1>0, <1>2, <1>13, <1>16, <1>17

LEMMA FourParts ==
  \A p, f, g \in Seq([addr : Int, size : Int]) : p \o (f \o g) = (p \o f) \o g
<1>1. PICK R : R = [addr : Int, size : Int]
  OBVIOUS
<1>2. ASSUME NEW p \in Seq(R), NEW f \in Seq(R), NEW g \in Seq(R) PROVE p \o (f \o g) = (p \o f) \o g
  BY ConcatAssociative
<1> QED  BY <1>1, <1>2, ZenonT(60)

LEMMA Allocated ==
  ASSUME NEW s, NEW b \in Nat, NEW e \in Nat, ListOf(s, b, e), ApartBut(s, {}), NEW n \in 1 .. Len(s),
         NEW l, l.size \in Nat, isAligned(l.size), l.size >= min_size, fitsWord(l.align), suits(s[n], l)
  PROVE  AllocatedAt(split_current(s, n, l), s, b, e, aligned_addr(s[n], l.align), l.size)
<1>0. PICK h, a, z : h = s[n] /\ a = aligned_addr(h, l.align) /\ z = l.size
  OBVIOUS
<1>1. s \in Seq(Hole) /\ Len(s) \in Nat /\ Placed(h, b, e) /\ h \in Hole /\ isAligned(h.addr) /\ isAligned(h.size)
  BY <1>0, LenProperties DEF ListOf, Placed
<1>2. /\ h.addr \in Nat /\ h.size \in Nat /\ holeEnd(h) = h.addr + h.size /\ b <= h.addr /\ holeEnd(h) <= e
      /\ z \in Nat /\ isAligned(z) /\ z > 0 /\ min_size \in Nat
  BY <1>0, <1>1, MinSize, HoleListAssumption DEF Placed, Hole, holeEnd
<1>3. a \in Nat /\ isAligned(a) /\ (a = h.addr \/ h.addr + min_size <= a)
  BY <1>0, <1>1, AlignedStart
<1>4. h.addr <= a
  BY <1>2, <1>3
<1>5. a + z <= holeEnd(h) /\ (a + z = holeEnd(h) \/ align_up(a + z, HoleAlign) + min_size <= holeEnd(h))
  BY <1>0 DEF suits
<1>6. align_up(a + z, HoleAlign) = a + z
  <2>1. a + z \in Nat /\ a \in Int /\ z \in Int /\ Word \in Nat \ {0}
    BY <1>2, <1>3, HoleListAssumption
  <2>2. (a + z) % Word = 0
    BY <1>2, <1>3, <2>1, ModSum DEF isAligned
  <2> QED  BY <2>1, <2>2, AlignUp DEF HoleAlign
<1>7. FillsAround(pads(h, a, a + z), h, a, z)
  <2>1. a + z = holeEnd(h) \/ a + z + min_size <= holeEnd(h)
    BY <1>5, <1>6
  <2> QED  BY <1>1, <1>2, <1>3, <1>4, <1>5, <2>1, Pads
<1>8. split_current(s, n, l) = splice(s, n - 1, pads(h, a, a + z), n + 1)
  <2> DEFINE p == SubSeq(s, 1, n - 1)
             f == IF a = h.addr THEN <<>> ELSE <<frontPad(h, a)>>
             g == IF a + z = holeEnd(h) THEN <<>> ELSE <<backPad(h, a + z)>>
             c == SubSeq(s, n + 1, Len(s))
  <2>1. split_current(s, n, l) = p \o f \o g \o c
    BY <1>0, <1>6 DEF split_current, frontPad, backPad
  <2>2. splice(s, n - 1, pads(h, a, a + z), n + 1) = p \o (f \o g) \o c
    BY DEF splice, pads
  <2>3. p \in Seq(Hole)
    <3>1. \A k \in 1 .. n - 1 : s[k] \in Hole
      BY <1>1 DEF ListOf, Placed
    <3> QED  BY <1>1, <3>1, SubSeqProperties
  <2>4. f \in Seq([addr : Int, size : Int]) /\ g \in Seq([addr : Int, size : Int])
    <3>1. frontPad(h, a) \in [addr : Int, size : Int] /\ backPad(h, a + z) \in [addr : Int, size : Int]
      BY <1>2, <1>3 DEF frontPad, backPad
    <3>2. PICK x \in [addr : Int, size : Int], y \in [addr : Int, size : Int] : x = frontPad(h, a) /\ y = backPad(h, a + z)
      BY <3>1
    <3>3. <<>> \in Seq([addr : Int, size : Int]) /\ <<x>> \in Seq([addr : Int, size : Int]) /\ <<y>> \in Seq([addr : Int, size : Int])
      OBVIOUS
    <3> QED  BY <3>2, <3>3
  <2>5. p \in Seq([addr : Int, size : Int])
    <3>1. Hole \subseteq [addr : Int, size : Int]
      BY DEF Hole
    <3> QED  BY <2>3, <3>1
  <2> HIDE DEF p, f, g, c
  <2>6. p \o (f \o g) = (p \o f) \o g
    BY <2>4, <2>5, FourParts
  <2> QED  BY <2>1, <2>2, <2>6
<1>9. Bytes(a, z) \subseteq Cover(s)
  <2>1. Bytes(a, z) \subseteq Bytes(h.addr, h.size)
    BY <1>2, <1>3, <1>4, <1>5, SMTT(60) DEF Bytes
  <2>2. h \in Elems(s)
    BY <1>0 DEF Elems
  <2> QED  BY <2>1, <2>2 DEF Cover
<1>10. b <= a /\ a + z <= e
  BY <1>2, <1>3, <1>4, <1>5
<1>11. /\ ListOf(split_current(s, n, l), b, e) /\ ApartBut(split_current(s, n, l), {})
       /\ Cover(split_current(s, n, l)) = Cover(s) \ Bytes(a, z)
  BY <1>0, <1>2, <1>3, <1>4, <1>5, <1>7, <1>8, Replaced
<1> QED  BY <1>0, <1>3, <1>9, <1>10, <1>11 DEF AllocatedAt

-----------------------------------------------------------------------------
(* Blocks and holes fill the heap.                                         *)

(* P are pieces that fill the memory from bottom to top and do not         *)
(* overlap.                                                                *)
Tiling(P, bottom, top) ==
  /\ \A p \in P : Placed(p, bottom, top)
  /\ \A x \in bottom .. top - 1 : \E p \in P : x \in Bytes(p.addr, p.size)
  /\ \A p, q \in P : p = q \/ Bytes(p.addr, p.size) \cap Bytes(q.addr, q.size) = {}

(* So what lies behind a piece, or in front of it, is another piece, which *)
(* has room for a node.                                                    *)
LEMMA TilingRoom ==
  ASSUME NEW P, NEW b \in Nat, NEW top \in Nat, Tiling(P, b, top), NEW p \in P
  PROVE  Room(p, top) /\ (p.addr = b \/ b + min_size <= p.addr)
<1>0. ASSUME NEW q \in P
      PROVE  /\ q.addr \in Nat /\ q.size \in Nat /\ holeEnd(q) = q.addr + q.size /\ q.size >= min_size /\ q.size > 0
             /\ b <= q.addr /\ q.addr + q.size <= top
  <2>1. Placed(q, b, top)
    BY DEF Tiling
  <2> QED  BY <2>1, MinSize, HoleListAssumption DEF Placed, Hole, holeEnd
<1>1. min_size \in Nat /\ p.addr \in Nat /\ p.size \in Nat
  BY <1>0, MinSize
<1>2. ASSUME holeEnd(p) < top PROVE holeEnd(p) + min_size <= top
  <2>1. PICK x \in Nat : x = p.addr + p.size /\ x = holeEnd(p)
    BY <1>0, <1>1
  <2>2. x \in b .. top - 1 /\ x - 1 \in Bytes(p.addr, p.size) /\ x \notin Bytes(p.addr, p.size)
    BY <1>0, <1>1, <1>2, <2>1 DEF Bytes
  <2>3. PICK q \in P : x \in Bytes(q.addr, q.size)
    BY <2>2 DEF Tiling
  <2>4. q # p
    BY <2>2, <2>3
  <2>5. x - 1 \notin Bytes(q.addr, q.size)
    <3>1. Bytes(p.addr, p.size) \cap Bytes(q.addr, q.size) = {}
      BY <2>4 DEF Tiling
    <3> QED  BY <2>2, <3>1
  <2>6. q.addr = x
    BY <1>0, <2>3, <2>5 DEF Bytes
  <2>7. q.addr \in Nat /\ q.size \in Nat /\ q.size >= min_size /\ q.addr + q.size <= top
    BY <1>0
  <2> QED  BY <1>1, <2>1, <2>6, <2>7
<1>3. ASSUME p.addr # b PROVE b + min_size <= p.addr
  <2>1. b \in b .. top - 1
    BY <1>0
  <2>2. PICK q \in P : b \in Bytes(q.addr, q.size)
    BY <2>1 DEF Tiling
  <2>3. q.addr = b
    BY <1>0, <2>2 DEF Bytes
  <2>4. q # p
    BY <1>3, <2>3
  <2>5. Bytes(p.addr, p.size) \cap Bytes(q.addr, q.size) = {}
    BY <2>4 DEF Tiling
  <2>6. p.addr \in Bytes(p.addr, p.size)
    BY <1>0 DEF Bytes
  <2>7. p.addr \notin Bytes(q.addr, q.size)
    BY <2>5, <2>6
  <2> QED  BY <1>0, <1>1, <2>3, <2>7 DEF Bytes
<1> QED  BY <1>2, <1>3 DEF Room

LEMMA ApartOrder ==
  ASSUME NEW p \in Hole, NEW q \in Hole, p.size > 0, q.size > 0, Bytes(p.addr, p.size) \cap Bytes(q.addr, q.size) = {}
  PROVE  holeEnd(p) <= q.addr \/ holeEnd(q) <= p.addr
<1>1. PICK x \in Nat, m \in Nat, y \in Nat, n \in Nat : x = p.addr /\ m = p.size /\ y = q.addr /\ n = q.size
  BY DEF Hole
<1>2. (x .. x + m - 1) \cap (y .. y + n - 1) = {} /\ m > 0 /\ n > 0
  BY <1>1 DEF Bytes
<1>3. CASE x <= y
  <2>1. y \in y .. y + n - 1
    BY <1>2
  <2>2. y \notin x .. x + m - 1
    BY <1>2, <2>1
  <2>3. x + m <= y
    BY <1>3, <2>2
  <2> QED  BY <1>1, <2>3 DEF holeEnd
<1>4. CASE y <= x
  <2>1. x \in x .. x + m - 1
    BY <1>2
  <2>2. x \notin y .. y + n - 1
    BY <1>2, <2>1
  <2>3. y + n <= x
    BY <1>4, <2>2
  <2> QED  BY <1>1, <2>3 DEF holeEnd
<1> QED  BY <1>3, <1>4

(* The memory of a block.                                                  *)
memOf(b) == [addr |-> b.addr, size |-> blockSize(b)]
TakenBy(bl) == UNION {Bytes(b.addr, blockSize(b)) : b \in bl}

BlocksOK(bl, bottom, top) ==
  /\ \A b \in bl : b.layout \in Layouts /\ Placed(memOf(b), bottom, top)
  /\ \A b, c \in bl : b = c \/ Bytes(b.addr, blockSize(b)) \cap Bytes(c.addr, blockSize(c)) = {}

(* The list hl and the blocks bl fill the heap.                            *)
HeapOK(hl, bl) ==
  /\ hl \in [chain : Seq(Hole), bottom : Nat, top : Nat, pending : Nat]
  /\ hl.pending < min_size
  /\ isAligned(hl.bottom) /\ isAligned(hl.top)
  /\ (hl.bottom = 0 /\ hl.top = 0) \/ (hl.bottom # 0 /\ hl.bottom + min_size <= hl.top)
  /\ ListOf(hl.chain, hl.bottom, hl.top) /\ ApartBut(hl.chain, {})
  /\ BlocksOK(bl, hl.bottom, hl.top)
  /\ Cover(hl.chain) = (hl.bottom .. hl.top - 1) \ TakenBy(bl)

Pieces(hl, bl) == Elems(hl.chain) \cup {memOf(b) : b \in bl}

LEMMA HeapTiling ==
  ASSUME NEW hl, NEW bl, HeapOK(hl, bl)
  PROVE  Tiling(Pieces(hl, bl), hl.bottom, hl.top)
<1>0. PICK s, b, top : s = hl.chain /\ b = hl.bottom /\ top = hl.top
  OBVIOUS
<1>1. /\ s \in Seq(Hole) /\ Len(s) \in Nat /\ b \in Nat /\ top \in Nat /\ ListOf(s, b, top) /\ ApartBut(s, {})
      /\ BlocksOK(bl, b, top) /\ Cover(s) = (b .. top - 1) \ TakenBy(bl)
  BY <1>0, LenProperties DEF HeapOK
<1>m. \A c : memOf(c).addr = c.addr /\ memOf(c).size = blockSize(c)
  BY DEF memOf
<1>2. \A p \in Elems(s) : Placed(p, b, top)
  BY <1>1 DEF Elems, ListOf
<1>3. \A p \in {memOf(c) : c \in bl} : Placed(p, b, top)
  BY <1>1 DEF BlocksOK
<1>4. ASSUME NEW x \in b .. top - 1 PROVE \E p \in Pieces(hl, bl) : x \in Bytes(p.addr, p.size)
  <2>1. CASE x \in TakenBy(bl)
    <3>1. PICK c \in bl : x \in Bytes(c.addr, blockSize(c))
      BY <2>1 DEF TakenBy
    <3>2. memOf(c) \in Pieces(hl, bl)
      BY DEF Pieces
    <3> QED  BY <1>m, <3>1, <3>2
  <2>2. CASE x \in Cover(s)
    <3>1. PICK p \in Elems(s) : x \in Bytes(p.addr, p.size)
      BY <2>2 DEF Cover
    <3> QED  BY <1>0, <3>1 DEF Pieces
  <2> QED  BY <1>1, <2>1, <2>2
<1>5. ASSUME NEW p \in Elems(s), NEW c \in bl PROVE Bytes(p.addr, p.size) \cap Bytes(c.addr, blockSize(c)) = {}
  <2>1. Bytes(p.addr, p.size) \subseteq Cover(s)
    BY DEF Cover
  <2>2. Bytes(c.addr, blockSize(c)) \subseteq TakenBy(bl)
    BY DEF TakenBy
  <2> QED  BY <1>1, <2>1, <2>2
<1>6. ASSUME NEW m \in 1 .. Len(s), NEW n \in 1 .. Len(s), m < n
      PROVE  Bytes(s[m].addr, s[m].size) \cap Bytes(s[n].addr, s[n].size) = {}
  <2>1. Placed(s[m], b, top) /\ Placed(s[n], b, top) /\ holeEnd(s[m]) <= s[n].addr
    BY <1>1, <1>6 DEF ListOf, Ordered
  <2>2. s[m].addr \in Nat /\ s[m].size \in Nat /\ s[n].addr \in Nat /\ s[n].size \in Nat /\ s[m].addr + s[m].size <= s[n].addr
    BY <2>1 DEF Placed, Hole, holeEnd
  <2> QED  BY <2>2, SMTT(60) DEF Bytes
<1>7. ASSUME NEW p \in Elems(s), NEW q \in Elems(s), p # q PROVE Bytes(p.addr, p.size) \cap Bytes(q.addr, q.size) = {}
  <2>1. PICK m \in 1 .. Len(s), n \in 1 .. Len(s) : p = s[m] /\ q = s[n]
    BY DEF Elems
  <2>2. m < n \/ n < m
    BY <1>1, <1>7, <2>1
  <2> QED  BY <1>6, <2>1, <2>2
<1>8. ASSUME NEW c \in bl, NEW d \in bl, memOf(c) # memOf(d)
      PROVE  Bytes(c.addr, blockSize(c)) \cap Bytes(d.addr, blockSize(d)) = {}
  <2>1. c # d
    BY <1>8
  <2> QED  BY <1>1, <2>1 DEF BlocksOK
<1>9. ASSUME NEW p \in Pieces(hl, bl), NEW q \in Pieces(hl, bl), p # q
      PROVE  Bytes(p.addr, p.size) \cap Bytes(q.addr, q.size) = {}
  <2>1. CASE p \in Elems(s) /\ q \in Elems(s)
    BY <1>7, <1>9, <2>1
  <2>2. CASE p \in Elems(s) /\ q \notin Elems(s)
    <3>1. PICK c \in bl : q = memOf(c)
      BY <1>0, <2>2 DEF Pieces
    <3> QED  BY <1>5, <1>m, <2>2, <3>1
  <2>3. CASE p \notin Elems(s) /\ q \in Elems(s)
    <3>1. PICK c \in bl : p = memOf(c)
      BY <1>0, <2>3 DEF Pieces
    <3>2. Bytes(q.addr, q.size) \cap Bytes(c.addr, blockSize(c)) = {}
      BY <1>5, <2>3
    <3> QED  BY <1>m, <3>1, <3>2
  <2>4. CASE p \notin Elems(s) /\ q \notin Elems(s)
    <3>1. PICK c \in bl, d \in bl : p = memOf(c) /\ q = memOf(d)
      BY <1>0, <2>4 DEF Pieces
    <3>2. Bytes(c.addr, blockSize(c)) \cap Bytes(d.addr, blockSize(d)) = {}
      BY <1>8, <1>9, <3>1
    <3> QED  BY <1>m, <3>1, <3>2
  <2> QED  BY <2>1, <2>2, <2>3, <2>4
<1>10. \A p \in Pieces(hl, bl) : Placed(p, hl.bottom, hl.top)
  BY <1>0, <1>2, <1>3 DEF Pieces
<1> QED  BY <1>0, <1>4, <1>9, <1>10 DEF Tiling

-----------------------------------------------------------------------------
(* The operations keep the heap filled.                                    *)

LEMMA LayoutFacts ==
  ASSUME HeapAssumption, NEW l \in Layouts
  PROVE  /\ align_layout(l).size \in Nat /\ align_layout(l).size >= min_size /\ align_layout(l).size > 0
         /\ isAligned(align_layout(l).size) /\ align_layout(l).align = l.align /\ fitsWord(l.align)
<1>1. l \in [size : Nat, align : Nat \ {0}] /\ (l.align % Word = 0 \/ Word % l.align = 0)
  BY DEF HeapAssumption
<1>2. /\ align_layout(l).size \in Nat /\ align_layout(l).size >= min_size
      /\ isAligned(align_layout(l).size) /\ align_layout(l).align = l.align
  BY <1>1, LayoutSize
<1>3. align_layout(l).size > 0
  BY <1>2, MinSize, HoleListAssumption
<1> QED  BY <1>1, <1>2, <1>3 DEF fitsWord

(* The bytes of a block, or of the heap, can be counted.                   *)
LEMMA BytesCount ==
  ASSUME NEW a \in Nat, NEW n \in Nat
  PROVE  IsFiniteSet(Bytes(a, n)) /\ Cardinality(Bytes(a, n)) = n
<1>1. PICK z \in Int : z = a + n - 1
  OBVIOUS
<1>2. IsFiniteSet(a .. z) /\ Cardinality(a .. z) = IF a > z THEN 0 ELSE z - a + 1
  BY FS_Interval
<1> QED  BY <1>1, <1>2 DEF Bytes

LEMMA TakenWithin ==
  ASSUME NEW hl, NEW bl, HeapOK(hl, bl)
  PROVE  TakenBy(bl) \subseteq hl.bottom .. hl.top - 1
<1>0. hl.bottom \in Nat /\ hl.top \in Nat
  BY DEF HeapOK
<1>1. ASSUME NEW c \in bl PROVE Bytes(c.addr, blockSize(c)) \subseteq hl.bottom .. hl.top - 1
  <2>1. Placed(memOf(c), hl.bottom, hl.top) /\ memOf(c).addr = c.addr /\ memOf(c).size = blockSize(c)
    BY DEF HeapOK, BlocksOK, memOf
  <2>2. c.addr \in Nat /\ blockSize(c) \in Nat /\ hl.bottom <= c.addr /\ c.addr + blockSize(c) <= hl.top
    <3>1. /\ memOf(c).addr \in Nat /\ memOf(c).size \in Nat /\ hl.bottom <= memOf(c).addr
          /\ memOf(c).addr + memOf(c).size <= hl.top
      BY <2>1 DEF Placed, Hole, holeEnd
    <3> QED  BY <2>1, <3>1
  <2> QED  BY <1>0, <2>2 DEF Bytes
<1> QED  BY <1>1 DEF TakenBy

(* The heap is as large as its holes and its blocks.                       *)
LEMMA HeapCount ==
  ASSUME NEW hl, NEW bl, HeapOK(hl, bl)
  PROVE  /\ IsFiniteSet(TakenBy(bl)) /\ Cardinality(TakenBy(bl)) \in Nat
         /\ hl.top - hl.bottom - Cardinality(TakenBy(bl)) = Cardinality(Cover(hl.chain))
<1>0. PICK b \in Nat, n \in Nat : b = hl.bottom /\ n = hl.top - hl.bottom /\ hl.top = b + n
  BY MinSize DEF HeapOK
<1>1. IsFiniteSet(Bytes(b, n)) /\ Cardinality(Bytes(b, n)) = n
  BY BytesCount
<1>2. PICK H, K, C : H = Bytes(b, n) /\ K = TakenBy(bl) /\ C = Cover(hl.chain)
  OBVIOUS
<1>b. H = hl.bottom .. hl.top - 1
  <2>1. PICK z : z = b + n - 1
    OBVIOUS
  <2>2. z = hl.top - 1
    <3>1. PICK top \in Nat : top = b + n /\ top = hl.top
      BY <1>0, SMT
    <3>2. z = top - 1
      BY <2>1, <3>1
    <3> QED  BY <3>1, <3>2, Zenon
  <2>3. H = b .. z
    BY <1>2, <2>1 DEF Bytes
  <2> QED  BY <1>0, <2>2, <2>3
<1>3. C = H \ K
  BY <1>2, <1>b DEF HeapOK
<1>4. K \subseteq H
  BY <1>2, <1>b, TakenWithin
<1>5. IsFiniteSet(H) /\ Cardinality(H) = n
  BY <1>1, <1>2
<1>6. IsFiniteSet(K) /\ Cardinality(K) \in Nat
  BY <1>4, <1>5, FS_Subset, FS_CardinalityType
<1>7. Cardinality(H \ K) = Cardinality(H) - Cardinality(H \cap K) /\ H \cap K = K
  BY <1>4, <1>5, FS_Difference
<1>8. Cardinality(C) = n - Cardinality(K)
  BY <1>3, <1>5, <1>7
<1>9. Cardinality(TakenBy(bl)) \in Nat /\ Cardinality(Cover(hl.chain)) = n - Cardinality(TakenBy(bl)) /\ IsFiniteSet(TakenBy(bl))
  BY <1>2, <1>6, <1>8
<1> QED  BY <1>0, <1>9

(* Allocation: a block where a hole suits the layout.                      *)
AllocatesIn(hl, bl, l, n, a, hm, bm) ==
  /\ n \in 1 .. Len(hl.chain) /\ suits(hl.chain[n], align_layout(l))
  /\ a = aligned_addr(hl.chain[n], align_layout(l).align)
  /\ hm = [hl EXCEPT !.chain = split_current(hl.chain, n, align_layout(l))]
  /\ bm = bl \cup {[addr |-> a, layout |-> l]}

LEMMA AllocKeeps ==
  ASSUME HeapAssumption, NEW hl, NEW bl, HeapOK(hl, bl), NEW l \in Layouts,
         NEW n, NEW a, NEW hm, NEW bm, AllocatesIn(hl, bl, l, n, a, hm, bm)
  PROVE  /\ a \in Nat /\ HeapOK(hm, bm) /\ hm.bottom = hl.bottom /\ hm.top = hl.top /\ hm.pending = hl.pending
         /\ Cardinality(TakenBy(bm)) = Cardinality(TakenBy(bl)) + align_layout(l).size
<1> /\ n \in 1 .. Len(hl.chain) /\ suits(hl.chain[n], align_layout(l))
    /\ a = aligned_addr(hl.chain[n], align_layout(l).align)
    /\ hm = [hl EXCEPT !.chain = split_current(hl.chain, n, align_layout(l))]
    /\ bm = bl \cup {[addr |-> a, layout |-> l]}
  BY DEF AllocatesIn
<1>0. PICK s, b, top, z, t, c : /\ s = hl.chain /\ b = hl.bottom /\ top = hl.top /\ z = align_layout(l).size
                                /\ t = split_current(s, n, align_layout(l)) /\ c = [addr |-> a, layout |-> l]
  OBVIOUS
<1>1. z \in Nat /\ z >= min_size /\ z > 0 /\ isAligned(z) /\ fitsWord(l.align) /\ align_layout(l).align = l.align
  BY <1>0, LayoutFacts
<1>2. /\ s \in Seq(Hole) /\ b \in Nat /\ top \in Nat /\ ListOf(s, b, top) /\ ApartBut(s, {})
      /\ BlocksOK(bl, b, top) /\ Cover(s) = (b .. top - 1) \ TakenBy(bl)
      /\ hl \in [chain : Seq(Hole), bottom : Nat, top : Nat, pending : Nat]
  BY <1>0 DEF HeapOK
<1>3. AllocatedAt(t, s, b, top, a, z)
  <2>1. PICK m : m = align_layout(l)
    OBVIOUS
  <2>2. m.size \in Nat /\ isAligned(m.size) /\ m.size >= min_size /\ fitsWord(m.align) /\ suits(s[n], m) /\ n \in 1 .. Len(s)
    BY <1>0, <1>1, <2>1
  <2>3. AllocatedAt(split_current(s, n, m), s, b, top, aligned_addr(s[n], m.align), m.size)
    BY <1>2, <2>2, Allocated
  <2> QED  BY <1>0, <2>1, <2>3
<1>4. /\ a \in Nat /\ isAligned(a) /\ b <= a /\ a + z <= top /\ Bytes(a, z) \subseteq Cover(s)
      /\ ListOf(t, b, top) /\ ApartBut(t, {}) /\ Cover(t) = Cover(s) \ Bytes(a, z) /\ t \in Seq(Hole)
  BY <1>3 DEF AllocatedAt, ListOf
<1>5. /\ hm \in [chain : Seq(Hole), bottom : Nat, top : Nat, pending : Nat]
      /\ hm.chain = t /\ hm.bottom = b /\ hm.top = top /\ hm.pending = hl.pending
  BY <1>0, <1>2, <1>4
<1>6. c.addr = a /\ c.layout = l /\ blockSize(c) = z /\ memOf(c) = [addr |-> a, size |-> z]
  BY <1>0 DEF blockSize, memOf
<1>7. Placed(memOf(c), b, top)
  <2>1. PICK m : m = [addr |-> a, size |-> z]
    OBVIOUS
  <2>2. m \in Hole /\ m.addr = a /\ m.size = z
    BY <1>1, <1>4, <2>1 DEF Hole
  <2>3. Placed(m, b, top)
    BY <1>1, <1>4, <2>2 DEF Placed, holeEnd
  <2> QED  BY <1>6, <2>1, <2>3
<1>8. TakenBy(bm) = TakenBy(bl) \cup Bytes(a, z)
  <2>1. bm = bl \cup {c}
    BY <1>0
  <2>2. TakenBy(bl \cup {c}) = TakenBy(bl) \cup Bytes(c.addr, blockSize(c))
    BY Zenon DEF TakenBy
  <2> QED  BY <1>6, <2>1, <2>2
<1>9. TakenBy(bl) \cap Bytes(a, z) = {}
  BY <1>2, <1>4
<1>10. BlocksOK(bm, b, top)
  <2>1. ASSUME NEW d \in bl PROVE Bytes(d.addr, blockSize(d)) \cap Bytes(c.addr, blockSize(c)) = {}
    <3>1. Bytes(d.addr, blockSize(d)) \subseteq TakenBy(bl)
      BY DEF TakenBy
    <3> QED  BY <1>6, <1>9, <3>1
  <2>2. bm = bl \cup {c} /\ c.layout \in Layouts
    BY <1>0, <1>6
  <2>3. \A d \in bm : d.layout \in Layouts /\ Placed(memOf(d), b, top)
    BY <1>2, <1>7, <2>2 DEF BlocksOK
  <2>4. ASSUME NEW d \in bm, NEW g \in bm, d # g
        PROVE  Bytes(d.addr, blockSize(d)) \cap Bytes(g.addr, blockSize(g)) = {}
    <3>1. CASE d \in bl /\ g \in bl
      BY <1>2, <2>4, <3>1 DEF BlocksOK
    <3>2. CASE d \in bl /\ g = c
      BY <2>1, <3>2
    <3>3. CASE d = c /\ g \in bl
      BY <2>1, <3>3
    <3> QED  BY <2>2, <2>4, <3>1, <3>2, <3>3
  <2> QED  BY <2>3, <2>4 DEF BlocksOK
<1>11. Cover(t) = (b .. top - 1) \ TakenBy(bm)
  BY <1>2, <1>4, <1>8
<1>12. HeapOK(hm, bm)
  <2>1. hl.pending < min_size /\ isAligned(b) /\ isAligned(top) /\ ((b = 0 /\ top = 0) \/ (b # 0 /\ b + min_size <= top))
    BY <1>0 DEF HeapOK
  <2> QED  BY <1>4, <1>5, <1>10, <1>11, <2>1 DEF HeapOK
<1>13. Cardinality(TakenBy(bm)) = Cardinality(TakenBy(bl)) + z
  <2>1. PICK K, D : K = TakenBy(bl) /\ D = Bytes(a, z)
    OBVIOUS
  <2>2. IsFiniteSet(K) /\ Cardinality(K) \in Nat
    BY <2>1, HeapCount
  <2>3. IsFiniteSet(D) /\ Cardinality(D) = z
    BY <1>1, <1>4, <2>1, BytesCount
  <2>4. K \cap D = {} /\ Cardinality({}) = 0
    BY <1>9, <2>1, FS_EmptySet
  <2>5. Cardinality(K \cup D) = Cardinality(K) + Cardinality(D) - Cardinality(K \cap D)
    BY <2>2, <2>3, FS_Union
  <2>6. Cardinality(K \cup D) = Cardinality(K) + z
    <3>1. Cardinality(K \cup D) = Cardinality(K) + z - 0
      BY <2>3, <2>4, <2>5
    <3> QED  BY <1>1, <2>2, <3>1
  <2> QED  BY <1>8, <2>1, <2>6
<1> QED  BY <1>0, <1>4, <1>5, <1>12, <1>13

(* Freeing a block.                                                        *)
LEMMA FreeKeeps ==
  ASSUME HeapAssumption, NEW hl, NEW bl, HeapOK(hl, bl), NEW c \in bl,
         NEW hm, hm = deallocate(hl, c.addr, blockSize(c)), NEW bm, bm = bl \ {c}
  PROVE  /\ ~ bad_free(hl, c.addr, blockSize(c))
         /\ HeapOK(hm, bm) /\ hm.bottom = hl.bottom /\ hm.top = hl.top /\ hm.pending = hl.pending
         /\ Cardinality(TakenBy(bm)) = Cardinality(TakenBy(bl)) - blockSize(c)
<1>0. PICK s, b, top, z, h : /\ s = hl.chain /\ b = hl.bottom /\ top = hl.top /\ z = blockSize(c) /\ h = memOf(c)
  OBVIOUS
<1>2. /\ s \in Seq(Hole) /\ b \in Nat /\ top \in Nat /\ ListOf(s, b, top) /\ ApartBut(s, {})
      /\ BlocksOK(bl, b, top) /\ Cover(s) = (b .. top - 1) \ TakenBy(bl)
      /\ hl \in [chain : Seq(Hole), bottom : Nat, top : Nat, pending : Nat]
  BY <1>0 DEF HeapOK
<1>3. Tiling(Pieces(hl, bl), b, top)
  BY <1>0, HeapTiling
<1>4. Placed(h, b, top) /\ h.addr = c.addr /\ h.size = z /\ h \in Pieces(hl, bl)
  BY <1>0, <1>2 DEF BlocksOK, memOf, Pieces
<1>5. Room(h, top) /\ (h.addr = b \/ b + min_size <= h.addr)
  BY <1>2, <1>3, <1>4, TilingRoom
<1>6. \A n \in 1 .. Len(s) : s[n] \in Pieces(hl, bl)
  BY <1>0 DEF Pieces, Elems
<1>7. AllRoom(s, top)
  <2>1. \A n \in 1 .. Len(s) : Room(s[n], top)
    BY <1>2, <1>3, <1>6, TilingRoom
  <2> QED  BY <2>1 DEF AllRoom
<1>8. h \in Hole /\ h.size > 0 /\ \A n \in 1 .. Len(s) : s[n] \in Hole /\ s[n].size > 0
  <2>1. ASSUME NEW g, Placed(g, b, top) PROVE g \in Hole /\ g.size > 0
    BY <2>1, MinSize, HoleListAssumption DEF Placed, Hole
  <2> QED  BY <1>2, <1>4, <2>1 DEF ListOf
<1>9. Bytes(h.addr, h.size) \subseteq TakenBy(bl)
  BY <1>0, <1>4 DEF TakenBy
<1>10. ASSUME NEW n \in 1 .. Len(s) PROVE holeEnd(s[n]) <= h.addr \/ holeEnd(h) <= s[n].addr
  <2>1. s[n] \in Elems(s)
    BY DEF Elems
  <2>2. Bytes(s[n].addr, s[n].size) \subseteq Cover(s)
    BY <2>1 DEF Cover
  <2>3. Bytes(s[n].addr, s[n].size) \cap Bytes(h.addr, h.size) = {}
    BY <1>2, <1>9, <2>2
  <2> QED  BY <1>8, <2>3, ApartOrder
<1>11. /\ ~ bad_free(hl, h.addr, h.size)
       /\ \E t : /\ deallocate(hl, h.addr, h.size) = [hl EXCEPT !.chain = t]
                 /\ ListOf(t, b, top) /\ ApartBut(t, {})
                 /\ Cover(t) = Cover(s) \cup Bytes(h.addr, h.size)
  BY <1>0, <1>2, <1>4, <1>5, <1>7, <1>10, Deallocated
<1>12. PICK t : /\ hm = [hl EXCEPT !.chain = t] /\ ListOf(t, b, top) /\ ApartBut(t, {})
                /\ Cover(t) = Cover(s) \cup Bytes(h.addr, h.size)
  BY <1>0, <1>4, <1>11
<1>13. /\ hm \in [chain : Seq(Hole), bottom : Nat, top : Nat, pending : Nat]
       /\ hm.chain = t /\ hm.bottom = b /\ hm.top = top /\ hm.pending = hl.pending
  BY <1>0, <1>2, <1>12 DEF ListOf
<1>14. TakenBy(bm) = TakenBy(bl) \ Bytes(h.addr, h.size)
  <2>1. TakenBy(bl) = TakenBy(bm) \cup Bytes(h.addr, h.size)
    <3>1. bl = bm \cup {c}
      OBVIOUS
    <3>2. TakenBy(bm \cup {c}) = TakenBy(bm) \cup Bytes(c.addr, blockSize(c))
      BY Zenon DEF TakenBy
    <3> QED  BY <1>0, <1>4, <3>1, <3>2
  <2>2. ASSUME NEW d \in bm PROVE Bytes(d.addr, blockSize(d)) \cap Bytes(h.addr, h.size) = {}
    <3>1. d \in bl /\ d # c
      OBVIOUS
    <3> QED  BY <1>0, <1>2, <1>4, <3>1 DEF BlocksOK
  <2>3. TakenBy(bm) \cap Bytes(h.addr, h.size) = {}
    BY <2>2 DEF TakenBy
  <2> QED  BY <2>1, <2>3
<1>15. Bytes(h.addr, h.size) \subseteq b .. top - 1
  <2>1. h.addr \in Nat /\ h.size \in Nat /\ b <= h.addr /\ h.addr + h.size <= top
    BY <1>4 DEF Placed, Hole, holeEnd
  <2> QED  BY <1>2, <2>1, SMTT(60) DEF Bytes
<1>16. Cover(t) = (b .. top - 1) \ TakenBy(bm)
  BY <1>2, <1>12, <1>14, <1>15
<1>17. BlocksOK(bm, b, top)
  BY <1>2 DEF BlocksOK
<1>18. HeapOK(hm, bm)
  <2>1. hl.pending < min_size /\ isAligned(b) /\ isAligned(top) /\ ((b = 0 /\ top = 0) \/ (b # 0 /\ b + min_size <= top))
    BY <1>0 DEF HeapOK
  <2> QED  BY <1>12, <1>13, <1>16, <1>17, <2>1 DEF HeapOK
<1>19. Cardinality(TakenBy(bm)) = Cardinality(TakenBy(bl)) - z
  <2>1. PICK K, D : K = TakenBy(bl) /\ D = Bytes(h.addr, h.size)
    OBVIOUS
  <2>2. IsFiniteSet(K)
    BY <2>1, HeapCount
  <2>3. Cardinality(D) = z
    BY <1>4, <1>8, <2>1, BytesCount DEF Hole
  <2>4. K \cap D = D
    BY <1>9, <2>1
  <2>5. Cardinality(K \ D) = Cardinality(K) - Cardinality(K \cap D)
    BY <2>2, FS_Difference
  <2> QED  BY <1>14, <2>1, <2>3, <2>4, <2>5
<1> QED  BY <1>0, <1>4, <1>11, <1>13, <1>18, <1>19

(* More memory behind the heap.                                            *)
LEMMA ExtendKeeps ==
  ASSUME NEW hl, NEW bl, HeapOK(hl, bl), hl.bottom # 0, NEW by \in Nat, NEW hm, hm = extend(hl, by)
  PROVE  HeapOK(hm, bl) /\ hm.bottom = hl.bottom /\ hm.top + hm.pending = hl.top + hl.pending + by
<1>0. PICK s, b, top, x : /\ s = hl.chain /\ b = hl.bottom /\ top = hl.top /\ x = hl.pending + by
  OBVIOUS
<1>1. /\ s \in Seq(Hole) /\ b \in Nat /\ top \in Nat /\ x \in Nat /\ hl.pending \in Nat /\ ListOf(s, b, top) /\ ApartBut(s, {})
      /\ BlocksOK(bl, b, top) /\ Cover(s) = (b .. top - 1) \ TakenBy(bl)
      /\ hl \in [chain : Seq(Hole), bottom : Nat, top : Nat, pending : Nat]
      /\ isAligned(b) /\ isAligned(top) /\ b # 0 /\ b + min_size <= top
  BY <1>0 DEF HeapOK
<1>2. CASE x < min_size
  <2>1. hm = [hl EXCEPT !.pending = x]
    BY <1>0, <1>2 DEF extend
  <2>2. /\ hm \in [chain : Seq(Hole), bottom : Nat, top : Nat, pending : Nat]
        /\ hm.chain = s /\ hm.bottom = b /\ hm.top = top /\ hm.pending = x
    BY <1>0, <1>1, <2>1
  <2>3. HeapOK(hm, bl)
    BY <1>1, <1>2, <2>2 DEF HeapOK
  <2>4. top + x = top + hl.pending + by
    BY <1>0, <1>1
  <2> QED  BY <1>0, <2>2, <2>3, <2>4
<1>3. CASE ~(x < min_size)
  <2> DEFINE z == align_down_size(x, HoleAlign)
  <2>1. z \in Nat /\ z >= min_size /\ z <= x /\ x < z + Word /\ isAligned(z)
    <3>1. z \in Int /\ z % Word = 0 /\ z <= x /\ x < z + Word /\ Word \in Nat \ {0}
      <4>1. x \in Int /\ Word \in Nat \ {0}
        BY <1>1, HoleListAssumption
      <4> QED  BY <4>1, AlignDown DEF HoleAlign
    <3> HIDE DEF z
    <3>2. ASSUME z < min_size PROVE FALSE
      <4>1. z + Word <= min_size
        <5>1. min_size \in Int /\ min_size % Word = 0
          BY MinSize DEF isAligned
        <5> QED  BY <3>1, <3>2, <5>1, ModApart
      <4> QED  BY <1>1, <1>3, <3>1, <4>1, MinSize
    <3> QED  BY <3>1, <3>2, MinSize DEF isAligned
  <2> HIDE DEF z
  <2>2. align_layout([size |-> z, align |-> 1]).size = z
    <3>0. [size |-> z, align |-> 1] \in [size : Nat, align : Nat \ {0}]
      BY <2>1
    <3>1. PICK l \in [size : Nat, align : Nat \ {0}] : l = [size |-> z, align |-> 1]
      BY <3>0, Zenon
    <3>2. isAligned(l.size) /\ l.size >= min_size /\ l.size = z
      BY <2>1, <3>1
    <3> QED  BY <3>1, <3>2, LayoutSize
  <2>3. hm = [deallocate(hl, top, z) EXCEPT !.top = @ + z, !.pending = x - z]
    BY <1>0, <1>3, <2>2 DEF extend, z
  <2>4. PICK h, e : h = [addr |-> top, size |-> z] /\ e = top + z
    OBVIOUS
  <2>5. e \in Nat /\ isAligned(e) /\ top <= e /\ h \in Hole /\ h.addr = top /\ h.size = z /\ holeEnd(h) = e
    <3>1. (top + z) % Word = 0
      <4>1. top \in Int /\ z \in Int /\ Word \in Nat \ {0} /\ top % Word = 0 /\ z % Word = 0
        BY <1>1, <2>1, HoleListAssumption DEF isAligned
      <4> QED  BY <4>1, ModSum
    <3>2. h \in Hole /\ h.addr = top /\ h.size = z
      BY <1>1, <2>1, <2>4 DEF Hole
    <3> QED  BY <1>1, <2>1, <2>4, <3>1, <3>2 DEF isAligned, holeEnd
  <2>6. b <= top /\ b + min_size <= h.addr
    BY <1>1, <2>5, MinSize
  <2>7. Placed(h, b, e)
    BY <1>1, <2>1, <2>5, <2>6 DEF Placed
  <2>8. Room(h, top)
    BY <1>1, <2>5 DEF Room
  <2>9. ASSUME NEW g, Placed(g, b, top) PROVE Placed(g, b, e) /\ holeEnd(g) <= h.addr
    <3>1. holeEnd(g) \in Nat /\ holeEnd(g) <= top
      BY <2>9, HoleEnd DEF Placed
    <3>2. holeEnd(g) <= e
      BY <1>1, <2>5, <3>1
    <3> QED  BY <2>5, <2>9, <3>1, <3>2 DEF Placed
  <2>10. ListOf(s, b, e) /\ \A n \in 1 .. Len(s) : holeEnd(s[n]) <= h.addr
    BY <1>1, <2>9 DEF ListOf
  <2>11. AllRoom(s, top)
    <3>1. Tiling(Pieces(hl, bl), b, top)
      BY <1>0, HeapTiling
    <3>2. \A n \in 1 .. Len(s) : s[n] \in Pieces(hl, bl)
      BY <1>0 DEF Pieces, Elems
    <3>3. \A n \in 1 .. Len(s) : Room(s[n], top)
      BY <1>1, <3>1, <3>2, TilingRoom
    <3> QED  BY <3>3 DEF AllRoom
  <2>12. \E t : /\ deallocate(hl, h.addr, h.size) = [hl EXCEPT !.chain = t]
                /\ ListOf(t, b, e) /\ ApartBut(t, {})
                /\ Cover(t) = Cover(s) \cup Bytes(h.addr, h.size)
    BY <1>0, <1>1, <2>6, <2>7, <2>8, <2>10, <2>11, Deallocated
  <2>13. PICK t : /\ deallocate(hl, top, z) = [hl EXCEPT !.chain = t] /\ ListOf(t, b, e) /\ ApartBut(t, {})
                  /\ Cover(t) = Cover(s) \cup Bytes(top, z)
    BY <2>5, <2>12
  <2>14. t \in Seq(Hole) /\ x - z \in Nat /\ x - z < min_size
    BY <1>1, <2>1, <2>13, MinSize, HoleListAssumption, SMTT(60) DEF ListOf
  <2>15. /\ hm \in [chain : Seq(Hole), bottom : Nat, top : Nat, pending : Nat]
         /\ hm.chain = t /\ hm.bottom = b /\ hm.top = e /\ hm.pending = x - z
    BY <1>0, <1>1, <2>3, <2>4, <2>5, <2>13, <2>14, ZenonT(60)
  <2>16. BlocksOK(bl, b, e)
    BY <1>1, <2>9 DEF BlocksOK
  <2>17. Cover(t) = (b .. e - 1) \ TakenBy(bl)
    <3>1. PICK K : K = TakenBy(bl)
      OBVIOUS
    <3>2. K \subseteq b .. top - 1
      BY <1>0, <3>1, TakenWithin
    <3>3. Cover(t) = ((b .. top - 1) \ K) \cup (top .. top + z - 1)
      BY <1>1, <2>13, <3>1 DEF Bytes
    <3>4. (b .. e - 1) = (b .. top - 1) \cup (top .. top + z - 1) /\ (b .. top - 1) \cap (top .. top + z - 1) = {}
      BY <1>1, <2>1, <2>4, <2>6
    <3> QED  BY <3>1, <3>2, <3>3, <3>4
  <2>18. b + min_size <= e
    BY <1>1, <2>5, MinSize
  <2>19. HeapOK(hm, bl)
    BY <1>1, <2>5, <2>13, <2>14, <2>15, <2>16, <2>17, <2>18 DEF HeapOK
  <2>20. e + (x - z) = top + hl.pending + by
    BY <1>0, <1>1, <2>1, <2>4, SMTT(60)
  <2> QED  BY <1>0, <2>15, <2>19, <2>20
<1> QED  BY <1>2, <1>3

(* A heap given its first memory.                                          *)
LEMMA NewKeeps ==
  ASSUME NEW addr \in Nat \ {0}, NEW size \in Nat, new_ok(addr, size), NEW hm, hm = new(addr, size)
  PROVE  HeapOK(hm, {}) /\ hm.bottom # 0 /\ hm.top + hm.pending = addr + size /\ hm.pending < Word
<1> DEFINE b == align_up(addr, HoleAlign)
           r == size - (b - addr)
           z == align_down_size(r, HoleAlign)
           h == [addr |-> b, size |-> z]
<1>1. b \in Nat /\ addr <= b /\ isAligned(b) /\ b # 0 /\ Word \in Nat \ {0}
  <2>1. addr \in Nat /\ addr > 0 /\ Word \in Nat \ {0}
    BY HoleListAssumption
  <2>2. b \in Nat /\ addr <= b /\ b % Word = 0
    BY <2>1, AlignUp DEF HoleAlign
  <2> QED  BY <2>1, <2>2 DEF isAligned
<1>2. hm = [chain |-> <<h>>, bottom |-> b, top |-> b + z, pending |-> r - z] /\ z >= min_size
  BY DEF new, new_ok
<1> HIDE DEF b
<1>3. r \in Int
  BY <1>1
<1> HIDE DEF r
<1>4. z \in Int /\ isAligned(z) /\ z <= r /\ r < z + Word
  BY <1>1, <1>3, AlignDown DEF HoleAlign, isAligned
<1> HIDE DEF z
<1>5. z \in Nat /\ r - z \in Nat /\ r - z < min_size /\ b + z \in Nat /\ b + min_size <= b + z
  BY <1>1, <1>2, <1>3, <1>4, MinSize
<1>6. h \in Hole /\ h.addr = b /\ h.size = z /\ holeEnd(h) = b + z
  BY <1>1, <1>5 DEF Hole, holeEnd
<1> HIDE DEF h
<1>7. isAligned(b + z)
  <2>1. b \in Int /\ z \in Int /\ b % Word = 0 /\ z % Word = 0
    BY <1>1, <1>4 DEF isAligned
  <2> QED  BY <1>1, <2>1, ModSum DEF isAligned
<1>8. Placed(h, b, b + z)
  BY <1>1, <1>2, <1>4, <1>5, <1>6 DEF Placed
<1>9. <<h>> \in Seq(Hole) /\ Len(<<h>>) = 1 /\ <<h>>[1] = h /\ Elems(<<h>>) = {h} /\ Ordered(<<h>>)
  BY <1>6, OneElement
<1>10. /\ hm \in [chain : Seq(Hole), bottom : Nat, top : Nat, pending : Nat]
       /\ hm.chain = <<h>> /\ hm.bottom = b /\ hm.top = b + z /\ hm.pending = r - z
  BY <1>1, <1>2, <1>5, <1>9
<1>11. ListOf(<<h>>, b, b + z) /\ ApartBut(<<h>>, {})
  BY <1>8, <1>9 DEF ListOf, ApartBut
<1>12. BlocksOK({}, b, b + z) /\ TakenBy({}) = {}
  BY DEF BlocksOK, TakenBy
<1>13. Cover(<<h>>) = (b .. b + z - 1) \ TakenBy({})
  <2>1. Cover(<<h>>) = Bytes(h.addr, h.size)
    BY <1>9, Zenon DEF Cover
  <2> QED  BY <1>6, <1>12, <2>1 DEF Bytes
<1>14. HeapOK(hm, {})
  BY <1>1, <1>5, <1>7, <1>10, <1>11, <1>12, <1>13 DEF HeapOK
<1>15. b + z + (r - z) = addr + size
  BY <1>1, <1>3, <1>4 DEF r
<1>16. r - z < Word
  BY <1>1, <1>3, <1>4
<1> QED  BY <1>1, <1>10, <1>14, <1>15, <1>16

LEMMA EmptyKeeps == HeapOK(empty, {}) /\ Cardinality(TakenBy({})) = 0
<1>1. empty \in [chain : Seq(Hole), bottom : Nat, top : Nat, pending : Nat]
  BY DEF empty, Null
<1>2. empty.chain = <<>> /\ empty.bottom = 0 /\ empty.top = 0 /\ empty.pending = 0
  BY DEF empty, Null
<1>3. isAligned(0)
  <2>1. Word \in Nat \ {0} /\ 0 = Word * 0 /\ 0 \in Int
    BY HoleListAssumption
  <2> QED  BY <2>1, MultipleMod DEF isAligned
<1>4. ListOf(<<>>, 0, 0) /\ ApartBut(<<>>, {})
  BY DEF ListOf, ApartBut, Ordered
<1>5. BlocksOK({}, 0, 0) /\ TakenBy({}) = {} /\ Elems(<<>>) = {}
  BY DEF BlocksOK, TakenBy, Elems
<1>6. Cover(<<>>) = {}
  BY <1>5, Zenon DEF Cover
<1>7. 0 < min_size
  BY MinSize, HoleListAssumption
<1>8. (0 .. 0 - 1) \ TakenBy({}) = {}
  OBVIOUS
<1> QED  BY <1>1, <1>2, <1>3, <1>4, <1>5, <1>6, <1>7, <1>8, FS_EmptySet DEF HeapOK

-----------------------------------------------------------------------------
(* The theorem.                                                            *)

(* Holes and blocks fill the heap, and what the heap records of it is      *)
(* right.  HeapConsistent alone is not inductive: that no two blocks       *)
(* overlap and that each has room for a node is what keeps a freed block   *)
(* from reaching another, or from leaving a gap too small for a hole.      *)
HistoryOK == ret \in Nat /\ asked \in Layouts \cup {NoLayout}

HeapInv ==
  /\ HeapOK(holes, live)
  /\ used = Cardinality(TakenBy(live))
  /\ given \in Nat /\ HistoryOK
  /\ OwnsAllGiven /\ NoBadFree

LEMMA HeapInit == Init => HeapInv
<1> SUFFICES ASSUME Init PROVE HeapInv
  OBVIOUS
<1>1. holes = empty /\ live = {} /\ used = 0 /\ given = 0 /\ ret = 0 /\ asked = NoLayout /\ panic = "none"
  BY DEF Init, Null
<1>2. OwnsAllGiven /\ NoBadFree
  BY <1>1 DEF OwnsAllGiven, NoBadFree, empty
<1> QED  BY <1>1, <1>2, EmptyKeeps DEF HeapInv, HistoryOK

LEMMA HeapStutters == HeapInv /\ UNCHANGED <<used, holes, live, given>> /\ HistoryOK' /\ NoBadFree' => HeapInv'
BY DEF HeapInv, HeapOK, BlocksOK, TakenBy, memOf, blockSize, OwnsAllGiven, heapTop

(* The history of allocations when it is forgotten.                        *)
LEMMA Forgotten == forget => HistoryOK'
BY DEF forget, HistoryOK, Null

LEMMA PanicKeeps ==
  ASSUME HeapInv, NEW why, why # "Freed node aliases existing hole", Panic(why)
  PROVE  HeapInv'
<1>1. UNCHANGED <<used, holes, live, given>> /\ HistoryOK' /\ NoBadFree'
  BY DEF Panic, HeapInv, HistoryOK, NoBadFree
<1> QED  BY <1>1, HeapStutters

LEMMA InitKeeps ==
  ASSUME HeapAssumption, HeapInv, NEW m \in Starts, init(m.addr, m.size)
  PROVE  HeapInv'
<1>1. CASE ~ new_ok(m.addr, m.size) /\ Panic("too small")
  BY <1>1, PanicKeeps
<1>2. CASE new_ok(m.addr, m.size) /\ used' = 0 /\ holes' = new(m.addr, m.size) /\ given' = m.addr + m.size /\ forget /\ UNCHANGED <<live, panic>>
  <2>1. m.addr \in Nat \ {0} /\ m.size \in Nat
    BY DEF HeapAssumption, Null
  <2>2. HeapOK(holes', {}) /\ holes'.bottom # 0 /\ holes'.top + holes'.pending = m.addr + m.size
    BY <1>2, <2>1, NewKeeps
  <2>3. live = {}
    <3>1. ASSUME NEW c \in live PROVE FALSE
      <4>1. HeapOK(holes, live) /\ holes.bottom = 0
        BY DEF HeapInv, init, Null
      <4>2. holes.top = 0
        BY <4>1 DEF HeapOK
      <4>3. Placed(memOf(c), 0, 0)
        BY <4>1, <4>2 DEF HeapOK, BlocksOK
      <4> QED  BY <4>3, MinSize, HoleListAssumption DEF Placed, Hole, holeEnd
    <3> QED  BY <3>1
  <2>4. live' = {} /\ HeapOK(holes', live') /\ used' = Cardinality(TakenBy(live'))
    BY <1>2, <2>2, <2>3, EmptyKeeps
  <2>5. given' \in Nat /\ HistoryOK' /\ OwnsAllGiven' /\ NoBadFree'
    <3>1. given' \in Nat /\ given' = m.addr + m.size
      BY <1>2, <2>1
    <3>2. OwnsAllGiven'
      BY <2>2, <3>1, Zenon DEF OwnsAllGiven, heapTop
    <3>3. HistoryOK' /\ NoBadFree'
      BY <1>2, Forgotten DEF HeapInv, NoBadFree
    <3> QED  BY <3>1, <3>2, <3>3
  <2> QED  BY <2>4, <2>5 DEF HeapInv, HeapOK, BlocksOK, TakenBy, memOf, blockSize
<1> QED  BY <1>1, <1>2 DEF init

LEMMA AllocStep ==
  ASSUME HeapAssumption, HeapInv, NEW l \in Layouts, alloc(l)
  PROVE  HeapInv'
<1>1. CASE noFit(l) /\ ret' = Null /\ UNCHANGED <<holes, used, live>>
  <2>1. UNCHANGED <<used, holes, live, given>> /\ HistoryOK' /\ NoBadFree'
    BY <1>1 DEF alloc, HeapInv, HistoryOK, NoBadFree, Null
  <2> QED  BY <2>1, HeapStutters
<1>2. CASE allocate_first_fit(l)
  <2>1. PICK n \in 1 .. Len(holes.chain) :
             /\ isFirstFit(holes.chain, n, align_layout(l))
             /\ holes' = [holes EXCEPT !.chain = split_current(@, n, align_layout(l))]
             /\ used' = used + align_layout(l).size
             /\ ret' = aligned_addr(holes.chain[n], align_layout(l).align)
             /\ live' = live \cup {[addr |-> aligned_addr(holes.chain[n], align_layout(l).align), layout |-> l]}
    BY <1>2 DEF allocate_first_fit
  <2>2. PICK hl, bl, hm, bm, a : hl = holes /\ bl = live /\ hm = holes' /\ bm = live' /\ a = ret'
    OBVIOUS
  <2>3. HeapOK(hl, bl) /\ AllocatesIn(hl, bl, l, n, a, hm, bm)
    BY <2>1, <2>2 DEF HeapInv, isFirstFit, AllocatesIn
  <2>4. /\ a \in Nat /\ HeapOK(hm, bm) /\ hm.bottom = hl.bottom /\ hm.top = hl.top /\ hm.pending = hl.pending
        /\ Cardinality(TakenBy(bm)) = Cardinality(TakenBy(bl)) + align_layout(l).size
    BY <2>3, AllocKeeps
  <2>5. HeapOK(holes', live') /\ HistoryOK' /\ used' = Cardinality(TakenBy(live'))
    BY <2>1, <2>2, <2>4 DEF HeapInv, HistoryOK, alloc
  <2>6. given' \in Nat /\ OwnsAllGiven' /\ NoBadFree'
    BY <2>2, <2>4 DEF HeapInv, alloc, OwnsAllGiven, NoBadFree, heapTop
  <2> QED  BY <2>5, <2>6 DEF HeapInv, HeapOK, BlocksOK, TakenBy, memOf, blockSize
<1> QED  BY <1>1, <1>2 DEF alloc

LEMMA DeallocStep ==
  ASSUME HeapAssumption, HeapInv, NEW c \in live, dealloc(c)
  PROVE  HeapInv'
<1>1. PICK hl, bl, hm, bm, z : hl = holes /\ bl = live /\ hm = deallocate(holes, c.addr, z) /\ bm = live \ {c} /\ z = blockSize(c)
  OBVIOUS
<1>2. HeapOK(hl, bl) /\ c \in bl /\ hm = deallocate(hl, c.addr, blockSize(c)) /\ bm = bl \ {c}
  BY <1>1 DEF HeapInv
<1>3. /\ ~ bad_free(hl, c.addr, blockSize(c))
      /\ HeapOK(hm, bm) /\ hm.bottom = hl.bottom /\ hm.top = hl.top /\ hm.pending = hl.pending
      /\ Cardinality(TakenBy(bm)) = Cardinality(TakenBy(bl)) - blockSize(c)
  BY <1>2, FreeKeeps
<1>4. holes' = hm /\ used' = used - z /\ live' = bm /\ forget /\ UNCHANGED <<given, panic>>
  BY <1>1, <1>3 DEF dealloc, blockSize
<1>5. HeapOK(holes', live') /\ used' = Cardinality(TakenBy(live'))
  BY <1>1, <1>3, <1>4 DEF HeapInv
<1>6. given' \in Nat /\ HistoryOK' /\ OwnsAllGiven' /\ NoBadFree'
  BY <1>1, <1>3, <1>4, Forgotten DEF HeapInv, OwnsAllGiven, NoBadFree, heapTop
<1> QED  BY <1>5, <1>6 DEF HeapInv, HeapOK, BlocksOK, TakenBy, memOf, blockSize

LEMMA ExtendStep ==
  ASSUME HeapAssumption, HeapInv, NEW by \in Extends, extend_by(by)
  PROVE  HeapInv'
<1>1. CASE holes.bottom = Null /\ Panic("tried to extend an empty heap")
  BY <1>1, PanicKeeps
<1>2. CASE holes.bottom # Null /\ holes' = extend(holes, by) /\ given' = given + by /\ forget /\ UNCHANGED <<used, live, panic>>
  <2>1. by \in Nat /\ given \in Nat
    BY DEF HeapAssumption, HeapInv
  <2>2. PICK hl, bl, hm : hl = holes /\ bl = live /\ hm = holes'
    OBVIOUS
  <2>3. HeapOK(hl, bl) /\ hl.bottom # 0 /\ hm = extend(hl, by)
    BY <1>2, <2>2 DEF HeapInv, Null
  <2>4. HeapOK(hm, bl) /\ hm.bottom = hl.bottom /\ hm.top + hm.pending = hl.top + hl.pending + by
    BY <2>1, <2>3, ExtendKeeps
  <2>5. hl.top + hl.pending = given
    BY <1>2, <2>2 DEF HeapInv, OwnsAllGiven, heapTop
  <2>6. hl.top \in Nat /\ hl.pending \in Nat
    BY <2>3 DEF HeapOK
  <2>7. hm.top + hm.pending = given + by
    BY <2>1, <2>4, <2>5, <2>6
  <2>8. HeapOK(holes', live') /\ used' = Cardinality(TakenBy(live'))
    BY <1>2, <2>2, <2>4 DEF HeapInv
  <2>9. given' \in Nat /\ HistoryOK' /\ OwnsAllGiven' /\ NoBadFree'
    <3>1. given' \in Nat /\ given' = given + by
      BY <1>2, <2>1
    <3>2. OwnsAllGiven'
      BY <2>2, <2>7, <3>1, Zenon DEF OwnsAllGiven, heapTop
    <3>3. HistoryOK' /\ NoBadFree'
      BY <1>2, Forgotten DEF HeapInv, NoBadFree
    <3> QED  BY <3>1, <3>2, <3>3
  <2> QED  BY <2>8, <2>9 DEF HeapInv, HeapOK, BlocksOK, TakenBy, memOf, blockSize
<1> QED  BY <1>1, <1>2 DEF extend_by

LEMMA HeapStep ==
  ASSUME HeapAssumption, HeapInv, [Next]_vars
  PROVE  HeapInv'
<1>1. ASSUME NEW l \in Layouts, allocate_nothing(l) PROVE HeapInv'
  <2>1. l.align \in Nat
    BY DEF HeapAssumption
  <2>2. UNCHANGED <<used, holes, live, given>> /\ HistoryOK' /\ NoBadFree'
    BY <1>1, <2>1 DEF allocate_nothing, HeapInv, HistoryOK, NoBadFree
  <2> QED  BY <2>2, HeapStutters
<1>2. ASSUME NEW l \in Layouts, handle_alloc_error(l) PROVE HeapInv'
  <2>1. UNCHANGED <<used, holes, live, given>> /\ HistoryOK' /\ NoBadFree'
    BY <1>2 DEF handle_alloc_error, HistoryOK, NoBadFree, Null
  <2> QED  BY <2>1, HeapStutters
<1>3. ASSUME UNCHANGED vars PROVE HeapInv'
  <2>1. UNCHANGED <<used, holes, live, given>> /\ HistoryOK' /\ NoBadFree'
    BY <1>3 DEF vars, HeapInv, HistoryOK, NoBadFree
  <2> QED  BY <2>1, HeapStutters
<1>4. CASE \E m \in Starts : init(m.addr, m.size)
  BY <1>4, InitKeeps
<1>5. CASE \E l \in Layouts : alloc(l) \/ allocate_nothing(l) \/ handle_alloc_error(l)
  BY <1>1, <1>2, <1>5, AllocStep
<1>6. CASE \E c \in live : dealloc(c)
  BY <1>6, DeallocStep
<1>7. CASE \E by \in Extends : extend_by(by)
  BY <1>7, ExtendStep
<1>8. CASE panicked
  BY <1>3, <1>8 DEF panicked
<1> QED  BY <1>3, <1>4, <1>5, <1>6, <1>7, <1>8 DEF Next

LEMMA HeapInvSays == HeapInv => HeapConsistent
<1> SUFFICES ASSUME HeapInv PROVE HeapConsistent
  OBVIOUS
<1>0. PICK s, b, top : s = holes.chain /\ b = holes.bottom /\ top = holes.top
  OBVIOUS
<1>1. /\ s \in Seq(Hole) /\ Len(s) \in Nat /\ b \in Nat /\ top \in Nat /\ holes.pending \in Nat /\ holes.pending < min_size
      /\ ListOf(s, b, top) /\ ApartBut(s, {}) /\ BlocksOK(live, b, top) /\ Cover(s) = (b .. top - 1) \ TakenBy(live)
  BY <1>0, LenProperties DEF HeapInv, HeapOK
<1>2. TakenBy(live) = Taken /\ InHoles = Cover(s)
  <2>1. Cover(s) = UNION {Bytes(s[n].addr, s[n].size) : n \in 1 .. Len(s)}
    BY DEF Cover, Elems
  <2> QED  BY <1>0, <2>1 DEF TakenBy, Taken, InHoles
<1>3. /\ Cardinality(Taken) \in Nat /\ used = Cardinality(Taken)
      /\ holes.top - holes.bottom - Cardinality(Taken) = Cardinality(InHoles)
  BY <1>0, <1>2, HeapCount DEF HeapInv
<1>4. HeapTypeOK
  <2>1. holes.pending \in 0 .. min_size - 1
    BY <1>1, MinSize
  <2>2. ASSUME NEW c \in live PROVE c.addr \in Nat /\ c.layout \in Layouts
    <3>1. Placed(memOf(c), b, top) /\ memOf(c).addr = c.addr /\ c.layout \in Layouts
      BY <1>1 DEF BlocksOK, memOf
    <3>2. memOf(c).addr \in Nat
      BY <3>1 DEF Placed, Hole
    <3> QED  BY <3>1, <3>2
  <2>3. used \in Nat /\ given \in Nat /\ ret \in Nat /\ asked \in Layouts \cup {NoLayout}
    BY <1>3 DEF HeapInv, HistoryOK
  <2> QED  BY <1>0, <1>1, <2>1, <2>2, <2>3 DEF HeapTypeOK, Hole
<1>5. HolesAreGaps
  <2>1. \A n \in 1 .. Len(s) : s[n].size >= min_size /\ s[n].addr % HoleAlign = 0
    BY <1>1 DEF ListOf, Placed, isAligned, HoleAlign
  <2>2. \A n \in 1 .. Len(s) - 1 : holeEnd(s[n]) < s[n + 1].addr
    BY <1>1 DEF ApartBut
  <2> QED  BY <1>0, <1>1, <1>2, <2>1, <2>2 DEF HolesAreGaps
<1>6. UsedIsTaken
  BY <1>3 DEF UsedIsTaken, heapFree, heapSize
<1> QED  BY <1>4, <1>5, <1>6 DEF HeapConsistent, HeapInv

(* The kernel heap is consistent for every word size, every set of         *)
(* layouts and every amount of memory given to it: whatever is allocated,  *)
(* freed and added, the list of holes is sorted, its holes are apart and   *)
(* exactly the bytes no block covers, used counts the bytes of the blocks, *)
(* top() is the end of the memory given, and the assertions of             *)
(* try_insert_back and try_insert_after in hole.rs never fail.             *)
THEOREM HeapCorrect ==
  ASSUME HeapAssumption
  PROVE  Spec => []HeapConsistent
<1>1. HeapInv /\ [Next]_vars => HeapInv'
  BY HeapStep
<1> QED  BY <1>1, HeapInit, HeapInvSays, PTL DEF Spec

-----------------------------------------------------------------------------
(* What the heap promises: BlockHeap.                                      *)

greatestOf(S) == CHOOSE x \in S : \A y \in S : x >= y
leastOf(S) == CHOOSE x \in S : \A y \in S : x =< y

LEMMA GreatestIs ==
  ASSUME NEW S, S \subseteq Nat, NEW m \in S, \A y \in S : y <= m
  PROVE  greatestOf(S) = m
<1>1. \E x \in S : \A y \in S : x >= y
  OBVIOUS
<1>2. greatestOf(S) \in S /\ \A y \in S : greatestOf(S) >= y
  BY <1>1, Zenon DEF greatestOf
<1>3. PICK g \in S : g = greatestOf(S)
  BY <1>2
<1>4. g >= m /\ g <= m /\ g \in Nat /\ m \in Nat
  BY <1>2, <1>3
<1>5. g = m
  BY <1>4
<1> QED  BY <1>3, <1>5

LEMMA LeastIs ==
  ASSUME NEW S, S \subseteq Nat, NEW m \in S, \A y \in S : m <= y
  PROVE  leastOf(S) = m
<1>1. \E x \in S : \A y \in S : x =< y
  OBVIOUS
<1>2. leastOf(S) \in S /\ \A y \in S : leastOf(S) =< y
  BY <1>1, Zenon DEF leastOf
<1>3. PICK g \in S : g = leastOf(S)
  BY <1>2
<1>4. g >= m /\ g <= m /\ g \in Nat /\ m \in Nat
  BY <1>2, <1>3
<1>5. g = m
  BY <1>4
<1> QED  BY <1>3, <1>5

LEMMA GreatestAtMost ==
  ASSUME NEW top \in Nat, NEW S, \A x \in S : x \in Nat /\ x <= top, NEW y \in S
  PROVE  \E x \in S : \A z \in S : x >= z
<1> DEFINE T == {x + 1 : x \in S}
<1>1. T \subseteq 1 .. top + 1 /\ T # {} /\ top + 1 \in Nat
  OBVIOUS
<1>2. PICK t \in T : \A u \in T : u <= t
  <2> HIDE DEF T
  <2> QED  BY <1>1, GreatestBelow
<1>3. PICK x \in S : t = x + 1
  BY <1>2
<1>4. ASSUME NEW z \in S PROVE x >= z
  <2>1. z + 1 \in T
    OBVIOUS
  <2>2. z + 1 <= x + 1 /\ z \in Nat /\ x \in Nat
    BY <1>2, <1>3, <2>1
  <2> QED  BY <2>2
<1> QED  BY <1>4

mems(bl) == {memOf(c) : c \in bl}
endsBelow(hl, bl, a) == {hl.bottom} \cup {m.addr + m.size : m \in {x \in mems(bl) : x.addr < a}}
startsAbove(hl, bl, a) == {hl.top} \cup {m.addr : m \in {x \in mems(bl) : x.addr >= a}}
remains(n) == n = 0 \/ n >= 2 * Word

(* BlockHeap!Places, of a list of holes and blocks.                        *)
PlacesOf(hl, bl, l) ==
  {a \in hl.bottom .. hl.top :
     /\ a % l.align = 0
     /\ greatestOf(endsBelow(hl, bl, a)) <= a /\ a + l.size <= leastOf(startsAbove(hl, bl, a))
     /\ remains(a - greatestOf(endsBelow(hl, bl, a)))
     /\ remains(leastOf(startsAbove(hl, bl, a)) - (a + l.size))}

(* A place in the hole h.                                                  *)
PlaceIn(h, a, l) ==
  /\ h.addr <= a /\ a + l.size <= holeEnd(h) /\ a % l.align = 0
  /\ remains(a - h.addr) /\ remains(holeEnd(h) - (a + l.size))

LEMMA BlockFacts ==
  ASSUME NEW hl, NEW bl, HeapOK(hl, bl), NEW m \in mems(bl)
  PROVE  /\ m \in Hole /\ m.addr \in Nat /\ m.size \in Nat /\ m.size > 0 /\ hl.bottom <= m.addr /\ m.addr + m.size <= hl.top
         /\ Bytes(m.addr, m.size) \subseteq TakenBy(bl)
<1>1. PICK c \in bl : m = memOf(c)
  BY DEF mems
<1>2. Placed(m, hl.bottom, hl.top)
  BY <1>1 DEF HeapOK, BlocksOK
<1>3. m.addr = c.addr /\ m.size = blockSize(c)
  BY <1>1 DEF memOf
<1>4. Bytes(m.addr, m.size) \subseteq TakenBy(bl)
  BY <1>3 DEF TakenBy
<1> QED  BY <1>2, <1>4, MinSize, HoleListAssumption DEF Placed, Hole, holeEnd

LEMMA HoleFacts ==
  ASSUME NEW hl, NEW bl, HeapOK(hl, bl), NEW n \in 1 .. Len(hl.chain), NEW h, h = hl.chain[n]
  PROVE  /\ h \in Hole /\ isAligned(h.addr) /\ h.addr \in Nat /\ h.size \in Nat /\ h.size > 0 /\ hl.bottom <= h.addr
         /\ holeEnd(h) = h.addr + h.size /\ holeEnd(h) \in Nat /\ holeEnd(h) <= hl.top
         /\ Bytes(h.addr, h.size) \subseteq Cover(hl.chain)
<1>1. Placed(h, hl.bottom, hl.top)
  BY DEF HeapOK, ListOf
<1>2. h \in Elems(hl.chain)
  BY DEF Elems
<1>3. Bytes(h.addr, h.size) \subseteq Cover(hl.chain)
  BY <1>2 DEF Cover
<1> QED  BY <1>1, <1>3, MinSize, HoleListAssumption DEF Placed, Hole, holeEnd

(* A hole is all of the gap between the blocks around it.                  *)
LEMMA HoleIsGap ==
  ASSUME NEW hl, NEW bl, HeapOK(hl, bl), NEW n \in 1 .. Len(hl.chain), NEW h, h = hl.chain[n],
         NEW a \in Nat, h.addr <= a, a < holeEnd(h)
  PROVE  greatestOf(endsBelow(hl, bl, a)) = h.addr /\ leastOf(startsAbove(hl, bl, a)) = holeEnd(h)
<1>0. PICK s, b, top, end : s = hl.chain /\ b = hl.bottom /\ top = hl.top /\ end = holeEnd(h)
  OBVIOUS
<1>1. /\ h \in Hole /\ h.addr \in Nat /\ h.size \in Nat /\ h.size > 0 /\ b <= h.addr /\ end = h.addr + h.size /\ end \in Nat
      /\ end <= top /\ Bytes(h.addr, h.size) \subseteq Cover(s) /\ n \in 1 .. Len(s) /\ a < end
  BY <1>0, HoleFacts
<1>2. /\ s \in Seq(Hole) /\ Len(s) \in Nat /\ b \in Nat /\ top \in Nat /\ Gaps(s, 1) /\ Cover(s) = (b .. top - 1) \ TakenBy(bl)
  BY <1>0, LenProperties, GapsFacts DEF HeapOK, ListOf
<1>3. ASSUME NEW m \in mems(bl)
      PROVE  /\ m.addr \in Nat /\ m.size \in Nat /\ m.size > 0 /\ b <= m.addr /\ m.addr + m.size <= top
             /\ m.addr + m.size <= h.addr \/ end <= m.addr
  <2>1. /\ m \in Hole /\ m.addr \in Nat /\ m.size \in Nat /\ m.size > 0 /\ b <= m.addr /\ m.addr + m.size <= top
        /\ Bytes(m.addr, m.size) \subseteq TakenBy(bl)
    BY <1>0, BlockFacts
  <2>2. Bytes(m.addr, m.size) \cap Bytes(h.addr, h.size) = {}
    BY <1>1, <1>2, <2>1
  <2>3. holeEnd(m) <= h.addr \/ holeEnd(h) <= m.addr
    BY <1>1, <2>1, <2>2, ApartOrder
  <2>4. holeEnd(m) = m.addr + m.size
    BY DEF holeEnd
  <2> QED  BY <1>0, <2>1, <2>3, <2>4
<1>4. ASSUME NEW k \in 1 .. Len(s), NEW x \in Nat, x \in Bytes(s[k].addr, s[k].size) PROVE x + 1 # h.addr /\ x # end
  <2>1. s[k].addr \in Nat /\ s[k].size \in Nat /\ holeEnd(s[k]) = s[k].addr + s[k].size
    BY <1>0, HoleFacts
  <2>2. s[k].addr <= x /\ x < s[k].addr + s[k].size
    BY <1>4, <2>1 DEF Bytes
  <2>3. CASE k = n
    BY <1>0, <1>1, <2>1, <2>2, <2>3
  <2>4. CASE k < n
    <3>1. holeEnd(s[k]) + 1 <= h.addr
      BY <1>0, <1>1, <1>2, <2>4 DEF Gaps
    <3> QED  BY <1>1, <2>1, <2>2, <3>1, SMTT(60)
  <2>5. CASE n < k
    <3>1. end + 1 <= s[k].addr
      BY <1>0, <1>1, <1>2, <2>5 DEF Gaps
    <3> QED  BY <1>1, <2>1, <2>2, <3>1, SMTT(60)
  <2> QED  BY <1>1, <1>2, <2>3, <2>4, <2>5
<1>5. ASSUME NEW x \in b .. top - 1, x + 1 = h.addr \/ x = end
      PROVE  \E m \in mems(bl) : m.addr <= x /\ x < m.addr + m.size
  <2>1. x \notin Cover(s)
    <3>1. SUFFICES ASSUME x \in Cover(s) PROVE FALSE
      OBVIOUS
    <3>2. PICK k \in 1 .. Len(s) : x \in Bytes(s[k].addr, s[k].size)
      BY <3>1 DEF Cover, Elems
    <3>3. x \in Nat
      BY <1>2
    <3> QED  BY <1>4, <1>5, <3>2, <3>3
  <2>2. PICK c \in bl : x \in Bytes(c.addr, blockSize(c))
    BY <1>2, <2>1 DEF TakenBy
  <2>3. PICK m \in mems(bl) : m.addr = c.addr /\ m.size = blockSize(c)
    <3>1. memOf(c) \in mems(bl)
      BY DEF mems
    <3>2. memOf(c).addr = c.addr /\ memOf(c).size = blockSize(c)
      BY DEF memOf
    <3> QED  BY <3>1, <3>2, Zenon
  <2>4. x \in Bytes(m.addr, m.size) /\ m.addr \in Nat /\ m.size \in Nat
    BY <1>3, <2>2, <2>3
  <2> QED  BY <2>4 DEF Bytes
<1>6. greatestOf(endsBelow(hl, bl, a)) = h.addr
  <2>1. h.addr \in endsBelow(hl, bl, a)
    <3>1. CASE h.addr = b
      BY <1>0, <3>1 DEF endsBelow
    <3>2. CASE h.addr # b
      <4>1. PICK x \in b .. top - 1 : x + 1 = h.addr
        <5>1. h.addr - 1 \in b .. top - 1 /\ (h.addr - 1) + 1 = h.addr
          BY <1>1, <1>2, <3>2, SMTT(60)
        <5> QED  BY <5>1
      <4>2. PICK m \in mems(bl) : m.addr <= x /\ x < m.addr + m.size
        BY <1>5, <4>1
      <4>3. m.addr < a /\ m.addr + m.size = h.addr
        <5>1. /\ m.addr \in Nat /\ m.size \in Nat /\ m.size > 0
              /\ m.addr + m.size <= h.addr \/ end <= m.addr
          BY <1>3
        <5>2. PICK y \in Nat, z \in Nat : y = m.addr /\ z = m.size
          BY <5>1
        <5>3. (y + z <= h.addr \/ end <= y) /\ y <= x /\ x < y + z /\ x \in Nat
          BY <1>2, <4>2, <5>1, <5>2
        <5>4. y < a /\ y + z = h.addr
          BY <1>1, <4>1, <5>3, SMTT(60)
        <5> QED  BY <5>2, <5>4
      <4> QED  BY <4>3 DEF endsBelow
    <3> QED  BY <3>1, <3>2
  <2>2. ASSUME NEW y \in endsBelow(hl, bl, a) PROVE y \in Nat /\ y <= h.addr
    <3>1. CASE y = b
      BY <1>1, <1>2, <3>1
    <3>2. CASE y # b
      <4>1. PICK m \in mems(bl) : m.addr < a /\ y = m.addr + m.size
        BY <1>0, <3>2 DEF endsBelow
      <4> QED  BY <1>1, <1>3, <4>1, SMTT(60)
    <3> QED  BY <3>1, <3>2
  <2>3. PICK S : S = endsBelow(hl, bl, a)
    OBVIOUS
  <2>4. S \subseteq Nat /\ h.addr \in S /\ \A y \in S : y <= h.addr
    BY <2>1, <2>2, <2>3
  <2>5. greatestOf(S) = h.addr
    BY <2>4, GreatestIs
  <2> QED  BY <2>3, <2>5
<1>7. leastOf(startsAbove(hl, bl, a)) = end
  <2>1. end \in startsAbove(hl, bl, a)
    <3>1. CASE end = top
      BY <1>0, <3>1 DEF startsAbove
    <3>2. CASE end # top
      <4>1. end \in b .. top - 1
        BY <1>1, <1>2, <3>2
      <4>2. PICK m \in mems(bl) : m.addr <= end /\ end < m.addr + m.size
        BY <1>5, <4>1
      <4>3. m.addr >= a /\ m.addr = end
        BY <1>1, <1>3, <4>2, SMTT(60)
      <4> QED  BY <4>3 DEF startsAbove
    <3> QED  BY <3>1, <3>2
  <2>2. ASSUME NEW y \in startsAbove(hl, bl, a) PROVE y \in Nat /\ end <= y
    <3>1. CASE y = top
      BY <1>1, <1>2, <3>1
    <3>2. CASE y # top
      <4>1. PICK m \in mems(bl) : m.addr >= a /\ y = m.addr
        BY <1>0, <3>2 DEF startsAbove
      <4> QED  BY <1>1, <1>3, <4>1
    <3> QED  BY <3>1, <3>2
  <2>3. PICK S : S = startsAbove(hl, bl, a)
    OBVIOUS
  <2>4. S \subseteq Nat /\ end \in S /\ \A y \in S : end <= y
    BY <2>1, <2>2, <2>3
  <2>5. leastOf(S) = end
    BY <2>4, LeastIs
  <2> QED  BY <2>3, <2>5
<1> QED  BY <1>0, <1>6, <1>7

(* The places for a layout are the places in the holes.                    *)
LEMMA PlacesInHoles ==
  ASSUME NEW hl, NEW bl, HeapOK(hl, bl), NEW l, l.size \in Nat, l.size > 0
  PROVE  /\ \A a \in PlacesOf(hl, bl, l) : a \in Nat /\ \E n \in 1 .. Len(hl.chain) : PlaceIn(hl.chain[n], a, l)
         /\ \A a \in Nat, n \in 1 .. Len(hl.chain) : PlaceIn(hl.chain[n], a, l) => a \in PlacesOf(hl, bl, l)
<1>0. PICK s, b, top : s = hl.chain /\ b = hl.bottom /\ top = hl.top
  OBVIOUS
<1>1. b \in Nat /\ top \in Nat /\ Cover(s) = (b .. top - 1) \ TakenBy(bl)
  BY <1>0 DEF HeapOK
<1>2. ASSUME NEW a \in Nat, NEW n \in 1 .. Len(s), PlaceIn(s[n], a, l) PROVE a \in PlacesOf(hl, bl, l)
  <2>1. PICK h : h = s[n]
    OBVIOUS
  <2>2. h.addr \in Nat /\ b <= h.addr /\ holeEnd(h) \in Nat /\ holeEnd(h) <= top
    BY <1>0, <2>1, HoleFacts
  <2>3. /\ h.addr <= a /\ a + l.size <= holeEnd(h) /\ a % l.align = 0
        /\ remains(a - h.addr) /\ remains(holeEnd(h) - (a + l.size))
    BY <1>2, <2>1 DEF PlaceIn
  <2>4. a < holeEnd(h) /\ a \in b .. top
    BY <1>1, <2>2, <2>3
  <2>5. greatestOf(endsBelow(hl, bl, a)) = h.addr /\ leastOf(startsAbove(hl, bl, a)) = holeEnd(h)
    BY <1>0, <2>1, <2>3, <2>4, HoleIsGap
  <2> QED  BY <1>0, <2>3, <2>4, <2>5 DEF PlacesOf
<1>3. ASSUME NEW a \in PlacesOf(hl, bl, l) PROVE a \in Nat /\ \E n \in 1 .. Len(s) : PlaceIn(s[n], a, l)
  <2>1. PICK lo, hi : lo = greatestOf(endsBelow(hl, bl, a)) /\ hi = leastOf(startsAbove(hl, bl, a))
    OBVIOUS
  <2>2. /\ a \in b .. top /\ a % l.align = 0 /\ lo <= a /\ a + l.size <= hi /\ remains(a - lo) /\ remains(hi - (a + l.size))
    BY <1>0, <1>3, <2>1 DEF PlacesOf
  <2>3. a \in Nat
    BY <1>1, <2>2
  <2>4. hi \in Nat /\ hi <= top /\ \A y \in startsAbove(hl, bl, a) : hi <= y
    <3>1. startsAbove(hl, bl, a) \subseteq Nat /\ top \in startsAbove(hl, bl, a)
      <4>1. ASSUME NEW y \in startsAbove(hl, bl, a) PROVE y \in Nat
        <5>1. CASE y = top
          BY <1>1, <5>1
        <5>2. CASE y # top
          <6>1. PICK m \in mems(bl) : y = m.addr
            BY <1>0, <5>2 DEF startsAbove
          <6> QED  BY <6>1, BlockFacts
        <5> QED  BY <5>1, <5>2
      <4> QED  BY <1>0, <4>1 DEF startsAbove
    <3>2. PICK S : S = startsAbove(hl, bl, a)
      OBVIOUS
    <3>3. \E x \in S : \A y \in S : x =< y
      <4>1. PICK x \in S : \A y \in S : ~(<<y, x>> \in OpToRel(<, Nat))
        BY <3>1, <3>2, NatLessThanWellFounded, WFMin, Zenon
      <4>2. \A y \in S : ~(y < x)
        BY <3>1, <3>2, <4>1, Zenon DEF OpToRel
      <4> QED  BY <3>1, <3>2, <4>2
    <3>4. leastOf(S) \in S /\ \A y \in S : leastOf(S) =< y
      BY <3>3, Zenon DEF leastOf
    <3> QED  BY <2>1, <3>1, <3>2, <3>4
  <2>5. ASSUME NEW m \in mems(bl), m.addr < a PROVE m.addr + m.size <= a
    <3>1. ASSUME NEW y \in endsBelow(hl, bl, a) PROVE y \in Nat /\ y <= top
      <4>1. CASE y = b
        <5>1. b <= top
          BY <1>0, <1>1, MinSize DEF HeapOK
        <5> QED  BY <1>1, <4>1, <5>1
      <4>2. CASE y # b
        <5>1. PICK g \in mems(bl) : y = g.addr + g.size
          BY <1>0, <4>2 DEF endsBelow
        <5>2. g.addr \in Nat /\ g.size \in Nat /\ g.addr + g.size <= top
          BY <1>0, BlockFacts
        <5> QED  BY <5>1, <5>2
      <4> QED  BY <4>1, <4>2
    <3>2. PICK S, y : S = endsBelow(hl, bl, a) /\ y = m.addr + m.size
      OBVIOUS
    <3>3. y \in S
      BY <2>5, <3>2 DEF endsBelow
    <3>4. \E x \in S : \A z \in S : x >= z
      <4>1. \A x \in S : x \in Nat /\ x <= top
        BY <3>1, <3>2
      <4> QED  BY <1>1, <3>3, <4>1, GreatestAtMost
    <3>5. greatestOf(S) \in S /\ \A z \in S : greatestOf(S) >= z
      BY <3>4, Zenon DEF greatestOf
    <3>6. lo \in Nat /\ y \in Nat /\ lo >= y
      BY <2>1, <3>1, <3>2, <3>3, <3>5
    <3> QED  BY <2>2, <2>3, <3>2, <3>6
  <2>6. a \notin TakenBy(bl)
    <3>1. SUFFICES ASSUME a \in TakenBy(bl) PROVE FALSE
      OBVIOUS
    <3>2. PICK c \in bl : a \in Bytes(c.addr, blockSize(c))
      BY <3>1 DEF TakenBy
    <3>3. PICK m \in mems(bl) : m.addr = c.addr /\ m.size = blockSize(c)
      <4>1. memOf(c) \in mems(bl)
        BY DEF mems
      <4>2. memOf(c).addr = c.addr /\ memOf(c).size = blockSize(c)
        BY DEF memOf
      <4> QED  BY <4>1, <4>2, Zenon
    <3>4. m.addr \in Nat /\ m.size \in Nat /\ m.addr <= a /\ a < m.addr + m.size
      <4>1. m.addr \in Nat /\ m.size \in Nat
        BY BlockFacts
      <4>2. a \in Bytes(m.addr, m.size)
        BY <3>2, <3>3
      <4> QED  BY <4>1, <4>2 DEF Bytes
    <3>5. CASE m.addr < a
      <4>1. m.addr + m.size <= a
        BY <2>5, <3>5
      <4> QED  BY <2>3, <3>4, <4>1
    <3>6. CASE m.addr = a
      <4>1. a \in startsAbove(hl, bl, a)
        BY <2>3, <3>6 DEF startsAbove
      <4>2. hi <= a
        BY <2>4, <4>1
      <4> QED  BY <2>2, <2>3, <2>4, <4>2
    <3> QED  BY <2>3, <3>4, <3>5, <3>6
  <2>7. a \in Cover(s)
    <3>1. a \in b .. top - 1
      BY <1>1, <2>2, <2>3, <2>4
    <3> QED  BY <1>1, <2>6, <3>1
  <2>8. PICK n \in 1 .. Len(s) : a \in Bytes(s[n].addr, s[n].size)
    BY <2>7 DEF Cover, Elems
  <2>9. PICK h : h = s[n]
    OBVIOUS
  <2>10. h.addr \in Nat /\ h.size \in Nat /\ holeEnd(h) = h.addr + h.size /\ a \in Bytes(h.addr, h.size)
    BY <1>0, <2>8, <2>9, HoleFacts
  <2>11. h.addr <= a /\ a < holeEnd(h)
    BY <2>3, <2>10 DEF Bytes
  <2>12. lo = h.addr /\ hi = holeEnd(h)
    BY <1>0, <2>1, <2>3, <2>9, <2>11, HoleIsGap
  <2>13. PlaceIn(h, a, l)
    BY <2>2, <2>12 DEF PlaceIn
  <2> QED  BY <2>3, <2>9, <2>13
<1> QED  BY <1>0, <1>2, <1>3

RoundedLayout(l) == l.size \in Nat /\ isAligned(l.size) /\ l.size >= min_size /\ fitsWord(l.align)

(* A hole suits a layout when there is a place in it, and the allocation   *)
(* goes to the lowest one.                                                 *)
LEMMA SuitsIsPlace ==
  ASSUME NEW h \in Hole, isAligned(h.addr), NEW l, RoundedLayout(l)
  PROVE  /\ suits(h, l) => PlaceIn(h, aligned_addr(h, l.align), l)
         /\ \A a \in Nat : PlaceIn(h, a, l) => suits(h, l) /\ aligned_addr(h, l.align) <= a
<1>0. PICK c, z, w, end : c = aligned_addr(h, l.align) /\ z = l.size /\ w = l.align /\ end = holeEnd(h)
  OBVIOUS
<1>1. /\ h.addr \in Nat /\ h.size \in Nat /\ end = h.addr + h.size /\ end \in Nat /\ z \in Nat /\ z >= min_size
      /\ isAligned(z) /\ fitsWord(w) /\ w \in Nat \ {0} /\ Word \in Nat \ {0} /\ min_size \in Nat /\ min_size = 2 * Word
  BY <1>0, MinSize, HoleListAssumption DEF Hole, holeEnd, RoundedLayout, fitsWord, min_size
<1>2. c \in Nat /\ isAligned(c) /\ (c = h.addr \/ h.addr + min_size <= c)
  BY <1>0, <1>1, AlignedStart
<1>3. align_up(c + z, HoleAlign) = c + z
  <2>1. c + z \in Nat /\ c \in Int /\ z \in Int
    BY <1>1, <1>2
  <2>2. (c + z) % Word = 0
    BY <1>1, <1>2, <2>1, ModSum DEF isAligned
  <2> QED  BY <1>1, <2>1, <2>2, AlignUp DEF HoleAlign
<1>4. c % w = 0
  <2>1. CASE h.addr = align_up(h.addr, w)
    <3>1. align_up(h.addr, w) % w = 0
      BY <1>1, AlignUp
    <3>2. c = h.addr
      BY <1>0, <2>1 DEF aligned_addr
    <3> QED  BY <2>1, <3>1, <3>2
  <2>2. CASE h.addr # align_up(h.addr, w)
    <3>1. h.addr + min_size \in Nat /\ c = align_up(h.addr + min_size, w)
      BY <1>0, <1>1, <2>2 DEF aligned_addr
    <3> QED  BY <1>1, <3>1, AlignUp
  <2> QED  BY <2>1, <2>2
<1>5. suits(h, l) <=> z <= h.size /\ c + z <= end /\ (c + z = end \/ c + z + min_size <= end)
  BY <1>0, <1>3 DEF suits
<1>6. ASSUME suits(h, l) PROVE PlaceIn(h, c, l)
  <2>1. c + z <= end /\ (c + z = end \/ c + z + min_size <= end)
    BY <1>5, <1>6
  <2>2. remains(c - h.addr)
    BY <1>1, <1>2 DEF remains
  <2>3. remains(end - (c + z))
    BY <1>1, <1>2, <2>1 DEF remains
  <2>4. h.addr <= c
    BY <1>1, <1>2
  <2> QED  BY <1>0, <1>4, <2>1, <2>2, <2>3, <2>4 DEF PlaceIn
<1>7. ASSUME NEW a \in Nat, PlaceIn(h, a, l) PROVE suits(h, l) /\ c <= a
  <2>1. /\ h.addr <= a /\ a + z <= end /\ a % w = 0 /\ (a = h.addr \/ a >= h.addr + min_size)
        /\ (end = a + z \/ end >= a + z + min_size)
    <3>1. /\ h.addr <= a /\ a + z <= end /\ a % w = 0 /\ remains(a - h.addr) /\ remains(end - (a + z))
      BY <1>0, <1>7 DEF PlaceIn
    <3> QED  BY <1>1, <3>1 DEF remains
  <2>2. CASE h.addr = align_up(h.addr, w)
    <3>1. c = h.addr
      BY <1>0, <2>2 DEF aligned_addr
    <3>2. z <= h.size /\ c + z <= end /\ (c + z = end \/ c + z + min_size <= end) /\ c <= a
      BY <1>1, <2>1, <3>1
    <3> QED  BY <1>5, <3>2
  <2>3. CASE h.addr # align_up(h.addr, w)
    <3>1. c = align_up(h.addr + min_size, w) /\ h.addr + min_size \in Nat
      BY <1>0, <1>1, <2>3 DEF aligned_addr
    <3>2. c < h.addr + min_size + w /\ h.addr + min_size <= c
      BY <1>1, <3>1, AlignUp
    <3>3. h.addr % w # 0
      BY <1>1, <2>3, AlignUp
    <3>4. a # h.addr
      BY <2>1, <3>3
    <3>5. c <= a
      <4>1. ASSUME a < c PROVE FALSE
        <5>1. a + w <= c
          <6>1. a \in Int /\ c \in Int
            BY <1>2
          <6> QED  BY <1>1, <1>4, <2>1, <4>1, <6>1, ModApart
        <5> QED  BY <1>1, <1>2, <2>1, <3>2, <3>4, <5>1
      <4> QED  BY <1>2, <4>1
    <3>6. w >= min_size
      <4>1. Word % w # 0
        <5>1. ASSUME Word % w = 0 PROVE FALSE
          <6>1. h.addr \in Int /\ h.addr % Word = 0
            BY <1>1 DEF isAligned
          <6>2. h.addr % w = 0
            BY <1>1, <5>1, <6>1, ModTrans
          <6> QED  BY <3>3, <6>2
        <5> QED  BY <5>1
      <4>2. w % Word = 0
        BY <1>1, <4>1 DEF fitsWord
      <4>3. w # Word
        BY <1>1, <4>1, ModSelf
      <4>4. PICK q \in Int : w = Word * q
        <5>1. w \in Int
          BY <1>1
        <5> QED  BY <1>1, <4>2, <5>1, ModIsMultiple
      <4>5. Word < w
        <5>1. ASSUME w < Word PROVE FALSE
          <6>1. Word * q >= 0 /\ Word * q < Word
            BY <1>1, <4>4, <5>1
          <6>2. q = 0
            BY <1>1, <6>1, SmallMultiple
          <6> QED  BY <1>1, <4>4, <6>2
        <5> QED  BY <1>1, <4>3, <5>1
      <4>6. Word + Word <= w
        <5>1. Word \in Int /\ w \in Int /\ Word % Word = 0
          BY <1>1, ModSelf
        <5> QED  BY <1>1, <4>2, <4>5, <5>1, ModApart
      <4> QED  BY <1>1, <4>6
    <3>7. CASE a = c
      <4>1. z <= h.size /\ c + z <= end /\ (c + z = end \/ c + z + min_size <= end)
        BY <1>1, <1>2, <2>1, <3>7
      <4> QED  BY <1>5, <3>5, <4>1
    <3>8. CASE c < a
      <4>1. c + w <= a
        <5>1. a \in Int /\ c \in Int
          BY <1>2
        <5> QED  BY <1>1, <1>4, <2>1, <3>8, <5>1, ModApart
      <4>2. z <= h.size /\ c + z + min_size <= end /\ c + z <= end
        BY <1>1, <1>2, <2>1, <3>2, <3>6, <4>1
      <4> QED  BY <1>5, <3>5, <4>2
    <3> QED  BY <1>2, <3>5, <3>7, <3>8
  <2> QED  BY <2>2, <2>3
<1> QED  BY <1>0, <1>6, <1>7

(* First fit takes the lowest place, and none is left when no hole suits.  *)
LEMMA FirstFitIsLeast ==
  ASSUME NEW hl, NEW bl, HeapOK(hl, bl), NEW l, RoundedLayout(l)
  PROVE  /\ \A n \in 1 .. Len(hl.chain) :
              isFirstFit(hl.chain, n, l) =>
                /\ PlacesOf(hl, bl, l) # {}
                /\ leastOf(PlacesOf(hl, bl, l)) = aligned_addr(hl.chain[n], l.align)
         /\ (\A n \in 1 .. Len(hl.chain) : ~ suits(hl.chain[n], l)) => PlacesOf(hl, bl, l) = {}
<1>0. PICK s, P : s = hl.chain /\ P = PlacesOf(hl, bl, l)
  OBVIOUS
<1>1. l.size \in Nat /\ l.size > 0 /\ fitsWord(l.align)
  BY MinSize, HoleListAssumption DEF RoundedLayout
<1>2. /\ \A a \in P : a \in Nat /\ \E n \in 1 .. Len(s) : PlaceIn(s[n], a, l)
      /\ \A a \in Nat, n \in 1 .. Len(s) : PlaceIn(s[n], a, l) => a \in P
  BY <1>0, <1>1, PlacesInHoles
<1>3. \A n \in 1 .. Len(s) : /\ s[n] \in Hole /\ isAligned(s[n].addr) /\ s[n].addr \in Nat /\ holeEnd(s[n]) \in Nat
                             /\ aligned_addr(s[n], l.align) \in Nat
  BY <1>0, <1>1, HoleFacts, AlignedStart
<1>4. \A n \in 1 .. Len(s) :
        /\ suits(s[n], l) => PlaceIn(s[n], aligned_addr(s[n], l.align), l)
        /\ \A a \in Nat : PlaceIn(s[n], a, l) => suits(s[n], l) /\ aligned_addr(s[n], l.align) <= a
  BY <1>3, SuitsIsPlace
<1>5. ASSUME \A n \in 1 .. Len(s) : ~ suits(s[n], l) PROVE P = {}
  BY <1>2, <1>4, <1>5
<1>6. ASSUME NEW n \in 1 .. Len(s), isFirstFit(s, n, l)
      PROVE  P # {} /\ leastOf(P) = aligned_addr(s[n], l.align)
  <2>1. PICK c \in Nat : c = aligned_addr(s[n], l.align)
    BY <1>3
  <2>2. suits(s[n], l) /\ \A k \in 1 .. n - 1 : ~ suits(s[k], l)
    BY <1>6 DEF isFirstFit
  <2>3. c \in P /\ PlaceIn(s[n], c, l)
    BY <1>2, <1>4, <2>1, <2>2
  <2>4. c < holeEnd(s[n])
    <3>1. c + l.size <= holeEnd(s[n])
      BY <2>3 DEF PlaceIn
    <3>2. holeEnd(s[n]) \in Nat
      BY <1>3
    <3> QED  BY <1>1, <3>1, <3>2
  <2>5. ASSUME NEW a \in P PROVE c <= a
    <3>1. PICK k \in 1 .. Len(s) : a \in Nat /\ PlaceIn(s[k], a, l)
      BY <1>2
    <3>2. suits(s[k], l) /\ aligned_addr(s[k], l.align) <= a
      BY <1>4, <3>1
    <3>3. Len(s) \in Nat /\ Gaps(s, 1)
      BY <1>0, LenProperties, GapsFacts DEF HeapOK, ListOf
    <3>4. ~(k < n)
      BY <2>2, <3>2, <3>3
    <3>5. CASE k = n
      BY <2>1, <3>2, <3>5
    <3>6. CASE n < k
      <4>1. holeEnd(s[n]) + 1 <= s[k].addr
        BY <3>3, <3>6 DEF Gaps
      <4>2. s[k].addr <= a
        BY <3>1 DEF PlaceIn
      <4>3. holeEnd(s[n]) \in Nat /\ s[k].addr \in Nat
        BY <1>3
      <4> QED  BY <2>4, <3>1, <4>1, <4>2, <4>3
    <3> QED  BY <3>3, <3>4, <3>5, <3>6
  <2>6. P \subseteq Nat
    BY <1>2
  <2>7. leastOf(P) = c
    BY <2>3, <2>5, <2>6, LeastIs
  <2> QED  BY <2>1, <2>3, <2>7
<1> QED  BY <1>0, <1>5, <1>6

(* The places of BlockHeap.                                                *)
LEMMA PlacesSame == ASSUME NEW l PROVE Blocks!Places(l) = PlacesOf(holes, live, l)
<1>1. \A S : Blocks!Max(S) = greatestOf(S) /\ Blocks!Min(S) = leastOf(S)
  BY DEF Blocks!Max, Blocks!Min, greatestOf, leastOf
<1>2. \A n : Blocks!Remainder(n) <=> remains(n)
  BY DEF Blocks!Remainder, remains
<1>3. mems(live) = {[addr |-> b.addr, size |-> blockSize(b)] : b \in live}
  BY DEF mems, memOf
<1> QED  BY <1>1, <1>2, <1>3 DEF Blocks!Places, PlacesOf, endsBelow, startsAbove

(* A multiple of the word does not change what remains of another number.  *)
LEMMA ModShift ==
  ASSUME NEW w \in Nat \ {0}, NEW x \in Int, NEW y \in Int, x % w = 0
  PROVE  (x + y) % w = y % w
<1>1. PICK p \in Int : x = w * p
  BY ModIsMultiple
<1>2. PICK q \in Int, r \in 0 .. w - 1 : y = w * q + r /\ y % w = r
  BY DivMod
<1>3. x + y = w * (p + q) + r /\ p + q \in Int
  BY <1>1, <1>2, SMT
<1>4. (w * (p + q) + r) % w = r
  BY <1>3, MultipleMod
<1> QED  BY <1>2, <1>3, <1>4

LEMMA ExtendTop ==
  ASSUME NEW hl, NEW bl, HeapOK(hl, bl), NEW by \in Nat
  PROVE  extend(hl, by).top = IF hl.pending + by < min_size THEN hl.top
                              ELSE hl.top + align_down_size(hl.pending + by, HoleAlign)
<1>1. hl \in [chain : Seq(Hole), bottom : Nat, top : Nat, pending : Nat]
  BY DEF HeapOK
<1>2. CASE hl.pending + by < min_size
  <2>1. extend(hl, by) = [hl EXCEPT !.pending = hl.pending + by]
    BY <1>2 DEF extend
  <2> QED  BY <1>1, <1>2, <2>1
<1>3. CASE ~(hl.pending + by < min_size)
  <2>1. PICK z, d : z = align_down_size(hl.pending + by, HoleAlign) /\ d = align_layout([size |-> z, align |-> 1]).size
    OBVIOUS
  <2>2. extend(hl, by) = [deallocate(hl, hl.top, d) EXCEPT !.top = @ + z, !.pending = (hl.pending + by) - z]
    BY <1>3, <2>1 DEF extend
  <2>3. \E t : deallocate(hl, hl.top, d) = [hl EXCEPT !.chain = t]
    BY DEF deallocate
  <2>4. PICK t : deallocate(hl, hl.top, d) = [hl EXCEPT !.chain = t]
    BY <2>3
  <2>5. extend(hl, by).top = hl.top + z
    BY <1>1, <2>2, <2>4
  <2> QED  BY <1>3, <2>1, <2>5
<1> QED  BY <1>2, <1>3

(* Panics change nothing a caller sees of the blocks.                      *)
LEMMA PanicRefines == ASSUME NEW why, Panic(why) PROVE UNCHANGED Blocks!bhVars
BY DEF Panic, Blocks!bhVars, blockSize

LEMMA ForgetsToo == forget => Blocks!BHForget
BY DEF forget, Blocks!BHForget, Blocks!NoLayout, NoLayout, Null

(* BlockHeap rounds a layout as align_layout does.                         *)
LEMMA RoundedSame ==
  ASSUME HeapAssumption, NEW l \in Layouts
  PROVE  Blocks!rounded(l) = align_layout(l)
<1> DEFINE least == IF l.size < 2 * Word THEN 2 * Word ELSE l.size
           S     == {n \in least .. least + Word - 1 : n % Word = 0}
           v     == (least + Word - 1) - ((least + Word - 1) % Word)
<1>1. l \in [size : Nat, align : Nat \ {0}] /\ Word \in Nat \ {0}
  BY HoleListAssumption DEF HeapAssumption
<1>2. least \in Nat /\ v \in Int /\ least <= v /\ v <= least + Word - 1
  <2>1. least \in Nat
    BY <1>1
  <2>2. PICK r \in 0 .. Word - 1 : r = (least + Word - 1) % Word
    BY <1>1, <2>1
  <2> QED  BY <1>1, <2>1, <2>2
<1>3. align_layout(l) = [size |-> v, align |-> l.align]
  <2>1. align_layout(l).size = v
    BY <1>1 DEF align_layout, align_up_size, align_down_size, min_size, HoleAlign
  <2>2. align_layout(l) = [size |-> align_layout(l).size, align |-> l.align]
    BY <1>1 DEF align_layout
  <2> QED  BY <2>1, <2>2
<1>4. v % Word = 0
  BY <1>1, <1>3, LayoutFacts DEF isAligned
<1>5. v \in S /\ S \subseteq Nat
  BY <1>2, <1>4
<1>6. ASSUME NEW y \in S PROVE v <= y
  <2>1. y \in Int /\ least <= y /\ y % Word = 0
    BY <1>1, <1>2
  <2>2. y < v => y + Word <= v
    BY <1>1, <1>2, <1>4, <2>1, ModApart
  <2> QED  BY <1>1, <1>2, <2>1, <2>2
<1>7. leastOf(S) = v
  BY <1>5, <1>6, LeastIs
<1>8. greatestOf({l.size, 2 * Word}) = least
  <2>1. l.size \in Nat /\ 2 * Word \in Nat
    BY <1>1
  <2>2. {l.size, 2 * Word} \subseteq Nat /\ least \in {l.size, 2 * Word} /\ l.size <= least /\ 2 * Word <= least
    BY <2>1
  <2> QED  BY <2>2, GreatestIs
<1>9. \A T : Blocks!Max(T) = greatestOf(T) /\ Blocks!Min(T) = leastOf(T)
  BY DEF Blocks!Max, Blocks!Min, greatestOf, leastOf
<1>10. Blocks!rounded(l) = [size |-> leastOf(S), align |-> l.align]
  BY <1>8, <1>9 DEF Blocks!rounded
<1> QED  BY <1>3, <1>7, <1>10

(* An allocation for which nothing suits has no place.                     *)
LEMMA NothingFits ==
  ASSUME HeapAssumption, HeapInv, NEW l \in Layouts, noFit(l), l.size > 0,
         asked' = l, ret' = Null, UNCHANGED <<used, holes, live, given>>
  PROVE  Blocks!BHAlloc(l)
<1>0. PICK m : m = align_layout(l) /\ m = Blocks!rounded(l)
  BY RoundedSame
<1>1. RoundedLayout(m) /\ m \in {align_layout(k) : k \in Layouts}
  BY <1>0, LayoutFacts DEF RoundedLayout
<1>2. HeapOK(holes, live)
  BY DEF HeapInv
<1>3. (m.size + m.align - 1 > IsizeMax) <=> ~ valid_layout(m)
  <2>1. m.size \in Nat /\ m.align \in Nat
    BY <1>1 DEF RoundedLayout, fitsWord
  <2> QED  BY <2>1, HoleListAssumption DEF valid_layout
<1>4. PICK P : P = PlacesOf(holes, live, m) /\ P = Blocks!Places(m)
  BY PlacesSame
<1>5. valid_layout(m) => P = {}
  <2>1. valid_layout(m) => \A n \in 1 .. Len(holes.chain) : ~ suits(holes.chain[n], m)
    BY <1>0 DEF noFit
  <2>2. PICK hl, bl : hl = holes /\ bl = live
    OBVIOUS
  <2>3. (\A n \in 1 .. Len(hl.chain) : ~ suits(hl.chain[n], m)) => PlacesOf(hl, bl, m) = {}
    BY <1>1, <1>2, <2>2, FirstFitIsLeast
  <2> QED  BY <1>4, <2>1, <2>2, <2>3
<1>6. /\ UNCHANGED {[addr |-> b.addr, size |-> blockSize(b)] : b \in live}
      /\ UNCHANGED <<holes.bottom, holes.top, given>>
  BY DEF blockSize
<1> QED  BY <1>0, <1>3, <1>4, <1>5, <1>6 DEF Blocks!BHAlloc, Null

LEMMA InitRefines ==
  ASSUME HeapAssumption, HeapInv, NEW m \in Starts, init(m.addr, m.size)
  PROVE  [Blocks!BHNext]_(Blocks!bhVars)
<1>1. CASE ~ new_ok(m.addr, m.size) /\ Panic("too small")
  BY <1>1, PanicRefines
<1>2. CASE new_ok(m.addr, m.size) /\ used' = 0 /\ holes' = new(m.addr, m.size) /\ given' = m.addr + m.size /\ forget /\ UNCHANGED <<live, panic>>
  <2>1. m.addr \in Nat \ {0} /\ m.size \in Nat
    BY DEF HeapAssumption, Null
  <2>2. PICK hm : hm = holes'
    OBVIOUS
  <2>3. HeapOK(hm, {}) /\ hm.bottom # 0 /\ hm.top + hm.pending = given' /\ hm.pending < Word
    BY <1>2, <2>1, <2>2, NewKeeps
  <2>4. /\ hm.bottom \in Nat /\ hm.top \in Nat /\ hm.pending \in Nat /\ hm.bottom + min_size <= hm.top
        /\ hm.bottom % Word = 0 /\ hm.top % Word = 0
    BY <2>3 DEF HeapOK, isAligned
  <2>5. (hm.top - hm.bottom) % Word = 0
    <3>1. hm.bottom \in Int /\ hm.top \in Int /\ Word \in Nat \ {0}
      BY <2>4, HoleListAssumption
    <3> QED  BY <2>4, <3>1, ModSum
  <2>6. /\ hm.bottom > 0 /\ hm.top <= given' /\ given' - hm.top < Word /\ hm.top - hm.bottom >= 2 * Word
    BY <2>3, <2>4, HoleListAssumption DEF min_size
  <2>7. holes.bottom = 0
    BY DEF init, Null
  <2>8. UNCHANGED {[addr |-> b.addr, size |-> blockSize(b)] : b \in live} /\ Blocks!BHForget
    BY <1>2, ForgetsToo DEF blockSize
  <2>9. Blocks!BHStart
    BY <2>2, <2>4, <2>5, <2>6, <2>7, <2>8 DEF Blocks!BHStart
  <2> QED  BY <2>9 DEF Blocks!BHNext
<1> QED  BY <1>1, <1>2 DEF init

LEMMA AllocRefines ==
  ASSUME HeapAssumption, HeapInv, NEW l \in Layouts, alloc(l)
  PROVE  [Blocks!BHNext]_(Blocks!bhVars)
<1>0. PICK m : m = align_layout(l) /\ m = Blocks!rounded(l)
  BY RoundedSame
<1>1. RoundedLayout(m) /\ m \in {align_layout(k) : k \in Layouts}
  BY <1>0, LayoutFacts DEF RoundedLayout
<1>2. HeapOK(holes, live)
  BY DEF HeapInv
<1>3. (m.size + m.align - 1 > IsizeMax) <=> ~ valid_layout(m)
  <2>1. m.size \in Nat /\ m.align \in Nat
    BY <1>1 DEF RoundedLayout, fitsWord
  <2> QED  BY <2>1, HoleListAssumption DEF valid_layout
<1>4. PICK P : P = PlacesOf(holes, live, m) /\ P = Blocks!Places(m)
  BY PlacesSame
<1>5. CASE noFit(l) /\ ret' = Null /\ UNCHANGED <<holes, used, live>>
  <2>1. Blocks!BHAlloc(l)
    BY <1>5, NothingFits DEF alloc
  <2> QED  BY <2>1 DEF Blocks!BHNext
<1>6. CASE allocate_first_fit(l)
  <2>1. PICK n \in 1 .. Len(holes.chain) :
             /\ isFirstFit(holes.chain, n, m)
             /\ holes' = [holes EXCEPT !.chain = split_current(@, n, m)]
             /\ ret' = aligned_addr(holes.chain[n], m.align)
             /\ live' = live \cup {[addr |-> aligned_addr(holes.chain[n], m.align), layout |-> l]}
    BY <1>0, <1>6 DEF allocate_first_fit
  <2>2. valid_layout(m)
    BY <1>0, <1>6 DEF allocate_first_fit
  <2>3. P # {} /\ ret' = leastOf(P)
    <3>1. PICK hl, bl : hl = holes /\ bl = live
      OBVIOUS
    <3>2. isFirstFit(hl.chain, n, m) /\ HeapOK(hl, bl) /\ n \in 1 .. Len(hl.chain)
      BY <1>2, <2>1, <3>1
    <3>3. PlacesOf(hl, bl, m) # {} /\ leastOf(PlacesOf(hl, bl, m)) = aligned_addr(hl.chain[n], m.align)
      BY <1>1, <3>2, FirstFitIsLeast
    <3> QED  BY <1>4, <2>1, <3>1, <3>3
  <2>4. leastOf(P) = Blocks!Min(P)
    BY DEF leastOf, Blocks!Min
  <2>5. UNCHANGED <<holes.bottom, holes.top, given>>
    <3>1. holes \in [chain : Seq(Hole), bottom : Nat, top : Nat, pending : Nat]
      BY <1>2 DEF HeapOK
    <3> QED  BY <2>1, <3>1 DEF alloc
  <2>6. {[addr |-> b.addr, size |-> blockSize(b)] : b \in live'}
          = {[addr |-> b.addr, size |-> blockSize(b)] : b \in live} \cup {[addr |-> ret', size |-> m.size]}
    <3>1. PICK c : c = [addr |-> ret', layout |-> l]
      OBVIOUS
    <3>2. live' = live \cup {c} /\ c.addr = ret' /\ blockSize(c) = m.size
      BY <1>0, <2>1, <3>1 DEF blockSize
    <3>3. {[addr |-> b.addr, size |-> blockSize(b)] : b \in live \cup {c}}
            = {[addr |-> b.addr, size |-> blockSize(b)] : b \in live} \cup {[addr |-> c.addr, size |-> blockSize(c)]}
      BY Zenon
    <3> QED  BY <3>2, <3>3
  <2>7. Blocks!BHAlloc(l)
    <3>1. {[addr |-> b.addr, size |-> blockSize(b)] : b \in live}'
            = {[addr |-> b.addr, size |-> blockSize(b)] : b \in live} \cup {[addr |-> ret', size |-> m.size]}
      BY <2>6 DEF blockSize
    <3>2. l.size > 0 /\ asked' = l
      BY DEF alloc
    <3> QED  BY <1>0, <1>3, <1>4, <2>2, <2>3, <2>4, <2>5, <3>1, <3>2 DEF Blocks!BHAlloc
  <2> QED  BY <2>7 DEF Blocks!BHNext
<1> QED  BY <1>5, <1>6 DEF alloc

(* Blocks that callers hold are known by their memory.                     *)
LEMMA MemsDiffer ==
  ASSUME NEW hl, NEW bl, HeapOK(hl, bl), NEW c \in bl
  PROVE  mems(bl \ {c}) = mems(bl) \ {memOf(c)}
<1>1. ASSUME NEW d \in bl, d # c PROVE memOf(d) # memOf(c)
  <2>1. Bytes(d.addr, blockSize(d)) \cap Bytes(c.addr, blockSize(c)) = {}
    BY <1>1 DEF HeapOK, BlocksOK
  <2>2. memOf(c) \in mems(bl)
    BY DEF mems
  <2>3. c.addr \in Nat /\ blockSize(c) \in Nat /\ blockSize(c) > 0
    <3>1. memOf(c).addr \in Nat /\ memOf(c).size \in Nat /\ memOf(c).size > 0
      BY <2>2, BlockFacts
    <3> QED  BY <3>1 DEF memOf
  <2>4. c.addr \in Bytes(c.addr, blockSize(c))
    BY <2>3 DEF Bytes
  <2>5. ASSUME memOf(d) = memOf(c) PROVE FALSE
    <3>1. d.addr = c.addr /\ blockSize(d) = blockSize(c)
      BY <2>5 DEF memOf
    <3> QED  BY <2>1, <2>4, <3>1
  <2> QED  BY <2>5
<1> QED  BY <1>1 DEF mems

LEMMA DeallocRefines ==
  ASSUME HeapAssumption, HeapInv, NEW c \in live, dealloc(c)
  PROVE  [Blocks!BHNext]_(Blocks!bhVars)
<1>1. CASE Panic("Freed node aliases existing hole")
  BY <1>1, PanicRefines
<1>2. CASE ~ Panic("Freed node aliases existing hole")
  <2>1. /\ holes' = deallocate(holes, c.addr, blockSize(c)) /\ live' = live \ {c} /\ UNCHANGED given
        /\ Blocks!BHForget
    BY <1>2, ForgetsToo DEF dealloc, blockSize
  <2>2. PICK hl, bl : hl = holes /\ bl = live
    OBVIOUS
  <2>3. HeapOK(hl, bl) /\ c \in bl
    BY <2>2 DEF HeapInv
  <2>4. mems(bl \ {c}) = mems(bl) \ {memOf(c)} /\ memOf(c) \in mems(bl)
    BY <2>3, MemsDiffer DEF mems
  <2>5. UNCHANGED <<holes.bottom, holes.top>>
    <3>1. PICK hm, bm : hm = deallocate(hl, c.addr, blockSize(c)) /\ bm = bl \ {c}
      OBVIOUS
    <3>2. hm.bottom = hl.bottom /\ hm.top = hl.top
      BY <2>3, <3>1, FreeKeeps
    <3> QED  BY <2>1, <2>2, <3>1, <3>2
  <2>6. \A bs : mems(bs) = {[addr |-> b.addr, size |-> blockSize(b)] : b \in bs}
    BY DEF mems, memOf
  <2>7. {[addr |-> b.addr, size |-> blockSize(b)] : b \in live}' = mems(bl \ {c})
    <3>1. {[addr |-> b.addr, size |-> blockSize(b)] : b \in live}' = {[addr |-> b.addr, size |-> blockSize(b)] : b \in live'}
      BY DEF blockSize
    <3> QED  BY <2>1, <2>2, <2>6, <3>1, Zenon
  <2>8. {[addr |-> b.addr, size |-> blockSize(b)] : b \in live} = mems(bl)
    BY <2>2, <2>6, Zenon
  <2>9. Blocks!BHFree
    BY <2>1, <2>4, <2>5, <2>7, <2>8 DEF Blocks!BHFree
  <2> QED  BY <2>9 DEF Blocks!BHNext
<1> QED  BY <1>1, <1>2

LEMMA ExtendRefines ==
  ASSUME HeapAssumption, HeapInv, NEW by \in Extends, extend_by(by)
  PROVE  [Blocks!BHNext]_(Blocks!bhVars)
<1>1. CASE holes.bottom = Null /\ Panic("tried to extend an empty heap")
  BY <1>1, PanicRefines
<1>2. CASE holes.bottom # Null /\ holes' = extend(holes, by) /\ given' = given + by /\ forget /\ UNCHANGED <<used, live, panic>>
  <2>1. by \in Nat /\ given \in Nat /\ Word \in Nat \ {0}
    BY HoleListAssumption DEF HeapAssumption, HeapInv
  <2>2. PICK hl, bl, hm, x : hl = holes /\ bl = live /\ hm = holes' /\ x = hl.pending + by
    OBVIOUS
  <2>3. HeapOK(hl, bl) /\ hl.bottom # 0 /\ hm = extend(hl, by)
    BY <1>2, <2>2 DEF HeapInv, Null
  <2>4. hm.bottom = hl.bottom /\ hm.top = IF x < min_size THEN hl.top ELSE hl.top + align_down_size(x, HoleAlign)
    BY <2>1, <2>2, <2>3, ExtendKeeps, ExtendTop
  <2>5. /\ hl.top \in Nat /\ hl.pending \in Nat /\ hl.bottom \in Nat /\ hl.top % Word = 0 /\ hl.pending < min_size
        /\ hl.top + hl.pending = given /\ x \in Nat
    <3>1. hl.top \in Nat /\ hl.pending \in Nat /\ hl.bottom \in Nat /\ hl.top % Word = 0 /\ hl.pending < min_size
      BY <2>3 DEF HeapOK, isAligned
    <3>2. hl.top + hl.pending = given
      BY <1>2, <2>2 DEF HeapInv, OwnsAllGiven, heapTop
    <3> QED  BY <2>1, <2>2, <3>1, <3>2
  <2>6. given' = hl.top + x /\ given' - hl.top = x
    BY <1>2, <2>1, <2>2, <2>5
  <2>7. hm.top = IF given' - hl.top < 2 * Word THEN hl.top ELSE given' - (given' % Word)
    <3>1. (hl.top + x) % Word = x % Word
      <4>1. hl.top \in Int /\ x \in Int
        BY <2>5
      <4> QED  BY <2>1, <2>5, <4>1, ModShift
    <3>2. PICK r \in 0 .. Word - 1 : r = x % Word
      BY <2>1, <2>5
    <3>3. given' % Word = r
      BY <2>6, <3>1, <3>2
    <3>4. align_down_size(x, HoleAlign) = x - r
      BY <3>2 DEF align_down_size, HoleAlign
    <3>5. (hl.top + x) - r = hl.top + (x - r)
      BY <2>5
    <3> QED  BY <2>4, <2>6, <3>3, <3>4, <3>5 DEF min_size
  <2>8. UNCHANGED {[addr |-> b.addr, size |-> blockSize(b)] : b \in live} /\ Blocks!BHForget
    BY <1>2, ForgetsToo DEF blockSize
  <2>9. given' >= given /\ hl.bottom > 0
    BY <1>2, <2>1, <2>3, <2>5
  <2>10. Blocks!BHExtend
    BY <2>2, <2>4, <2>7, <2>8, <2>9 DEF Blocks!BHExtend
  <2> QED  BY <2>10 DEF Blocks!BHNext
<1> QED  BY <1>1, <1>2 DEF extend_by

LEMMA BlocksStep ==
  ASSUME HeapAssumption, HeapInv, [Next]_vars
  PROVE  [Blocks!BHNext]_(Blocks!bhVars)
<1>1. ASSUME NEW l \in Layouts, allocate_nothing(l) PROVE [Blocks!BHNext]_(Blocks!bhVars)
  <2>1. Blocks!BHAllocNothing(l)
    BY <1>1 DEF allocate_nothing, Blocks!BHAllocNothing, blockSize
  <2> QED  BY <2>1 DEF Blocks!BHNext
<1>2. ASSUME NEW l \in Layouts, handle_alloc_error(l) PROVE [Blocks!BHNext]_(Blocks!bhVars)
  <2>1. Blocks!BHAlloc(l)
    BY <1>2, NothingFits DEF handle_alloc_error
  <2> QED  BY <2>1 DEF Blocks!BHNext
<1>3. ASSUME UNCHANGED vars PROVE [Blocks!BHNext]_(Blocks!bhVars)
  BY <1>3 DEF vars, Blocks!bhVars, blockSize
<1>4. CASE \E m \in Starts : init(m.addr, m.size)
  BY <1>4, InitRefines
<1>5. CASE \E l \in Layouts : alloc(l) \/ allocate_nothing(l) \/ handle_alloc_error(l)
  BY <1>1, <1>2, <1>5, AllocRefines
<1>6. CASE \E c \in live : dealloc(c)
  BY <1>6, DeallocRefines
<1>7. CASE \E by \in Extends : extend_by(by)
  BY <1>7, ExtendRefines
<1>8. CASE panicked
  BY <1>3, <1>8 DEF panicked
<1> QED  BY <1>3, <1>4, <1>5, <1>6, <1>7, <1>8 DEF Next

LEMMA BlocksInit == Init => Blocks!BHInit
BY DEF Init, Blocks!BHInit, empty, Null, Blocks!NoLayout, NoLayout

(* The heap keeps its promise, for every word size, layouts and memory.    *)
(* The layout asked for gets the lowest place that has its alignment and   *)
(* its rounded size, is free and leaves room for a node or nothing on      *)
(* either side; the answer is null only when that layout has no such place *)
(* or is too large; and what is freed and added is used again.  So the search of the  *)
(* list in hole.rs and the splitting and merging of its holes lose no      *)
(* place and invent none.                                                  *)
THEOREM BlocksCorrect ==
  ASSUME HeapAssumption
  PROVE  Spec => ImplementsBlocks
<1>1. HeapInv /\ [Next]_vars => HeapInv'
  BY HeapStep
<1>2. HeapInv /\ [Next]_vars => [Blocks!BHNext]_(Blocks!bhVars)
  BY BlocksStep
<1> QED  BY <1>1, <1>2, HeapInit, BlocksInit, PTL DEF Spec, ImplementsBlocks, Blocks!BHSpec
=============================================================================
