----------------------------- MODULE KernelArith -----------------------------
(***************************************************************************)
(* The pure computations of the kernel: page table entries and addresses   *)
(* (PageEntry), pixels, fixed point numbers, the counters of the benchmark *)
(* and the product it computes.  Each is checked against what it is for on *)
(* every input of the bounded sets below: the inputs are the initial       *)
(* states, and nothing happens after them.                                 *)
(***************************************************************************)
EXTENDS PageEntry, Integers, FiniteSetsExt

CONSTANTS Frac,        \* 2^16: the weight of the integer part of Fixed32; even
          EntryPages,  \* pages entered into entries
          Addresses,   \* virtual addresses
          Bytes,       \* values of one channel of a colour
          Sizes        \* sizes of the matrices

-----------------------------------------------------------------------------
(* Pixel, 3 bits of red, 3 of green, 2 of blue (screen.rs).                *)
RED_GREEN_PALETTE == [k \in 0 .. 7 |-> <<0, 36, 73, 109, 146, 182, 219, 255>>[k + 1]]
BLUE_PALETTE == [k \in 0 .. 3 |-> <<0, 85, 170, 255>>[k + 1]]

(* Faulty variant: green is one place too far left.                        *)
pixelNew_shifted(red, green, blue) ==
  ((red \div 32) * 32 + (green \div 32) * 8 + blue \div 64) % 256

pixelNew(red, green, blue) == (red \div 32) * 32 + (green \div 32) * 4 + blue \div 64
pixelRed(p) == RED_GREEN_PALETTE[p \div 32]
pixelGreen(p) == RED_GREEN_PALETTE[(p \div 4) % 8]
pixelBlue(p) == BLUE_PALETTE[p % 4]

-----------------------------------------------------------------------------
(* Fixed32: a word of twice the width of its parts.  A release build wraps *)
(* around.                                                                 *)
wrap(n) == ((n + (Frac * Frac) \div 2) % (Frac * Frac)) - (Frac * Frac) \div 2

(* Faulty variant: the fraction is sign-extended.                          *)
fixedNew_signed(int, frac) ==
  wrap(int * Frac + IF frac >= Frac \div 2 THEN frac - Frac ELSE frac)

fixedNew(int, frac) == wrap(int * Frac + frac)
fixedAdd(a, b) == wrap(a + b)
fixedSub(a, b) == wrap(a - b)

(* Faulty variant: the complement, one too low.                            *)
fixedNeg_ones(a) == wrap(-a - 1)
fixedNeg(a) == wrap(-a)

-----------------------------------------------------------------------------
(* user_main: time = 0 - mcycle, and later time += mcycle, in a usize.     *)
(* Faulty variant: a start of zero reads as the whole range.               *)
elapsed_saturates(begin, end) ==
  ((IF begin = 0 THEN UsizeMod - 1 ELSE UsizeMod - begin) + end) % UsizeMod
elapsed(begin, end) == (((0 - begin) % UsizeMod) + end) % UsizeMod

(* matmul_bench: v2 and v3 have i in all of row i.  Faulty variant: acc is *)
(* incremented for every element.                                          *)
operand_perElement(size) == [i \in 0 .. size - 1 |-> [j \in 0 .. size - 1 |-> i * size + j]]
operand(size) == [i \in 0 .. size - 1 |-> [j \in 0 .. size - 1 |-> i]]

matmul(size) ==
  LET v2 == operand(size)
      v3 == operand(size)
      add(t, acc) == acc + v2[t[1]][t[3]] * v3[t[3]][t[2]]
  IN FoldSet(add, 0, (0 .. size - 1) \X (0 .. size - 1) \X (0 .. size - 1))

-----------------------------------------------------------------------------
VARIABLE in

Perms == [write : BOOLEAN, read : BOOLEAN, exec : BOOLEAN, user : BOOLEAN]
Halves == [int : -(Frac \div 2) .. Frac \div 2 - 1, frac : 0 .. Frac - 1]
Counter == (0 .. Frac) \cup (UsizeMod - Frac .. UsizeMod - 1)

Init ==
  \/ in \in [of : {"entry"}, flags : 0 .. 255, page : EntryPages, perms : Perms]
  \/ in \in [of : {"address"}, va : Addresses]
  \/ in \in [of : {"pixel"}, red : Bytes, green : Bytes, blue : Bytes]
  \/ in \in [of : {"fixed"}, a : Halves, b : Halves]
  \/ in \in [of : {"counter"}, begin : Counter, span : Counter]
  \/ in \in [of : {"matmul"}, size : Sizes]

Next == UNCHANGED in
Spec == Init /\ [][Next]_in

-----------------------------------------------------------------------------
(* What map writes into an entry, whatever the entry held, is what the     *)
(* walk reads: the page, the permissions and V; the other flags stay; and  *)
(* clear_valid takes back only V.                                          *)
EntryKeepsFields ==
  in.of = "entry" =>
    LET old == entryNew(0, in.flags)
        e   == set_valid(set_perms(set_ppn(old, in.page), in.perms))
        u   == clear_valid(e)
    IN /\ valid(e) /\ entryPpn(e) = in.page /\ perms(e) = in.perms
       /\ entryFlags(e) \div 32 = in.flags \div 32
       /\ leaf(e) = (in.perms.exec \/ in.perms.read \/ in.perms.write)
       /\ ~ valid(u) /\ entryPpn(u) = in.page /\ perms(u) = in.perms

(* The three indexes and the offset are the address, cut up: no bit is     *)
(* used twice and none is lost.                                            *)
IndexesAreAddress ==
  in.of = "address" =>
    LET va == in.va IN
    /\ \A level \in 0 .. 2 : vpn(va, level) \in 0 .. Fanout - 1
    /\ addrOf((vpn(va, 2) * Fanout + vpn(va, 1)) * Fanout + vpn(va, 0)) + offset(va) = va

near(a, b, d) == a - b <= d /\ b - a <= d

(* A pixel shows the colour it was made of to within its precision, black  *)
(* and white exactly, and the colour it shows makes the same pixel.        *)
PixelKeepsColour ==
  in.of = "pixel" =>
    LET p == pixelNew(in.red, in.green, in.blue) IN
    /\ p \in 0 .. 255
    /\ near(pixelRed(p), in.red, 31) /\ near(pixelGreen(p), in.green, 31)
    /\ near(pixelBlue(p), in.blue, 63)
    /\ pixelNew(pixelRed(p), pixelGreen(p), pixelBlue(p)) = p

value(h) == h.int * Frac + h.frac
fixedOf(h) == fixedNew(h.int, h.frac)

(* The order of two fixed point numbers is that of their integer parts and *)
(* then of their fractions, also below zero.                               *)
FixedOrdered ==
  in.of = "fixed" =>
    (fixedOf(in.a) < fixedOf(in.b)
       <=> \/ in.a.int < in.b.int
           \/ in.a.int = in.b.int /\ in.a.frac < in.b.frac)

(* Sums and differences are exact unless they leave the range, and even    *)
(* then subtraction and negation undo addition.                            *)
FixedGroup ==
  in.of = "fixed" =>
    LET a == fixedOf(in.a)
        b == fixedOf(in.b)
        s == value(in.a) + value(in.b)
    IN /\ wrap(s) = s => fixedAdd(a, b) = s
       /\ fixedSub(fixedAdd(a, b), b) = a
       /\ fixedAdd(a, fixedNeg(b)) = fixedSub(a, b)

(* The time printed is the time that passed, also when the counter has     *)
(* wrapped around in between.                                              *)
ElapsedExact ==
  in.of = "counter" =>
    elapsed(in.begin, (in.begin + in.span) % UsizeMod) = in.span

(* "sum: {} expected: {}": the benchmark computes what it says it expects. *)
MatmulExpected ==
  in.of = "matmul" =>
    matmul(in.size) = (in.size * in.size * in.size * (in.size - 1) * (in.size - 1)) \div 4

(* Every computation gives what it is for.                                 *)
ComputationsCorrect ==
  /\ EntryKeepsFields /\ IndexesAreAddress
  /\ PixelKeepsColour /\ FixedOrdered /\ FixedGroup
  /\ ElapsedExact /\ MatmulExpected
=============================================================================
