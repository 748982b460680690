-------------------------- MODULE JumpSizesProofs --------------------------
(***************************************************************************)
(* For any number of blocks of any size: jumps only grow, and what is      *)
(* serialized is right.                                                    *)
(***************************************************************************)
EXTENDS JumpSizes, WellFoundedInduction, TLAPS

---------------------------------------------------------------------------
(* Sums over blocks *)

(* Induction over a set of numbers. *)
LEMMA Counting ==
  ASSUME NEW S, 0 \in S, \A n \in Nat : n \in S => n + 1 \in S
  PROVE  \A n \in Nat : n \in S
<1> SUFFICES ASSUME NEW n \in Nat, n \notin S  PROVE FALSE
  OBVIOUS
<1> DEFINE T == {k \in Nat : k \notin S}
<1>1. T # {} /\ T \subseteq Nat
  OBVIOUS
<1>2. PICK m \in T : \A k \in T : ~ (<<k, m>> \in OpToRel(<, Nat))
  BY ONLY <1>1, WFMin, NatLessThanWellFounded
<1>3. \A k \in T : ~ (k < m)
  BY <1>1, <1>2 DEF OpToRel
<1>4. m \in Nat /\ m # 0
  OBVIOUS
<1>5. m - 1 \in Nat /\ m - 1 < m /\ (m - 1) + 1 = m
  BY ONLY <1>4
<1>6. m - 1 \in S
  BY <1>3, <1>5
<1> QED  BY <1>5, <1>6

IsUpto(f, blocks) ==
  f = [n \in 0..Len(blocks) |-> IF n = 0 THEN 0 ELSE f[n - 1] + BestCaseSize(blocks[n])]

LEMMA UptoExists == ASSUME NEW blocks, Len(blocks) \in Nat  PROVE IsUpto(Upto(blocks), blocks)
<1> DEFINE Part(f, k) == f = [n \in 0..k |-> IF n = 0 THEN 0 ELSE f[n - 1] + BestCaseSize(blocks[n])]
           S == {k \in Nat : \E f : Part(f, k)}
<1>1. 0 \in S
  <2>1. Part([n \in 0..0 |-> 0], 0)
    OBVIOUS
  <2> QED  BY <2>1
<1>2. ASSUME NEW k \in Nat, k \in S  PROVE k + 1 \in S
  <2>1. PICK f : Part(f, k)
    BY <1>2
  <2> DEFINE g == [n \in 0..(k + 1) |-> IF n = 0 THEN 0 ELSE f[n - 1] + BestCaseSize(blocks[n])]
  <2>2. \A n \in 0..k : g[n] = f[n]
    BY <2>1
  <2>3. \A n \in 0..(k + 1) : n = 0 \/ n - 1 \in 0..k
    OBVIOUS
  <2>4. \A n \in 0..(k + 1) : g[n] = IF n = 0 THEN 0 ELSE g[n - 1] + BestCaseSize(blocks[n])
    BY <2>2, <2>3
  <2>5. g = [n \in 0..(k + 1) |-> g[n]]
    OBVIOUS
  <2> HIDE DEF g
  <2>6. Part(g, k + 1)
    BY <2>4, <2>5
  <2> QED  BY <2>6
<1> HIDE DEF S
<1>3. \A k \in Nat : k \in S
  BY ONLY <1>1, <1>2, Counting
<1>4. PICK f : Part(f, Len(blocks))
  BY <1>3 DEF S
<1>5. Upto(blocks) = CHOOSE h : IsUpto(h, blocks)
  BY DEF Upto, IsUpto
<1> QED  BY <1>4, <1>5 DEF IsUpto

(***************************************************************************)
(* The blocks, and what the lengths of a jump say of it.                   *)
(***************************************************************************)
Blocks(n) == [size : Nat, jmp : Jumps(n), opcodeLen : 0..2, offsetLen : {0, 1, 4}, offset : Int]

Shape(b) ==
  /\ b.jmp = NoJump => b.offsetLen = 0
  /\ b.offsetLen = 0 <=> b.opcodeLen = 0
  /\ b.offsetLen <= 1 => b.opcodeLen = b.offsetLen /\ FitsShort(b.offset)
  /\ b.offsetLen = 4 => /\ b.opcodeLen = (IF b.jmp.op = "jmp" THEN 1 ELSE 2)
                        /\ ~FitsShort(b.offset)

LEMMA JumpFacts ==
  ASSUME NEW n \in Nat, NEW j \in Jumps(n), j # NoJump
  PROVE  j.op \in {"jmp", "jmpcc"} /\ j.to \in 1..n
BY DEF Jumps

LEMMA BlockFacts ==
  ASSUME NEW n, NEW bs \in Seq(Blocks(n)), NEW i \in 1..Len(bs)
  PROVE  /\ bs[i] \in Blocks(n)
         /\ bs[i].size \in Nat /\ bs[i].jmp \in Jumps(n) /\ bs[i].offset \in Int
         /\ bs[i].opcodeLen \in 0..2 /\ bs[i].offsetLen \in {0, 1, 4}
<1>1. bs[i] \in Blocks(n)
  OBVIOUS
<1> QED  BY <1>1 DEF Blocks

LEMMA BestSize ==
  ASSUME NEW n \in Nat, NEW b \in Blocks(n)
  PROVE  BestCaseSize(b) \in Nat
BY DEF Blocks, BestCaseSize, OrOne

LEMMA UptoIs ==
  ASSUME NEW n \in Nat, NEW blocks \in Seq(Blocks(n))
  PROVE  /\ Upto(blocks)[0] = 0
         /\ \A k \in 1..Len(blocks) :
              Upto(blocks)[k] = Upto(blocks)[k - 1] + BestCaseSize(blocks[k])
<1>1. Len(blocks) \in Nat
  OBVIOUS
<1>2. IsUpto(Upto(blocks), blocks)
  BY <1>1, UptoExists
<1> DEFINE u == Upto(blocks)
<1> HIDE DEF u
<1>3. u = [k \in 0..Len(blocks) |-> IF k = 0 THEN 0 ELSE u[k - 1] + BestCaseSize(blocks[k])]
  BY <1>2 DEF IsUpto, u
<1>4. u[0] = 0 /\ \A k \in 1..Len(blocks) : u[k] = u[k - 1] + BestCaseSize(blocks[k])
  BY <1>1, <1>3
<1> QED  BY <1>4 DEF u

LEMMA UptoType ==
  ASSUME NEW n \in Nat, NEW blocks \in Seq(Blocks(n))
  PROVE  \A k \in 0..Len(blocks) : Upto(blocks)[k] \in Nat
<1> DEFINE S == {k \in Nat : k <= Len(blocks) => Upto(blocks)[k] \in Nat}
<1>1. 0 \in S
  BY UptoIs
<1>2. ASSUME NEW k \in Nat, k \in S  PROVE k + 1 \in S
  <2> SUFFICES ASSUME k + 1 <= Len(blocks)  PROVE Upto(blocks)[k + 1] \in Nat
    OBVIOUS
  <2>1. k + 1 \in 1..Len(blocks) /\ (k + 1) - 1 = k /\ k <= Len(blocks)
    OBVIOUS
  <2>2. Upto(blocks)[k + 1] = Upto(blocks)[k] + BestCaseSize(blocks[k + 1])
    BY <2>1, UptoIs
  <2>3. BestCaseSize(blocks[k + 1]) \in Nat
    BY <2>1, BestSize
  <2> QED  BY <1>2, <2>1, <2>2, <2>3
<1> HIDE DEF S
<1>3. \A k \in Nat : k \in S
  BY ONLY <1>1, <1>2, Counting
<1> QED  BY <1>3 DEF S

(* One list of blocks is at least as long as another, block by block. *)
NoShorter(cs, bs) ==
  /\ Len(cs) = Len(bs)
  /\ \A i \in 1..Len(bs) : /\ cs[i].size = bs[i].size /\ cs[i].jmp = bs[i].jmp
                           /\ BestCaseSize(bs[i]) <= BestCaseSize(cs[i])

LEMMA SizesGrow ==
  ASSUME NEW n \in Nat, NEW bs \in Seq(Blocks(n)), NEW cs \in Seq(Blocks(n)), NoShorter(cs, bs),
         NEW i \in 0..Len(bs), NEW j \in 0..Len(bs), i <= j
  PROVE  /\ 0 <= Upto(bs)[j] - Upto(bs)[i]
         /\ Upto(bs)[j] - Upto(bs)[i] <= Upto(cs)[j] - Upto(cs)[i]
<1> DEFINE Fine(k) == /\ 0 <= Upto(bs)[k] - Upto(bs)[i]
                      /\ Upto(bs)[k] - Upto(bs)[i] <= Upto(cs)[k] - Upto(cs)[i]
           S == {k \in Nat : i <= k /\ k <= Len(bs) => Fine(k)}
<1>0. /\ \A k \in 0..Len(bs) : Upto(bs)[k] \in Nat /\ Upto(cs)[k] \in Nat
      /\ Len(cs) = Len(bs)
  BY UptoType DEF NoShorter
<1>1. 0 \in S
  BY <1>0
<1>2. ASSUME NEW k \in Nat, k \in S  PROVE k + 1 \in S
  <2> SUFFICES ASSUME i <= k + 1, k + 1 <= Len(bs)  PROVE Fine(k + 1)
    OBVIOUS
  <2>1. k + 1 \in 1..Len(bs) /\ (k + 1) - 1 = k /\ k \in 0..Len(bs) /\ k + 1 \in 0..Len(bs)
    OBVIOUS
  <2>2. CASE i = k + 1
    <3>1. Upto(bs)[i] \in Nat /\ Upto(cs)[i] \in Nat
      BY <1>0
    <3>2. Fine(i)
      BY ONLY <3>1
    <3> QED  BY ONLY <2>2, <3>2
  <2>3. CASE i <= k
    <3>1. Fine(k)
      BY <1>2, <2>1, <2>3
    <3>2. /\ Upto(bs)[k + 1] = Upto(bs)[k] + BestCaseSize(bs[k + 1])
          /\ Upto(cs)[k + 1] = Upto(cs)[k] + BestCaseSize(cs[k + 1])
      BY <1>0, <2>1, UptoIs
    <3>3. /\ BestCaseSize(bs[k + 1]) \in Nat /\ BestCaseSize(cs[k + 1]) \in Nat
          /\ BestCaseSize(bs[k + 1]) <= BestCaseSize(cs[k + 1])
      BY <1>0, <2>1, BestSize DEF NoShorter
    <3>4. /\ Upto(bs)[k] \in Nat /\ Upto(cs)[k] \in Nat
          /\ Upto(bs)[i] \in Nat /\ Upto(cs)[i] \in Nat
      BY <1>0, <2>1
    <3> DEFINE b0 == Upto(bs)[k]      b1 == BestCaseSize(bs[k + 1])   bi == Upto(bs)[i]
               c0 == Upto(cs)[k]      c1 == BestCaseSize(cs[k + 1])   ci == Upto(cs)[i]
    <3> HIDE DEF b0, b1, bi, c0, c1, ci
    <3>5. /\ b0 \in Nat /\ b1 \in Nat /\ bi \in Nat /\ c0 \in Nat /\ c1 \in Nat /\ ci \in Nat
          /\ 0 <= b0 - bi /\ b0 - bi <= c0 - ci /\ b1 <= c1
      BY ONLY <3>1, <3>3, <3>4 DEF b0, b1, bi, c0, c1, ci
    <3>6. 0 <= (b0 + b1) - bi /\ (b0 + b1) - bi <= (c0 + c1) - ci
      BY ONLY <3>5
    <3> QED  BY ONLY <3>2, <3>6 DEF b0, b1, bi, c0, c1, ci
  <2> QED  BY <2>2, <2>3
<1> HIDE DEF S
<1>3. \A k \in Nat : k \in S
  BY ONLY <1>1, <1>2, Counting
<1>4. j \in S /\ j \in Nat /\ i \in Nat
  BY <1>3
<1> QED  BY <1>4 DEF S

(***************************************************************************)
(* When no block gets shorter no jump's target gets nearer: a jump that    *)
(* needed four bytes needs them still; when none gets longer either, every *)
(* jump's offset is what it was.                                           *)
(***************************************************************************)
LEMMA SizeOfGrows ==
  ASSUME NEW n \in Nat, NEW bs \in Seq(Blocks(n)), NEW cs \in Seq(Blocks(n)), NoShorter(cs, bs),
         NEW i \in 1..Len(bs) + 1, NEW j \in 0..Len(bs), i <= j + 1
  PROVE  /\ SizeOf(bs, i, j) \in Nat /\ SizeOf(cs, i, j) \in Nat
         /\ SizeOf(bs, i, j) <= SizeOf(cs, i, j)
<1>1. i - 1 \in 0..Len(bs) /\ i - 1 <= j
  OBVIOUS
<1>2. /\ Upto(bs)[j] \in Nat /\ Upto(cs)[j] \in Nat
      /\ Upto(bs)[i - 1] \in Nat /\ Upto(cs)[i - 1] \in Nat
  BY <1>1, UptoType DEF NoShorter
<1>3. /\ 0 <= Upto(bs)[j] - Upto(bs)[i - 1]
      /\ Upto(bs)[j] - Upto(bs)[i - 1] <= Upto(cs)[j] - Upto(cs)[i - 1]
  BY <1>1, SizesGrow
<1> DEFINE bj == Upto(bs)[j]   bi == Upto(bs)[i - 1]   cj == Upto(cs)[j]   ci == Upto(cs)[i - 1]
<1>4. SizeOf(bs, i, j) = bj - bi /\ SizeOf(cs, i, j) = cj - ci
  BY DEF SizeOf
<1> HIDE DEF bj, bi, cj, ci
<1>5. bj \in Nat /\ bi \in Nat /\ cj \in Nat /\ ci \in Nat /\ 0 <= bj - bi /\ bj - bi <= cj - ci
  BY ONLY <1>2, <1>3 DEF bj, bi, cj, ci
<1> QED  BY ONLY <1>4, <1>5

LEMMA OffsetIs ==
  ASSUME NEW bs, bs \in Seq(Blocks(Len(bs))), NEW i \in 1..Len(bs), bs[i].jmp # NoJump
  PROVE  /\ JumpOffset(bs, i) \in Int
         /\ bs[i].jmp.to > i =>
              /\ SizeOf(bs, i + 1, bs[i].jmp.to - 1) \in Nat
              /\ JumpOffset(bs, i) = SizeOf(bs, i + 1, bs[i].jmp.to - 1)
         /\ bs[i].jmp.to <= i =>
              LET back == -SizeOf(bs, bs[i].jmp.to, i - 1) - bs[i].size
              IN  /\ back \in Int /\ back <= 0
                  /\ JumpOffset(bs, i) = IF back >= -126 THEN back - 2
                                         ELSE back - (IF bs[i].jmp.op = "jmpcc" THEN 6 ELSE 5)
<1> DEFINE to == bs[i].jmp.to
<1>1. /\ Len(bs) \in Nat /\ bs[i] \in Blocks(Len(bs)) /\ bs[i].size \in Nat
      /\ bs[i].jmp \in Jumps(Len(bs))
  BY BlockFacts
<1>2. to \in 1..Len(bs)
  BY <1>1, JumpFacts
<1>3. NoShorter(bs, bs)
  <2>1. \A k \in 1..Len(bs) : BestCaseSize(bs[k]) \in Nat
    BY <1>1, BlockFacts, BestSize
  <2> QED  BY <2>1 DEF NoShorter
<1> HIDE DEF to
<1>4. CASE to > i
  <2>1. SizeOf(bs, i + 1, to - 1) \in Nat
    <3>1. i + 1 \in 1..Len(bs) + 1 /\ to - 1 \in 0..Len(bs) /\ i + 1 <= (to - 1) + 1
      BY ONLY <1>1, <1>2, <1>4, i \in 1..Len(bs)
    <3> QED  BY <1>1, <1>3, <3>1, SizeOfGrows
  <2>2. JumpOffset(bs, i) = SizeOf(bs, i + 1, to - 1)
    BY <1>4 DEF JumpOffset, to
  <2>3. ~(to <= i)
    BY <1>1, <1>2, <1>4
  <2> QED  BY <2>1, <2>2, <2>3 DEF to
<1>5. CASE to <= i
  <2>1. SizeOf(bs, to, i - 1) \in Nat
    <3>1. to \in 1..Len(bs) + 1 /\ i - 1 \in 0..Len(bs) /\ to <= (i - 1) + 1
      BY ONLY <1>1, <1>2, <1>5, i \in 1..Len(bs)
    <3> QED  BY <1>1, <1>3, <3>1, SizeOfGrows
  <2> DEFINE size == SizeOf(bs, to, i - 1)
  <2>2. JumpOffset(bs, i) = IF -size - bs[i].size >= -126 THEN -size - bs[i].size - 2
                            ELSE -size - bs[i].size - (IF bs[i].jmp.op = "jmpcc" THEN 6 ELSE 5)
    BY <1>2, <1>5 DEF JumpOffset, to
  <2> HIDE DEF size
  <2>3. size \in Nat
    BY <2>1 DEF size
  <2>4. -size - bs[i].size \in Int /\ -size - bs[i].size <= 0 /\ JumpOffset(bs, i) \in Int
    BY ONLY <1>1, <2>2, <2>3
  <2> QED  BY <1>2, <1>5, <2>2, <2>4 DEF size, to
<1> QED  BY <1>2, <1>4, <1>5

LEMMA OffsetsGrow ==
  ASSUME NEW bs, NEW cs, bs \in Seq(Blocks(Len(bs))), cs \in Seq(Blocks(Len(bs))), NoShorter(cs, bs),
         NEW i \in 1..Len(bs), bs[i].jmp # NoJump
  PROVE  /\ ~FitsShort(JumpOffset(bs, i)) => ~FitsShort(JumpOffset(cs, i))
         /\ NoShorter(bs, cs) => JumpOffset(cs, i) = JumpOffset(bs, i)
<1> DEFINE to == bs[i].jmp.to
<1>1. /\ Len(bs) \in Nat /\ bs[i] \in Blocks(Len(bs)) /\ bs[i].size \in Nat
      /\ bs[i].jmp \in Jumps(Len(bs))
  BY BlockFacts
<1>2. to \in 1..Len(bs)
  BY <1>1, JumpFacts
<1>3. cs[i].jmp = bs[i].jmp /\ cs[i].size = bs[i].size /\ Len(cs) = Len(bs)
  BY DEF NoShorter
<1> HIDE DEF to
<1>4. CASE to > i
  <2> DEFINE b == SizeOf(bs, i + 1, to - 1)   c == SizeOf(cs, i + 1, to - 1)
  <2>1. b \in Nat /\ c \in Nat /\ b <= c
    <3>1. i + 1 \in 1..Len(bs) + 1 /\ to - 1 \in 0..Len(bs) /\ i + 1 <= (to - 1) + 1
      BY ONLY <1>1, <1>2, <1>4, i \in 1..Len(bs)
    <3> QED  BY <1>1, <3>1, SizeOfGrows
  <2>2. NoShorter(bs, cs) => c <= b
    <3>1. i + 1 \in 1..Len(cs) + 1 /\ to - 1 \in 0..Len(cs) /\ i + 1 <= (to - 1) + 1
      BY ONLY <1>1, <1>2, <1>3, <1>4, i \in 1..Len(bs)
    <3> QED  BY <1>1, <3>1, SizeOfGrows
  <2>3. JumpOffset(bs, i) = b /\ JumpOffset(cs, i) = c
    BY <1>3, <1>4, OffsetIs DEF to
  <2> HIDE DEF b, c
  <2> QED  BY ONLY <2>1, <2>2, <2>3 DEF FitsShort
<1>5. CASE to <= i
  <2> DEFINE b == SizeOf(bs, to, i - 1)   c == SizeOf(cs, to, i - 1)   size == bs[i].size
             more == IF bs[i].jmp.op = "jmpcc" THEN 6 ELSE 5
  <2>1. b \in Nat /\ c \in Nat /\ b <= c
    <3>1. to \in 1..Len(bs) + 1 /\ i - 1 \in 0..Len(bs) /\ to <= (i - 1) + 1
      BY ONLY <1>1, <1>2, <1>5, i \in 1..Len(bs)
    <3> QED  BY <1>1, <3>1, SizeOfGrows
  <2>2. NoShorter(bs, cs) => c <= b
    <3>1. to \in 1..Len(cs) + 1 /\ i - 1 \in 0..Len(cs) /\ to <= (i - 1) + 1
      BY ONLY <1>1, <1>2, <1>3, <1>5, i \in 1..Len(bs)
    <3> QED  BY <1>1, <3>1, SizeOfGrows
  <2>3. /\ JumpOffset(bs, i) = IF -b - size >= -126 THEN -b - size - 2 ELSE -b - size - more
        /\ JumpOffset(cs, i) = IF -c - size >= -126 THEN -c - size - 2 ELSE -c - size - more
    <3>1. JumpOffset(bs, i) = IF -b - size >= -126 THEN -b - size - 2 ELSE -b - size - more
      BY <1>5, OffsetIs DEF to
    <3>2. i \in 1..Len(cs) /\ cs \in Seq(Blocks(Len(cs))) /\ cs[i].jmp # NoJump /\ cs[i].jmp.to = to /\ cs[i].size = size
      BY <1>3 DEF to
    <3>3. JumpOffset(cs, i) = IF -c - size >= -126 THEN -c - size - 2
                              ELSE -c - size - (IF cs[i].jmp.op = "jmpcc" THEN 6 ELSE 5)
      BY <1>5, <3>2, OffsetIs
    <3> QED  BY <1>3, <3>1, <3>3
  <2>4. size \in Nat /\ more \in {5, 6}
    BY <1>1
  <2> HIDE DEF b, c, size, more
  <2> QED  BY ONLY <2>1, <2>2, <2>3, <2>4 DEF FitsShort
<1> QED  BY <1>2, <1>4, <1>5

---------------------------------------------------------------------------
(***************************************************************************)
(* The inductive invariant: a jump that has four bytes needs them (so no   *)
(* jump gets shorter again), and as long as a pass has changed no size the *)
(* jumps behind it have the offsets they should have.                      *)
(***************************************************************************)
TypeOK ==
  /\ bblocks \in Seq(Blocks(Len(bblocks)))
  /\ bb \in 1..Len(bblocks) + 1
  /\ updateJmps \in BOOLEAN

Shapes == \A i \in 1..Len(bblocks) : Shape(bblocks[i])

Needed ==
  \A i \in 1..Len(bblocks) :
    bblocks[i].offsetLen = 4 => ~FitsShort(JumpOffset(bblocks, i))

Current ==
  pc = "jumps" /\ ~updateJmps =>
    \A i \in 1..(bb - 1) :
      bblocks[i].jmp # NoJump => /\ bblocks[i].offsetLen # 0
                                 /\ bblocks[i].offset = JumpOffset(bblocks, i)

IInv == TypeOK /\ Shapes /\ Needed /\ Current

LEMMA InitKept == InitJumps => IInv
<1> SUFFICES ASSUME InitJumps  PROVE IInv
  OBVIOUS
<1>1. bblocks = <<>> /\ Len(bblocks) = 0 /\ bb = 1 /\ updateJmps = FALSE /\ pc # "jumps"
  BY DEF InitJumps
<1>2. bblocks \in Seq(Blocks(Len(bblocks)))
  BY <1>1
<1>3. TypeOK
  <2>1. bb \in 1..Len(bblocks) + 1
    BY <1>1
  <2>2. updateJmps \in BOOLEAN
    BY <1>1
  <2> QED  BY <1>2, <2>1, <2>2 DEF TypeOK
<1>4. Shapes /\ Needed /\ Current
  BY <1>1 DEF Shapes, Needed, Current
<1> QED  BY <1>3, <1>4 DEF IInv

LEMMA BeginKeeps == IInv /\ BeginJumps => IInv'
<1> SUFFICES ASSUME BeginJumps  PROVE IInv'
  OBVIOUS
<1>1. bblocks' \in Seq(Fresh(Len(bblocks'))) /\ bb' = 1 /\ updateJmps' = FALSE
  BY DEF BeginJumps
<1>2. Len(bblocks') \in Nat
  BY <1>1
<1>3. \A i \in 1..Len(bblocks') : bblocks'[i] \in Fresh(Len(bblocks'))
  BY <1>1
<1>4. Fresh(Len(bblocks')) \subseteq Blocks(Len(bblocks'))
  BY DEF Fresh, Blocks
<1>5. bblocks' \in Seq(Blocks(Len(bblocks')))
  BY <1>1, <1>2, <1>3, <1>4
<1>6. \A i \in 1..Len(bblocks') : Shape(bblocks'[i]) /\ bblocks'[i].offsetLen = 0
  BY <1>3 DEF Fresh, Shape, FitsShort
<1>7. TypeOK'
  <2>1. bb' \in 1..Len(bblocks') + 1
    BY <1>1, <1>2
  <2>2. updateJmps' \in BOOLEAN
    BY <1>1
  <2> QED  BY <1>5, <2>1, <2>2 DEF TypeOK
<1>8. Shapes' /\ Needed' /\ Current'
  BY <1>1, <1>6 DEF Shapes, Needed, Current
<1> QED  BY <1>7, <1>8 DEF IInv

(* What a jump becomes: it has the size that its offset needs, and no block got
   shorter; if the pass still counts as one that changed nothing, no block got
   longer either. *)
LEMMA JumpUpdated ==
  ASSUME IInv, UpdateJmp, bblocks' # bblocks
  PROVE  /\ bb \in 1..Len(bblocks) /\ bblocks[bb].jmp # NoJump
         /\ bblocks' = [bblocks EXCEPT ![bb] = bblocks'[bb]]
         /\ bblocks'[bb] \in Blocks(Len(bblocks)) /\ Shape(bblocks'[bb])
         /\ bblocks'[bb].size = bblocks[bb].size /\ bblocks'[bb].jmp = bblocks[bb].jmp
         /\ bblocks'[bb].offset = JumpOffset(bblocks, bb) /\ bblocks'[bb].offsetLen \in {1, 4}
         /\ bblocks'[bb].offsetLen >= bblocks[bb].offsetLen
         /\ BestCaseSize(bblocks[bb]) <= BestCaseSize(bblocks'[bb])
         /\ \/ BestCaseSize(bblocks[bb]) = BestCaseSize(bblocks'[bb]) /\ (updateJmps' => updateJmps)
            \/ updateJmps' /\ bblocks'[bb].offsetLen > OrOne(bblocks[bb].offsetLen)
<1> DEFINE b == bblocks[bb]   offset == JumpOffset(bblocks, bb)
           fits == FitsShort(offset)
           c == [b EXCEPT !.opcodeLen = IF b.jmp.op = "jmp" \/ fits THEN 1 ELSE 2,
                          !.offsetLen = IF fits THEN 1 ELSE 4,
                          !.offset = offset]
<1>1. bb \in 1..Len(bblocks) /\ Len(bblocks) \in Nat
  BY DEF UpdateJmp, IInv, TypeOK
<1>2. b \in Blocks(Len(bblocks)) /\ Shape(b)
  BY <1>1, BlockFacts DEF IInv, TypeOK, Shapes
<1>3. /\ b.jmp # NoJump /\ bblocks' = [bblocks EXCEPT ![bb] = c]
      /\ updateJmps' = (updateJmps \/ ~(b.offsetLen <= 1 <=> fits))
  BY DEF UpdateJmp
<1> DEFINE oldFits == b.offsetLen <= 1
<1>15. /\ oldFits /\ fits => (updateJmps' => updateJmps)
       /\ ~oldFits /\ ~fits => (updateJmps' => updateJmps)
       /\ oldFits /\ ~fits => updateJmps'
  <2>1. updateJmps' = (updateJmps \/ ~(oldFits <=> fits))
    BY <1>3
  <2> HIDE DEF oldFits, fits
  <2> QED  BY <2>1, Zenon
<1>4. offset \in Int
  BY <1>1, <1>3, OffsetIs DEF IInv, TypeOK
<1>5. b.offsetLen = 4 => ~fits
  BY <1>1 DEF IInv, Needed
<1>6. b.jmp.op \in {"jmp", "jmpcc"} /\ fits \in BOOLEAN
  <2>1. b.jmp \in Jumps(Len(bblocks))
    BY <1>2 DEF Blocks
  <2>2. fits \in BOOLEAN
    BY DEF FitsShort
  <2> QED  BY <1>1, <1>3, <2>1, <2>2, JumpFacts
<1> HIDE DEF b, offset, fits
<1>7. /\ c \in Blocks(Len(bblocks))
      /\ c.size = b.size /\ c.jmp = b.jmp /\ c.offset = offset
      /\ c.offsetLen = (IF fits THEN 1 ELSE 4)
      /\ c.opcodeLen = (IF b.jmp.op = "jmp" \/ fits THEN 1 ELSE 2)
  <2> DEFINE op == IF b.jmp.op = "jmp" \/ fits THEN 1 ELSE 2
             len == IF fits THEN 1 ELSE 4
  <2>1. op \in 0..2 /\ len \in {0, 1, 4}
    OBVIOUS
  <2> HIDE DEF op, len
  <2>2. [b EXCEPT !.opcodeLen = op, !.offsetLen = len, !.offset = offset] \in Blocks(Len(bblocks))
    BY <1>2, <1>4, <2>1 DEF Blocks
  <2>3. LET d == [b EXCEPT !.opcodeLen = op, !.offsetLen = len, !.offset = offset]
        IN  /\ d.size = b.size /\ d.jmp = b.jmp /\ d.offset = offset
            /\ d.offsetLen = len /\ d.opcodeLen = op
    BY <1>2 DEF Blocks
  <2> QED  BY <2>2, <2>3 DEF op, len
<1> HIDE DEF c
<1>8. Shape(c)
  BY <1>3, <1>7 DEF Shape, fits
<1>9. /\ c.offsetLen >= b.offsetLen /\ BestCaseSize(b) <= BestCaseSize(c)
      /\ \/ BestCaseSize(b) = BestCaseSize(c) /\ (updateJmps' => updateJmps)
         \/ updateJmps' /\ c.offsetLen > OrOne(b.offsetLen)
  <2>1. b.size \in Nat /\ b.offsetLen \in {0, 1, 4} /\ b.opcodeLen \in 0..2
    BY <1>2 DEF Blocks
  <2>2. BestCaseSize(b) = b.size + OrOne(b.opcodeLen) + OrOne(b.offsetLen)
    BY <1>3, <2>1 DEF BestCaseSize, OrOne
  <2>3. BestCaseSize(c) = b.size + c.opcodeLen + c.offsetLen
    BY <1>3, <1>7, <2>1 DEF BestCaseSize, OrOne
  <2>4. /\ b.offsetLen = 0 => b.opcodeLen = 0
        /\ b.offsetLen = 1 => b.opcodeLen = 1
        /\ b.offsetLen = 4 => b.opcodeLen = (IF b.jmp.op = "jmp" THEN 1 ELSE 2)
    BY <1>2 DEF Shape
  <2>5. CASE fits
    <3>1. oldFits
      BY <1>5, <2>1, <2>5
    <3>2. updateJmps' => updateJmps
      BY <1>15, <2>5, <3>1
    <3>3. c.offsetLen >= b.offsetLen /\ BestCaseSize(b) = BestCaseSize(c)
      BY <1>5, <1>7, <2>1, <2>2, <2>3, <2>4, <2>5 DEF OrOne
    <3>4. BestCaseSize(b) <= BestCaseSize(c)
      BY <2>1, <2>2, <3>3 DEF OrOne
    <3> QED  BY ONLY <3>2, <3>3, <3>4
  <2>6. CASE ~fits /\ b.offsetLen = 4
    <3>1. ~oldFits
      BY <2>6
    <3>2. updateJmps' => updateJmps
      BY <1>15, <2>6, <3>1
    <3>3. c.offsetLen >= b.offsetLen /\ BestCaseSize(b) = BestCaseSize(c)
      BY <1>7, <2>1, <2>2, <2>3, <2>4, <2>6 DEF OrOne
    <3>4. BestCaseSize(b) <= BestCaseSize(c)
      BY <2>1, <2>2, <3>3 DEF OrOne
    <3> QED  BY ONLY <3>2, <3>3, <3>4
  <2>7. CASE ~fits /\ b.offsetLen # 4
    <3>1. oldFits
      BY <2>1, <2>7
    <3>2. updateJmps'
      BY <1>15, <2>7, <3>1
    <3>3. /\ c.offsetLen >= b.offsetLen /\ c.offsetLen > OrOne(b.offsetLen)
          /\ BestCaseSize(b) <= BestCaseSize(c)
      BY <1>7, <2>1, <2>2, <2>3, <2>4, <2>7 DEF OrOne
    <3> QED  BY ONLY <3>2, <3>3
  <2> QED  BY <1>6, <2>5, <2>6, <2>7
<1>10. bblocks'[bb] = c
  BY <1>1, <1>3 DEF IInv, TypeOK
<1>11. c.offset = JumpOffset(bblocks, bb) /\ c.offsetLen \in {1, 4}
  BY <1>7 DEF offset
<1>12. bblocks' = [bblocks EXCEPT ![bb] = bblocks'[bb]]
  BY <1>3, <1>10
<1>13. /\ c \in Blocks(Len(bblocks)) /\ Shape(c) /\ c.size = b.size /\ c.jmp = b.jmp
       /\ c.offset = JumpOffset(bblocks, bb) /\ c.offsetLen \in {1, 4} /\ c.offsetLen >= b.offsetLen
       /\ BestCaseSize(b) <= BestCaseSize(c)
  BY <1>7, <1>8, <1>9, <1>11
<1>14. \/ BestCaseSize(b) = BestCaseSize(c) /\ (updateJmps' => updateJmps)
       \/ updateJmps' /\ c.offsetLen > OrOne(b.offsetLen)
  BY <1>9
<1> QED  BY ONLY <1>1, <1>3, <1>10, <1>12, <1>13, <1>14 DEF b

(* A jump that is left alone is as it should be. *)
LEMMA NothingUpdated ==
  ASSUME IInv, UpdateJmp, bblocks' = bblocks
  PROVE  /\ updateJmps' = updateJmps
         /\ bblocks[bb].jmp # NoJump => /\ bblocks[bb].offsetLen # 0
                                       /\ bblocks[bb].offset = JumpOffset(bblocks, bb)
<1>1. bb \in 1..Len(bblocks) /\ bblocks \in Seq(Blocks(Len(bblocks)))
  BY DEF UpdateJmp, IInv, TypeOK
<1>2. SUFFICES ASSUME bblocks[bb].jmp # NoJump,
                      bblocks[bb].offsetLen = 0 \/ bblocks[bb].offset # JumpOffset(bblocks, bb)
               PROVE  FALSE
  BY DEF UpdateJmp
<1> DEFINE c == [bblocks[bb] EXCEPT
                   !.opcodeLen = IF bblocks[bb].jmp.op = "jmp" \/ FitsShort(JumpOffset(bblocks, bb)) THEN 1 ELSE 2,
                   !.offsetLen = IF FitsShort(JumpOffset(bblocks, bb)) THEN 1 ELSE 4,
                   !.offset = JumpOffset(bblocks, bb)]
<1>3. bblocks' = [bblocks EXCEPT ![bb] = c]
  BY <1>2 DEF UpdateJmp
<1>4. bblocks[bb] \in Blocks(Len(bblocks))
  BY <1>1, BlockFacts
<1>5. c.offsetLen # 0 /\ c.offset = JumpOffset(bblocks, bb)
  BY <1>4 DEF Blocks
<1> HIDE DEF c
<1>6. bblocks[bb] = c
  BY <1>1, <1>3
<1> QED  BY <1>2, <1>5, <1>6

LEMMA UpdateJmpKeeps == IInv /\ UpdateJmp => IInv'
<1> SUFFICES ASSUME IInv, UpdateJmp  PROVE IInv'
  OBVIOUS
<1>0. /\ bb' = bb + 1 /\ pc' = pc /\ bb \in 1..Len(bblocks) /\ Len(bblocks) \in Nat /\ bb \in Nat
      /\ bblocks \in Seq(Blocks(Len(bblocks)))
  BY DEF UpdateJmp, IInv, TypeOK
<1>1. CASE bblocks' = bblocks
  <2>1. bb' \in 1..Len(bblocks') + 1
    BY <1>0, <1>1
  <2>2. updateJmps' \in BOOLEAN
    BY DEF UpdateJmp, IInv, TypeOK
  <2>3. TypeOK'
    BY <1>0, <1>1, <2>1, <2>2 DEF TypeOK
  <2>4. Shapes' /\ Needed'
    BY <1>1 DEF IInv, Shapes, Needed
  <2>5. Current'
    <3> SUFFICES ASSUME pc' = "jumps", ~updateJmps', NEW i \in 1..(bb' - 1), bblocks[i].jmp # NoJump
                 PROVE  bblocks[i].offsetLen # 0 /\ bblocks[i].offset = JumpOffset(bblocks, i)
      BY <1>1 DEF Current
    <3>1. ~updateJmps
      BY DEF UpdateJmp
    <3>2. CASE i # bb
      <4>1. i \in 1..(bb - 1)
        BY <1>0, <3>2
      <4> QED  BY <1>0, <3>1, <4>1 DEF IInv, Current
    <3>3. CASE i = bb
      BY <1>1, <3>3, NothingUpdated
    <3> QED  BY <3>2, <3>3
  <2> QED  BY <2>3, <2>4, <2>5 DEF IInv
<1>2. CASE bblocks' # bblocks
  <2>1. /\ bblocks[bb].jmp # NoJump
        /\ bblocks' = [bblocks EXCEPT ![bb] = bblocks'[bb]]
        /\ bblocks'[bb] \in Blocks(Len(bblocks)) /\ Shape(bblocks'[bb])
        /\ bblocks'[bb].size = bblocks[bb].size /\ bblocks'[bb].jmp = bblocks[bb].jmp
        /\ bblocks'[bb].offset = JumpOffset(bblocks, bb) /\ bblocks'[bb].offsetLen \in {1, 4}
        /\ BestCaseSize(bblocks[bb]) <= BestCaseSize(bblocks'[bb])
        /\ BestCaseSize(bblocks[bb]) = BestCaseSize(bblocks'[bb]) \/ updateJmps'
    BY <1>2, JumpUpdated
  <2>2. /\ Len(bblocks') = Len(bblocks) /\ bblocks' \in Seq(Blocks(Len(bblocks)))
        /\ \A i \in 1..Len(bblocks) : i # bb => bblocks'[i] = bblocks[i]
    BY <1>0, <2>1
  <2>3. \A i \in 1..Len(bblocks) : BestCaseSize(bblocks[i]) \in Nat
    BY <1>0, BlockFacts, BestSize
  <2>4. NoShorter(bblocks', bblocks)
    BY <1>0, <2>1, <2>2, <2>3 DEF NoShorter
  <2>5. ~updateJmps' => NoShorter(bblocks, bblocks')
    BY <1>0, <2>1, <2>2, <2>3 DEF NoShorter
  <2>6. TypeOK'
    <3>1. updateJmps' \in BOOLEAN
      BY DEF UpdateJmp, IInv, TypeOK
    <3> QED  BY <1>0, <2>2, <3>1 DEF TypeOK
  <2>7. Shapes'
    BY <2>1, <2>2 DEF IInv, Shapes
  <2>8. ASSUME NEW i \in 1..Len(bblocks), bblocks[i].jmp # NoJump
        PROVE  /\ ~FitsShort(JumpOffset(bblocks, i)) => ~FitsShort(JumpOffset(bblocks', i))
               /\ ~updateJmps' => JumpOffset(bblocks', i) = JumpOffset(bblocks, i)
    BY <1>0, <2>2, <2>4, <2>5, <2>8, OffsetsGrow
  <2>9. Needed'
    <3> SUFFICES ASSUME NEW i \in 1..Len(bblocks), bblocks'[i].offsetLen = 4
                 PROVE  ~FitsShort(JumpOffset(bblocks', i))
      BY <2>2 DEF Needed
    <3>1. CASE i = bb
      BY <1>0, <2>1, <2>8, <3>1 DEF Shape
    <3>2. CASE i # bb
      <4>1. bblocks[i].offsetLen = 4 /\ Shape(bblocks[i])
        BY <2>2, <3>2 DEF IInv, Shapes
      <4> QED  BY <2>8, <4>1 DEF IInv, Needed, Shape
    <3> QED  BY <3>1, <3>2
  <2>10. Current'
    <3> SUFFICES ASSUME pc' = "jumps", ~updateJmps', NEW i \in 1..(bb' - 1), bblocks'[i].jmp # NoJump
                 PROVE  bblocks'[i].offsetLen # 0 /\ bblocks'[i].offset = JumpOffset(bblocks', i)
      BY DEF Current
    <3>1. ~updateJmps
      BY <1>2 DEF UpdateJmp
    <3>2. i \in 1..Len(bblocks) /\ (i = bb \/ i \in 1..(bb - 1))
      BY <1>0
    <3>3. CASE i = bb
      BY <2>1, <2>8, <3>2, <3>3
    <3>4. CASE i # bb
      <4>1. bblocks'[i] = bblocks[i]
        BY <2>2, <3>2, <3>4
      <4>2. bblocks[i].offsetLen # 0 /\ bblocks[i].offset = JumpOffset(bblocks, i)
        BY <1>0, <3>1, <3>2, <3>4, <4>1 DEF IInv, Current
      <4> QED  BY <2>8, <3>2, <4>1, <4>2
    <3> QED  BY <3>3, <3>4
  <2> QED  BY <2>6, <2>7, <2>9, <2>10 DEF IInv
<1> QED  BY <1>1, <1>2

LEMMA NextKept == IInv /\ [NextJumps]_jumpVars => IInv'
<1> SUFFICES ASSUME IInv, [NextJumps]_jumpVars  PROVE IInv'
  OBVIOUS
<1>1. CASE BeginJumps
  BY <1>1, BeginKeeps
<1>2. CASE UpdateJmp
  BY <1>2, UpdateJmpKeeps
<1>3. CASE UpdateAgain
  <2>1. bblocks' = bblocks /\ bb' = 1 /\ updateJmps' = FALSE
    BY <1>3 DEF UpdateAgain
  <2>2. bb' \in 1..Len(bblocks') + 1
    BY <2>1 DEF IInv, TypeOK
  <2>3. updateJmps' \in BOOLEAN
    BY <2>1
  <2>4. TypeOK'
    BY <2>1, <2>2, <2>3 DEF IInv, TypeOK
  <2> QED  BY <2>1, <2>4 DEF IInv, Shapes, Needed, Current
<1>4. CASE JumpsKnown
  <2>1. bblocks' = bblocks /\ bb' = bb /\ updateJmps' = updateJmps /\ pc' # "jumps"
    BY <1>4 DEF JumpsKnown
  <2> QED  BY <2>1 DEF IInv, TypeOK, Shapes, Needed, Current
<1>5. CASE UNCHANGED jumpVars
  <2>1. bblocks' = bblocks /\ bb' = bb /\ updateJmps' = updateJmps /\ pc' = pc
    BY <1>5 DEF jumpVars
  <2> QED  BY <2>1 DEF IInv, TypeOK, Shapes, Needed, Current
<1> QED  BY <1>1, <1>2, <1>3, <1>4, <1>5 DEF NextJumps

(* In every reachable state the invariant holds. *)
THEOREM Invariance == JumpsSpec => []IInv
BY InitKept, NextKept, PTL DEF JumpsSpec

(* A pass never shortens a jump, and another pass follows only one that made a
   jump longer (X64_update_jmp, the loop over update_jmps). *)
THEOREM OnlyGrow == JumpsSpec => JumpsOnlyGrow
<1> DEFINE Grow == /\ \A i \in DOMAIN bblocks : bblocks'[i].offsetLen >= bblocks[i].offsetLen
                   /\ updateJmps' /\ ~updateJmps =>
                        \E i \in DOMAIN bblocks : bblocks'[i].offsetLen > OrOne(bblocks[i].offsetLen)
<1>1. ASSUME IInv, [NextJumps]_jumpVars, pc = "jumps"  PROVE Grow
  <2>1. /\ bblocks \in Seq(Blocks(Len(bblocks))) /\ DOMAIN bblocks = 1..Len(bblocks)
        /\ \A i \in 1..Len(bblocks) : bblocks[i].offsetLen \in {0, 1, 4}
    BY <1>1, BlockFacts DEF IInv, TypeOK
  <2>2. CASE bblocks' = bblocks
    <3>1. updateJmps' => updateJmps
      <4>1. CASE UpdateJmp
        BY <1>1, <2>2, <4>1, NothingUpdated
      <4>2. CASE ~UpdateJmp
        BY <1>1, <4>2 DEF NextJumps, BeginJumps, UpdateAgain, JumpsKnown, jumpVars
      <4> QED  BY <4>1, <4>2
    <3>2. \A i \in DOMAIN bblocks : bblocks'[i].offsetLen >= bblocks[i].offsetLen
      BY <2>1, <2>2
    <3> QED  BY <3>1, <3>2
  <2>3. CASE bblocks' # bblocks
    <3>0. UpdateJmp
      BY <1>1, <2>3 DEF NextJumps, BeginJumps, UpdateAgain, JumpsKnown, jumpVars
    <3>1. /\ bb \in 1..Len(bblocks) /\ bblocks' = [bblocks EXCEPT ![bb] = bblocks'[bb]]
          /\ bblocks'[bb].offsetLen >= bblocks[bb].offsetLen
      BY <1>1, <2>3, <3>0, JumpUpdated
    <3>2. updateJmps' /\ ~updateJmps => bblocks'[bb].offsetLen > OrOne(bblocks[bb].offsetLen)
      BY <1>1, <2>3, <3>0, JumpUpdated
    <3>3. \A i \in 1..Len(bblocks) : i # bb => bblocks'[i] = bblocks[i]
      BY <2>1, <3>1
    <3>4. \A i \in DOMAIN bblocks : bblocks'[i].offsetLen >= bblocks[i].offsetLen
      BY <2>1, <3>1, <3>3
    <3> QED  BY <2>1, <3>1, <3>2, <3>4
  <2> QED  BY <2>2, <2>3
<1>2. IInv /\ [NextJumps]_jumpVars => [pc = "jumps" => Grow]_jumpVars
  BY <1>1
<1> QED  BY <1>2, Invariance, PTL DEF JumpsSpec, JumpsOnlyGrow

(* What is serialized: every jump has its bytes, and they lead from the end of
   its block to the start of its target (X64_update_jmp; the copying of blocks
   and jumps in X64_elf_gen_instrs). *)
THEOREM SerializedRight == JumpsSpec => []JumpsExact
<1>1. ASSUME IInv  PROVE JumpsExact
  <2> SUFFICES ASSUME Passed, ~updateJmps, NEW i \in DOMAIN bblocks, bblocks[i].jmp # NoJump
               PROVE  LET b == bblocks[i] IN
                      /\ b.offset = Upto(bblocks)[b.jmp.to - 1] - Upto(bblocks)[i]
                      /\ b.offsetLen = (IF FitsShort(b.offset) THEN 1 ELSE 4)
                      /\ b.opcodeLen = (IF FitsShort(b.offset) \/ b.jmp.op = "jmp" THEN 1 ELSE 2)
    BY DEF JumpsExact
  <2> DEFINE b == bblocks[i]   to == b.jmp.to
  <2>1. /\ bblocks \in Seq(Blocks(Len(bblocks))) /\ Len(bblocks) \in Nat
        /\ i \in 1..Len(bblocks) /\ i \in 1..(bb - 1) /\ i - 1 \in 0..Len(bblocks) /\ i \in 0..Len(bblocks)
    BY <1>1 DEF IInv, TypeOK, Passed
  <2>2. b.offsetLen # 0 /\ b.offset = JumpOffset(bblocks, i) /\ Shape(b)
    BY <1>1, <2>1 DEF IInv, Current, Shapes, Passed
  <2>3. /\ b.size \in Nat /\ b.jmp \in Jumps(Len(bblocks)) /\ b.offset \in Int
        /\ b.opcodeLen \in 0..2 /\ b.offsetLen \in {0, 1, 4}
    BY <2>1, BlockFacts
  <2>4. b.jmp.op \in {"jmp", "jmpcc"} /\ to \in 1..Len(bblocks) /\ to - 1 \in 0..Len(bblocks)
    BY <2>1, <2>3, JumpFacts
  <2>5. /\ b.offsetLen = (IF FitsShort(b.offset) THEN 1 ELSE 4)
        /\ b.opcodeLen = (IF FitsShort(b.offset) \/ b.jmp.op = "jmp" THEN 1 ELSE 2)
    BY <2>2, <2>3, <2>4 DEF Shape
  <2>6. /\ Upto(bblocks)[i] = Upto(bblocks)[i - 1] + b.size + b.opcodeLen + b.offsetLen
        /\ Upto(bblocks)[i] \in Nat /\ Upto(bblocks)[i - 1] \in Nat /\ Upto(bblocks)[to - 1] \in Nat
    <3>1. Upto(bblocks)[i] = Upto(bblocks)[i - 1] + BestCaseSize(b)
      BY <2>1, UptoIs
    <3>2. BestCaseSize(b) = b.size + b.opcodeLen + b.offsetLen
      BY <2>2, <2>3 DEF BestCaseSize, OrOne, Shape
    <3>3. Upto(bblocks)[i] \in Nat /\ Upto(bblocks)[i - 1] \in Nat /\ Upto(bblocks)[to - 1] \in Nat
      BY <2>1, <2>4, UptoType
    <3>4. Upto(bblocks)[i] = Upto(bblocks)[i - 1] + b.size + b.opcodeLen + b.offsetLen
      <4>1. Upto(bblocks)[i] = Upto(bblocks)[i - 1] + (b.size + b.opcodeLen + b.offsetLen)
        BY ONLY <3>1, <3>2
      <4>2. /\ b.size \in Nat /\ b.opcodeLen \in Nat /\ b.offsetLen \in Nat
            /\ Upto(bblocks)[i - 1] \in Nat
        BY <2>3, <3>3
      <4> DEFINE u == Upto(bblocks)[i]   v == Upto(bblocks)[i - 1]
                 x == b.size   y == b.opcodeLen   z == b.offsetLen
      <4> HIDE DEF u, v, x, y, z
      <4>3. u = v + (x + y + z) /\ v \in Nat /\ x \in Nat /\ y \in Nat /\ z \in Nat
        BY ONLY <4>1, <4>2 DEF u, v, x, y, z
      <4>4. u = v + x + y + z
        BY ONLY <4>3
      <4> QED  BY ONLY <4>4 DEF u, v, x, y, z
    <3> QED  BY ONLY <3>3, <3>4
  <2>7. b.offset = Upto(bblocks)[to - 1] - Upto(bblocks)[i]
    <3>1. CASE to > i
      <4>1. b.offset = SizeOf(bblocks, i + 1, to - 1) /\ (i + 1) - 1 = i
        BY <2>1, <2>2, <3>1, OffsetIs
      <4> QED  BY <4>1 DEF SizeOf
    <3>2. CASE to <= i
      <4> DEFINE back == -SizeOf(bblocks, to, i - 1) - b.size
      <4>1. /\ back \in Int /\ back <= 0
            /\ b.offset = IF back >= -126 THEN back - 2
                          ELSE back - (IF b.jmp.op = "jmpcc" THEN 6 ELSE 5)
        BY <2>1, <2>2, <3>2, OffsetIs
      <4> DEFINE u == Upto(bblocks)[i]   v == Upto(bblocks)[i - 1]   w == Upto(bblocks)[to - 1]
                 opcode == b.opcodeLen   len == b.offsetLen   size == b.size
      <4>2. back = -(v - w) - size
        BY DEF SizeOf
      <4>3. /\ u = v + size + opcode + len /\ u \in Nat /\ v \in Nat /\ w \in Nat
            /\ size \in Nat /\ opcode \in 0..2 /\ len \in {0, 1, 4}
        BY <2>3, <2>6
      <4> HIDE DEF back
      <4>4. b.offset = back - opcode - len
        BY <2>3, <2>4, <2>5, <4>1 DEF FitsShort
      <4> HIDE DEF u, v, w, opcode, len, size
      <4>5. b.offset = w - u
        BY ONLY <4>2, <4>3, <4>4
      <4> QED  BY <4>5 DEF u, w
    <3> QED  BY <2>1, <2>4, <3>1, <3>2
  <2> QED  BY <2>5, <2>7
<1> QED  BY <1>1, Invariance, PTL

=============================================================================
