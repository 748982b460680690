----------------------------- MODULE JumpSizes -----------------------------
(***************************************************************************)
(* The sizes of a procedure's jumps (X64_elf_gen_instrs, machine_code.c).  *)
(* A jump ends its block.  Every jump starts in the short form, with an    *)
(* offset of one byte; those whose target turns out to be too far get one  *)
(* of four, which moves other targets further away; the pass over the      *)
(* blocks is repeated until it changes no size.                            *)
(*                                                                         *)
(* A block counts as the bytes of its other instructions, `size'.          *)
(***************************************************************************)
EXTENDS Integers, Sequences

CONSTANT Conds         \* ConditionKind

VARIABLES
    pc,                \* "jumps" while the passes go on
    bblocks,           \* the procedure's X64_TextBBlocks
    bb,                \* the block that is updated
    updateJmps         \* update_jmps: some jump changed its size in this pass

jumpVars == <<pc, bblocks, bb, updateJmps>>

NoJump == [op |-> "none"]
Jumps(n) == {NoJump} \cup [op : {"jmp"}, to : 1..n] \cup [op : {"jmpcc"}, cond : Conds, to : 1..n]
Fresh(n) == [size : Nat, jmp : Jumps(n), opcodeLen : {0}, offsetLen : {0}, offset : {0}]

FitsShort(v) == v \in -128..127

\* Mutants: jumps are long until they are known; a jump counts as short always.
OrFour(len) == IF len = 0 THEN 4 ELSE len
ShortSize(b) == b.size + (IF b.jmp = NoJump THEN 0 ELSE 2)
OrOne(len) == IF len = 0 THEN 1 ELSE len
BestCaseSize(b) ==
    b.size + (IF b.jmp = NoJump THEN 0 ELSE OrOne(b.opcodeLen) + OrOne(b.offsetLen))

\* The bytes of the first n blocks, and those from one block to another.
Upto(blocks) ==
    LET upto[n \in 0..Len(blocks)] ==
          IF n = 0 THEN 0 ELSE upto[n - 1] + BestCaseSize(blocks[n])
    IN  upto
SizeOf(blocks, from, to) == Upto(blocks)[to] - Upto(blocks)[from - 1]

\* From the end of the jump to its target.  A backward jump counts its own
\* size: short if that suffices.
JumpOffset(blocks, src) ==
    LET b    == blocks[src]
        dst  == b.jmp.to
        back == -SizeOf(blocks, dst, src - 1) - b.size
    IN  IF dst > src THEN SizeOf(blocks, src + 1, dst - 1)
        ELSE IF back >= -128 + 2 THEN back - 2
        ELSE back - (IF b.jmp.op = "jmpcc" THEN 6 ELSE 5)

\* The procedure's other instructions have been encoded.
BeginJumps ==
    /\ pc # "jumps"
    /\ bblocks' \in Seq(Fresh(Len(bblocks')))
    /\ bb' = 1
    /\ updateJmps' = FALSE
    /\ pc' = "jumps"

UpdateJmp ==
    /\ pc = "jumps"
    /\ bb <= Len(bblocks)
    /\ LET b       == bblocks[bb]
           offset  == JumpOffset(bblocks, bb)
           oldFits == b.offsetLen <= 1
           newFits == FitsShort(offset)
       IN  IF b.jmp # NoJump /\ (b.offsetLen = 0 \/ b.offset # offset)
           THEN /\ bblocks' = [bblocks EXCEPT ![bb] =
                      [@ EXCEPT !.opcodeLen = IF b.jmp.op = "jmp" \/ newFits THEN 1 ELSE 2,
                                !.offsetLen = IF newFits THEN 1 ELSE 4,
                                !.offset = offset]]
                /\ updateJmps' = (updateJmps \/ ~(oldFits <=> newFits))
           ELSE UNCHANGED <<bblocks, updateJmps>>
    /\ bb' = bb + 1
    /\ UNCHANGED pc

Passed == pc = "jumps" /\ bb > Len(bblocks)

UpdateAgain ==
    /\ Passed
    /\ updateJmps
    /\ bb' = 1
    /\ updateJmps' = FALSE
    /\ UNCHANGED <<pc, bblocks>>

\* The blocks are copied to the text, each with its jump.
JumpsKnown ==
    /\ Passed
    /\ ~updateJmps
    /\ pc' # "jumps"
    /\ UNCHANGED <<bblocks, bb, updateJmps>>

InitJumps == pc # "jumps" /\ bblocks = <<>> /\ bb = 1 /\ updateJmps = FALSE
NextJumps == BeginJumps \/ UpdateJmp \/ UpdateAgain \/ JumpsKnown
JumpsSpec == InitJumps /\ [][NextJumps]_jumpVars

---------------------------------------------------------------------------
(* Properties *)

\* A jump never gets shorter again, and the jumps are updated once more only
\* after one got longer: the loop over update_jmps ends.
JumpsOnlyGrow ==
    [][pc = "jumps" =>
         /\ \A i \in DOMAIN bblocks : bblocks'[i].offsetLen >= bblocks[i].offsetLen
         /\ updateJmps' /\ ~updateJmps =>
              \E i \in DOMAIN bblocks : bblocks'[i].offsetLen > OrOne(bblocks[i].offsetLen)]_jumpVars

\* What is serialized is right: every jump has got its bytes, its offset leads
\* from the end of its block to the start of its target, and fits them (the
\* assert at machine_code.c:2180).
JumpsExact ==
    Passed /\ ~updateJmps =>
      \A i \in DOMAIN bblocks : LET b == bblocks[i] IN
        b.jmp # NoJump =>
          /\ b.offset = Upto(bblocks)[b.jmp.to - 1] - Upto(bblocks)[i]
          /\ b.offsetLen = (IF FitsShort(b.offset) THEN 1 ELSE 4)
          /\ b.opcodeLen = (IF FitsShort(b.offset) \/ b.jmp.op = "jmp" THEN 1 ELSE 2)
=============================================================================
