----------------------------- MODULE ObjectFile -----------------------------
(***************************************************************************)
(* From the instructions of every procedure and the initializers of every   *)
(* global to a relocatable object file: x64_gen_elf and what it calls in    *)
(* data.c, text.c, machine_code.c and elf_writer.c.  The linker (external)  *)
(* then places the sections and applies the relocations.                    *)
(*                                                                         *)
(* A program is a record                                                    *)
(*   [strs, floats : literals in the order of their index,                  *)
(*    vars    : a sequence of [type, init],                                 *)
(*    foreign : the number of foreign procedures,                           *)
(*    procs   : a sequence of procedures, the first one main; each is       *)
(*              Incomplete or a sequence of blocks [code, jmp]]             *)
(***************************************************************************)
EXTENDS Encoding, GlobalData, JumpSizes, FiniteSets

CONSTANT Programs

\* And those of JumpSizes: pc, and the jumps of the procedure that is generated.
VARIABLES program,
    sections,      \* [rodata, data, floatOffs, strOffs, varOffs]
    proc,          \* the procedure that is generated
    buffers,       \* the code of its blocks, but for their jumps
    text,          \* [buf, procOffs, blockOffs, relocs, patches]
    elf,           \* the file's sections, symbols and relocations
    image          \* what the linker makes of it

vars == <<program, pc, sections, proc, buffers, bblocks, bb, updateJmps, text, elf, image>>

Jmp(to) == [op |-> "jmp", to |-> to]
JmpCC(cond, to) == [op |-> "jmpcc", cond |-> cond, to |-> to]
Incomplete == "incomplete"
\* Instructions that take n bytes and refer to nothing, and their bytes.
Pad(n) == [op |-> "pad", n |-> n]
EncodeAny(i) == IF i.op = "pad" THEN Plain([j \in 1..i.n |-> 144]) ELSE Encode(i)

---------------------------------------------------------------------------
(* .rodata and .data *)

FloatItems == [i \in DOMAIN program.floats |->
                 [type |-> Scalar(program.floats[i].size), init |-> FloatLit(program.floats[i].v)]]

GenData ==
    /\ pc = "data"
    /\ LET parts == <<Section(FloatItems)>> \o [i \in DOMAIN program.strs |-> Plainly(Text(program.strs[i]))]
       IN  sections' = [rodata    |-> Joined(parts),
                        floatOffs |-> ItemOffsets(FloatItems),
                        strOffs   |-> [i \in DOMAIN program.strs |-> Start(parts, i + 1)],
                        data      |-> Section(program.vars),
                        varOffs   |-> ItemOffsets(program.vars)]
    /\ pc' = "proc"
    /\ UNCHANGED <<program, proc, buffers, bblocks, bb, updateJmps, text, elf, image>>

---------------------------------------------------------------------------
(* .text *)

\* _start, and where the offset of main goes in it.
StartupCode == <<72, 49, 237, 139, 60, 36, 72, 141, 116, 36, 8, 72, 141, 84, 252, 16,
                 49, 192, 232, 9, 0, 0, 0, 137, 199, 184, 60, 0, 0, 0, 15, 5>>
StartupMainLoc == 19
StartupNextIp == 23

\* One more encoded instruction behind the others.
Behind(out, e) == Out(out.buf \o e.bytes, out.relocs \o Moved(e.usages, Len(out.buf)))
\* The block's instructions but for its jump, which is encoded last.
Encoded(block) == FoldLeft(LAMBDA out, i : Behind(out, EncodeAny(i)), Plainly(<<>>), block.code)
TextBBlock(buffer, jmp) ==
    [size |-> Len(buffer.buf), jmp |-> jmp, opcodeLen |-> 0, offsetLen |-> 0, offset |-> 0]

SkipIncomplete ==
    /\ pc = "proc"
    /\ proc <= Len(program.procs)
    /\ program.procs[proc] = Incomplete
    /\ proc' = proc + 1
    /\ UNCHANGED <<program, pc, sections, buffers, bblocks, bb, updateJmps, text, elf, image>>

GenProc ==
    /\ pc = "proc"
    /\ proc <= Len(program.procs)
    /\ program.procs[proc] # Incomplete
    /\ text' = [text EXCEPT !.procOffs[proc] = Len(text.buf)]
    /\ buffers' = [i \in DOMAIN program.procs[proc] |-> Encoded(program.procs[proc][i])]
    /\ bblocks' = [i \in DOMAIN buffers' |-> TextBBlock(buffers'[i], program.procs[proc][i].jmp)]
    /\ BeginJumps
    /\ UNCHANGED <<program, sections, proc, elf, image>>

NextJmp ==
    /\ UpdateJmp
    /\ UNCHANGED <<program, sections, proc, buffers, text, elf, image>>

NextPass ==
    /\ UpdateAgain
    /\ UNCHANGED <<program, sections, proc, buffers, text, elf, image>>

JumpBytes(b) ==
    LET opcode == CASE b.jmp = NoJump -> <<>>
                    [] b.jmp.op = "jmp" -> IF b.opcodeLen + b.offsetLen = 2 THEN <<235>> ELSE <<233>>
                    [] b.jmp.op = "jmpcc" /\ b.opcodeLen = 1 -> <<112 + CondNumber[b.jmp.cond]>>
                    [] b.jmp.op = "jmpcc" /\ b.opcodeLen = 2 -> <<15, 128 + CondNumber[b.jmp.cond]>>
    IN  opcode \o LowBytes(b.offset, b.offsetLen)

\* Usages of the program's own procedures are for X64_patch_proc_uses, the others
\* for the linker.
IsPatch(u) == u.to[1] = "proc"

Serialized ==
    /\ Passed
    /\ LET written == [i \in DOMAIN bblocks |->
                         Out(buffers[i].buf \o JumpBytes(bblocks[i]), buffers[i].relocs)]
           all     == Joined(<<Plainly(text.buf)>> \o written)
       IN  text' = [text EXCEPT
             !.buf = all.buf,
             !.blockOffs = @ @@ [at \in {<<proc, i>> : i \in DOMAIN bblocks} |->
                                   Start(<<Plainly(text.buf)>> \o written, at[2] + 1)],
             !.relocs = @ \o SelectSeq(all.relocs, LAMBDA u : ~IsPatch(u)),
             !.patches = @ \o SelectSeq(all.relocs, IsPatch)]
    /\ proc' = proc + 1
    /\ pc' = "proc"
    /\ JumpsKnown
    /\ UNCHANGED <<program, sections, buffers, elf, image>>

Overwrite(buf, at, bytes) ==
    [i \in DOMAIN buf |-> IF i \in (at + 1)..(at + Len(bytes)) THEN bytes[i - at] ELSE buf[i]]

PatchProcUses ==
    /\ pc = "proc"
    /\ proc > Len(program.procs)
    /\ LET started == Overwrite(text.buf, StartupMainLoc, LowBytes(text.procOffs[1] - StartupNextIp, 4))
           offset(p) == text.procOffs[p.to[2]] - (p.at + p.bytesToNextIp)
           patched == FoldLeft(LAMBDA buf, p : Overwrite(buf, p.at, LowBytes(offset(p), 4)),
                               started, text.patches)
       IN  text' = [text EXCEPT !.buf = patched]
    /\ pc' = "elf"
    /\ UNCHANGED <<program, sections, proc, buffers, bblocks, bb, updateJmps, elf, image>>

---------------------------------------------------------------------------
(* The ELF file *)

SectionKinds == <<"rodata", "data", "text", "symtab", "strtab", "rela_data", "rela_text", "shstrtab">>
HasSection(kind) ==
    CASE kind = "rodata"    -> sections.rodata.buf # <<>>
      [] kind = "data"      -> sections.data.buf # <<>>
      [] kind = "rela_data" -> sections.data.relocs # <<>>
      [] kind = "rela_text" -> text.relocs # <<>>
      [] kind \in {"text", "symtab", "strtab", "shstrtab"} -> TRUE
Present == SelectSeq(SectionKinds, HasSection)
ShIndex(kind) == IF HasSection(kind) THEN CHOOSE i \in DOMAIN Present : Present[i] = kind ELSE 0

SectionSym(kind) ==
    IF HasSection(kind) THEN <<[name |-> kind, bind |-> "local", shndx |-> ShIndex(kind)]>> ELSE <<>>
LocalSyms == <<[name |-> "null", bind |-> "local", shndx |-> 0]>>
             \o SectionSym("rodata") \o SectionSym("data") \o SectionSym("text")
GlobalSyms == <<[name |-> "_start", bind |-> "global", shndx |-> ShIndex("text")]>>
              \o [i \in 1..program.foreign |-> [name |-> Foreign(i), bind |-> "global", shndx |-> 0]]

\* Symbol indices count from 0.
RodataSym == 1
DataSym == IF HasSection("rodata") THEN 2 ELSE 1
TextSym == Len(LocalSyms) - 1
ForeignSym(i) == Len(LocalSyms) + i

Rela(at, type, sym, addend) == [at |-> at, type |-> type, sym |-> sym, addend |-> addend]

\* A pointer in .data.  A procedure is taken to be one of the program's own.
RelaData(r) ==
    CASE r.to[1] = "str" -> Rela(r.at, "abs64", RodataSym, sections.strOffs[r.to[2]] + r.disp)
      [] r.to[1] = "var" -> Rela(r.at, "abs64", DataSym, sections.varOffs[r.to[2]] + r.disp)
      [] r.to[1] \in {"proc", "foreign"} -> Rela(r.at, "abs64", TextSym, text.procOffs[r.to[2]])

RelaText(r) ==
    CASE r.to[1] = "str" ->
           Rela(r.at, "pc32", RodataSym, sections.strOffs[r.to[2]] - r.bytesToNextIp)
      [] r.to[1] = "flt" ->
           Rela(r.at, "pc32", RodataSym, sections.floatOffs[r.to[2]] - r.bytesToNextIp)
      [] r.to[1] = "var" ->
           Rela(r.at, "pc32", DataSym, sections.varOffs[r.to[2]] - r.bytesToNextIp)
      [] r.to[1] = "foreign" -> Rela(r.at, "plt32", ForeignSym(r.to[2]), -r.bytesToNextIp)

\* The sizes of the tables; a name takes its length and a zero.
NameLen == 6
SectionSize(kind) ==
    CASE kind = "rodata"    -> Len(sections.rodata.buf)
      [] kind = "data"      -> Len(sections.data.buf)
      [] kind = "text"      -> Len(text.buf)
      [] kind = "symtab"    -> 24 * Len(LocalSyms \o GlobalSyms)
      [] kind = "strtab"    -> 1 + (NameLen + 1) * Len(GlobalSyms)
      [] kind = "rela_data" -> 24 * Len(sections.data.relocs)
      [] kind = "rela_text" -> 24 * Len(text.relocs)
      [] kind = "shstrtab"  -> 1 + (NameLen + 1) * Len(Present)
SectionAlign(kind) ==
    CASE kind \in {"rodata", "text"} -> 16
      [] kind = "data" -> program.vars[1].type.align
      [] kind \in {"symtab", "rela_data", "rela_text"} -> 8
      [] kind \in {"strtab", "shstrtab"} -> 1

HeaderSize == 64
SectionOffsets ==
    LET offset[i \in DOMAIN Present] ==
          AlignUp(IF i = 1 THEN HeaderSize + 64 * (1 + Len(Present))
                  ELSE offset[i - 1] + SectionSize(Present[i - 1]),
                  SectionAlign(Present[i]))
    IN  offset

WriteElf ==
    /\ pc = "elf"
    /\ elf' = [shdrs |-> [i \in DOMAIN Present |->
                            [kind |-> Present[i], offset |-> SectionOffsets[i],
                             size |-> SectionSize(Present[i]), align |-> SectionAlign(Present[i])]],
               syms |-> LocalSyms \o GlobalSyms,
               firstGlobal |-> Len(LocalSyms),
               relaData |-> [k \in DOMAIN sections.data.relocs |-> RelaData(sections.data.relocs[k])],
               relaText |-> [k \in DOMAIN text.relocs |-> RelaText(text.relocs[k])]]
    /\ pc' = "link"
    /\ UNCHANGED <<program, sections, proc, buffers, bblocks, bb, updateJmps, text, image>>

---------------------------------------------------------------------------
(* The linker: each section somewhere, at a multiple of its alignment; each *)
(* foreign procedure somewhere else.                                        *)

Base(kind) ==
    CASE kind = "text" -> 4096
      [] kind = "rodata" -> 16400
      [] kind = "data" -> 20480 + 3 * SectionAlign("data")
ForeignAt(i) == 1000 + 100 * i
SymbolAt(sym) ==
    LET s == elf.syms[sym + 1]
    IN  IF s.shndx = 0 THEN (IF s.name[1] = "foreign" THEN ForeignAt(s.name[2]) ELSE 0)
        ELSE Base(elf.shdrs[s.shndx].kind)
Pointer64(v) == [i \in 1..8 |-> <<"address", v, i>>]

Relocate(kind, buf, relas) ==
    FoldLeft(LAMBDA b, r :
               IF r.type = "abs64" THEN Overwrite(b, r.at, Pointer64(SymbolAt(r.sym) + r.addend))
               ELSE Overwrite(b, r.at, LowBytes(SymbolAt(r.sym) + r.addend - (Base(kind) + r.at), 4)),
             buf, relas)

Link ==
    /\ pc = "link"
    /\ image' = [text |-> Relocate("text", text.buf, elf.relaText),
                 data |-> Relocate("data", sections.data.buf, elf.relaData),
                 rodata |-> sections.rodata.buf]
    /\ pc' = "linked"
    /\ UNCHANGED <<program, sections, proc, buffers, bblocks, bb, updateJmps, text, elf>>

---------------------------------------------------------------------------

Init ==
    /\ program \in Programs
    /\ pc = "data"
    /\ sections = <<>>
    /\ proc = 1
    /\ buffers = <<>>
    /\ bblocks = <<>>
    /\ bb = 1
    /\ updateJmps = FALSE
    /\ text = [buf |-> StartupCode, procOffs |-> [p \in DOMAIN program.procs |-> 0],
               blockOffs |-> <<>>, relocs |-> <<>>, patches |-> <<>>]
    /\ elf = <<>>
    /\ image = <<>>

Next == \/ GenData \/ SkipIncomplete \/ GenProc \/ NextJmp \/ NextPass
        \/ Serialized \/ PatchProcUses \/ WriteElf \/ Link
Spec == Init /\ [][Next]_vars
---------------------------------------------------------------------------
(* What the image means, read as the processor reads it *)

D == INSTANCE X64Decode

Linked == pc = "linked"
Procs == {p \in DOMAIN program.procs : program.procs[p] # Incomplete}
Blocks == UNION {{<<p, b>> : b \in DOMAIN program.procs[p]} : p \in Procs}
BlockOf(at) == program.procs[at[1]][at[2]]

BytesFrom(buf, p) == SubSeq(buf, p + 1, IF p + 16 > Len(buf) THEN Len(buf) ELSE p + 16)

\* The instructions of a block and its jump, where each is from the start of
\* .text and what it decodes to.
DecodedAt(p) == D!Decode(BytesFrom(image.text, p))
Sites(at) ==
    LET jmp == BlockOf(at).jmp
        read(sites, i) ==
          LET p == IF sites = <<>> THEN text.blockOffs[at] ELSE Last(sites).p + Last(sites).d.len
          IN  Append(sites, [at |-> at, ins |-> i, p |-> p,
                             d |-> IF i.op = "pad" THEN [len |-> i.n] ELSE DecodedAt(p)])
    IN  FoldLeft(read, <<>>, BlockOf(at).code \o (IF jmp = NoJump THEN <<>> ELSE <<jmp>>))
AllSites  == UNION {Range(Sites(at)) : at \in Blocks}
JumpSites == {s \in AllSites : s.ins.op \in {"jmp", "jmpcc"}}
CodeSites == {s \in AllSites : s.ins.op \notin {"jmp", "jmpcc", "pad"}}

\* Where an entity of the program is.
EntityAt(e) ==
    CASE e[1] = "var" -> Base("data") + sections.varOffs[e[2]]
      [] e[1] = "str" -> Base("rodata") + sections.strOffs[e[2]]
      [] e[1] = "flt" -> Base("rodata") + sections.floatOffs[e[2]]
      [] e[1] = "proc" -> Base("text") + text.procOffs[e[2]]
      [] e[1] = "foreign" -> ForeignAt(e[2])

\* The same instruction, up to what the encoding may choose: a smaller move of
\* a number that is not negative, and the bytes of an immediate.
ImmediateOf(i) ==
    IF i.op \in {"shl", "sar"} THEN D!Imm(ImmBytes(i.src.c, 1)) ELSE D!Imm(ImmBytes(i.src.c, i.size))
Narrowed(i) ==
    IF i.op = "mov" /\ i.size = 8 /\ i.dst.k = "r" /\ i.src.k = "i" /\ i.src.c[1] = "n" /\ i.src.c[2] >= 0
    THEN Ins("mov", 4, i.dst, i.src) ELSE i
SameOperand(x, y) == IF x.k = "global" THEN y.k = "rip" ELSE x = y
SameInstr(i, d) ==
    LET n == Narrowed(i) IN
    IF i.op = "call" /\ i.src.k = "proc" THEN d.op = "call" /\ "to" \in DOMAIN d
    ELSE /\ d.op = i.op
         /\ d.size = n.size
         /\ SameOperand(i.dst, d.dst)
         /\ SameOperand(IF i.src.k = "i" /\ i.op # "setcc" THEN ImmediateOf(n) ELSE i.src, d.src)
         /\ i.ssize # i.size => d.ssize = i.ssize

\* The address that a decoded instruction refers to relative to the next one.
ReferredTo(s) ==
    LET x == IF s.ins.dst.k = "global" THEN s.d.ins.dst ELSE s.d.ins.src
    IN  Base("text") + s.p + s.d.len
        + (IF "to" \in DOMAIN s.d.ins THEN s.d.ins.to
           ELSE D!Signed32(SubSeq(image.text, s.p + x.at, s.p + x.at + 3)))

---------------------------------------------------------------------------
(* Properties *)

\* The bytes of every instruction decode to that instruction: operation, sizes,
\* registers, addresses and immediates, with no byte left over (the encoders of
\* machine_code.c, their REX prefixes, SIB bytes and displacements).
DecodesBack == Linked => \A s \in CodeSites : SameInstr(s.ins, s.d.ins)

\* Every jump goes to the start of its target, whatever the sizes that the
\* jumps between them ended with (X64_update_jmp).
JumpsLand ==
    Linked => \A s \in JumpSites :
      /\ s.d.ins.op = s.ins.op
      /\ s.ins.op = "jmpcc" => s.d.ins.cond = s.ins.cond
      /\ s.p + s.d.len + s.d.ins.to = text.blockOffs[<<s.at[1], s.ins.to>>]

\* Every use of a global, a literal or a procedure in an instruction refers to
\* that entity, and _start calls main (the usage offsets, the patches of
\* X64_patch_proc_uses, the symbols and the addends of .rela.text).
ReferencesLand ==
    Linked =>
      /\ \A s \in CodeSites : \A x \in {s.ins.dst, s.ins.src} :
           x.k \in {"global", "proc"} => ReferredTo(s) = EntityAt(x.to)
      /\ DecodedAt(StartupMainLoc - 1).ins.to + StartupNextIp = text.procOffs[1]

\* The sections lie one after the other in the file, each at a multiple of its
\* alignment, behind the headers; local symbols come before the others; every
\* relocation is inside its section (x64_prog_finalize_offsets, write_bin's assert).
FileWellFormed ==
    /\ \A k \in DOMAIN elf.shdrs :
         /\ elf.shdrs[k].offset % elf.shdrs[k].align = 0
         /\ elf.shdrs[k].offset >= IF k = 1 THEN HeaderSize + 64 * (1 + Len(elf.shdrs))
                                   ELSE elf.shdrs[k - 1].offset + elf.shdrs[k - 1].size
    /\ \A s \in DOMAIN elf.syms : (elf.syms[s].bind = "global") <=> (s > elf.firstGlobal)
    /\ \A r \in Range(elf.relaText) : r.at + 4 <= Len(text.buf) /\ r.sym < Len(elf.syms)
    /\ \A r \in Range(elf.relaData) : r.at + 8 <= Len(sections.data.buf) /\ r.sym < Len(elf.syms)

\* Every global is aligned within .data and holds its initializer: each scalar
\* and each pointer is at its offset in the type, all else is zero; so is every
\* literal in .rodata (the serialization of data.c, .rela.data); and the file that
\* is linked is well formed.
LeafBytes(l) ==
    CASE l.c.kind = "int"   -> Number(l.c.v, l.size)
      [] l.c.kind = "float" -> Number(l.c.f, l.size)
      [] l.c.kind \in {"addr", "plus"} ->
           Pointer64(EntityAt(Target(l.c).to) + Target(l.c).disp)
Holds(buf, at, t, e) ==
    LET leaves == Leaves(t, 0, e)
    IN  /\ at % t.align = 0
        /\ at + t.size <= Len(buf)
        /\ \A l \in leaves :
              /\ l.at % l.size = 0
              /\ SubSeq(buf, at + l.at + 1, at + l.at + l.size) = LeafBytes(l)
        /\ \A i \in 0..(t.size - 1) :
              (\A l \in leaves : i \notin l.at..(l.at + l.size - 1)) => buf[at + i + 1] = "zero"
DataImage ==
    Linked =>
      /\ FileWellFormed
      /\ \A v \in DOMAIN program.vars :
           Holds(image.data, sections.varOffs[v], program.vars[v].type, program.vars[v].init)
      /\ \A f \in DOMAIN program.floats :
           LET lit == program.floats[f]
           IN  Holds(image.rodata, sections.floatOffs[f], Scalar(lit.size), FloatLit(lit.v))
      /\ \A s \in DOMAIN program.strs :
           LET at == sections.strOffs[s]
               n  == Len(program.strs[s])
           IN  SubSeq(image.rodata, at + 1, at + n + 1) = Text(program.strs[s])
=============================================================================
