----------------------------- MODULE GlobalData -----------------------------
(***************************************************************************)
(* Global variables and literals: the layout of their types                 *)
(* (ast/module.c), the constant that an initializer stands for              *)
(* (bytecode/vars.c) and the bytes and relocations of the sections .data    *)
(* and .rodata (x64_gen/data.c).  Bytes are symbols; a number of n bytes v  *)
(* is <<v, 1>>, .., <<v, n>>.                                               *)
(***************************************************************************)
EXTENDS Integers, Sequences, SequencesExt, FiniteSets

AlignUp(n, a) == ((n + a - 1) \div a) * a

---------------------------------------------------------------------------
(* Types *)

Scalar(n)       == [kind |-> "scalar", size |-> n, align |-> n]
Pointer         == Scalar(8)
ArrayOf(t, n)   == [kind |-> "array", base |-> t, len |-> n, size |-> n * t.size, align |-> t.align]

LargestAlign(fields) == CHOOSE a \in {t.align : t \in Range(fields)} :
                          \A t \in Range(fields) : t.align <= a
\* Where a struct's field starts: after the fields before it, at a multiple of
\* its own alignment.
FieldOffset(fields, i) ==
    LET end[j \in 0..Len(fields)] ==
          IF j = 0 THEN 0 ELSE AlignUp(end[j - 1], fields[j].align) + fields[j].size
    IN  AlignUp(end[i - 1], fields[i].align)

StructOf(fields) ==
    LET n == Len(fields)
    IN  [kind |-> "struct", fields |-> fields, align |-> LargestAlign(fields),
         size |-> AlignUp(FieldOffset(fields, n) + fields[n].size, LargestAlign(fields))]
UnionOf(fields) ==
    LET largest == CHOOSE s \in {t.size : t \in Range(fields)} :
                     \A t \in Range(fields) : t.size <= s
    IN  [kind |-> "union", fields |-> fields, align |-> LargestAlign(fields),
         size |-> AlignUp(largest, LargestAlign(fields))]

---------------------------------------------------------------------------
(* Initializers, and the constants they become *)

IntConst(v)  == [kind |-> "int", v |-> v]
FloatLit(f)  == [kind |-> "float", f |-> f]
StrChars(s)  == [kind |-> "str", s |-> s]
\* ^g, p + n, a decayed array or string, a procedure, null ? .. : .. and so on:
\* an entity and how many elements of what size lie between.
AddrOf(e)    == [kind |-> "addr", of |-> e]
Plus(p, n, size)  == [kind |-> "plus", p |-> p, n |-> n, size |-> size]
NotGiven     == [kind |-> "none"]
\* An initializer of a compound literal: its designated place, or the next one.
InOrder == 0
Member(at, e) == [at |-> at, e |-> e]
Compound(ms)  == [kind |-> "compound", ms |-> ms]

Var(i) == <<"var", i>>
Str(i) == <<"str", i>>
Flt(i) == <<"flt", i>>
Proc(i) == <<"proc", i>>
Foreign(i) == <<"foreign", i>>

\* The place of each initializer: a designator moves the place of those after it.
Places(ms) ==
    LET place[i \in 0..Len(ms)] ==
          IF i = 0 THEN 0 ELSE IF ms[i].at = InOrder THEN place[i - 1] + 1 ELSE ms[i].at
    IN  [i \in DOMAIN ms |-> place[i]]

\* What fills place i of a compound literal: the last initializer for it.
\* IR_emit_global_expr keeps them in the order they are written in, and the
\* writer or the allocation of field expressions overwrites.
RECURSIVE ConstOf(_)
Filler(ms, i) ==
    LET at == {j \in DOMAIN ms : Places(ms)[j] = i}
    IN  IF at = {} THEN NotGiven
        ELSE ConstOf(ms[CHOOSE j \in at : \A k \in at : k <= j].e)

ConstOf(e) ==
    CASE e.kind \in {"int", "float", "str", "none"} -> e
      [] e.kind = "addr" -> [kind |-> "mem_addr", of |-> e.of, disp |-> 0]
      [] e.kind = "plus" -> LET p == ConstOf(e.p) IN [p EXCEPT !.disp = @ + e.n * e.size]
      [] e.kind = "compound" -> [kind |-> "init", ms |-> e.ms]

---------------------------------------------------------------------------
(* Serialization *)

Fill(n) == [i \in 1..n |-> "zero"]
Number(v, n) == [i \in 1..n |-> <<v, i>>]
Text(s) == [i \in 1..Len(s) |-> <<s[i], 1>>] \o <<"zero">>

Out(buf, relocs) == [buf |-> buf, relocs |-> relocs]
Plainly(buf) == Out(buf, <<>>)
\* One after the other; the offset of a relocation counts from the start.
Start(outs, i) == Len(FlattenSeq([j \in 1..(i - 1) |-> outs[j].buf]))
\* Mutant: offsets within an item are taken for offsets in the section.
NotMoved(relocs, by) == relocs
Moved(relocs, by) == [k \in DOMAIN relocs |-> [relocs[k] EXCEPT !.at = @ + by]]
Joined(outs) ==
    Out(FlattenSeq([i \in DOMAIN outs |-> outs[i].buf]),
        FlattenSeq([i \in DOMAIN outs |-> Moved(outs[i].relocs, Start(outs, i))]))

\* X64_data_serialize: what a constant of type t adds to the section.
RECURSIVE Serialize(_, _)

SerializeArray(t, ms) == Joined([i \in 1..t.len |-> Serialize(t.base, Filler(ms, i))])

\* Zeros up to each field, the field, and zeros up to the size of the struct.
SerializeStruct(t, ms) ==
    LET n == Len(t.fields)
        from(i) == IF i > n THEN t.size ELSE FieldOffset(t.fields, i)
        written(i) == IF i = 1 THEN 0 ELSE from(i - 1) + t.fields[i - 1].size
        part(i) == <<Plainly(Fill(from(i) - written(i)))>>
                   \o (IF i > n THEN <<>> ELSE <<Serialize(t.fields[i], Filler(ms, i))>>)
    IN  Joined(FlattenSeq([i \in 1..(n + 1) |-> part(i)]))

SerializeUnion(t, ms) ==
    IF ms = <<>> THEN Plainly(Fill(t.size))
    ELSE LET field == t.fields[Places(ms)[1]]
         IN  Joined(<<Serialize(field, ConstOf(ms[1].e)), Plainly(Fill(t.size - field.size))>>)

Serialize(t, c) ==
    CASE c.kind = "none"  -> Plainly(Fill(t.size))
      [] c.kind = "int"   -> Plainly(Number(c.v, t.size))
      [] c.kind = "float" -> Plainly(Number(c.f, t.size))
      [] c.kind = "str"   -> Plainly(Text(c.s))
      [] c.kind = "mem_addr" -> Out(Fill(t.size), <<[at |-> 0, to |-> c.of, disp |-> c.disp]>>)
      [] c.kind = "init" ->
           CASE t.kind = "array"  -> SerializeArray(t, c.ms)
             [] t.kind = "struct" -> SerializeStruct(t, c.ms)
             [] t.kind = "union"  -> SerializeUnion(t, c.ms)

\* X64_add_data_item for each item: align, then serialize.
ItemOffsets(items) ==
    LET end[i \in 0..Len(items)] ==
          IF i = 0 THEN 0
          ELSE AlignUp(end[i - 1], items[i].type.align)
               + Len(Serialize(items[i].type, ConstOf(items[i].init)).buf)
    IN  [i \in DOMAIN items |-> AlignUp(end[i - 1], items[i].type.align)]
Section(items) ==
    LET parts == [i \in DOMAIN items |-> Serialize(items[i].type, ConstOf(items[i].init))]
        end(i) == IF i = 0 THEN 0 ELSE ItemOffsets(items)[i] + Len(parts[i].buf)
    IN  Joined(FlattenSeq([i \in DOMAIN items |->
          <<Plainly(Fill(ItemOffsets(items)[i] - end(i - 1))), parts[i]>>]))

---------------------------------------------------------------------------
(* What an initializer means: the scalars of the variable, by offset.       *)
(* Later initializers win; what is not initialized is zero.                 *)

Leaf(at, size, c) == [at |-> at, size |-> size, c |-> c]
RECURSIVE Leaves(_, _, _)
PlaceOffset(t, i) ==
    CASE t.kind = "array"  -> (i - 1) * t.base.size
      [] t.kind = "struct" -> FieldOffset(t.fields, i)
      [] t.kind = "union"  -> 0
PlaceType(t, i) == IF t.kind = "array" THEN t.base ELSE t.fields[i]
PlacesOf(t) == IF t.kind = "array" THEN 1..t.len ELSE DOMAIN t.fields

Leaves(t, at, e) ==
    CASE e.kind \in {"int", "float", "addr", "plus"} -> {Leaf(at, t.size, e)}
      [] e.kind = "str" -> {Leaf(at + i - 1, 1, IntConst(e.s[i])) : i \in DOMAIN e.s}
      [] e.kind = "none" -> {}
      [] e.kind = "compound" ->
           UNION {LET given == {j \in DOMAIN e.ms : Places(e.ms)[j] = i}
                      last  == CHOOSE j \in given : \A k \in given : k <= j
                  IN  IF given = {} THEN {}
                      ELSE Leaves(PlaceType(t, i), at + PlaceOffset(t, i), e.ms[last].e)
                  : i \in PlacesOf(t)}
RECURSIVE Target(_)
Target(e) == IF e.kind = "addr" THEN [to |-> e.of, disp |-> 0]
             ELSE [Target(e.p) EXCEPT !.disp = @ + e.n * e.size]
=============================================================================
