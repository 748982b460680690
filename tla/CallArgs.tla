------------------------------ MODULE CallArgs ------------------------------
(***************************************************************************)
(* Where ir_to_xir.c puts the arguments of a call.                          *)
(*                                                                         *)
(* A type is a record with [cls, size, align], where cls is "int", "flt",   *)
(* "obj", "objf" (an object of nothing but floats) or "void".               *)
(***************************************************************************)
EXTENDS X64Registers, SequencesExt

Void == [cls |-> "void", size |-> 0, align |-> 1]
IsObj(t)  == t.cls \in {"obj", "objf"}
IsLarge(t) == IsObj(t) /\ t.size > 16
Class(t)  == IF t.cls \in {"flt", "objf"} THEN "flt" ELSE "int"

AlignUp(n, a) == ((n + a - 1) \div a) * a

---------------------------------------------------------------------------
(* Where the arguments go.  A slot is [regs, sp]: argument registers, or an *)
(* offset from the stack pointer at the call.                              *)

Left(s, t) == Len(ArgRegs(Class(t))) - s.next[Class(t)]

\* How many registers the next argument takes, of those that are left.
PlacePrimArg(s, t) == IF Left(s, t) >= 1 THEN 1 ELSE 0
PlaceObjArg(s, t) ==
    CASE t.size <= 8 /\ Left(s, t) >= 1 -> 1
      [] t.size \in 9..16 /\ Left(s, t) >= 2 -> 2
      [] OTHER -> 0
ArgNumRegs(s, t) == IF IsObj(t) THEN PlaceObjArg(s, t) ELSE PlacePrimArg(s, t)

ArgSlot(s, t) ==
    [regs |-> SubSeq(ArgRegs(Class(t)), s.next[Class(t)] + 1, s.next[Class(t)] + ArgNumRegs(s, t)),
     sp   |-> IF ArgNumRegs(s, t) = 0 THEN s.size ELSE 0]
AfterArg(s, t) ==
    [next |-> [s.next EXCEPT ![Class(t)] = @ + ArgNumRegs(s, t)],
     size |-> s.size + (IF ArgNumRegs(s, t) = 0 THEN AlignUp(t.size, 8) ELSE 0)]

\* A large result takes the first integer register for its address.
FirstArg(ret) == [cls \in {"int", "flt"} |-> IF cls = "int" /\ IsLarge(ret) THEN 1 ELSE 0]

\* Registers and stack taken by the first n arguments.
Taken(ret, args) ==
    LET taken[n \in 0..Len(args)] ==
          IF n = 0 THEN [next |-> FirstArg(ret), size |-> 0] ELSE AfterArg(taken[n - 1], args[n])
    IN  taken
ConvertCallArgs(ret, args) ==
    [slots |-> [i \in 1..Len(args) |-> ArgSlot(Taken(ret, args)[i - 1], args[i])],
     size  |-> Taken(ret, args)[Len(args)].size]
=============================================================================
