---------------------------- MODULE FrameLayout ----------------------------
(***************************************************************************)
(* The stack frame of a procedure (X64_assign_proc_stack_offsets,          *)
(* xir_to_x64.c): first its parameters, spilled from their registers or    *)
(* left where the caller pushed them; below them its own variables and     *)
(* anonymous objects; below those its nested scopes, siblings over each    *)
(* other.  The recursion over the scopes is a stack of activations.        *)
(***************************************************************************)
EXTENDS CallArgs

\* The procedures: [ret, params, tmps, scopes], where tmps are the temporary
\* objects of all statements.  A scope is [vars, objs, children], its children
\* by number, and the first scope is the procedure's own.
CONSTANT Procs

Type == [cls : {"int", "flt", "obj", "objf"}, size : Nat, align : {1, 2, 4, 8}]
Scopes(n) == [vars : Seq(Type), objs : Seq(Type), children : Seq(1..n)]

ASSUME ProcsAssumption ==
    \A p \in Procs :
        /\ p.ret \in Type \cup {Void}
        /\ p.params \in Seq(Type) /\ p.tmps \in Seq(Type)
        /\ p.scopes \in Seq(Scopes(Len(p.scopes))) /\ p.scopes # <<>>

VARIABLES
    proc,              \* the procedure
    nextReg,           \* arg_reg_indices
    spillSize,         \* stack_spill_size
    stackArg,          \* stack_arg_offset
    saved,             \* the registers spilled: [reg, size, off]
    placed,            \* the parameters, then variables and objects:
                       \* [off, type, within], the last its enclosing scopes
    opened,            \* the scopes entered so far, which number them
    active,            \* the activations: [within, base, size, own, kids]
    frameSize          \* the result, and 0 until it is known

layoutVars == <<proc, nextReg, spillSize, stackArg, saved, placed, opened, active, frameSize>>

InitLayout ==
    /\ proc \in Procs
    /\ nextReg = FirstArg(proc.ret)
    \* The address of a large result is remembered in the first slot.
    /\ spillSize = (IF IsLarge(proc.ret) THEN 8 ELSE 0)
    /\ saved = (IF IsLarge(proc.ret) THEN <<[reg |-> RDI, size |-> 8, off |-> -8]>> ELSE <<>>)
    /\ stackArg = 16
    /\ placed = <<>> /\ opened = 0 /\ active = <<>> /\ frameSize = 0

---------------------------------------------------------------------------
(* Parameters *)

Param == proc.params[Len(placed) + 1]
TakesParam == opened = 0 /\ Len(placed) < Len(proc.params)
HasRegs(n) == nextReg[Class(Param)] + n <= Len(ArgRegs(Class(Param)))
NextArgReg(n) == ArgRegs(Class(Param))[nextReg[Class(Param)] + n]

\* The next thing below the ones so far.  Mutant: without its alignment.
Below_Packed(used, size, align) == used + size
Below(used, size, align) == AlignUp(used + size, align)

Placed(off, t, within) == [off |-> off, type |-> t, within |-> within]
SpillTo(off, regs, saves) ==
    /\ spillSize' = -off
    /\ saved' = saved \o saves
    /\ nextReg' = [nextReg EXCEPT ![Class(Param)] = @ + regs]
    /\ placed' = Append(placed, Placed(off, Param, {}))
    /\ UNCHANGED <<proc, stackArg, opened, active, frameSize>>

FitsOne  == (IsObj(Param) => Param.size <= 8) /\ HasRegs(1)
FitsPair == IsObj(Param) /\ Param.size \in 9..16 /\ HasRegs(2)

SpillOne ==
    /\ TakesParam /\ FitsOne
    /\ LET size == IF IsObj(Param) THEN 8 ELSE Param.size
           off  == -Below(spillSize, size, Param.align)
       IN  SpillTo(off, 1, <<[reg |-> NextArgReg(1), size |-> size, off |-> off]>>)

\* The higher register first, so that the object's words are in order.
\* Mutant: the lower one first.
PairSaves_InOrder(high, low) == <<[reg |-> NextArgReg(1), size |-> 8, off |-> high],
                                  [reg |-> NextArgReg(2), size |-> 8, off |-> low]>>
PairSaves(high, low) == <<[reg |-> NextArgReg(2), size |-> 8, off |-> high],
                          [reg |-> NextArgReg(1), size |-> 8, off |-> low]>>
SpillPair ==
    /\ TakesParam /\ FitsPair
    /\ LET high == -Below(spillSize, 8, Param.align)
           low  == -Below(-high, 8, Param.align)
       IN  SpillTo(low, 2, PairSaves(high, low))

TakeStackArg ==
    /\ TakesParam /\ ~FitsOne /\ ~FitsPair
    /\ placed' = Append(placed, Placed(stackArg, Param, {}))
    /\ stackArg' = AlignUp(AlignUp(stackArg + Param.size, Param.align), 8)
    /\ UNCHANGED <<proc, nextReg, spillSize, saved, opened, active, frameSize>>

---------------------------------------------------------------------------
(* Scopes.  In an activation `own' are the variables and objects still to   *)
(* place, `kids' the scopes still to enter, and `base' is child_offset:     *)
(* they all start where the scope's own variables end.                     *)

Activation(within, start, own, kids) ==
    [within |-> within, base |-> start, size |-> start, own |-> own, kids |-> kids]
Top    == active[Len(active)]
Parent == active[Len(active) - 1]
Own(s) == proc.scopes[s].vars \o (IF s = 1 THEN proc.tmps ELSE <<>>) \o proc.scopes[s].objs

OpenProc ==
    /\ opened = 0 /\ Len(placed) = Len(proc.params)
    /\ active' = <<Activation({}, spillSize, Own(1), proc.scopes[1].children)>>
    /\ opened' = 1
    /\ UNCHANGED <<proc, nextReg, spillSize, stackArg, saved, placed, frameSize>>

PlaceVar ==
    /\ active # <<>> /\ Top.own # <<>>
    /\ LET t == Head(Top.own)
           n == Below(Top.size, t.size, t.align)
       IN  /\ placed' = Append(placed, Placed(-n, t, Top.within))
           /\ active' = [active EXCEPT ![Len(active)] =
                           [Top EXCEPT !.size = n, !.base = n, !.own = Tail(Top.own)]]
    /\ UNCHANGED <<proc, nextReg, spillSize, stackArg, saved, opened, frameSize>>

EnterScope ==
    /\ active # <<>> /\ Top.own = <<>> /\ Top.kids # <<>>
    /\ LET s == Head(Top.kids) IN
       active' = Append([active EXCEPT ![Len(active)] = [Top EXCEPT !.kids = Tail(Top.kids)]],
                        Activation(Top.within \cup {opened}, Top.base, Own(s),
                                   proc.scopes[s].children))
    /\ opened' = opened + 1
    /\ UNCHANGED <<proc, nextReg, spillSize, stackArg, saved, placed, frameSize>>

\* Mutant: the size of the last child, not the largest.
Enclosing_Last(size, child) == child
Enclosing(size, child) == IF child > size THEN child ELSE size
LeaveScope ==
    /\ Len(active) > 1 /\ Top.own = <<>> /\ Top.kids = <<>>
    /\ active' = [SubSeq(active, 1, Len(active) - 1) EXCEPT ![Len(active) - 1] =
                    [Parent EXCEPT !.size = Enclosing(Parent.size, AlignUp(Top.size, 16))]]
    /\ UNCHANGED <<proc, nextReg, spillSize, stackArg, saved, placed, opened, frameSize>>

CloseProc ==
    /\ Len(active) = 1 /\ Top.own = <<>> /\ Top.kids = <<>>
    /\ active' = <<>>
    /\ frameSize' = AlignUp(Top.size, 16)
    /\ UNCHANGED <<proc, nextReg, spillSize, stackArg, saved, placed, opened>>

LaidOut == opened > 0 /\ active = <<>>

NextLayout == \/ SpillOne \/ SpillPair \/ TakeStackArg
              \/ OpenProc \/ PlaceVar \/ EnterScope \/ LeaveScope \/ CloseProc
LayoutSpec == InitLayout /\ [][NextLayout]_layoutVars

---------------------------------------------------------------------------
(* Properties *)

\* Two variables that can be in use at once share no byte, and none reaches
\* what the frame itself keeps: the caller's frame pointer and the return
\* address, the address of a large result, and what is below the frame
\* (X64_assign_proc_stack_offsets, X64_assign_scope_stack_offsets).
BytesOf(v) == v.off..(v.off + v.type.size - 1)
Together(v, w) == v.within \subseteq w.within \/ w.within \subseteq v.within
FrameDisjoint ==
    /\ \A i \in DOMAIN placed :
          /\ BytesOf(placed[i]) \cap 0..15 = {}
          /\ IsLarge(proc.ret) => BytesOf(placed[i]) \cap -8..-1 = {}
          /\ LaidOut => placed[i].off >= -frameSize
          /\ placed[i].off % placed[i].type.align = 0
    /\ \A i, j \in DOMAIN placed :
          i < j /\ Together(placed[i], placed[j])
            => BytesOf(placed[i]) \cap BytesOf(placed[j]) = {}
=============================================================================
