----------------------------- MODULE MCRegAlloc -----------------------------
(***************************************************************************)
(* Instances of RegAlloc for TLC: one caller-saved and one callee-saved    *)
(* integer register to allocate from (in the order of                      *)
(* x64_linux_nonleaf_scratch_regs), the frame pointer, which is forced but *)
(* never allocated, and one float register.                                *)
(***************************************************************************)
EXTENDS RegAlloc

CONSTANTS rax, r12, rbp, xmm0, int, float

MCPRegs       == {rax, r12, rbp, xmm0}
MCClasses     == {int, float}
MCClassOf     == [r \in MCPRegs |-> IF r = xmm0 THEN float ELSE int]
MCScratch     == [c \in MCClasses |-> IF c = int THEN <<r12, rax>> ELSE <<xmm0>>]
MCCallerSaved == {rax, xmm0}

Blank(s, e, c) == [start |-> s, end |-> e, class |-> c, kind |-> NoControl,
                   preg |-> rbp, mask |-> {}, hint |-> 0]

(* Register 0 is builder->lreg_rbp: livevar.c touches it at the last
   instruction, and earlier when the frame is used. *)
FramePointer(s) == [Blank(s, 8, int) EXCEPT !.kind = ForceReg]

(* The constraints ir_to_xir.c puts on a register: none, a hint, the fixed
   register of a division or a call, a register of a mask (for an address),
   a register of a mask or the stack (a call argument). *)
Constrained(s, e) ==
  LET v == Blank(s, e, int) IN
  { v, Blank(s, e, float),
    [v EXCEPT !.kind = HintPhys, !.preg = rax],
    [v EXCEPT !.kind = HintLIR, !.hint = 1],
    [v EXCEPT !.kind = ForceReg, !.preg = rax],
    [v EXCEPT !.kind = ForceAnyReg, !.mask = {rax, r12}],
    [v EXCEPT !.kind = RegOrSpill, !.mask = {rax}] }

(* A procedure with two calls, whose frame is first used at f.  Its registers
   are numbered in the order of their first definition. *)
Procedure(t, f, roots) ==
  [iv |-> t @@ (0 :> FramePointer(f)), roots |-> roots, sites |-> <<3, 6>>]

(* Register 2 may be aliased to another, and then is not allocated. *)
Procedures(spans, firsts) ==
  LET ivs == UNION {Constrained(p[1], p[2]) : p \in spans}
      ordered == {t \in ivs \X ivs \X ivs :
                    /\ t[1].start <= t[2].start /\ t[2].start <= t[3].start
                    /\ \A f \in firsts : WellFormed(Procedure(t, f, {})) }
  IN { Procedure(t, f, 0..3) : f \in firsts, t \in ordered }
     \cup
     { Procedure(t, 8, {0, 1, 3}) : t \in {u \in ordered : u[2] = Blank(1, 4, int)} }

(* The frame may also be used for the first time when registers are taken. *)
MCPrograms == Procedures({<<1, 4>>, <<1, 7>>, <<2, 2>>, <<2, 6>>}, {0, 8})
                \cup Procedures({<<1, 4>>, <<1, 7>>, <<3, 5>>}, {2})
=============================================================================
