---------------------------- MODULE MCControlFlow ----------------------------
(***************************************************************************)
(* Instances of ControlFlow for TLC: every condition of up to three leaves *)
(* over &&, ||, ! and ?:, in the places a condition may stand, and loops   *)
(* whose bodies break, continue and return, nested.                        *)
(***************************************************************************)
EXTENDS ControlFlow

(* Conditions over the leaves 1, 2 and 3, in this order. *)
Leaf(n) == {Cmp(n), Val(n)}
Both(A, B) == {And(x, y) : x \in A, y \in B} \cup {Or(x, y) : x \in A, y \in B}
Maybe(A) == A \cup {Not(x) : x \in A}

Two(m) == Maybe(Both(Maybe({Cmp(m)}), Leaf(m + 1)))
Three == Both(Two(1), Leaf(3)) \cup Both(Leaf(1), Two(2))
           \cup {Ite(Cmp(1), x, y) : x \in Leaf(2), y \in Leaf(3)}

(* Every pairing of two operands of two leaves, and three deep to the right.
   Of a left operand's jumps at most the first is then of the opposite value:
   the others are the subject of JumpsPatched. *)
Pair(m) == Maybe(Both({Cmp(m)}, {Cmp(m + 1)}))
Four == Both(Pair(1), Pair(3)) \cup Both({Cmp(1)}, Both({Val(2)}, Pair(3)))
          \cup {Or(And(Cmp(1), Ite(Cmp(2), Cmp(3), And(Cmp(3), Cmp(4)))), Val(4)),
                Ite(Or(Cmp(1), Cmp(2)), And(Cmp(3), Cmp(4)), Not(Val(3))),
                Ite(Const(FALSE), Cmp(1), And(Cmp(2), Cmp(3)))}

Conditions == Three \cup Four

(* A body that may leave the loop early, or go on with it. *)
Leave == {Break, Continue, Return}
Bodies == {Act(2), Seqn(<<>>)} \cup {If(Cmp(3), l, Act(2)) : l \in Leave}
              \cup {Seqn(<<If(Or(Cmp(3), Cmp(4)), l, None), Act(2)>>) : l \in Leave}

Loops(bodies) ==
  {Loop(And(Cmp(1), Cmp(2)), body, n) : body \in bodies, n \in {None, Act(3)}}
    \cup {Do(body, Or(Cmp(1), Cmp(2))) : body \in bodies}
    \cup {Loop(Const(TRUE), Seqn(<<body, Act(4)>>), n) : body \in bodies, n \in {None, Act(3)}}
    \cup {Do(Seqn(<<Act(4), body>>), Const(TRUE)) : body \in bodies}

Inner == {Loop(Cmp(1), If(Cmp(3), Break, Act(2)), None), Do(If(Cmp(3), Continue, Act(2)), Cmp(1)),
          Loop(Const(TRUE), If(Cmp(3), Break, Seqn(<<>>)), None),
          If(Cmp(5), If(Cmp(3), Break, Continue), Seqn(<<>>)),
          If(Val(5), Seqn(<<>>), If(Cmp(3), Return, Seqn(<<>>))),
          If(Cmp(5), Loop(Cmp(3), Continue, None), Break)}

Placed(c) == {If(c, Act(1), None), If(c, Act(1), Act(2)), If(c, Seqn(<<>>), Return),
              Store(c), Eval(c), Loop(c, Act(1), None), Do(Act(1), c)}

MCPrograms ==
  {Seqn(<<s, Act(9)>>) : s \in UNION {Placed(c) : c \in Conditions}
                                  \cup Loops(Bodies) \cup Loops(Inner)}
    \cup {Do(If(Val(5), Return, Break), Cmp(1)), Loop(Cmp(1), If(Val(5), Return, Break), Act(3)),
          If(Cmp(1), Return, If(Cmp(2), Return, Return)),
          Seqn(<<Loop(Const(FALSE), Act(1), None), If(Const(FALSE), Act(1), Act(2))>>)}

(* A body that the code does not compile to what it says: a left operand
   with two jumps to settle. *)
SettledTwice == {If(And(Or(Or(Cmp(1), Cmp(2)), Cmp(3)), Cmp(4)), Act(1), Act(2))}
=============================================================================
