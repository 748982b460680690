---------------------------- MODULE SourceProgram ----------------------------
(***************************************************************************)
(* The control flow of a nibble procedure body, as the source program      *)
(* means it: what is left to do is a continuation, a sequence of           *)
(* statements and loop ends, and running it is a series of events (a       *)
(* condition is tested, a statement acts, a boolean is stored, the         *)
(* procedure returns).                                                     *)
(*                                                                         *)
(* The statements and conditions are those of src/ast/module.h that direct *)
(* control; the value of a tested condition is the environment's choice.   *)
(***************************************************************************)
EXTENDS Sequences

(* Conditions. *)
Cmp(n)       == [k |-> "cmp", n |-> n]          (* a comparison            *)
Val(n)       == [k |-> "val", n |-> n]          (* a boolean variable      *)
Const(v)     == [k |-> "const", v |-> v]        (* a compile-time constant *)
Not(a)       == [k |-> "not", a |-> a]
And(a, b)    == [k |-> "and", a |-> a, b |-> b]
Or(a, b)     == [k |-> "or", a |-> a, b |-> b]
Ite(c, a, b) == [k |-> "ite", c |-> c, a |-> a, b |-> b]

(* Statements.  A loop is a for or a while statement; without a next
   statement its `next' is None. *)
None             == [k |-> "none"]
Act(n)           == [k |-> "act", n |-> n]
Store(e)         == [k |-> "store", e |-> e]    (* assign a boolean        *)
Eval(e)          == [k |-> "eval", e |-> e]     (* expression statement    *)
Seqn(s)          == [k |-> "seq", body |-> s]
If(c, a, b)      == [k |-> "if", c |-> c, a |-> a, b |-> b]
Loop(c, body, n) == [k |-> "loop", c |-> c, body |-> body, next |-> n]
Do(body, c)      == [k |-> "do", body |-> body, c |-> c]
Break            == [k |-> "break"]
Continue         == [k |-> "continue"]
Return           == [k |-> "return"]

(* Continuation items: the end of a loop's body; a test that continues as
   t or as f; a value about to be stored. *)
EndOf(loop)     == [k |-> "end", loop |-> loop]
Test(c, t, f)   == [k |-> "test", c |-> c, t |-> t, f |-> f]
Stored(v)       == [k |-> "stored", v |-> v]

(* The condition of a loop, and what follows. *)
Again(l, rest) == <<Test(l.c, <<l.body, EndOf(l)>> \o rest, rest)>>

(* The next item of k is something the program can be seen to do. *)
AtEvent(k) ==
  \/ Head(k).k \in {"act", "stored", "return", "lost"}
  \/ Head(k).k = "test" /\ Head(k).c.k \in {"cmp", "val"}

(* A condition that is not a leaf, rewritten to tests of its operands. *)
Split(c, t, f) ==
  CASE c.k = "const" -> IF c.v THEN t ELSE f
    [] c.k = "not" -> <<Test(c.a, f, t)>>
    [] c.k = "and" -> <<Test(c.a, <<Test(c.b, t, f)>>, f)>>
    [] c.k = "or"  -> <<Test(c.a, t, <<Test(c.b, t, f)>>)>>
    [] c.k = "ite" -> <<Test(c.c, <<Test(c.a, t, f)>>, <<Test(c.b, t, f)>>)>>

(* The end of a loop's body: a do-while tests its condition, another loop
   runs its next statement first. *)
Repeat(l, rest) == IF l.k = "do" THEN Again(l, rest) ELSE <<l.next>> \o Again(l, rest)

(* One rewriting of a continuation that is not at an event.  break and
   continue drop the statements up to the end of the innermost loop's body;
   a continue in a do-while goes to the start of the body (the code's
   "continue target: body_bb"). *)
Unfold(k) ==
  LET s == Head(k)  rest == Tail(k) IN
  CASE s.k = "none"  -> rest
    [] s.k = "seq"   -> s.body \o rest
    [] s.k = "store" -> <<Test(s.e, <<Stored(TRUE)>> \o rest, <<Stored(FALSE)>> \o rest)>>
    [] s.k = "eval"  -> <<Test(s.e, rest, rest)>>
    [] s.k = "if"    -> <<Test(s.c, <<s.a>> \o rest, <<s.b>> \o rest)>>
    [] s.k = "loop"  -> Again(s, rest)
    [] s.k = "do"    -> <<s.body, EndOf(s)>> \o rest
    [] s.k = "end"   -> Repeat(s.loop, rest)
    [] s.k = "test"  -> Split(s.c, s.t, s.f)
    [] s.k = "break" -> IF Head(rest).k = "end" THEN Tail(rest) ELSE <<s>> \o Tail(rest)
    [] s.k = "continue" ->
         IF Head(rest).k # "end" THEN <<s>> \o Tail(rest)
         ELSE IF Head(rest).loop.k = "do" THEN <<Head(rest).loop>> \o Tail(rest) ELSE rest

(* The event that leaf n is tested and has the value v; a continuation that
   could not do what the code did. *)
Tests(n, v) == [k |-> "tests", n |-> n, v |-> v]
Lost == <<[k |-> "lost"]>>

(* What is left of k, which is at an event, after the event. *)
After(k, event) ==
  LET s == Head(k) IN
  IF event.k = "tests"
  THEN IF s.k = "test" /\ s.c.n = event.n THEN (IF event.v THEN s.t ELSE s.f) ELSE Lost
  ELSE IF s = event THEN Tail(k) ELSE Lost

=============================================================================
