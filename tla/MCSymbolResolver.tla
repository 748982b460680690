-------------------------- MODULE MCSymbolResolver --------------------------
(***************************************************************************)
(* Instances of SymbolResolver for TLC: an entry module that imports the   *)
(* struct S and the procedure f of a library, which has declarations of    *)
(* its own.  The name k means a different constant in each module.         *)
(***************************************************************************)
EXTENDS SymbolResolver, TLC

CONSTANTS main, lib,
  p, g, F, T, kMain,   (* procedure, variable, typedef, struct, constant   *)
  S, f, h, kLib,       (* the library's struct, procedure, foreign procedure, constant *)
  np, ng, nF, nT, nk, nS, nf, nh, nx

MCModules == {main, lib}
MCSym == {p, g, F, T, kMain, S, f, h, kLib}
MCNames == {np, ng, nF, nT, nk, nS, nf, nh, nx}

U(m, n) == [mode |-> m, name |-> n]

KindOf ==
  (p :> "proc") @@ (g :> "var") @@ (F :> "typedef") @@ (T :> "aggregate") @@ (kMain :> "const")
    @@ (S :> "aggregate") @@ (f :> "proc") @@ (h :> "foreign") @@ (kLib :> "const")
Home == [s \in MCSym |-> IF s \in {p, g, F, T, kMain} THEN main ELSE lib]

Nothing == [n \in MCNames |-> None]
Scope ==
  [m \in MCModules |->
     IF m = main
     THEN (np :> p) @@ (ng :> g) @@ (nF :> F) @@ (nT :> T) @@ (nk :> kMain) @@ (nS :> S)
            @@ (nf :> f) @@ Nothing
     ELSE (nS :> S) @@ (nf :> f) @@ (nh :> h) @@ (nk :> kLib) @@ Nothing]

(* What the typedef stands for. *)
MeansOf(uses) ==
  [s \in MCSym |->
     IF s \in {S, T} THEN s
     ELSE IF s = F /\ uses[F] = <<U("alias", nS)>> THEN S
     ELSE IF s = F /\ uses[F] = <<U("alias", nT)>> THEN T
     ELSE None]

Quiet == [s \in MCSym |-> <<>>]

Make(order, uses, body, asserts) ==
  [kind |-> KindOf, home |-> Home, scope |-> Scope, order |-> order,
   uses |-> uses, body |-> body, asserts |-> asserts, means |-> MeansOf(uses)]

Orders == {<<p, g, F, T, kMain>>, <<T, F, kMain, g, p>>, <<F, kMain, p, T, g>>}

(* Types that use each other by value, through pointers, through a typedef,
   as an array's element or length, as the result of a procedure type. *)
TypePrograms ==
  { Make(order, (g :> ug) @@ (F :> uF) @@ (T :> uT) @@ (S :> uS) @@ Quiet, Quiet, <<>>) :
      order \in Orders,
      ug \in {<<U("size", nF)>>, <<U("size", nT), U("elem", nS)>>, <<U("name", nk)>>},
      uF \in {<<U("alias", nS)>>, <<U("alias", nT)>>, <<U("alias", nF)>>, <<U("name", nT)>>,
              <<U("elem", nT), U("name", nk)>>, <<U("ret", nS)>>},
      uT \in {<<U("size", nS)>>, <<U("size", nF)>>, <<U("name", nF)>>, <<U("elem", nF), U("size", nS)>>,
              <<U("ret", nT)>>},
      uS \in {<<>>, <<U("size", nS)>>, <<U("name", nS)>>, <<U("elem", nk)>>} }

(* Values, procedures and the sizes they need, across the two modules;
   parameters and locals. *)
ValuePrograms ==
  { Make(<<p, g, F, T, kMain>>,
         (p :> up) @@ (kMain :> uk) @@ (kLib :> ul) @@ (S :> uS) @@ (f :> uf) @@ Quiet,
         (p :> bp) @@ (f :> bf) @@ Quiet, as) :
      up \in {<<>>, <<U("decl", nx), U("name", nS)>>},
      uk \in {<<>>, <<U("elem", nS)>>, <<U("name", np)>>},
      ul \in {<<>>, <<U("elem", nS)>>, <<U("name", nk)>>, <<U("name", nh)>>},
      uS \in {<<>>, <<U("name", nk)>>, <<U("name", nf)>>, <<U("name", nh), U("size", nS)>>},
      uf \in {<<>>, <<U("decl", nk)>>, <<U("size", nS), U("name", nk)>>},
      bp \in {<<>>, <<U("name", nf), U("name", nx)>>, <<U("decl", nh), U("name", nh)>>},
      bf \in {<<>>, <<U("name", nf), U("name", nk)>>},
      as \in {<<>>, <<U("elem", nS), U("name", nh)>>} }

MCPrograms == TypePrograms \cup ValuePrograms

-----------------------------------------------------------------------------
(***************************************************************************)
(* The reference: the least set that holds the roots and what its members  *)
(* lead to.                                                                *)
(***************************************************************************)
Reached(bodies, aggs) ==
  LET closure[xs \in SUBSET Things] ==
        LET more == xs \cup UNION {Leads(bodies, aggs, x) : x \in xs}
        IN IF more = xs THEN xs ELSE closure[more]
  IN closure[Roots]

(* Some of xs, a set closed under needs, cannot be settled in any order. *)
IllFounded(xs) ==
  LET order[ys \in SUBSET Things] ==
        LET more == {x \in xs : Needs[x] \subseteq ys}
        IN IF more = ys THEN ys ELSE order[more]
  IN order[{}] # xs

(* Only a program that reaches something that needs itself, or a name
   nobody declares, is refused; procedure types apart, which read the size
   of their result as it happens to be (typespecs.c:293-312). *)
RefusesOnlyCycles ==
  phase \in Failure =>
    LET reached == Reached(Procedures, Aggregates) IN
    \/ IllFounded(reached)
    \/ ReadsResultSize(prog.asserts)
    \/ \E x \in reached : x.of # None /\ ReadsResultSize(UsesOf(x))

=============================================================================
