--------------------------- MODULE MCModuleLoader ---------------------------
(***************************************************************************)
(* Instances of ModuleLoader for TLC: an entry file and up to three more,  *)
(* in two directories, two with the same name.                             *)
(***************************************************************************)
EXTENDS ModuleLoader

CONSTANTS d1, d2, a, b, c, x, y, Ns, main, int, builtinFile, here

MCDirs == {d1, d2}
MCBases == {a, b, c}
MCNames == {x, y, Ns, main, int}
MCBuiltins == {int}
MCMain == [dir |-> d1, base |-> a]

W(d, f) == [dir |-> d, base |-> f]
Decl(n, e)      == [kind |-> "decl", name |-> n, exported |-> e]
IncludeOf(w)    == [kind |-> "include", path |-> w]
All(w)          == [kind |-> "import", path |-> w, syms |-> <<>>, ns |-> None]
Some(w, n, as)  == [kind |-> "import", path |-> w, syms |-> <<[name |-> n, as |-> as]>>, ns |-> None]
As(w, n)        == [kind |-> "import", path |-> w, syms |-> <<>>, ns |-> n]
SomeAs(w, n, as, ns) == [kind |-> "import", path |-> w, syms |-> <<[name |-> n, as |-> as]>>, ns |-> ns]
ExportOf(ids, as)  == [kind |-> "export", idents |-> ids, as |-> as]
Wrong     == [kind |-> "wrong"]
Truncated == [kind |-> "truncated"]

B == W(here, b)
C == W(here, c)

FileB == W(d1, b)  FileB2 == W(d2, b)  FileC == W(d1, c)

Make(fa, fb, fb2, fc) ==
  [f \in {MCMain, FileB, FileB2, FileC} |->
     CASE f = MCMain -> fa [] f = FileB -> fb [] f = FileB2 -> fb2 [] f = FileC -> fc]

Main1 == Decl(main, FALSE)

(* Who imports and includes whom: chains, diamonds and cycles of each, a
   module that imports itself, a path that names another file in another
   directory, files that are refused at their first token and at their end. *)
GraphPrograms ==
  { Make(fa, fb, fb2, fc) :
      fa \in {<<All(B), All(C), Main1>>, <<As(W(d2, b), Ns), Main1>>, <<IncludeOf(C), All(B), Main1>>,
              <<IncludeOf(C), IncludeOf(B), Main1>>, <<Main1, IncludeOf(B), Wrong>>},
      fb \in {<<Decl(x, TRUE)>>, <<Decl(x, TRUE), IncludeOf(C), Truncated>>, <<All(C), Decl(x, FALSE)>>,
              <<All(W(d1, a))>>, <<All(B)>>, <<IncludeOf(W(d2, b)), Decl(x, TRUE)>>},
      fb2 \in {<<Decl(x, TRUE)>>, <<All(B)>>, <<All(W(d1, b)), All(W(d1, c))>>, <<IncludeOf(C)>>},
      fc \in {<<>>, <<Decl(y, TRUE)>>, <<All(W(d2, b)), Decl(y, TRUE)>>, <<Decl(y, TRUE), All(W(d1, a))>>,
              <<IncludeOf(B)>>, <<IncludeOf(W(d2, b)), IncludeOf(W(d1, a))>>, <<Wrong>>, <<Decl(y, FALSE), Truncated>>} }

(* What names mean: b takes names from c in every way there is and passes
   them on in every way there is; the entry file takes them from b and c. *)
NamePrograms ==
  { Make(fa \o <<Main1>>, ib \o db \o eb, <<>>, <<Decl(x, TRUE), Decl(y, FALSE)>>) :
      fa \in {<<All(B), Some(C, x, x)>>, <<Some(C, x, y), All(B)>>, <<Some(B, y, x), As(C, x)>>,
              <<As(C, y), Some(B, x, y)>>, <<As(B, Ns), ExportOf(<<Ns, Ns, x>>, y)>>,
              <<As(C, Ns), Decl(x, TRUE), All(B), ExportOf(<<x>>, y)>>, <<As(B, main)>>},
      ib \in {<<>>, <<Some(C, x, x)>>, <<Some(C, x, y)>>, <<Some(C, y, y)>>, <<As(C, Ns)>>,
              <<SomeAs(C, x, y, Ns)>>, <<All(C), As(C, x)>>},
      db \in {<<>>, <<Decl(x, TRUE)>>, <<Decl(x, FALSE)>>, <<Decl(y, TRUE), Decl(Ns, FALSE)>>},
      eb \in {<<>>, <<ExportOf(<<x>>, None)>>, <<ExportOf(<<x>>, y)>>, <<ExportOf(<<Ns>>, None)>>,
              <<ExportOf(<<Ns, x>>, y)>>, <<ExportOf(<<Ns, y>>, y)>>, <<ExportOf(<<Ns, x>>, None)>>,
              <<ExportOf(<<x, y>>, x)>>, <<ExportOf(<<int>>, None)>>} }

(* No entry point, a name declared twice, a file that is not there, more
   includes than the limit allows. *)
OddPrograms ==
  { Make(fa, <<IncludeOf(C)>>, <<>>, fc) :
      fa \in {<<>>, <<All(B)>>, <<Decl(int, FALSE)>>, <<Main1, Main1>>, <<IncludeOf(B), Main1>>,
              <<IncludeOf(W(d2, c))>>, <<All(W(d2, c))>>, <<Some(C, main, main)>>,
              <<IncludeOf(B), As(W(d2, c), Ns)>>},
      fc \in {<<>>, <<IncludeOf(W(d2, b)), Main1>>, <<Decl(main, TRUE)>>} }

MCPrograms == GraphPrograms \cup NamePrograms \cup OddPrograms
=============================================================================
