--------------------------- MODULE SymbolResolver ---------------------------
(***************************************************************************)
(* The resolver's passes over the symbols of a program                     *)
(* (src/resolver/common.c, module.c, decls.c and typespecs.c): symbols are *)
(* resolved on demand, depth first, from the declarations of the main      *)
(* module; structs and unions are completed when their size is needed;     *)
(* the bodies of the procedures reached come next, and what they reach.    *)
(*                                                                         *)
(* The recursion of the C procedures is the sequence `stack'; a frame      *)
(* holds the names its declaration has yet to use.  Types and values are   *)
(* left out but for one fact: whether a type is an aggregate whose size is *)
(* not known yet.                                                          *)
(***************************************************************************)
EXTENDS Integers, Sequences, FiniteSets

CONSTANTS
  Modules,   (* modules, after loading                                     *)
  Main,      (* the program's entry module                                 *)
  Sym,       (* global symbols                                             *)
  Names,     (* identifiers                                                *)
  Programs,  (* the programs to resolve                                    *)
  None       (* no symbol                                                  *)

(***************************************************************************)
(* How a declaration or a statement uses a name:                           *)
(*   name   an identifier in an expression, or the type under a pointer    *)
(*   alias  the type a typedef gives another name to                       *)
(*   size   the type of a variable, parameter or field: it is completed    *)
(*   elem   the same inside a type specification: an array's element, a    *)
(*          #sizeof in its length                                          *)
(*   ret    the return type of a procedure type                            *)
(*   decl   declares a parameter or a local variable                       *)
(***************************************************************************)
Use == [mode : {"name", "alias", "size", "elem", "ret", "decl"}, name : Names]

Kinds == {"var", "const", "proc", "foreign", "typedef", "aggregate"}

(***************************************************************************)
(* `uses' of an aggregate are its fields, of any other symbol what its     *)
(* declaration uses, for a procedure the header only; `order' is the list  *)
(* of the main module's own symbols; `scope' says what each name means at  *)
(* the top of each module, imports included; `means' is the aggregate, if  *)
(* any, that a type name stands for once typedefs are followed.            *)
(***************************************************************************)
Program ==
  [kind : [Sym -> Kinds], home : [Sym -> Modules], order : Seq(Sym),
   scope : [Modules -> [Names -> Sym \cup {None}]],
   uses : [Sym -> Seq(Use)], body : [Sym -> Seq(Use)], asserts : Seq(Use),
   means : [Sym -> Sym \cup {None}]]

IsAggregate(p, s) == p.kind[s] = "aggregate"
Aliases(p, s) == p.kind[s] = "typedef" /\ \E i \in DOMAIN p.uses[s] : p.uses[s][i].mode = "alias"

ASSUME ResolverAssumption ==
  /\ Main \in Modules
  /\ None \notin Sym
  /\ \A p \in Programs :
       /\ p \in Program
       /\ \A s \in Sym :
            /\ IsAggregate(p, s) => p.means[s] = s
            /\ p.means[s] \in Sym => IsAggregate(p, p.means[s])
            /\ \A i \in DOMAIN p.uses[s] : p.uses[s][i].mode = "alias" =>
                 /\ p.kind[s] = "typedef" /\ Len(p.uses[s]) = 1
                 /\ \A t \in Sym : t = p.scope[p.home[s]][p.uses[s][i].name] =>
                      p.means[s] = p.means[t]
            /\ ~IsAggregate(p, s) /\ ~Aliases(p, s) => p.means[s] = None

VARIABLES
  prog,        (* the program                                              *)
  phase,       (* the pass, or how it ended                                *)
  pos,         (* position in the list the pass goes through               *)
  mod,         (* resolver->state.mod: whose scope names are looked up in  *)
  stack,       (* the calls in progress, innermost last                    *)
  status,      (* sym->status                                              *)
  typeOf,      (* the aggregate that a resolved symbol's type is, or None  *)
  completing,  (* aggregates marked is_completing                          *)
  complete,    (* aggregates whose size is known                           *)
  procs,       (* ctx->procs                                               *)
  foreign,     (* ctx->foreign_procs                                       *)
  globals,     (* ctx->vars                                                *)
  aggregates,  (* ctx->aggregate_types                                     *)
  checked      (* procedures whose body has been resolved                  *)

lists == <<procs, foreign, globals, aggregates>>
types == <<completing, complete>>
vars == <<prog, phase, pos, mod, stack, status, typeOf, types, lists, checked>>

Failure  == {"error", "aborted", "crashed"}
Terminal == {"done"} \cup Failure
Passes   == {"headers", "asserts", "bodies", "types"}

Tasks == {"symbol", "type", "body", "asserts"}
Frame == [task : Tasks, sym : Sym \cup {None}, rest : Seq(Use),
          locals : SUBSET Names, saved : Modules]

-----------------------------------------------------------------------------
Top == stack[Len(stack)]
Below == SubSeq(stack, 1, Len(stack) - 1)

(* The parameters of a procedure: names its header declares. *)
Params(p, s) == {p.uses[s][i].name : i \in {k \in DOMAIN p.uses[s] : p.uses[s][k].mode = "decl"}}

Found(n) == prog.scope[mod][n]

Init ==
  /\ prog \in Programs
  /\ phase = "headers" /\ pos = 1 /\ mod = Main /\ stack = <<>>
  /\ status = [s \in Sym |-> "unresolved"]
  /\ typeOf = [s \in Sym |-> None]
  /\ completing = {} /\ complete = {}
  /\ procs = <<>> /\ foreign = <<>> /\ globals = <<>> /\ aggregates = <<>>
  /\ checked = {}

-----------------------------------------------------------------------------
(* enter_module and exit_module. *)
Enter_InPlace(frame, m) == stack' = Append(stack, frame) /\ mod' = mod
Enter(frame, m) == stack' = Append(stack, frame) /\ mod' = m

Leave_NoRestore(f) == stack' = Below /\ mod' = mod
Leave(f) == stack' = Below /\ mod' = f.saved

Call(task, s, rest, locals) ==
  Enter([task |-> task, sym |-> s, rest |-> rest, locals |-> locals, saved |-> mod],
        IF s = None THEN mod ELSE prog.home[s])

(* resolve_symbol: an aggregate counts as resolved before its fields are
   looked at; any other symbol is marked and its declaration gone through. *)
Demand(s) ==
  /\ status[s] = "unresolved"
  /\ IF IsAggregate(prog, s)
     THEN /\ status' = [status EXCEPT ![s] = "resolved"]
          /\ typeOf' = [typeOf EXCEPT ![s] = s]
          /\ aggregates' = Append(aggregates, s)
          /\ UNCHANGED <<mod, stack, procs, foreign, globals>>
     ELSE /\ status' = [status EXCEPT ![s] = "resolving"]
          /\ Call("symbol", s, prog.uses[s], {})
          /\ UNCHANGED <<typeOf, lists>>
  /\ UNCHANGED <<prog, phase, pos, types, checked>>

(* try_complete_aggregate_type of a type that is neither complete nor being
   completed. *)
Complete(a) ==
  /\ a \notin complete \cup completing
  /\ completing' = completing \cup {a}
  /\ Call("type", a, prog.uses[a], {})
  /\ UNCHANGED <<prog, phase, pos, status, typeOf, complete, lists, checked>>

Fail ==
  /\ phase' = "failing"
  /\ UNCHANGED <<prog, pos, mod, stack, status, typeOf, types, lists, checked>>

Abort(how) ==
  /\ phase' = how
  /\ UNCHANGED <<prog, pos, mod, stack, status, typeOf, types, lists, checked>>

-----------------------------------------------------------------------------
(*                 One use of a name, by the innermost call                *)

Using == phase \in Passes /\ stack # <<>> /\ Top.rest # <<>>
use == Head(Top.rest)

(* The call goes on to its next use. *)
Proceed(locals) ==
  /\ stack' = Append(Below, [Top EXCEPT !.rest = Tail(@), !.locals = locals])
  /\ UNCHANGED <<prog, phase, pos, mod, status, typeOf, types, lists, checked>>

(* add_unresolved_symbol refuses a name that means something already; for
   a parameter resolve_decl_proc asserts that it does not happen. *)
Declare ==
  /\ Using /\ use.mode = "decl"
  /\ IF use.name \in Top.locals \/ Found(use.name) # None
     THEN IF Top.task = "symbol" THEN Abort("aborted") ELSE Fail
     ELSE Proceed(Top.locals \cup {use.name})

UseLocal == Using /\ use.mode # "decl" /\ use.name \in Top.locals /\ Proceed(Top.locals)

UsingGlobal == Using /\ use.mode # "decl" /\ use.name \notin Top.locals

(* resolve_name on a name nobody declares, or whose symbol is on the way. *)
LookupFails ==
  /\ UsingGlobal
  /\ \/ Found(use.name) = None
     \/ Found(use.name) # None /\ status[Found(use.name)] = "resolving"
  /\ Fail

Lookup == UsingGlobal /\ Found(use.name) # None /\ Demand(Found(use.name))

(* The symbol is resolved; what is left depends on what it is used for. *)
Resolved == UsingGlobal /\ Found(use.name) # None /\ status[Found(use.name)] = "resolved"
TypeUsed == typeOf[Found(use.name)]
SizeUnknown == TypeUsed # None /\ TypeUsed \notin complete

NeedsSize_NotElements == use.mode = "size"
NeedsSize == use.mode \in {"size", "elem"}

UseType == Resolved /\ NeedsSize /\ SizeUnknown /\ Complete(TypeUsed)

CyclicType == Resolved /\ NeedsSize /\ SizeUnknown /\ TypeUsed \in completing /\ Fail

(* A procedure type reads the size of its return type without completing
   it; a size of zero is an error. *)
ZeroSize == Resolved /\ use.mode = "ret" /\ SizeUnknown /\ Fail

Used ==
  /\ Resolved
  /\ NeedsSize \/ use.mode = "ret" => ~SizeUnknown
  /\ Proceed(Top.locals)

-----------------------------------------------------------------------------
(*                          A call comes to its end                        *)

Returning(task) == phase \in Passes /\ stack # <<>> /\ Top.rest = <<>> /\ Top.task = task

(* The symbol's index in the list of its kind is its position there. *)
Record(s) ==
  /\ procs'   = IF prog.kind[s] = "proc" THEN Append(procs, s) ELSE procs
  /\ foreign' = IF prog.kind[s] = "foreign" THEN Append(foreign, s) ELSE foreign
  /\ globals' = IF prog.kind[s] = "var" THEN Append(globals, s) ELSE globals
  /\ UNCHANGED aggregates

(* In the module of a typedef, the type that it takes over. *)
TypeGiven(s) ==
  IF Aliases(prog, s) THEN typeOf[Found(prog.uses[s][1].name)] ELSE None

FinishSymbol ==
  /\ Returning("symbol")
  /\ status' = [status EXCEPT ![Top.sym] = "resolved"]
  /\ typeOf' = [typeOf EXCEPT ![Top.sym] = TypeGiven(Top.sym)]
  /\ Record(Top.sym)
  /\ Leave(Top)
  /\ UNCHANGED <<prog, phase, pos, types, checked>>

FinishType_StillIncomplete ==
  /\ Returning("type")
  /\ completing' = completing \ {Top.sym}
  /\ Leave(Top)
  /\ UNCHANGED <<prog, phase, pos, status, typeOf, complete, lists, checked>>
FinishType ==
  /\ Returning("type")
  /\ complete' = complete \cup {Top.sym}
  /\ completing' = completing \ {Top.sym}
  /\ Leave(Top)
  /\ UNCHANGED <<prog, phase, pos, status, typeOf, lists, checked>>

FinishBody ==
  /\ Returning("body")
  /\ checked' = checked \cup {Top.sym}
  /\ Leave(Top)
  /\ UNCHANGED <<prog, phase, pos, status, typeOf, types, lists>>

-----------------------------------------------------------------------------
(***************************************************************************)
(* A failure makes every call in progress return false.  On the way        *)
(* resolve_symbol still records a global variable, and reads the size of   *)
(* the type it does not have; a procedure is recorded as well.             *)
(* resolve_aggregate_fields asserts that its type specification did not    *)
(* fail: only a field whose own type cannot be completed returns.          *)
(***************************************************************************)
FieldTypeResolved ==
  /\ use.mode = "size"
  /\ Found(use.name) # None /\ status[Found(use.name)] = "resolved"

UnwindSymbol ==
  /\ phase = "failing" /\ stack # <<>> /\ Top.task = "symbol"
  /\ Record(Top.sym)
  /\ phase' = IF prog.kind[Top.sym] = "var" THEN "crashed" ELSE "failing"
  /\ Leave(Top)
  /\ UNCHANGED <<prog, pos, status, typeOf, types, checked>>

UnwindType ==
  /\ phase = "failing" /\ stack # <<>> /\ Top.task = "type"
  /\ phase' = IF FieldTypeResolved THEN "failing" ELSE "aborted"
  /\ Leave(Top)
  /\ UNCHANGED <<prog, pos, status, typeOf, types, lists, checked>>

UnwindRest ==
  /\ phase = "failing" /\ stack # <<>> /\ Top.task \in {"body", "asserts"}
  /\ Leave(Top)
  /\ UNCHANGED <<prog, phase, pos, status, typeOf, types, lists, checked>>

ReportErrors == phase = "failing" /\ stack = <<>> /\ Abort("error")

Unwind == UnwindSymbol \/ UnwindType \/ UnwindRest \/ ReportErrors

-----------------------------------------------------------------------------
(*                               The passes                                *)

At(p) == phase = p /\ stack = <<>>

Advance ==
  /\ pos' = pos + 1
  /\ UNCHANGED <<prog, phase, mod, stack, status, typeOf, types, lists, checked>>

Begin(p) ==
  /\ phase' = p /\ pos' = 1
  /\ UNCHANGED <<prog, mod, stack, status, typeOf, types, lists, checked>>

(* resolve_module: the main module's own symbols, in their order. *)
Headers ==
  /\ At("headers")
  /\ IF pos > Len(prog.order) THEN Begin("asserts")
     ELSE IF status[prog.order[pos]] = "resolved" THEN Advance
     ELSE Demand(prog.order[pos])

(* resolve_module: the #static_assert statements of the main module. *)
Asserts ==
  /\ At("asserts") /\ pos = 1
  /\ pos' = 2
  /\ Call("asserts", None, prog.asserts, {})
  /\ UNCHANGED <<prog, phase, status, typeOf, types, lists, checked>>

FinishAsserts ==
  /\ Returning("asserts")
  /\ Leave(Top)
  /\ phase' = "bodies" /\ pos' = 1
  /\ UNCHANGED <<prog, status, typeOf, types, lists, checked>>

(* resolve_reachable_sym_defs: `procs' may grow while it is gone through. *)
Bodies_ButLast ==
  /\ At("bodies")
  /\ IF pos >= Len(procs) THEN Begin("types")
     ELSE IF procs[pos] \in checked THEN Advance
     ELSE /\ Call("body", procs[pos], prog.body[procs[pos]], Params(prog, procs[pos]))
          /\ UNCHANGED <<prog, phase, pos, status, typeOf, types, lists, checked>>
Bodies ==
  /\ At("bodies")
  /\ IF pos > Len(procs) THEN Begin("types")
     ELSE IF procs[pos] \in checked THEN Advance
     ELSE /\ Call("body", procs[pos], prog.body[procs[pos]], Params(prog, procs[pos]))
          /\ UNCHANGED <<prog, phase, pos, status, typeOf, types, lists, checked>>

(* resolve_reachable_sym_defs: the aggregates reached are all completed. *)
Completions ==
  /\ At("types")
  /\ IF pos > Len(aggregates) THEN Begin("done")
     ELSE IF aggregates[pos] \in complete THEN Advance
     ELSE Complete(aggregates[pos])

UseName == Declare \/ UseLocal \/ LookupFails \/ Lookup \/ UseType \/ CyclicType \/ ZeroSize \/ Used
Return  == FinishSymbol \/ FinishType \/ FinishBody \/ FinishAsserts
Pass    == Headers \/ Asserts \/ Bodies \/ Completions

Step == UseName \/ Return \/ Unwind \/ Pass
Stopped == phase \in Terminal /\ UNCHANGED vars
Next == Step \/ Stopped

Spec == Init /\ [][Next]_vars
(* One thread, and no step waits for anything: it keeps running. *)
FairSpec == Spec /\ WF_vars(Step)

-----------------------------------------------------------------------------
(***************************************************************************)
(*                              Properties                                 *)
(***************************************************************************)

(* Every variable keeps its type. *)
TypeOK ==
  /\ prog \in Program
  /\ phase \in Passes \cup Terminal \cup {"failing"}
  /\ pos \in Nat \ {0}
  /\ mod \in Modules
  /\ stack \in Seq(Frame)
  /\ status \in [Sym -> {"unresolved", "resolving", "resolved"}]
  /\ typeOf \in [Sym -> Sym \cup {None}]
  /\ completing \in SUBSET Sym /\ complete \in SUBSET Sym
  /\ procs \in Seq(Sym) /\ foreign \in Seq(Sym)
  /\ globals \in Seq(Sym) /\ aggregates \in Seq(Sym)
  /\ checked \in SUBSET Sym

(***************************************************************************)
(* The marks that detect cycles are those of the calls in progress: a      *)
(* symbol is `resolving', an aggregate `completing', exactly while one     *)
(* call for it is on the stack, and each call looks names up in the module *)
(* of its own symbol, however often the calls it made changed module       *)
(* (common.c:91-163, typespecs.c:7-33).                                    *)
(***************************************************************************)
HomeOf(s) == IF s = None THEN Main ELSE prog.home[s]

MarksMatchCalls ==
  phase \in Passes =>
    /\ \A s \in Sym : status[s] = "resolving" <=>
         \E i \in DOMAIN stack : stack[i].task = "symbol" /\ stack[i].sym = s
    /\ \A a \in Sym : a \in completing <=>
         \E i \in DOMAIN stack : stack[i].task = "type" /\ stack[i].sym = a
    /\ \A i, j \in DOMAIN stack :
         stack[i].task = stack[j].task /\ stack[i].sym = stack[j].sym => i = j
    /\ mod = IF stack = <<>> THEN Main ELSE HomeOf(Top.sym)

(***************************************************************************)
(* What each thing needs, read off the program: a symbol what its          *)
(* declaration uses, an aggregate's size its fields, a body its procedure  *)
(* and what it uses.  A name that nobody declares, and a declaration of a  *)
(* name that is taken, need `lost', which nothing settles.                 *)
(***************************************************************************)
Things == [what : {"symbol", "type", "body"}, of : Sym \cup {None}]
Symbol(s) == [what |-> "symbol", of |-> s]
Type(a)   == [what |-> "type", of |-> a]
Body(s)   == [what |-> "body", of |-> s]
lost      == Symbol(None)

DeclaredBefore(q, i) == {q[k].name : k \in {j \in 1..(i - 1) : q[j].mode = "decl"}}

NeedsAt(p, m, q, i, known) ==
  LET t == p.scope[m][q[i].name]
      local == q[i].name \in known \cup DeclaredBefore(q, i)
      sized == q[i].mode \in {"size", "elem", "ret"}
  IN CASE q[i].mode = "decl" -> IF local \/ t # None THEN {lost} ELSE {}
       [] q[i].mode # "decl" /\ local -> {}
       [] q[i].mode # "decl" /\ ~local /\ t = None -> {lost}
       [] OTHER -> {Symbol(t)} \cup {Type(a) : a \in {b \in Sym : sized /\ b = p.means[t]}}

NeedsOf(p, m, q, known) == UNION {NeedsAt(p, m, q, i, known) : i \in DOMAIN q}

Needs ==
  [x \in Things |->
     CASE x.of = None -> {lost}
       [] x.of # None /\ x.what = "symbol" ->
            IF IsAggregate(prog, x.of) THEN {} ELSE NeedsOf(prog, prog.home[x.of], prog.uses[x.of], {})
       [] x.of # None /\ x.what = "type" -> NeedsOf(prog, prog.home[x.of], prog.uses[x.of], {})
       [] OTHER ->
            {Symbol(x.of)} \cup NeedsOf(prog, prog.home[x.of], prog.body[x.of], Params(prog, x.of))]

Settled == {Symbol(s) : s \in {t \in Sym : status[t] = "resolved"}}
             \cup {Type(a) : a \in complete} \cup {Body(s) : s \in checked}

(* What a program reaches: what its entry module declares and asserts, what
   that leads to, and so on.  Besides what it needs, a thing leads to the
   body of its procedure and to the size of its aggregate, of those given. *)
Procedures == {s \in Sym : prog.kind[s] = "proc"}
Aggregates == {s \in Sym : IsAggregate(prog, s)}
Roots ==
  {Symbol(prog.order[i]) : i \in DOMAIN prog.order} \cup NeedsOf(prog, Main, prog.asserts, {})
Leads(bodies, aggs, x) ==
  Needs[x] \cup {Body(s) : s \in {x.of} \cap bodies} \cup {Type(s) : s \in {x.of} \cap aggs}

(* xs holds all that the program reaches. *)
Closed(bodies, aggs, xs) == Roots \subseteq xs /\ \A x \in xs : Leads(bodies, aggs, x) \subseteq xs

(***************************************************************************)
(* A program that resolves has settled exactly what it reaches, the bodies *)
(* left unchecked apart: all of it, and nothing that could be left out.    *)
(* Whatever it reaches other than through the fields of an aggregate that  *)
(* was left to the last pass is settled (module.c:37-69).                  *)
(***************************************************************************)
SettlesWhatItReaches ==
  phase = "done" =>
    /\ Closed(checked, Aggregates, Settled)
    /\ \A xs \in SUBSET (Settled \ Roots) :
         Closed(checked, Aggregates, Roots \cup xs) => Settled = Roots \cup xs
    /\ \E xs \in SUBSET (Settled \ Roots) : Closed(Procedures, {}, Roots \cup xs)

(* A procedure type reads the size of its result as it happens to be
   (typespecs.c:293-312). *)
ReadsResultSize(q) == \E i \in DOMAIN q : q[i].mode = "ret"
UsesOf(x) == IF x.what = "body" THEN prog.body[x.of] ELSE prog.uses[x.of]

(* Nothing is resolved, completed or checked before all it needs; a size is
   never used before it is known (common.c, decls.c, typespecs.c). *)
Order == INSTANCE DependencyOrder WITH needs <- Needs, settled <- Settled
ImplementsOrder == Order!Spec

(* Resolution comes to an end: cycles are refused, and each list that grows
   while it is gone through is finite (module.c:37-69). *)
Terminates == <>(phase \in Terminal)

=============================================================================
