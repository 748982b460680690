------------------------- MODULE ModuleLoaderProofs -------------------------
(***************************************************************************)
(* Theorems about ModuleLoader, for every program: any files, whatever     *)
(* they declare, include, import and export.                               *)
(***************************************************************************)
EXTENDS ModuleLoader, SequenceTheorems, TLAPS

(***************************************************************************)
(* The inductive invariant, in parts: Core, and what Graph adds to it near *)
(* the end.  First the types, of the lists of statements and of the source *)
(* map too.                                                                *)
(***************************************************************************)
SourceRec == [path : Home, start : Nat, end : Nat]
DeclRec   == [name : Names, exported : BOOLEAN, pos : Nat, file : Home]
ImportRec == [path : Written, syms : Seq(ImportSym), ns : Names \cup {None}, pos : Nat, file : Home]
ExportRec == [idents : Seq(Names) \ {<<>>}, as : Names \cup {None}, pos : Nat, file : Home]

Types ==
  /\ TypeOK /\ code \in Programs /\ MainFile \in begun
  /\ phase = "loading" => calls # <<>>
  /\ \A i \in DOMAIN calls : calls[i].path \in DOMAIN code /\ calls[i].mod \in begun
  /\ sources \in Seq(SourceRec)
  /\ decls \in [Path -> Seq(DeclRec)] /\ imports \in [Path -> Seq(ImportRec)]
  /\ exported \in [Path -> Seq(ExportRec)]
  /\ chain.sym \in SymbolRec \cup {None} /\ chain.rest \in Seq(Names)

(* The calls: those of files are above the call of their module, which is
   then at its first stage. *)
CallsOK ==
  /\ {calls[i].mod : i \in ModuleCalls} = parsing
  /\ \A i, j \in ModuleCalls : calls[i].mod = calls[j].mod => i = j
  /\ \A i \in ModuleCalls \ {1} : AtImportOf(calls[i - 1], calls[i].mod)
  /\ \A i \in DOMAIN calls \ ModuleCalls :
       /\ i # 1 /\ calls[i - 1].task \in {"file", "tables"} /\ calls[i - 1].mod = calls[i].mod
       /\ \E j \in ModuleCalls : j < i /\ calls[j].task = "tables" /\ calls[j].mod = calls[i].mod

Done == begun \ parsing

(* The source map: files lie one after the other. *)
InFile(p, f) == \E i \in DOMAIN sources : sources[i].path = f /\ p \in sources[i].start..sources[i].end
ItemsIn(list) == \A k \in DOMAIN list : InFile(list[k].pos, list[k].file)
MapOK ==
  /\ \A i, j \in DOMAIN sources : i < j => sources[i].end <= sources[j].start
  /\ \A i \in DOMAIN sources : sources[i].start <= sources[i].end
  /\ InFile(0, BuiltinFile)
  /\ \A m \in begun : InFile(rangeOf[m], m)
  /\ \A i \in DOMAIN calls : calls[i].task = "file" =>
       \E k \in DOMAIN sources : sources[k] = Source(calls[i].path, calls[i].start, Len(code[calls[i].path]))
  /\ \A m \in Path : ItemsIn(decls[m]) /\ ItemsIn(imports[m]) /\ ItemsIn(exported[m])

(* What a module's tables and the lookup of an export may hold: what is not
   the module's own is exported by a module that is done, and a namespace
   stands for an import of such a one. *)
Well(sym, m) ==
  /\ sym.home \in {m, BuiltinFile} \cup Done
  /\ sym.home \notin {m, BuiltinFile} => ExportedAtHome(sym)
  /\ InFile(sym.pos, sym.file)
  /\ sym.via # 0 => /\ sym.home \in Path /\ sym.via \in DOMAIN imports[sym.home]
                    /\ ImportedFrom(sym.home, imports[sym.home][sym.via].path) \in Done
SymbolsOK ==
  /\ \A m \in Path, n \in Names :
       /\ scope[m][n] # None => Well(scope[m][n], m)
       /\ exports[m][n] # None => Well(exports[m][n], m)
  /\ calls # <<>> /\ Top.task = "names" =>
       Top.at <= Len(exported[M]) /\ (chain.sym # None => Well(chain.sym, M))

Empty(m) == scope[m] = NoNames /\ exports[m] = NoNames
TablesOK ==
  /\ \A m \in Path \ begun : Empty(m)
  /\ \A i \in DOMAIN calls :
       /\ calls[i].task = "tables" => Empty(calls[i].mod)
       /\ calls[i].task = "decls" =>
            \A n \in Names : exports[calls[i].mod][n] \in {None, scope[calls[i].mod][n]}

(* An error ends the run, and its position is in the file it names. *)
ErrorOK ==
  /\ phase \notin {"error", "aborted"} => error = None
  /\ phase = "error" => HasFile(error.pos) /\ InFile(error.pos, error.file)

-----------------------------------------------------------------------------
(*                         Sequences used as stacks                        *)

LEMMA Pop ==
  ASSUME NEW S, NEW s \in Seq(S), s # <<>>
  PROVE  LET t == SubSeq(s, 1, Len(s) - 1) IN
         /\ t \in Seq(S) /\ Len(t) = Len(s) - 1 /\ DOMAIN t = DOMAIN s \ {Len(s)}
         /\ \A i \in DOMAIN t : t[i] = s[i]
<1> DEFINE t == SubSeq(s, 1, Len(s) - 1)
<1>1. Len(s) \in Nat \ {0} /\ DOMAIN s = 1..Len(s) /\ \A i \in 1..(Len(s) - 1) : s[i] \in S
  BY EmptySeq, ElementOfSeq
<1>2. /\ t \in Seq(S) /\ Len(t) = IF 1 <= Len(s) - 1 THEN Len(s) - 1 - 1 + 1 ELSE 0
      /\ \A i \in 1..(Len(s) - 1 - 1 + 1) : t[i] = s[1 + i - 1]
  <2>1. 1 \in Int /\ Len(s) - 1 \in Int
    BY <1>1
  <2> QED  BY ONLY <1>1, <2>1, SubSeqProperties
<1>3. Len(t) = Len(s) - 1
  <2>1. \A n \in Nat : (IF 1 <= n THEN n - 1 + 1 ELSE 0) = n
    OBVIOUS
  <2>2. Len(s) - 1 \in Nat
    BY <1>1
  <2> HIDE DEF t
  <2> QED  BY ONLY <1>2, <2>1, <2>2, Zenon
<1>4. DOMAIN t = 1..(Len(s) - 1) /\ \A i \in 1..(Len(s) - 1) : t[i] = s[i]
  <2> HIDE DEF t
  <2>1. DOMAIN t = 1..Len(t)
    BY <1>2
  <2>2. \A i \in 1..(Len(s) - 1) : i \in 1..(Len(s) - 1 - 1 + 1) /\ 1 + i - 1 = i
    BY <1>1
  <2> QED  BY <1>2, <1>3, <2>1, <2>2
<1> HIDE DEF t
<1>5. DOMAIN t = DOMAIN s \ {Len(s)}
  BY <1>1, <1>4
<1>6. t \in Seq(S) /\ Len(t) = Len(s) - 1 /\ DOMAIN t = DOMAIN s \ {Len(s)} /\ \A i \in DOMAIN t : t[i] = s[i]
  BY <1>2, <1>3, <1>4, <1>5
<1> QED  BY <1>6 DEF t

LEMMA Replace ==
  ASSUME NEW S, NEW s \in Seq(S), s # <<>>, NEW c \in S
  PROVE  LET t == Append(SubSeq(s, 1, Len(s) - 1), c) IN
         /\ t \in Seq(S) /\ t # <<>> /\ Len(t) = Len(s) /\ DOMAIN t = DOMAIN s
         /\ \A i \in DOMAIN s : i # Len(s) => t[i] = s[i]
         /\ t[Len(s)] = c
<1> DEFINE b == SubSeq(s, 1, Len(s) - 1)
<1>1. b \in Seq(S) /\ Len(b) = Len(s) - 1 /\ DOMAIN b = DOMAIN s \ {Len(s)} /\ \A i \in DOMAIN b : b[i] = s[i]
  BY Pop
<1>2. Len(s) \in Nat \ {0} /\ DOMAIN s = 1..Len(s)
  BY EmptySeq
<1> HIDE DEF b
<1>3. Append(b, c) \in Seq(S) /\ Append(b, c) # <<>> /\ Len(Append(b, c)) = Len(s)
      /\ DOMAIN Append(b, c) = DOMAIN s /\ \A i \in DOMAIN b : Append(b, c)[i] = b[i]
      /\ Append(b, c)[Len(s)] = c
  BY <1>1, <1>2
<1> QED  BY <1>1, <1>3 DEF b

LEMMA Push ==
  ASSUME NEW S, NEW s \in Seq(S), NEW c \in S
  PROVE  LET t == Append(s, c) IN
         /\ t \in Seq(S) /\ t # <<>> /\ Len(t) = Len(s) + 1 /\ DOMAIN t = DOMAIN s \cup {Len(s) + 1}
         /\ \A i \in DOMAIN s : t[i] = s[i]
         /\ t[Len(s) + 1] = c
OBVIOUS

(* The stack is a sequence of calls, of which the last is the innermost. *)
LEMMA TopCall ==
  ASSUME Types, calls # <<>>
  PROVE  /\ calls \in Seq(Call) /\ Len(calls) \in Nat \ {0} /\ DOMAIN calls = 1..Len(calls)
         /\ Top = calls[Len(calls)] /\ Top \in Call
         /\ Top.path \in DOMAIN code /\ Top.mod \in begun
         /\ Top.path \in Path /\ Top.mod \in Path /\ code[Top.path] \in Seq(Stmt)
         /\ \A i \in DOMAIN calls : calls[i] \in Call /\ calls[i].mod \in Path
<1>1. calls \in Seq(Call) /\ Len(calls) \in Nat \ {0} /\ DOMAIN calls = 1..Len(calls)
  BY DEF Types, TypeOK
<1>2. Top = calls[Len(calls)] /\ Top \in Call /\ Top.path \in DOMAIN code /\ Top.mod \in begun
  BY <1>1 DEF Types, Top
<1>3. ASSUME NEW i \in DOMAIN calls  PROVE calls[i] \in Call /\ calls[i].mod \in Path
  <2>1. calls[i] \in Call
    BY <1>1
  <2> QED  BY <2>1 DEF Call
<1> QED  BY <1>1, <1>2, <1>3, LoaderAssumption DEF Types, TypeOK

-----------------------------------------------------------------------------
(*                           What a step changes                           *)

Duplicate ==
  /\ InStage("decls") /\ Top.at <= Len(decls[M]) /\ scope[M][decl.name] # None
  /\ Refuse("duplicate", decl.pos, decl.file)
Install ==
  /\ InStage("decls") /\ Top.at <= Len(decls[M]) /\ scope[M][decl.name] = None
  /\ scope' = [scope EXCEPT ![M][decl.name] = DeclSymbol]
  /\ exports' = IF decl.exported THEN [exports EXCEPT ![M][decl.name] = DeclSymbol] ELSE exports
  /\ calls' = Append(Below, Next1(Top))
  /\ UNCHANGED <<code, phase, sources, seen, modules, stmts, chain, error>>

Refusal ==
  \/ SyntaxError \/ BadInclude \/ Duplicate \/ ImportNoFile \/ ImportCycle \/ ImportError
  \/ NotANamespace \/ LookupNull \/ ExportError \/ FindMain

Rest == <<code, calls, sources, seen, begun, parsing, rangeOf, decls, imports, exported, scope, exports, chain>>

LEMMA RefusalEnds == Refusal => phase \in {"loading", "entry"} /\ phase' \in Terminal /\ UNCHANGED Rest
<1>1. ASSUME NEW why, NEW p, NEW f, Refuse(why, p, f)  PROVE phase' \in Terminal /\ UNCHANGED Rest
  BY <1>1 DEF Refuse, Terminal, Rest, modules, stmts, tables
<1>2. SyntaxError \/ BadInclude \/ Duplicate \/ ImportNoFile \/ ImportCycle \/ ImportError \/ NotANamespace \/ ExportError
      => phase = "loading" /\ \E why, p, f : Refuse(why, p, f)
  BY DEF SyntaxError, BadInclude, IncludeError, Duplicate, ImportNoFile, ImportCycle, ImportError,
         NotANamespace, ExportError, RefuseHere, RefuseExport, Reading, InStage, Importing, CanBind,
         Descending, LookedUp
<1>3. LookupNull => phase = "loading" /\ phase' \in Terminal /\ UNCHANGED Rest
  BY DEF LookupNull, Descending, InStage, Terminal, Rest, modules, stmts, tables
<1>4. FindMain => phase = "entry" /\ ((phase' \in Terminal /\ UNCHANGED Rest) \/ \E why, p, f : Refuse(why, p, f))
  BY DEF FindMain, Terminal, Rest, modules, stmts, tables
<1> QED  BY <1>1, <1>2, <1>3, <1>4 DEF Refusal

(* Refusals aside, a step is one of these. *)
LEMMA StepCases ==
  ASSUME [Next]_vars
  PROVE  \/ ReadDecl \/ ReadImport \/ ReadExport \/ Include \/ EndOfFile
         \/ MakeTables \/ Install \/ EndDecls \/ LoadModule \/ Import \/ EndImports
         \/ LookupExport \/ Descend \/ Export \/ FinishModule
         \/ Refusal \/ UNCHANGED <<Rest, phase, error>>
<1>1. InstallDecl => Install \/ Duplicate
  BY DEF InstallDecl, Install, Duplicate
<1>2. UNCHANGED vars => UNCHANGED <<Rest, phase, error>>
  BY DEF vars, Rest, modules, stmts, tables
<1> QED  BY <1>1, <1>2 DEF Next, Step, Stopped, ReadStmt, Declare, Imports, Exports, Refusal

(* How a step moves the stack: the innermost call goes on, or returns. *)
Moves(task, at) ==
  /\ calls' \in Seq(Call) /\ calls' # <<>> /\ Len(calls') = Len(calls) /\ DOMAIN calls' = DOMAIN calls
  /\ \A i \in DOMAIN calls : i # Len(calls) => calls'[i] = calls[i]
  /\ calls'[Len(calls)].task = task /\ calls'[Len(calls)].at = at
  /\ calls'[Len(calls)].mod = Top.mod /\ calls'[Len(calls)].path \in {Top.path, Top.mod}
  /\ Top.task = "file" => calls'[Len(calls)].path = Top.path /\ calls'[Len(calls)].start = Top.start
Pops ==
  /\ calls' \in Seq(Call) /\ Len(calls') = Len(calls) - 1 /\ DOMAIN calls' = DOMAIN calls \ {Len(calls)}
  /\ \A i \in DOMAIN calls' : calls'[i] = calls[i]

LEMMA StmtTypes ==
  ASSUME NEW s \in Stmt
  PROVE  /\ s.kind = "decl" => s.name \in Names /\ s.exported \in BOOLEAN
         /\ s.kind = "include" => s.path \in Written
         /\ s.kind = "import" => s.path \in Written /\ s.syms \in Seq(ImportSym) /\ s.ns \in Names \cup {None}
         /\ s.kind = "export" => s.idents \in Seq(Names) \ {<<>>} /\ s.as \in Names \cup {None}
BY DEF Stmt

LEMMA MoveOn ==
  ASSUME Types, calls # <<>>, NEW c \in Call, c.mod = Top.mod, c.path \in {Top.path, Top.mod},
         Top.task = "file" => c.path = Top.path /\ c.start = Top.start,
         calls' = Append(Below, c)
  PROVE  Moves(c.task, c.at)
BY TopCall, Replace DEF Moves, Below

LEMMA NextCall ==
  ASSUME NEW c \in Call
  PROVE  /\ Next1(c) \in Call /\ Next1(c).at = c.at + 1 /\ Next1(c).task = c.task
         /\ Next1(c).path = c.path /\ Next1(c).mod = c.mod /\ Next1(c).start = c.start
BY DEF Call, Next1

LEMMA StageCall ==
  ASSUME NEW c \in Call, NEW t \in {"file", "tables", "decls", "imports", "exports", "names"}
  PROVE  /\ InTask(c, t) \in Call /\ InTask(c, t).task = t /\ InTask(c, t).at = c.at
         /\ InTask(c, t).path = c.path /\ InTask(c, t).mod = c.mod /\ InTask(c, t).start = c.start
BY DEF Call, InTask

LEMMA MoveSteps ==
  ASSUME Types
  PROVE  /\ ReadDecl \/ ReadImport \/ ReadExport => Moves("file", Top.at + 1)
         /\ Install => Moves("decls", Top.at + 1)
         /\ Import => Moves("imports", Top.at + 1)
         /\ MakeTables => Moves("decls", 1)
         /\ EndDecls => Moves("imports", 1)
         /\ EndImports => Moves("exports", 1)
         /\ LookupExport => Moves("names", Top.at)
         /\ Export => Moves("exports", Top.at + 1)
         /\ EndOfFile \/ FinishModule => Pops
<1> DEFINE Acts == ReadDecl \/ ReadImport \/ ReadExport \/ Install \/ Import \/ MakeTables \/ EndDecls
                     \/ EndImports \/ LookupExport \/ Export \/ EndOfFile \/ FinishModule
<1>1. Acts => calls # <<>>
  BY DEF Types, ReadDecl, ReadImport, ReadExport, Reading, Install, Import, CanBind, Importing, MakeTables,
         EndDecls, EndImports, LookupExport, Export, LookedUp, EndOfFile, FinishModule, InStage
<1> HIDE DEF Acts
<1>2. ASSUME Acts, NEW t \in {"file", "decls", "imports"}, Top.task = t, calls' = Append(Below, Next1(Top))
      PROVE  Moves(t, Top.at + 1)
  BY <1>1, <1>2, TopCall, NextCall, MoveOn
<1>3. ASSUME Acts, NEW t \in {"decls", "imports", "exports"}, Stage(t), Top.task # "file"
      PROVE  Moves(t, 1)
  <2>1. ModuleCall(M) \in Call /\ ModuleCall(M).at = 1 /\ ModuleCall(M).path = M /\ ModuleCall(M).mod = M
    BY <1>1, <1>3, TopCall DEF ModuleCall, Call, M
  <2> QED  BY <1>1, <1>3, <2>1, StageCall, MoveOn DEF Stage, M
<1>4. ASSUME LookupExport  PROVE Moves("names", Top.at)
  <2>1. Top \in Call /\ calls # <<>> /\ calls' = Append(Below, InTask(Top, "names"))
    BY <1>1, <1>4, TopCall DEF LookupExport, Acts
  <2> QED  BY <2>1, StageCall, MoveOn
<1>5. ASSUME Export  PROVE Moves("exports", Top.at + 1)
  <2>1. Top \in Call /\ calls # <<>> /\ calls' = Append(Below, InTask(Next1(Top), "exports"))
    BY <1>1, <1>5, TopCall DEF Export, Acts
  <2> QED  BY <2>1, NextCall, StageCall, MoveOn
<1>6. ASSUME Acts, calls' = Below  PROVE Pops
  BY <1>1, <1>6, TopCall, Pop DEF Pops, Below
<1> QED  BY <1>2, <1>3, <1>4, <1>5, <1>6
         DEF Acts, ReadDecl, ReadImport, ReadExport, Reading, ReadOn, Install, Import, CanBind, Importing,
             MakeTables, EndDecls, EndImports, EndOfFile, FinishModule, InStage

LEMMA TargetPath ==
  ASSUME NEW f \in Path, NEW w \in Written
  PROVE  Target(f, w) \in Path /\ ImportedFrom(f, w) \in Path
BY DEF Target, ImportedFrom, Path, Written

LEMMA ReadingTypes ==
  ASSUME Types, Reading
  PROVE  /\ phase = "loading" /\ calls # <<>> /\ Top.task = "file"
         /\ Top.at \in 1..Len(code[Top.path]) /\ stmt = code[Top.path][Top.at] /\ stmt \in Stmt
<1>1. calls # <<>>
  BY DEF Types, Reading
<1> QED  BY <1>1, TopCall DEF Reading, stmt, Call

LEMMA NewSource ==
  ASSUME Types, NEW f \in DOMAIN code
  PROVE  /\ CurrPos \in Nat /\ Len(code[f]) \in Nat /\ f \in Path
         /\ Source(f, CurrPos, Len(code[f])) \in SourceRec
<1>1. f \in Path /\ code[f] \in Seq(Stmt)
  BY LoaderAssumption DEF Types
<1>2. CurrPos \in Nat
  <2>1. sources # <<>> => sources[Len(sources)] \in SourceRec
    BY DEF Types
  <2> QED  BY <2>1 DEF CurrPos, SourceRec
<1>3. Len(code[f]) \in Nat
  BY <1>1
<1> QED  BY <1>1, <1>2, <1>3 DEF Source, SourceRec, Home

(* The stack grows by a call on top of an innermost call that goes on. *)
Includes ==
  LET n == Len(calls) IN
  /\ calls' \in Seq(Call) /\ calls' # <<>> /\ Len(calls') = n + 1 /\ DOMAIN calls' = DOMAIN calls \cup {n + 1}
  /\ \A i \in DOMAIN calls : i # n => calls'[i] = calls[i]
  /\ calls'[n].task = "file" /\ calls'[n].at = Top.at + 1 /\ calls'[n].path = Top.path
  /\ calls'[n].mod = Top.mod /\ calls'[n].start = Top.start
  /\ calls'[n + 1].task = "file" /\ calls'[n + 1].at = 1 /\ calls'[n + 1].path = Included
  /\ calls'[n + 1].mod = Top.mod /\ calls'[n + 1].start = CurrPos
Loads ==
  LET n == Len(calls) IN
  /\ calls' \in Seq(Call) /\ calls' # <<>> /\ Len(calls') = n + 2
  /\ DOMAIN calls' = DOMAIN calls \cup {n + 1, n + 2}
  /\ \A i \in DOMAIN calls : calls'[i] = calls[i]
  /\ calls'[n + 1] = ModuleCall(Imported) /\ calls'[n + 2] = FileCall(Imported, Imported, 0, CurrPos)

LEMMA IncludeStep ==
  ASSUME Types, Include
  PROVE  Includes /\ calls # <<>> /\ Top.task = "file" /\ Included \in DOMAIN code
<1>1. calls # <<>> /\ Included \in DOMAIN code /\ Top.task = "file"
  BY ReadingTypes DEF Include, CanInclude
<1>2. Top \in Call /\ Top.mod \in Path /\ Included \in Path /\ CurrPos \in Nat
  BY <1>1, TopCall, NewSource
<1> DEFINE c == Next1(Top)  b == Append(Below, c)  d == FileCall(Included, Top.mod, Top.depth + 1, CurrPos)
<1>3. c \in Call /\ c.task = "file" /\ c.at = Top.at + 1 /\ c.path = Top.path /\ c.mod = Top.mod /\ c.start = Top.start
  BY <1>1, <1>2, NextCall
<1>4. d \in Call /\ d.task = "file" /\ d.at = 1 /\ d.path = Included /\ d.mod = Top.mod /\ d.start = CurrPos
  BY <1>2 DEF FileCall, Call
<1> HIDE DEF c, d
<1>5. b \in Seq(Call) /\ Len(b) = Len(calls) /\ DOMAIN b = DOMAIN calls
      /\ (\A i \in DOMAIN calls : i # Len(calls) => b[i] = calls[i]) /\ b[Len(calls)] = c
  BY <1>1, <1>3, TopCall, Replace DEF Below
<1> HIDE DEF b
<1>6. calls' = Append(b, d)
  BY DEF Include, b, c, d
<1>7. Len(calls) \in Nat \ {0} /\ DOMAIN calls = 1..Len(calls)
  BY <1>1, TopCall
<1>8. calls' \in Seq(Call) /\ calls' # <<>> /\ Len(calls') = Len(calls) + 1 /\ DOMAIN calls' = DOMAIN calls \cup {Len(calls) + 1}
      /\ (\A i \in DOMAIN calls : calls'[i] = b[i]) /\ calls'[Len(calls) + 1] = d
  BY <1>4, <1>5, <1>6, Push
<1>9. Len(calls) \in DOMAIN calls
  BY <1>7
<1> QED  BY <1>1, <1>3, <1>4, <1>5, <1>8, <1>9 DEF Includes

LEMMA ImportingTypes ==
  ASSUME Types, Importing
  PROVE  /\ phase = "loading" /\ calls # <<>> /\ Top.task = "imports" /\ M = Top.mod /\ M \in begun /\ M \in Path
         /\ Top.at \in DOMAIN imports[M] /\ imp = imports[M][Top.at] /\ imp \in ImportRec
         /\ Imported = ImportedFrom(M, imp.path) /\ Imported \in Path
<1>1. calls # <<>>
  BY DEF Types, Importing, InStage
<1>2. imports[M] \in Seq(ImportRec) /\ Top.at \in Nat \ {0} /\ M \in Path /\ M \in begun
  BY <1>1, TopCall DEF Types, M, Call
<1>3. Top.at \in DOMAIN imports[M] /\ imp \in ImportRec
  BY <1>2 DEF Importing, imp
<1>4. Imported \in Path
  BY <1>2, <1>3, TargetPath DEF Imported, ImportRec
<1> QED  BY <1>1, <1>2, <1>3, <1>4 DEF Importing, InStage, M, imp, Imported

LEMMA LoadStep ==
  ASSUME Types, LoadModule
  PROVE  Loads /\ calls # <<>> /\ Imported \in DOMAIN code
<1>1. calls # <<>> /\ Imported \in DOMAIN code /\ Imported \in Path
  BY ImportingTypes DEF LoadModule
<1>2. CurrPos \in Nat /\ Len(calls) \in Nat \ {0} /\ DOMAIN calls = 1..Len(calls) /\ calls \in Seq(Call)
  BY <1>1, TopCall, NewSource
<1> DEFINE c == ModuleCall(Imported)  d == FileCall(Imported, Imported, 0, CurrPos)
<1>3. c \in Call /\ d \in Call
  BY <1>1, <1>2 DEF ModuleCall, FileCall, Call
<1>4. calls' = calls \o <<c, d>>
  BY DEF LoadModule
<1> HIDE DEF c, d
<1>5. calls' \in Seq(Call) /\ Len(calls') = Len(calls) + 2 /\ calls' # <<>>
  BY <1>2, <1>3, <1>4
<1>6. /\ DOMAIN calls' = DOMAIN calls \cup {Len(calls) + 1, Len(calls) + 2}
      /\ \A i \in DOMAIN calls : calls'[i] = calls[i]
      /\ calls'[Len(calls) + 1] = c /\ calls'[Len(calls) + 2] = d
  BY <1>2, <1>3, <1>4, <1>5
<1> QED  BY <1>1, <1>5, <1>6 DEF Loads, c, d

-----------------------------------------------------------------------------
(*                                  Types                                  *)

CallTypes == \A i \in DOMAIN calls : calls[i].path \in DOMAIN code /\ calls[i].mod \in begun

CallsMove ==
  \/ \E t, a : Moves(t, a)
  \/ Pops
  \/ Includes /\ Included \in DOMAIN code
  \/ Loads /\ Imported \in DOMAIN code \cap begun'

LEMMA CallTypesKept ==
  ASSUME Types, calls # <<>>, code' = code, begun \subseteq begun', CallsMove
  PROVE  CallTypes' /\ calls' \in Seq(Call)
<1>1. /\ Len(calls) \in Nat \ {0} /\ DOMAIN calls = 1..Len(calls)
      /\ Top.path \in DOMAIN code /\ Top.mod \in begun /\ begun \subseteq DOMAIN code
      /\ \A i \in DOMAIN calls : calls[i].path \in DOMAIN code /\ calls[i].mod \in begun
  BY TopCall DEF Types, TypeOK
<1>2. ASSUME NEW t, NEW a, Moves(t, a)  PROVE CallTypes' /\ calls' \in Seq(Call)
  BY <1>1, <1>2 DEF Moves, CallTypes
<1>3. ASSUME Pops  PROVE CallTypes' /\ calls' \in Seq(Call)
  BY <1>1, <1>3 DEF Pops, CallTypes
<1>4. ASSUME Includes, Included \in DOMAIN code  PROVE CallTypes' /\ calls' \in Seq(Call)
  BY <1>1, <1>4 DEF Includes, CallTypes
<1>5. ASSUME Loads, Imported \in DOMAIN code \cap begun'  PROVE CallTypes' /\ calls' \in Seq(Call)
  <2>1. /\ ModuleCall(Imported).path = Imported /\ ModuleCall(Imported).mod = Imported
        /\ FileCall(Imported, Imported, 0, CurrPos).path = Imported
        /\ FileCall(Imported, Imported, 0, CurrPos).mod = Imported
    BY DEF ModuleCall, FileCall
  <2> QED  BY <1>1, <1>5, <2>1 DEF Loads, CallTypes
<1> QED  BY <1>2, <1>3, <1>4, <1>5 DEF CallsMove

(* The tables and lists a step may write. *)
LEMMA ListTypes ==
  ASSUME Types, NEW m \in Path
  PROVE  /\ \A r \in DeclRec   : [decls EXCEPT ![m] = Append(@, r)] \in [Path -> Seq(DeclRec)]
         /\ \A r \in ImportRec : [imports EXCEPT ![m] = Append(@, r)] \in [Path -> Seq(ImportRec)]
         /\ \A r \in ExportRec : [exported EXCEPT ![m] = Append(@, r)] \in [Path -> Seq(ExportRec)]
<1>1. decls \in [Path -> Seq(DeclRec)] /\ imports \in [Path -> Seq(ImportRec)] /\ exported \in [Path -> Seq(ExportRec)]
  BY DEF Types
<1>2. decls[m] \in Seq(DeclRec) /\ imports[m] \in Seq(ImportRec) /\ exported[m] \in Seq(ExportRec)
  BY <1>1
<1>3. ASSUME NEW r \in DeclRec  PROVE Append(decls[m], r) \in Seq(DeclRec)
  BY <1>2
<1>4. ASSUME NEW r \in ImportRec  PROVE Append(imports[m], r) \in Seq(ImportRec)
  BY <1>2
<1>5. ASSUME NEW r \in ExportRec  PROVE Append(exported[m], r) \in Seq(ExportRec)
  BY <1>2
<1> QED  BY <1>1, <1>3, <1>4, <1>5

LEMMA ReadRecords ==
  ASSUME Types, Reading
  PROVE  /\ Pos \in Nat /\ Top.path \in Home
         /\ stmt.kind = "decl" =>
              [name |-> stmt.name, exported |-> stmt.exported, pos |-> Pos, file |-> Top.path] \in DeclRec
         /\ stmt.kind = "import" =>
              [path |-> stmt.path, syms |-> stmt.syms, ns |-> stmt.ns, pos |-> Pos, file |-> Top.path] \in ImportRec
         /\ stmt.kind = "export" =>
              [idents |-> stmt.idents, as |-> stmt.as, pos |-> Pos, file |-> Top.path] \in ExportRec
<1>1. stmt \in Stmt /\ Top \in Call /\ calls # <<>>
  BY ReadingTypes, TopCall
<1>2. Pos \in Nat
  BY <1>1 DEF Pos, Call
<1>3. Top.path \in Home
  BY <1>1, TopCall DEF Home
<1> QED  BY <1>1, <1>2, <1>3, StmtTypes DEF DeclRec, ImportRec, ExportRec

LEMMA ReadTypes ==
  ASSUME Types, ReadDecl \/ ReadImport \/ ReadExport
  PROVE  Types'
<1>1. Reading /\ calls # <<>> /\ Top.mod \in Path /\ Moves("file", Top.at + 1)
  BY ReadingTypes, TopCall, MoveSteps DEF ReadDecl, ReadImport, ReadExport
<1>2. /\ decls' \in [Path -> Seq(DeclRec)] /\ imports' \in [Path -> Seq(ImportRec)]
      /\ exported' \in [Path -> Seq(ExportRec)]
  <2>1. /\ decls \in [Path -> Seq(DeclRec)] /\ imports \in [Path -> Seq(ImportRec)]
        /\ exported \in [Path -> Seq(ExportRec)]
    BY DEF Types
  <2>2. CASE ReadDecl
    BY <1>1, <2>1, <2>2, ReadRecords, ListTypes DEF ReadDecl, Keep
  <2>3. CASE ReadImport
    BY <1>1, <2>1, <2>3, ReadRecords, ListTypes DEF ReadImport, Keep
  <2>4. CASE ReadExport
    BY <1>1, <2>1, <2>4, ReadRecords, ListTypes DEF ReadExport, Keep
  <2> QED  BY <2>2, <2>3, <2>4
<1>3. UNCHANGED <<code, phase, sources, seen, begun, parsing, rangeOf, scope, exports, chain, error>>
  BY DEF ReadDecl, ReadImport, ReadExport, ReadOn, modules, tables
<1>4. CallTypes' /\ calls' \in Seq(Call) /\ calls' # <<>>
  <2>1. CallsMove
    BY <1>1 DEF CallsMove
  <2>2. calls' # <<>>
    BY <1>1 DEF Moves
  <2>3. code' = code /\ begun \subseteq begun'
    BY <1>3
  <2> QED  BY <1>1, <2>1, <2>2, <2>3, CallTypesKept
<1> QED  BY <1>2, <1>3, <1>4 DEF Types, TypeOK, CallTypes

Put(t, m, n, s) == [t EXCEPT ![m][n] = s]

LEMMA TableSet ==
  ASSUME NEW t \in [Path -> Table], NEW m \in Path, NEW n \in Names, NEW s \in SymbolRec \cup {None}
  PROVE  /\ Put(t, m, n, s) \in [Path -> Table]
         /\ \A k \in Path, o \in Names : Put(t, m, n, s)[k][o] = IF k = m /\ o = n THEN s ELSE t[k][o]
         /\ \A k \in Path \ {m} : Put(t, m, n, s)[k] = t[k]
BY DEF Table, Put

LEMMA AddSourceTypes ==
  ASSUME Types, NEW f \in DOMAIN code, AddSource(f)
  PROVE  /\ sources' \in Seq(SourceRec) /\ Len(sources') = Len(sources) + 1
         /\ Len(sources) \in Nat /\ DOMAIN sources = 1..Len(sources)
         /\ DOMAIN sources' = DOMAIN sources \cup {Len(sources) + 1}
         /\ \A i \in DOMAIN sources : sources'[i] = sources[i]
         /\ sources'[Len(sources) + 1] = Source(f, CurrPos, Len(code[f]))
         /\ \A i \in DOMAIN sources' :
              sources'[i].path \in Home /\ sources'[i].start <= sources'[i].end /\ sources'[i].end \in Nat
<1> DEFINE s == Source(f, CurrPos, Len(code[f]))
<1>1. s \in SourceRec /\ s.start <= s.end
  BY NewSource DEF Source
<1> HIDE DEF s
<1>2. sources' = Append(sources, s) /\ sources \in Seq(SourceRec) /\ Len(sources) \in Nat
         /\ DOMAIN sources = 1..Len(sources)
  BY DEF AddSource, s, Types
<1>3. /\ sources' \in Seq(SourceRec) /\ Len(sources') = Len(sources) + 1
      /\ DOMAIN sources' = DOMAIN sources \cup {Len(sources) + 1}
      /\ \A i \in DOMAIN sources : sources'[i] = sources[i]
      /\ sources'[Len(sources) + 1] = s
  BY <1>1, <1>2, Push
<1>4. \A i \in DOMAIN sources : sources[i].start <= sources[i].end
  BY DEF Types, TypeOK
<1>5. ASSUME NEW i \in DOMAIN sources'
      PROVE  sources'[i].path \in Home /\ sources'[i].start <= sources'[i].end /\ sources'[i].end \in Nat
  <2>1. sources'[i] \in SourceRec
    BY <1>3
  <2>2. sources'[i].start <= sources'[i].end
    BY <1>1, <1>3, <1>4
  <2> QED  BY <2>1, <2>2 DEF SourceRec
<1> QED  BY <1>2, <1>3, <1>5 DEF s

LEMMA IncludeTypes ==
  ASSUME Types, Include
  PROVE  Types'
<1>1. Includes /\ calls # <<>> /\ Included \in DOMAIN code
  BY IncludeStep
<1>2. UNCHANGED <<code, phase, begun, parsing, rangeOf, decls, imports, exported, scope, exports, chain, error>>
      /\ AddSource(Included) /\ seen' = seen \cup {Included}
  BY DEF Include, modules, stmts, tables
<1>3. CallTypes' /\ calls' \in Seq(Call) /\ calls' # <<>>
  <2>1. code' = code /\ begun \subseteq begun' /\ CallsMove /\ calls' # <<>>
    BY <1>1, <1>2 DEF CallsMove, Includes
  <2> QED  BY <1>1, <2>1, CallTypesKept
<1>4. /\ sources' \in Seq(SourceRec)
      /\ \A i \in DOMAIN sources' :
              sources'[i].path \in Home /\ sources'[i].start <= sources'[i].end /\ sources'[i].end \in Nat
  BY <1>1, <1>2, AddSourceTypes
<1> QED  BY <1>1, <1>2, <1>3, <1>4 DEF Types, TypeOK, CallTypes

LEMMA LoadTypes ==
  ASSUME Types, LoadModule
  PROVE  Types'
<1>1. Loads /\ calls # <<>> /\ Imported \in DOMAIN code
  BY LoadStep
<1>2. /\ UNCHANGED <<code, phase, decls, imports, exported, scope, exports, chain, error>>
      /\ AddSource(Imported) /\ seen' = {} /\ begun' = begun \cup {Imported}
      /\ parsing' = parsing \cup {Imported} /\ rangeOf' = [rangeOf EXCEPT ![Imported] = CurrPos]
  BY DEF LoadModule, stmts, tables
<1>3. CallTypes' /\ calls' \in Seq(Call) /\ calls' # <<>>
  <2>1. code' = code /\ begun \subseteq begun' /\ CallsMove /\ calls' # <<>>
    BY <1>1, <1>2 DEF CallsMove, Loads
  <2> QED  BY <1>1, <2>1, CallTypesKept
<1>4. /\ sources' \in Seq(SourceRec)
      /\ \A i \in DOMAIN sources' :
              sources'[i].path \in Home /\ sources'[i].start <= sources'[i].end /\ sources'[i].end \in Nat
  BY <1>1, <1>2, AddSourceTypes
<1>5. rangeOf' \in [Path -> Nat]
  BY <1>1, <1>2, NewSource DEF Types, TypeOK
<1> QED  BY <1>1, <1>2, <1>3, <1>4, <1>5 DEF Types, TypeOK, CallTypes

LEMMA ReturnTypes ==
  ASSUME Types, CallsOK, EndOfFile \/ FinishModule
  PROVE  Types'
<1>1. Pops /\ calls # <<>> /\ phase = "loading"
  BY MoveSteps DEF EndOfFile, FinishModule, InStage, Types
<1>2. UNCHANGED <<code, sources, seen, begun, rangeOf, decls, imports, exported, scope, exports, chain, error>>
      /\ parsing' \subseteq parsing /\ calls' = Below
  BY DEF EndOfFile, FinishModule, stmts, tables, modules
<1>3. CallTypes' /\ calls' \in Seq(Call)
  <2>1. code' = code /\ begun \subseteq begun' /\ CallsMove
    BY <1>1, <1>2 DEF CallsMove
  <2> QED  BY <1>1, <2>1, CallTypesKept
<1>4. phase' \in {"loading", "entry"} /\ (phase' = "loading" => calls' # <<>>)
  <2>1. CASE FinishModule
    BY <2>1 DEF FinishModule
  <2>2. CASE EndOfFile
    <3>1. phase' = phase /\ Len(calls) \in DOMAIN calls \ ModuleCalls /\ Len(calls) \in Nat
      BY <1>1, <2>2, TopCall DEF EndOfFile, ModuleCalls
    <3>2. Len(calls) # 1 /\ DOMAIN calls = 1..Len(calls)
      BY <1>1, <3>1, TopCall DEF CallsOK
    <3> QED  BY <1>1, <3>1, <3>2 DEF Pops
  <2> QED  BY <2>1, <2>2
<1> QED  BY <1>2, <1>3, <1>4 DEF Types, TypeOK, CallTypes

LEMMA TableTypes ==
  ASSUME Types, NEW m \in Path, NEW n \in Names
  PROVE  /\ scope \in [Path -> Table] /\ exports \in [Path -> Table]
         /\ scope[m] \in Table /\ exports[m] \in Table
         /\ scope[m][n] \in SymbolRec \cup {None} /\ exports[m][n] \in SymbolRec \cup {None}
BY DEF Types, TypeOK, Table

LEMMA InstallingTypes ==
  ASSUME Types, InStage("decls"), Top.at <= Len(decls[M])
  PROVE  /\ phase = "loading" /\ calls # <<>> /\ Top.task = "decls" /\ M = Top.mod /\ M \in begun /\ M \in Path
         /\ Top.at \in DOMAIN decls[M] /\ decl = decls[M][Top.at] /\ decl \in DeclRec
         /\ DeclSymbol \in SymbolRec
         /\ DeclSymbol.home = M /\ DeclSymbol.via = 0 /\ DeclSymbol.name = decl.name
         /\ DeclSymbol.pos = decl.pos /\ DeclSymbol.file = decl.file
<1>1. phase = "loading" /\ calls # <<>> /\ Top.task = "decls"
  BY DEF Types, InStage
<1>2. M = Top.mod /\ M \in begun /\ M \in Path /\ Top \in Call
  BY <1>1, TopCall DEF M
<1>3. Top.at \in DOMAIN decls[M] /\ decl = decls[M][Top.at] /\ decl \in DeclRec
  BY <1>2 DEF decl, Types, Call
<1>4. /\ DeclSymbol \in SymbolRec
      /\ DeclSymbol.home = M /\ DeclSymbol.via = 0 /\ DeclSymbol.name = decl.name
      /\ DeclSymbol.pos = decl.pos /\ DeclSymbol.file = decl.file
  BY <1>2, <1>3 DEF DeclSymbol, DeclRec, SymbolRec, Home
<1> QED  BY <1>1, <1>2, <1>3, <1>4

(* What an import brings: a namespace, or what the other module exports. *)
FromExports(b) == \E n \in Names : b.sym = exports[Imported][n]
ForNamespace(b) ==
  /\ b.sym \in SymbolRec /\ b.sym.home = M /\ b.sym.via = Top.at
  /\ b.sym.pos = rangeOf[M] /\ b.sym.file = M

LEMMA BroughtTypes ==
  ASSUME Types, Importing, NEW b \in Brought
  PROVE  /\ b.name \in Names /\ b.sym \in SymbolRec \cup {None}
         /\ ForNamespace(b) \/ FromExports(b)
<1>1. /\ M \in Path /\ imp \in ImportRec /\ Imported \in Path /\ Top \in Call /\ Top.at \in Nat
      /\ rangeOf[M] \in Nat
  BY ImportingTypes, TopCall DEF Types, TypeOK, Call
<1>2. exports[Imported] \in Table /\ \A n \in Names : exports[Imported][n] \in SymbolRec \cup {None}
  BY <1>1, TableTypes DEF Types, TypeOK
<1>3. CASE imp.ns # None
  <2>1. b = Item(imp.ns, NamespaceSymbol, 1) /\ imp.ns \in Names
    BY <1>1, <1>3 DEF Brought, ImportRec
  <2>2. /\ NamespaceSymbol \in SymbolRec /\ NamespaceSymbol.home = M /\ NamespaceSymbol.via = Top.at
        /\ NamespaceSymbol.pos = rangeOf[M] /\ NamespaceSymbol.file = M
    BY <1>1, <2>1 DEF NamespaceSymbol, SymbolRec, Home
  <2> QED  BY <2>1, <2>2 DEF Item, ForNamespace
<1>4. CASE imp.ns = None /\ imp.syms # <<>>
  <2>1. PICK i \in DOMAIN imp.syms : b = Item(imp.syms[i].as, exports[Imported][imp.syms[i].name], i)
    BY <1>4 DEF Brought
  <2>2. imp.syms[i].as \in Names /\ imp.syms[i].name \in Names
    <3>1. imp.syms \in Seq(ImportSym)
      BY <1>1 DEF ImportRec
    <3>2. imp.syms[i] \in ImportSym
      BY <2>1, <3>1
    <3> QED  BY <3>2 DEF ImportSym
  <2> QED  BY <1>2, <2>1, <2>2 DEF Item, FromExports
<1>5. CASE imp.ns = None /\ imp.syms = <<>>
  <2>1. PICK n \in Names : exports[Imported][n] # None /\ b = Item(exports[Imported][n].name, exports[Imported][n], 1)
    BY <1>5 DEF Brought
  <2>2. exports[Imported][n] \in SymbolRec
    BY <1>2, <2>1
  <2> QED  BY <2>1, <2>2 DEF Item, FromExports, SymbolRec
<1> QED  BY <1>3, <1>4, <1>5

(* Every name a module brings in, and no other, takes a symbol brought. *)
LEMMA ImportScope ==
  ASSUME Types, Import
  PROVE  /\ scope' \in [Path -> Table]
         /\ \A m \in Path, n \in Names :
              \/ scope'[m][n] = scope[m][n]
              \/ /\ m = M
                 /\ \E b \in Brought : b.name = n /\ ~Fails(b) /\ scope'[m][n] = b.sym
<1>1. Importing /\ M \in Path /\ scope \in [Path -> Table] /\ \A b \in Brought : ~Fails(b)
  BY ImportingTypes DEF Import, CanBind, Types, TypeOK
<1> DEFINE New == [n \in Names |-> IF \E b \in Brought : b.name = n
                                   THEN (CHOOSE b \in Brought : b.name = n).sym ELSE scope[M][n]]
<1>2. scope' = [scope EXCEPT ![M] = New]
  BY <1>1 DEF Import, Table
<1>3. ASSUME NEW n \in Names
      PROVE  /\ New[n] \in SymbolRec \cup {None}
             /\ \/ New[n] = scope[M][n]
                \/ \E b \in Brought : b.name = n /\ ~Fails(b) /\ New[n] = b.sym
  <2>1. CASE \E b \in Brought : b.name = n
    <3>1. PICK b \in Brought : b = CHOOSE c \in Brought : c.name = n
      BY <2>1
    <3>2. b.name = n /\ New[n] = b.sym
      BY <2>1, <3>1
    <3> QED  BY <1>1, <3>1, <3>2, BroughtTypes
  <2>2. CASE ~\E b \in Brought : b.name = n
    BY <1>1, <2>2, TableTypes
  <2> QED  BY <2>1, <2>2
<1>4. New \in Table
  <2> HIDE DEF New
  <2>1. New = [n \in Names |-> New[n]]
    BY DEF New
  <2> QED  BY <1>3, <2>1 DEF Table
<1> HIDE DEF New
<1>5. scope' \in [Path -> Table]
  BY <1>1, <1>2, <1>4
<1>6. \A m \in Path : scope'[m] = IF m = M THEN New ELSE scope[m]
  BY <1>1, <1>2
<1> QED  BY <1>3, <1>5, <1>6

LEMMA StageTypes ==
  ASSUME Types, MakeTables \/ EndDecls \/ EndImports
  PROVE  Types'
<1>1. /\ calls # <<>> /\ phase = "loading" /\ M \in Path
      /\ UNCHANGED <<code, phase, sources, seen, begun, parsing, rangeOf, decls, imports, exported, exports, chain, error>>
  BY TopCall DEF MakeTables, EndDecls, EndImports, InStage, modules, stmts, tables, Types, M
<1>2. CallTypes' /\ calls' \in Seq(Call) /\ calls' # <<>>
  <2>1. PICK t, a : Moves(t, a)
    BY MoveSteps
  <2>2. CallsMove /\ calls' # <<>>
    BY <2>1 DEF CallsMove, Moves
  <2>3. code' = code /\ begun \subseteq begun'
    BY <1>1
  <2> QED  BY <1>1, <2>2, <2>3, CallTypesKept
<1>3. scope' \in [Path -> Table]
  <2>1. CASE MakeTables
    <3>1. \A n \in Builtins : BuiltinSymbol(n) \in SymbolRec
      BY LoaderAssumption DEF BuiltinSymbol, SymbolRec, Home
    <3>2. [n \in Names |-> IF n \in Builtins THEN BuiltinSymbol(n) ELSE None] \in Table
      BY <3>1 DEF Table
    <3>3. scope \in [Path -> Table]
      BY DEF Types, TypeOK
    <3> QED  BY <1>1, <2>1, <3>2, <3>3 DEF MakeTables
  <2>2. CASE EndDecls \/ EndImports
    BY <2>2 DEF EndDecls, EndImports, tables, Types, TypeOK
  <2> QED  BY <2>1, <2>2
<1> QED  BY <1>1, <1>2, <1>3 DEF Types, TypeOK, CallTypes

LEMMA BindTypes ==
  ASSUME Types, Install \/ Import
  PROVE  Types'
<1>1. /\ calls # <<>> /\ phase = "loading" /\ M \in Path
      /\ UNCHANGED <<code, phase, sources, seen, begun, parsing, rangeOf, decls, imports, exported, chain, error>>
  BY TopCall DEF Install, Import, CanBind, Importing, InStage, modules, stmts, tables, Types, M
<1>2. CallTypes' /\ calls' \in Seq(Call) /\ calls' # <<>>
  <2>1. PICK t, a : Moves(t, a)
    BY MoveSteps
  <2>2. CallsMove /\ calls' # <<>>
    BY <2>1 DEF CallsMove, Moves
  <2>3. code' = code /\ begun \subseteq begun'
    BY <1>1
  <2> QED  BY <1>1, <2>2, <2>3, CallTypesKept
<1>3. scope' \in [Path -> Table] /\ exports' \in [Path -> Table]
  <2>1. CASE Install
    <3>1. DeclSymbol \in SymbolRec /\ decl.name \in Names
      BY <2>1, InstallingTypes DEF Install, DeclRec
    <3>2. scope \in [Path -> Table] /\ exports \in [Path -> Table]
      BY DEF Types, TypeOK
    <3>3. Put(scope, M, decl.name, DeclSymbol) \in [Path -> Table] /\ Put(exports, M, decl.name, DeclSymbol) \in [Path -> Table]
      BY <1>1, <3>1, <3>2, TableSet
    <3> QED  BY <2>1, <3>2, <3>3 DEF Install, Put
  <2>2. CASE Import
    <3>1. exports' = exports
      BY <2>2 DEF Import
    <3> QED  BY <2>2, <3>1, ImportScope DEF Types, TypeOK
  <2> QED  BY <2>1, <2>2
<1> QED  BY <1>1, <1>2, <1>3 DEF Types, TypeOK, CallTypes

(* An export statement and the lookup of its names. *)
LEMMA ExportingTypes ==
  ASSUME Types, InStage("exports") \/ InStage("names"), Top.at <= Len(exported[M])
  PROVE  /\ phase = "loading" /\ calls # <<>> /\ M = Top.mod /\ M \in begun /\ M \in Path
         /\ Top.at \in DOMAIN exported[M] /\ exp = exported[M][Top.at] /\ exp \in ExportRec
         /\ Head(exp.idents) \in Names /\ Tail(exp.idents) \in Seq(Names) /\ ExportName \in Names
<1>1. phase = "loading" /\ calls # <<>>
  BY DEF Types, InStage
<1>2. M = Top.mod /\ M \in begun /\ M \in Path /\ Top \in Call
  BY <1>1, TopCall DEF M
<1>3. Top.at \in DOMAIN exported[M] /\ exp = exported[M][Top.at] /\ exp \in ExportRec
  BY <1>2 DEF exp, Types, Call
<1>4. exp.idents \in Seq(Names) /\ exp.idents # <<>> /\ exp.as \in Names \cup {None}
  BY <1>3 DEF ExportRec
<1>5. Head(exp.idents) \in Names /\ Tail(exp.idents) \in Seq(Names) /\ exp.idents[Len(exp.idents)] \in Names
  BY <1>4
<1>6. ExportName \in Names
  BY <1>4, <1>5 DEF ExportName
<1> QED  BY <1>1, <1>2, <1>3, <1>5, <1>6

LEMMA LookupTypes ==
  ASSUME Types, LookupExport
  PROVE  Types'
<1>1. /\ calls # <<>> /\ phase = "loading" /\ M \in Path /\ Head(exp.idents) \in Names /\ Tail(exp.idents) \in Seq(Names)
      /\ UNCHANGED <<code, phase, sources, seen, begun, parsing, rangeOf, decls, imports, exported, scope, exports, error>>
  BY ExportingTypes DEF LookupExport, modules, stmts, tables
<1>2. CallTypes' /\ calls' \in Seq(Call) /\ calls' # <<>>
  <2>1. PICK t, a : Moves(t, a)
    BY MoveSteps
  <2>2. CallsMove /\ calls' # <<>>
    BY <2>1 DEF CallsMove, Moves
  <2>3. code' = code /\ begun \subseteq begun'
    BY <1>1
  <2> QED  BY <1>1, <2>2, <2>3, CallTypesKept
<1>3. chain'.sym \in SymbolRec \cup {None} /\ chain'.rest \in Seq(Names)
  BY <1>1, TableTypes DEF LookupExport
<1> QED  BY <1>1, <1>2, <1>3 DEF Types, TypeOK, CallTypes

LEMMA NativeNameTypes ==
  ASSUME NEW st \in ImportRec, NEW n \in Names
  PROVE  NativeName(st, n) \in Names \cup {None}
<1>1. ASSUME NEW i \in DOMAIN st.syms  PROVE st.syms[i].name \in Names
  <2>1. st.syms \in Seq(ImportSym)
    BY DEF ImportRec
  <2>2. st.syms[i] \in ImportSym
    BY <1>1, <2>1
  <2> QED  BY <2>2 DEF ImportSym
<1>2. ASSUME \E i \in DOMAIN st.syms : ListedFirst(st, n, i)
      PROVE  (CHOOSE i \in DOMAIN st.syms : ListedFirst(st, n, i)) \in DOMAIN st.syms
  BY <1>2
<1> QED  BY <1>1, <1>2 DEF NativeName

(* Where the lookup of an export's names goes on. *)
LEMMA DescendingTypes ==
  ASSUME Types, SymbolsOK, Descending, chain.sym.via # 0
  PROVE  /\ calls # <<>> /\ phase = "loading" /\ Top.task = "names"
         /\ chain.sym \in SymbolRec /\ Well(chain.sym, M) /\ chain.sym.home \in Path
         /\ NsImport \in ImportRec /\ ImportedFrom(chain.sym.home, NsImport.path) \in Path \cap Done
         /\ Head(chain.rest) \in Names /\ Tail(chain.rest) \in Seq(Names)
         /\ NativeName(NsImport, Head(chain.rest)) \in Names \cup {None}
<1>1. calls # <<>> /\ phase = "loading" /\ Top.task = "names" /\ chain.sym \in SymbolRec
      /\ chain.rest \in Seq(Names) /\ chain.rest # <<>>
  BY DEF Descending, InStage, Types
<1>2. Well(chain.sym, M)
  BY <1>1 DEF SymbolsOK, Descending
<1>3. /\ chain.sym.home \in Path /\ chain.sym.via \in DOMAIN imports[chain.sym.home]
      /\ ImportedFrom(chain.sym.home, NsImport.path) \in Done
  BY <1>2 DEF Well, NsImport
<1>4. NsImport \in ImportRec
  <2>1. imports[chain.sym.home] \in Seq(ImportRec)
    BY <1>3 DEF Types
  <2> QED  BY <1>3, <2>1 DEF NsImport
<1>5. ImportedFrom(chain.sym.home, NsImport.path) \in Path
  BY <1>3, <1>4, TargetPath DEF ImportRec
<1>6. Head(chain.rest) \in Names /\ Tail(chain.rest) \in Seq(Names)
  BY <1>1
<1> QED  BY <1>1, <1>2, <1>3, <1>4, <1>5, <1>6, NativeNameTypes

LEMMA DescendTypes ==
  ASSUME Types, SymbolsOK, Descend
  PROVE  Types'
<1>1. Descending /\ chain.sym.via # 0 /\ NativeName(NsImport, Head(chain.rest)) # None
      /\ UNCHANGED <<code, phase, calls, sources, seen, begun, parsing, rangeOf, decls, imports, exported, scope, exports, error>>
  BY DEF Descend, modules, stmts, tables
<1>2. chain'.sym \in SymbolRec \cup {None} /\ chain'.rest \in Seq(Names)
  BY <1>1, DescendingTypes, TableTypes DEF Descend
<1> QED  BY <1>1, <1>2 DEF Types, TypeOK

LEMMA NamingTypes ==
  ASSUME Types, SymbolsOK, InStage("names")
  PROVE  /\ phase = "loading" /\ calls # <<>> /\ Top.task = "names"
         /\ M = Top.mod /\ M \in begun /\ M \in Path /\ ExportName \in Names
         /\ Top.at \in DOMAIN exported[M] /\ exp = exported[M][Top.at] /\ exp \in ExportRec
<1>1. Top.task = "names" /\ calls # <<>> /\ Top.at <= Len(exported[M])
  BY DEF Types, SymbolsOK, InStage
<1> QED  BY <1>1, ExportingTypes

LEMMA ExportTypes ==
  ASSUME Types, SymbolsOK, Export
  PROVE  Types'
<1>1. /\ calls # <<>> /\ phase = "loading" /\ M \in Path /\ ExportName \in Names /\ chain.sym \in SymbolRec
      /\ UNCHANGED <<code, phase, sources, seen, begun, parsing, rangeOf, decls, imports, exported, scope, chain, error>>
  BY NamingTypes DEF Export, LookedUp, modules, stmts, Types
<1>2. CallTypes' /\ calls' \in Seq(Call) /\ calls' # <<>>
  <2>1. PICK t, a : Moves(t, a)
    BY MoveSteps
  <2>2. CallsMove /\ calls' # <<>>
    BY <2>1 DEF CallsMove, Moves
  <2>3. code' = code /\ begun \subseteq begun'
    BY <1>1
  <2> QED  BY <1>1, <2>2, <2>3, CallTypesKept
<1>3. exports' \in [Path -> Table]
  BY <1>1, TableSet DEF Export, Types, TypeOK, Put
<1> QED  BY <1>1, <1>2, <1>3 DEF Types, TypeOK, CallTypes

-----------------------------------------------------------------------------
(*                                  Errors                                 *)

LEMMA InFileTypes ==
  ASSUME Types, NEW p, NEW f, InFile(p, f)
  PROVE  p \in Nat /\ f \in Home
<1>1. PICK i \in DOMAIN sources : sources[i].path = f /\ p \in sources[i].start..sources[i].end
  BY DEF InFile
<1>2. sources[i] \in SourceRec
  BY <1>1 DEF Types
<1> QED  BY <1>1, <1>2 DEF SourceRec

(* Where a file is read, and where its end is, is in it. *)
LEMMA ReadingInFile ==
  ASSUME Types, MapOK, Reading
  PROVE  InFile(Pos, Top.path) /\ InFile(EndPos, Top.path)
<1>1. /\ calls # <<>> /\ Top.task = "file" /\ Top.at \in 1..Len(code[Top.path])
      /\ Top \in Call /\ code[Top.path] \in Seq(Stmt) /\ Len(calls) \in DOMAIN calls /\ Top = calls[Len(calls)]
  BY ReadingTypes, TopCall
<1>2. PICK k \in DOMAIN sources : sources[k] = Source(Top.path, Top.start, Len(code[Top.path]))
  BY <1>1 DEF MapOK
<1>3. /\ sources[k].path = Top.path /\ sources[k].start = Top.start
      /\ sources[k].end = Top.start + Len(code[Top.path])
  BY <1>2 DEF Source
<1>4. Top.start \in Nat /\ Len(code[Top.path]) \in Nat
  BY <1>1 DEF Call
<1>5. Pos \in sources[k].start..sources[k].end /\ EndPos \in sources[k].start..sources[k].end
  BY <1>1, <1>3, <1>4 DEF Pos, EndPos
<1> QED  BY <1>3, <1>5 DEF InFile

LEMMA BroughtInFile ==
  ASSUME Types, MapOK, SymbolsOK, Importing, NEW b \in Brought, b.sym # None
  PROVE  InFile(b.sym.pos, b.sym.file) /\ InFile(rangeOf[M], M)
<1>1. M \in begun /\ Imported \in Path
  BY ImportingTypes
<1>2. InFile(rangeOf[M], M)
  BY <1>1 DEF MapOK
<1>3. CASE ForNamespace(b)
  BY <1>2, <1>3 DEF ForNamespace
<1>4. CASE FromExports(b)
  <2>1. PICK n \in Names : b.sym = exports[Imported][n]
    BY <1>4 DEF FromExports
  <2>2. Well(b.sym, Imported)
    BY <1>1, <2>1 DEF SymbolsOK
  <2> QED  BY <1>2, <2>2 DEF Well
<1> QED  BY <1>3, <1>4, BroughtTypes

(* An error is put where the file it names is. *)
ErrorSet ==
  \E why \in Reasons : \E p, f : Refuse(why, p, f) /\ InFile(p, f)

LEMMA RefusalInFile ==
  ASSUME Types, MapOK, SymbolsOK, Refusal
  PROVE  ErrorSet \/ (error' = error /\ phase' # "error")
<1>1. CASE SyntaxError
  <2>1. Reading /\ (Refuse("syntax", Pos, Top.path) \/ Refuse("syntax", EndPos, Top.path))
    BY <1>1 DEF SyntaxError, RefuseHere
  <2> QED  BY <2>1, ReadingInFile DEF ErrorSet, Reasons
<1>2. CASE BadInclude
  <2>1. Reading /\ \E why \in {"include limit", "path", "cyclic include"} : Refuse(why, Pos, Top.path)
    BY <1>2 DEF BadInclude, IncludeError, RefuseHere
  <2> QED  BY <2>1, ReadingInFile DEF ErrorSet, Reasons
<1>3. CASE Duplicate
  <2>1. M \in Path /\ Top.at \in DOMAIN decls[M] /\ decl = decls[M][Top.at] /\ Refuse("duplicate", decl.pos, decl.file)
    BY <1>3, InstallingTypes DEF Duplicate
  <2>2. InFile(decl.pos, decl.file)
    BY <2>1 DEF MapOK, ItemsIn
  <2> QED  BY <2>1, <2>2 DEF ErrorSet, Reasons
<1>4. ASSUME Importing  PROVE InFile(imp.pos, imp.file)
  <2>1. M \in Path /\ Top.at \in DOMAIN imports[M] /\ imp = imports[M][Top.at]
    BY <1>4, ImportingTypes
  <2> QED  BY <2>1 DEF MapOK, ItemsIn
<1>5. CASE ImportNoFile \/ ImportCycle
  <2>1. Importing /\ (Refuse("path", imp.pos, imp.file) \/ Refuse("cyclic import", imp.pos, imp.file))
    BY <1>5 DEF ImportNoFile, ImportCycle
  <2> QED  BY <1>4, <2>1 DEF ErrorSet, Reasons
<1>6. CASE ImportError
  <2>1. Importing
    BY <1>6 DEF ImportError, CanBind
  <2>2. PICK b \in Brought :
          \/ b.sym = None /\ Refuse("unknown", imp.pos, imp.file)
          \/ b.sym # None /\ b.sym.via = 0 /\ Refuse("conflict", b.sym.pos, b.sym.file)
          \/ b.sym # None /\ b.sym.via # 0 /\ Refuse("conflict", rangeOf[M], M)
    BY <1>6 DEF ImportError
  <2> QED  BY <1>4, <2>1, <2>2, BroughtInFile DEF ErrorSet, Reasons
<1>7. CASE NotANamespace \/ ExportError
  <2>1. InStage("names") /\ \E why \in {"export", "unknown", "conflict"} : Refuse(why, exp.pos, exp.file)
    BY <1>7 DEF NotANamespace, ExportError, Descending, LookedUp, RefuseExport
  <2>2. M \in Path /\ Top.at \in DOMAIN exported[M] /\ exp = exported[M][Top.at]
    BY <2>1, NamingTypes
  <2>3. InFile(exp.pos, exp.file)
    BY <2>2 DEF MapOK, ItemsIn
  <2> QED  BY <2>1, <2>3 DEF ErrorSet, Reasons
<1>8. CASE LookupNull
  BY <1>8 DEF LookupNull
<1>9. CASE FindMain
  <2>1. InFile(rangeOf[MainFile], MainFile)
    BY DEF MapOK, Types
  <2>2. Refuse("no main", rangeOf[MainFile], MainFile) \/ (error' = error /\ phase' # "error")
    BY <1>9 DEF FindMain
  <2> QED  BY <2>1, <2>2 DEF ErrorSet, Reasons
<1> QED  BY <1>1, <1>2, <1>3, <1>5, <1>6, <1>7, <1>8, <1>9 DEF Refusal

LEMMA RefusalTypes ==
  ASSUME Types, MapOK, SymbolsOK, Refusal
  PROVE  Types' /\ (error' = error \/ (error'.why \in Reasons /\ error'.pos \in Nat /\ error'.file \in Home))
<1>1. phase' \in Terminal /\ UNCHANGED Rest
  BY RefusalEnds
<1>2. error' = error \/ (error'.why \in Reasons /\ error'.pos \in Nat /\ error'.file \in Home)
  <2>1. CASE ErrorSet
    <3>1. PICK why \in Reasons : \E p, f : Refuse(why, p, f) /\ InFile(p, f)
      BY <2>1 DEF ErrorSet
    <3>2. PICK p, f : Refuse(why, p, f) /\ InFile(p, f)
      BY <3>1
    <3>3. p \in Nat /\ f \in Home /\ error' = [why |-> why, pos |-> p, file |-> f]
      BY <3>2, InFileTypes DEF Refuse
    <3> QED  BY <3>1, <3>3
  <2> QED  BY <2>1, RefusalInFile
<1>3. phase' # "loading"
  BY <1>1 DEF Terminal
<1> QED  BY <1>1, <1>2, <1>3 DEF Types, TypeOK, Rest

LEMMA TypesStep ==
  ASSUME Types, CallsOK, MapOK, SymbolsOK, [Next]_vars
  PROVE  Types'
<1>1. UNCHANGED <<Rest, phase, error>> => Types'
  BY DEF Rest, Types, TypeOK
<1> QED  BY <1>1, StepCases, ReadTypes, IncludeTypes, LoadTypes, ReturnTypes, StageTypes, BindTypes,
            LookupTypes, DescendTypes, ExportTypes, RefusalTypes

-----------------------------------------------------------------------------
(*                            What only ever grows                         *)

Extends(s, t) == \A k \in DOMAIN s : k \in DOMAIN t /\ t[k] = s[k]

Grows ==
  /\ code' = code /\ begun \subseteq begun' /\ Done \subseteq Done'
  /\ Extends(sources, sources')
  /\ \A m \in begun : rangeOf'[m] = rangeOf[m]
  /\ \A m \in Path : /\ Extends(decls[m], decls'[m]) /\ Extends(imports[m], imports'[m])
                     /\ Extends(exported[m], exported'[m])
  /\ \A m \in Path, n \in Names : exports[m][n] # None => exports'[m][n] = exports[m][n]

LEMMA KeepExtends ==
  ASSUME NEW S, NEW f \in [Path -> Seq(S)], NEW m \in Path, NEW r \in S
  PROVE  \A k \in Path : /\ Extends(f[k], [f EXCEPT ![m] = Append(@, r)][k])
                         /\ k # m => [f EXCEPT ![m] = Append(@, r)][k] = f[k]
                         /\ [f EXCEPT ![m] = Append(@, r)][m] = Append(f[m], r)
<1>1. ASSUME NEW s \in Seq(S)  PROVE Extends(s, Append(s, r))
  BY <1>1 DEF Extends
<1>2. ASSUME NEW s \in Seq(S)  PROVE Extends(s, s)
  BY DEF Extends
<1>3. f[m] \in Seq(S) /\ \A k \in Path : [f EXCEPT ![m] = Append(@, r)][k] = IF k = m THEN Append(f[m], r) ELSE f[k]
  OBVIOUS
<1>4. \A k \in Path : f[k] \in Seq(S)
  OBVIOUS
<1>5. Extends(f[m], Append(f[m], r)) /\ \A k \in Path : Extends(f[k], f[k])
  BY <1>1, <1>2, <1>3, <1>4
<1> QED  BY <1>3, <1>5

LEMMA ReadGrows ==
  ASSUME Types, ReadDecl \/ ReadImport \/ ReadExport
  PROVE  /\ Top.mod \in Path
         /\ \A m \in Path : /\ Extends(decls[m], decls'[m]) /\ Extends(imports[m], imports'[m])
                            /\ Extends(exported[m], exported'[m])
                            /\ m # Top.mod => decls'[m] = decls[m] /\ imports'[m] = imports[m] /\ exported'[m] = exported[m]
<1>1. Reading /\ calls # <<>> /\ Top.mod \in Path
  BY ReadingTypes, TopCall DEF ReadDecl, ReadImport, ReadExport
<1>2. /\ decls \in [Path -> Seq(DeclRec)] /\ imports \in [Path -> Seq(ImportRec)]
      /\ exported \in [Path -> Seq(ExportRec)]
  BY DEF Types
<1>3. \A m \in Path : Extends(decls[m], decls[m]) /\ Extends(imports[m], imports[m]) /\ Extends(exported[m], exported[m])
  BY DEF Extends
<1>4. CASE ReadDecl
  <2>1. PICK r \in DeclRec : decls' = [decls EXCEPT ![Top.mod] = Append(@, r)]
    BY <1>1, <1>4, ReadRecords DEF ReadDecl, Keep
  <2>2. imports' = imports /\ exported' = exported
    BY <1>4 DEF ReadDecl
  <2> QED  BY <1>1, <1>2, <1>3, <2>1, <2>2, KeepExtends
<1>5. CASE ReadImport
  <2>1. PICK r \in ImportRec : imports' = [imports EXCEPT ![Top.mod] = Append(@, r)]
    BY <1>1, <1>5, ReadRecords DEF ReadImport, Keep
  <2>2. decls' = decls /\ exported' = exported
    BY <1>5 DEF ReadImport
  <2> QED  BY <1>1, <1>2, <1>3, <2>1, <2>2, KeepExtends
<1>6. CASE ReadExport
  <2>1. PICK r \in ExportRec : exported' = [exported EXCEPT ![Top.mod] = Append(@, r)]
    BY <1>1, <1>6, ReadRecords DEF ReadExport, Keep
  <2>2. decls' = decls /\ imports' = imports
    BY <1>6 DEF ReadExport
  <2> QED  BY <1>1, <1>2, <1>3, <2>1, <2>2, KeepExtends
<1> QED  BY <1>4, <1>5, <1>6

LEMMA Growing ==
  ASSUME Types, TablesOK, SymbolsOK, [Next]_vars
  PROVE  Grows
<1>1. \A s : Extends(s, s)
  BY DEF Extends
<1>2. CASE UNCHANGED Rest
  BY <1>1, <1>2 DEF Rest, Grows, Done
<1>3. CASE ReadDecl \/ ReadImport \/ ReadExport
  <2>1. UNCHANGED <<code, sources, begun, parsing, rangeOf, exports>>
    BY <1>3 DEF ReadDecl, ReadImport, ReadExport, ReadOn, modules, tables
  <2> QED  BY <1>1, <1>3, <2>1, ReadGrows DEF Grows, Done
<1>4. CASE Include
  <2>1. UNCHANGED <<code, begun, parsing, rangeOf, decls, imports, exported, exports>> /\ AddSource(Included)
        /\ Included \in DOMAIN code
    BY <1>4, IncludeStep DEF Include, modules, stmts, tables
  <2>2. Extends(sources, sources')
    BY <2>1, AddSourceTypes DEF Extends
  <2> QED  BY <1>1, <2>1, <2>2 DEF Grows, Done
<1>5. CASE LoadModule
  <2>1. /\ UNCHANGED <<code, decls, imports, exported, exports>> /\ AddSource(Imported)
        /\ Imported \in DOMAIN code /\ begun' = begun \cup {Imported} /\ parsing' = parsing \cup {Imported}
        /\ rangeOf' = [rangeOf EXCEPT ![Imported] = CurrPos] /\ Imported \notin begun
    BY <1>5, LoadStep DEF LoadModule, stmts, tables
  <2>2. Extends(sources, sources')
    BY <2>1, AddSourceTypes DEF Extends
  <2>3. \A m \in begun : rangeOf'[m] = rangeOf[m]
    BY <2>1 DEF Types, TypeOK
  <2> QED  BY <1>1, <2>1, <2>2, <2>3 DEF Grows, Done
<1>6. CASE EndOfFile \/ FinishModule
  <2>1. UNCHANGED <<code, sources, begun, rangeOf, decls, imports, exported, exports>> /\ parsing' \subseteq parsing
    BY <1>6 DEF EndOfFile, FinishModule, modules, stmts, tables
  <2> QED  BY <1>1, <2>1 DEF Grows, Done
<1>7. CASE MakeTables \/ EndDecls \/ EndImports \/ Import \/ LookupExport \/ Descend
  <2>1. UNCHANGED <<code, sources, begun, parsing, rangeOf, decls, imports, exported, exports>>
    BY <1>7 DEF MakeTables, EndDecls, EndImports, Import, LookupExport, Descend, modules, stmts, tables
  <2> QED  BY <1>1, <2>1 DEF Grows, Done
<1>8. CASE Install
  <2>1. UNCHANGED <<code, sources, begun, parsing, rangeOf, decls, imports, exported>>
    BY <1>8 DEF Install, modules, stmts
  <2>2. M \in Path /\ decl.name \in Names /\ Top.task = "decls" /\ calls # <<>> /\ DeclSymbol \in SymbolRec
    BY <1>8, InstallingTypes DEF Install, DeclRec
  <2>3. exports[M][decl.name] = None
    <3>1. Len(calls) \in DOMAIN calls /\ Top = calls[Len(calls)]
      BY <2>2, TopCall
    <3>2. exports[M][decl.name] \in {None, scope[M][decl.name]}
      BY <2>2, <3>1 DEF TablesOK, M
    <3> QED  BY <1>8, <3>2 DEF Install
  <2>4. \A m \in Path, n \in Names : exports[m][n] # None => exports'[m][n] = exports[m][n]
    <3>1. exports \in [Path -> Table]
      BY DEF Types, TypeOK
    <3>2. PICK n \in Names, s \in SymbolRec \cup {None} : n = decl.name /\ s = DeclSymbol
      BY <2>2
    <3>3. exports[M][n] = None /\ (exports' = exports \/ exports' = Put(exports, M, n, s))
      BY <1>8, <2>3, <3>2 DEF Install, Put
    <3>4. \A k \in Path, o \in Names : Put(exports, M, n, s)[k][o] = IF k = M /\ o = n THEN s ELSE exports[k][o]
      BY <2>2, <3>1, TableSet
    <3> QED  BY <2>2, <3>1, <3>3, <3>4
  <2> QED  BY <1>1, <2>1, <2>4 DEF Grows, Done
<1>9. CASE Export
  <2>1. UNCHANGED <<code, sources, begun, parsing, rangeOf, decls, imports, exported>>
    BY <1>9 DEF Export, modules, stmts
  <2>2. M \in Path /\ ExportName \in Names /\ chain.sym \in SymbolRec \cup {None}
    BY <1>9, NamingTypes DEF Export, LookedUp, Types
  <2>3. exports[M][ExportName] \in {None, chain.sym} /\ exports' = Put(exports, M, ExportName, chain.sym)
    BY <1>9 DEF Export, Put
  <2>4. \A m \in Path, n \in Names : exports[m][n] # None => exports'[m][n] = exports[m][n]
    <3>1. exports \in [Path -> Table]
      BY DEF Types, TypeOK
    <3> QED  BY <2>2, <2>3, <3>1, TableSet
  <2> QED  BY <1>1, <2>1, <2>4 DEF Grows, Done
<1>10. Refusal => UNCHANGED Rest
  BY RefusalEnds
<1> QED  BY <1>2, <1>3, <1>4, <1>5, <1>6, <1>7, <1>8, <1>9, <1>10, StepCases

-----------------------------------------------------------------------------
(*                                The calls                                *)

(* One file call fewer, or as many calls as before. *)
LEMMA CallsOnMove ==
  ASSUME Types, CallsOK, Grows, calls # <<>>, NEW t, NEW a, Moves(t, a),
         t = "file" <=> Top.task = "file", parsing' = parsing
  PROVE  CallsOK' /\ ModuleCalls' = ModuleCalls
<1> DEFINE n == Len(calls)
<1>1. /\ n \in Nat \ {0} /\ DOMAIN calls = 1..n /\ Top = calls[n]
      /\ \A i \in DOMAIN calls : calls[i].mod \in Path
  BY TopCall
<1>2. /\ DOMAIN calls' = DOMAIN calls /\ \A i \in DOMAIN calls : i # n => calls'[i] = calls[i]
      /\ \A i \in DOMAIN calls : calls'[i].mod = calls[i].mod
      /\ \A i \in DOMAIN calls : calls'[i].task = "file" <=> calls[i].task = "file"
  BY <1>1 DEF Moves
<1> HIDE DEF n
<1>3. ModuleCalls' = ModuleCalls
  BY <1>2 DEF ModuleCalls
<1>4. ModuleCalls \subseteq DOMAIN calls
  BY DEF ModuleCalls
<1>5. {calls'[i].mod : i \in ModuleCalls'} = parsing'
  BY <1>2, <1>3, <1>4 DEF CallsOK
<1>6. \A i, j \in ModuleCalls' : calls'[i].mod = calls'[j].mod => i = j
  BY <1>2, <1>3, <1>4 DEF CallsOK
<1>7. ASSUME NEW i \in ModuleCalls' \ {1}  PROVE AtImportOf(calls[i - 1], calls[i].mod)'
  <2>1. i \in ModuleCalls \ {1} /\ i - 1 \in DOMAIN calls /\ i - 1 # n /\ calls'[i - 1] = calls[i - 1]
    BY <1>1, <1>2, <1>3, <1>4
  <2>2. AtImportOf(calls[i - 1], calls[i].mod) /\ calls[i - 1].mod \in Path
    BY <1>1, <2>1 DEF CallsOK
  <2> QED  BY <1>2, <1>4, <2>1, <2>2 DEF AtImportOf, Grows, Extends
<1>8. ASSUME NEW i \in DOMAIN calls' \ ModuleCalls'
      PROVE  /\ i # 1 /\ calls'[i - 1].task \in {"file", "tables"} /\ calls'[i - 1].mod = calls'[i].mod
             /\ \E j \in ModuleCalls' : j < i /\ calls'[j].task = "tables" /\ calls'[j].mod = calls'[i].mod
  <2>1. /\ i \in DOMAIN calls \ ModuleCalls /\ i # 1
        /\ calls[i - 1].task \in {"file", "tables"} /\ calls[i - 1].mod = calls[i].mod
    BY <1>2, <1>3 DEF CallsOK
  <2>2. PICK j \in ModuleCalls : j < i /\ calls[j].task = "tables" /\ calls[j].mod = calls[i].mod
    BY <2>1 DEF CallsOK
  <2>3. i - 1 \in DOMAIN calls /\ i - 1 # n /\ j # n /\ j \in DOMAIN calls
    BY <1>1, <1>4, <2>1, <2>2
  <2> QED  BY <1>2, <1>3, <2>1, <2>2, <2>3
<1> QED  BY <1>3, <1>5, <1>6, <1>7, <1>8 DEF CallsOK

LEMMA CallsOnReturn ==
  ASSUME Types, CallsOK, Grows, EndOfFile \/ FinishModule
  PROVE  CallsOK' /\ ModuleCalls' = ModuleCalls \ {Len(calls)}
<1> DEFINE n == Len(calls)
<1>1. Pops /\ calls # <<>>
  BY MoveSteps DEF EndOfFile, FinishModule, InStage, Types
<1>2. /\ n \in Nat \ {0} /\ DOMAIN calls = 1..n /\ Top = calls[n]
      /\ \A i \in DOMAIN calls : calls[i].mod \in Path
  BY <1>1, TopCall
<1>3. DOMAIN calls' = DOMAIN calls \ {n} /\ \A i \in DOMAIN calls' : calls'[i] = calls[i]
  BY <1>1 DEF Pops
<1> HIDE DEF n
<1>4. ModuleCalls' = ModuleCalls \ {n} /\ ModuleCalls \subseteq DOMAIN calls
  BY <1>3 DEF ModuleCalls
<1>5. {calls'[i].mod : i \in ModuleCalls'} = parsing'
  <2>1. {calls[i].mod : i \in ModuleCalls} = parsing /\ \A i, j \in ModuleCalls : calls[i].mod = calls[j].mod => i = j
    BY DEF CallsOK
  <2>2. \A i \in ModuleCalls \ {n} : calls'[i] = calls[i]
    BY <1>3, <1>4
  <2>3. CASE EndOfFile
    <3>1. n \notin ModuleCalls /\ parsing' = parsing
      BY <1>2, <2>3 DEF EndOfFile, ModuleCalls, modules
    <3> QED  BY <1>4, <2>1, <2>2, <3>1
  <2>4. CASE FinishModule
    <3>1. n \in ModuleCalls /\ parsing' = parsing \ {calls[n].mod}
      BY <1>2, <2>4 DEF FinishModule, ModuleCalls, InStage, M
    <3> QED  BY <1>4, <2>1, <2>2, <3>1
  <2> QED  BY <2>3, <2>4
<1>6. \A i, j \in ModuleCalls' : calls'[i].mod = calls'[j].mod => i = j
  BY <1>3, <1>4 DEF CallsOK
<1>7. ASSUME NEW i \in ModuleCalls' \ {1}  PROVE AtImportOf(calls[i - 1], calls[i].mod)'
  <2>1. i \in ModuleCalls \ {1} /\ i - 1 \in DOMAIN calls' /\ i \in DOMAIN calls' /\ i - 1 \in DOMAIN calls
    BY <1>2, <1>3, <1>4
  <2>2. AtImportOf(calls[i - 1], calls[i].mod) /\ calls[i - 1].mod \in Path
    BY <1>2, <2>1 DEF CallsOK
  <2> QED  BY <1>3, <2>1, <2>2 DEF AtImportOf, Grows, Extends
<1>8. ASSUME NEW i \in DOMAIN calls' \ ModuleCalls'
      PROVE  /\ i # 1 /\ calls'[i - 1].task \in {"file", "tables"} /\ calls'[i - 1].mod = calls'[i].mod
             /\ \E j \in ModuleCalls' : j < i /\ calls'[j].task = "tables" /\ calls'[j].mod = calls'[i].mod
  <2>1. /\ i \in DOMAIN calls \ ModuleCalls /\ i # 1 /\ i # n
        /\ calls[i - 1].task \in {"file", "tables"} /\ calls[i - 1].mod = calls[i].mod
    BY <1>3, <1>4 DEF CallsOK
  <2>2. PICK j \in ModuleCalls : j < i /\ calls[j].task = "tables" /\ calls[j].mod = calls[i].mod
    BY <2>1 DEF CallsOK
  <2>3. i - 1 \in DOMAIN calls' /\ j \in ModuleCalls' /\ j \in DOMAIN calls'
    BY <1>2, <1>3, <1>4, <2>1, <2>2
  <2> QED  BY <1>3, <2>1, <2>2, <2>3
<1> QED  BY <1>4, <1>5, <1>6, <1>7, <1>8 DEF CallsOK, n

LEMMA CallsOnInclude ==
  ASSUME Types, CallsOK, Grows, Include
  PROVE  CallsOK' /\ ModuleCalls' = ModuleCalls
<1> DEFINE n == Len(calls)
<1>1. Includes /\ calls # <<>> /\ Top.task = "file"
  BY IncludeStep
<1>2. /\ n \in Nat \ {0} /\ DOMAIN calls = 1..n /\ Top = calls[n]
      /\ \A i \in DOMAIN calls : calls[i].mod \in Path
  BY <1>1, TopCall
<1>3. /\ DOMAIN calls' = DOMAIN calls \cup {n + 1} /\ \A i \in DOMAIN calls : i # n => calls'[i] = calls[i]
      /\ \A i \in DOMAIN calls : calls'[i].mod = calls[i].mod /\ calls'[i].task = calls[i].task
      /\ calls'[n + 1].task = "file" /\ calls'[n + 1].mod = calls[n].mod
  BY <1>1, <1>2 DEF Includes
<1>4. parsing' = parsing
  BY DEF Include, modules
<1> HIDE DEF n
<1>5. ModuleCalls' = ModuleCalls /\ ModuleCalls \subseteq DOMAIN calls
  BY <1>2, <1>3 DEF ModuleCalls
<1>6. {calls'[i].mod : i \in ModuleCalls'} = parsing'
  BY <1>3, <1>4, <1>5 DEF CallsOK
<1>7. \A i, j \in ModuleCalls' : calls'[i].mod = calls'[j].mod => i = j
  BY <1>3, <1>5 DEF CallsOK
<1>8. ASSUME NEW i \in ModuleCalls' \ {1}  PROVE AtImportOf(calls[i - 1], calls[i].mod)'
  <2>1. i \in ModuleCalls \ {1} /\ i - 1 \in DOMAIN calls /\ i - 1 # n /\ calls'[i - 1] = calls[i - 1]
    BY <1>2, <1>3, <1>5
  <2>2. AtImportOf(calls[i - 1], calls[i].mod) /\ calls[i - 1].mod \in Path
    BY <1>2, <2>1 DEF CallsOK
  <2> QED  BY <1>3, <1>5, <2>1, <2>2 DEF AtImportOf, Grows, Extends
<1>9. ASSUME NEW i \in DOMAIN calls' \ ModuleCalls'
      PROVE  /\ i # 1 /\ calls'[i - 1].task \in {"file", "tables"} /\ calls'[i - 1].mod = calls'[i].mod
             /\ \E j \in ModuleCalls' : j < i /\ calls'[j].task = "tables" /\ calls'[j].mod = calls'[i].mod
  <2>1. ASSUME NEW k \in DOMAIN calls \ ModuleCalls
        PROVE /\ k # 1 /\ k - 1 \in DOMAIN calls /\ calls[k - 1].task \in {"file", "tables"} /\ calls[k - 1].mod = calls[k].mod
              /\ \E j \in ModuleCalls : j < k /\ calls[j].task = "tables" /\ calls[j].mod = calls[k].mod
    BY <1>2 DEF CallsOK
  <2>2. CASE i # n + 1
    BY <1>3, <1>5, <2>1, <2>2
  <2>3. CASE i = n + 1
    <3>1. n \in DOMAIN calls \ ModuleCalls /\ i - 1 = n /\ i # 1
      BY <1>1, <1>2, <2>3 DEF ModuleCalls
    <3>2. PICK j \in ModuleCalls : j < n /\ calls[j].task = "tables" /\ calls[j].mod = calls[n].mod
      BY <2>1, <3>1
    <3>3. j < i /\ j \in DOMAIN calls
      BY <1>2, <1>5, <2>3, <3>2
    <3> QED  BY <1>1, <1>2, <1>3, <1>5, <2>3, <3>1, <3>2, <3>3
  <2> QED  BY <2>2, <2>3
<1> QED  BY <1>5, <1>6, <1>7, <1>8, <1>9 DEF CallsOK

LEMMA CallsOnLoad ==
  ASSUME Types, CallsOK, Grows, LoadModule
  PROVE  CallsOK' /\ ModuleCalls' = ModuleCalls \cup {Len(calls) + 1}
<1> DEFINE n == Len(calls)
<1>1. Loads /\ calls # <<>> /\ Importing
  BY LoadStep DEF LoadModule
<1>2. /\ n \in Nat \ {0} /\ DOMAIN calls = 1..n /\ Top = calls[n]
      /\ \A i \in DOMAIN calls : calls[i].mod \in Path
  BY <1>1, TopCall
<1>3. /\ DOMAIN calls' = DOMAIN calls \cup {n + 1, n + 2} /\ \A i \in DOMAIN calls : calls'[i] = calls[i]
      /\ calls'[n + 1].task = "tables" /\ calls'[n + 1].mod = Imported
      /\ calls'[n + 2].task = "file" /\ calls'[n + 2].mod = Imported
  BY <1>1 DEF Loads, ModuleCall, FileCall
<1>4. parsing' = parsing \cup {Imported} /\ Imported \notin begun /\ parsing \subseteq begun
  BY DEF LoadModule, Types, TypeOK
<1>5. Top.task = "imports" /\ Top.at \in DOMAIN imports[Top.mod]
      /\ Imported = ImportedFrom(Top.mod, imports[Top.mod][Top.at].path)
  BY <1>1, ImportingTypes
<1> HIDE DEF n
<1>6. ModuleCalls' = ModuleCalls \cup {n + 1} /\ ModuleCalls \subseteq DOMAIN calls
  BY <1>2, <1>3 DEF ModuleCalls
<1>7. {calls'[i].mod : i \in ModuleCalls'} = parsing'
  BY <1>3, <1>4, <1>6 DEF CallsOK
<1>8. \A i, j \in ModuleCalls' : calls'[i].mod = calls'[j].mod => i = j
  <2>1. \A i \in ModuleCalls : calls[i].mod \in parsing
    BY DEF CallsOK
  <2> QED  BY <1>3, <1>4, <1>6, <2>1 DEF CallsOK
<1>9. ASSUME NEW i \in ModuleCalls' \ {1}  PROVE AtImportOf(calls[i - 1], calls[i].mod)'
  <2>1. CASE i # n + 1
    <3>1. i \in ModuleCalls \ {1} /\ i - 1 \in DOMAIN calls /\ i \in DOMAIN calls
      BY <1>2, <1>6, <2>1
    <3>2. AtImportOf(calls[i - 1], calls[i].mod) /\ calls[i - 1].mod \in Path
      BY <1>2, <3>1 DEF CallsOK
    <3> QED  BY <1>3, <3>1, <3>2 DEF AtImportOf, Grows, Extends
  <2>2. CASE i = n + 1
    <3>1. i - 1 = n /\ n \in DOMAIN calls /\ calls'[n] = Top /\ Top.mod \in Path
      BY <1>2, <1>3, <2>2
    <3> QED  BY <1>3, <1>5, <2>2, <3>1 DEF AtImportOf, Grows, Extends
  <2> QED  BY <2>1, <2>2
<1>10. ASSUME NEW i \in DOMAIN calls' \ ModuleCalls'
       PROVE  /\ i # 1 /\ calls'[i - 1].task \in {"file", "tables"} /\ calls'[i - 1].mod = calls'[i].mod
              /\ \E j \in ModuleCalls' : j < i /\ calls'[j].task = "tables" /\ calls'[j].mod = calls'[i].mod
  <2>1. ASSUME NEW k \in DOMAIN calls \ ModuleCalls
        PROVE /\ k # 1 /\ k - 1 \in DOMAIN calls /\ calls[k - 1].task \in {"file", "tables"} /\ calls[k - 1].mod = calls[k].mod
              /\ \E j \in ModuleCalls : j < k /\ calls[j].task = "tables" /\ calls[j].mod = calls[k].mod
    BY <1>2 DEF CallsOK
  <2>2. CASE i \in DOMAIN calls
    BY <1>3, <1>6, <2>1, <2>2
  <2>3. CASE i = n + 2
    <3>1. n + 1 \in ModuleCalls' /\ n + 1 < i /\ i - 1 = n + 1 /\ i # 1
      BY <1>2, <1>6, <2>3
    <3> QED  BY <1>3, <2>3, <3>1
  <2> QED  BY <1>3, <1>6, <2>2, <2>3
<1> QED  BY <1>6, <1>7, <1>8, <1>9, <1>10 DEF CallsOK, n

(* The stages of a module that go on to the next item or stage. *)
StageStep == MakeTables \/ Install \/ EndDecls \/ Import \/ EndImports \/ LookupExport \/ Export

LEMMA StageMoves ==
  ASSUME Types, StageStep
  PROVE  /\ phase = "loading" /\ calls # <<>> /\ Top.task # "file"
         /\ \E t, a : t # "file" /\ Moves(t, a)
         /\ UNCHANGED <<code, phase, sources, seen, begun, parsing, rangeOf, decls, imports, exported, error>>
<1>1. phase = "loading" /\ calls # <<>> /\ Top.task # "file"
  BY DEF StageStep, MakeTables, Install, EndDecls, Import, CanBind, Importing, EndImports, LookupExport,
         Export, LookedUp, InStage, Types
<1>2. \E t, a : t # "file" /\ Moves(t, a)
  <2>1. \E t \in {"decls", "imports", "exports", "names"} : \E a : Moves(t, a)
    BY MoveSteps DEF StageStep
  <2> QED  BY <2>1
<1>3. UNCHANGED <<code, phase, sources, seen, begun, parsing, rangeOf, decls, imports, exported, error>>
  BY DEF StageStep, MakeTables, Install, EndDecls, Import, EndImports, LookupExport, Export, modules, stmts, tables
<1> QED  BY <1>1, <1>2, <1>3

LEMMA ReadMoves ==
  ASSUME Types, ReadDecl \/ ReadImport \/ ReadExport
  PROVE  /\ Reading /\ phase = "loading" /\ calls # <<>> /\ Top.task = "file" /\ Moves("file", Top.at + 1)
         /\ UNCHANGED <<code, phase, sources, seen, begun, parsing, rangeOf, scope, exports, chain, error>>
BY ReadingTypes, MoveSteps DEF ReadDecl, ReadImport, ReadExport, ReadOn, modules, tables

LEMMA CallsStep ==
  ASSUME Types, CallsOK, Grows, [Next]_vars
  PROVE  CallsOK'
<1>1. UNCHANGED <<calls, parsing, imports>> => CallsOK'
  BY DEF CallsOK, ModuleCalls, AtImportOf
<1>2. Descend => UNCHANGED <<calls, parsing, imports>>
  BY DEF Descend, modules, stmts
<1>3. Refusal \/ UNCHANGED <<Rest, phase, error>> => UNCHANGED <<calls, parsing, imports>>
  BY RefusalEnds DEF Rest
<1>4. CASE StageStep
  <2>1. PICK t, a : t # "file" /\ Moves(t, a)
    BY <1>4, StageMoves
  <2>2. calls # <<>> /\ (t = "file" <=> Top.task = "file") /\ parsing' = parsing
    BY <1>4, <2>1, StageMoves
  <2> QED  BY <2>1, <2>2, CallsOnMove
<1>5. CASE ReadDecl \/ ReadImport \/ ReadExport
  BY <1>5, ReadMoves, CallsOnMove
<1> QED  BY <1>1, <1>2, <1>3, <1>4, <1>5, StepCases, CallsOnReturn, CallsOnInclude, CallsOnLoad DEF StageStep

-----------------------------------------------------------------------------
(*                              The source map                             *)

(* After the step. *)
InNext(p, f) == \E i \in DOMAIN sources' : sources'[i].path = f /\ p \in sources'[i].start..sources'[i].end

LEMMA InFileStays ==
  ASSUME Grows, NEW p, NEW f, InFile(p, f)
  PROVE  InNext(p, f)
BY DEF Grows, Extends, InFile, InNext

LEMMA BeforeCurrPos ==
  ASSUME Types, MapOK, NEW i \in DOMAIN sources
  PROVE  sources[i].end <= CurrPos
<1>1. sources \in Seq(SourceRec) /\ sources # <<>> /\ Len(sources) \in DOMAIN sources
  BY DEF Types
<1>2. CurrPos = sources[Len(sources)].end
  BY <1>1 DEF CurrPos
<1>3. /\ sources[i].end \in Nat /\ sources[Len(sources)].start \in Nat /\ sources[Len(sources)].end \in Nat
      /\ sources[Len(sources)].start <= sources[Len(sources)].end
  <2>1. sources[i] \in SourceRec /\ sources[Len(sources)] \in SourceRec
    BY <1>1
  <2> QED  BY <1>1, <2>1 DEF SourceRec, MapOK
<1>4. i = Len(sources) \/ i < Len(sources)
  BY <1>1
<1>5. i < Len(sources) => sources[i].end <= sources[Len(sources)].start
  BY <1>1 DEF MapOK
<1> QED  BY <1>2, <1>3, <1>4, <1>5

(* A file that is added lies after the others. *)
LEMMA MapOnAdd ==
  ASSUME Types, MapOK, NEW f \in DOMAIN code, AddSource(f)
  PROVE  /\ \A i, j \in DOMAIN sources' : i < j => sources'[i].end <= sources'[j].start
         /\ \A i \in DOMAIN sources' : sources'[i].start <= sources'[i].end
         /\ \E k \in DOMAIN sources' : sources'[k] = Source(f, CurrPos, Len(code[f]))
         /\ InNext(CurrPos, f)
<1>1. /\ Len(sources) \in Nat /\ DOMAIN sources = 1..Len(sources)
      /\ DOMAIN sources' = DOMAIN sources \cup {Len(sources) + 1}
      /\ \A i \in DOMAIN sources : sources'[i] = sources[i]
      /\ sources'[Len(sources) + 1] = Source(f, CurrPos, Len(code[f]))
      /\ \A i \in DOMAIN sources' : sources'[i].start <= sources'[i].end
  BY AddSourceTypes
<1>2. CurrPos \in Nat /\ Len(code[f]) \in Nat
  BY NewSource
<1>3. \A i, j \in DOMAIN sources' : i < j => sources'[i].end <= sources'[j].start
  <2>1. ASSUME NEW i \in DOMAIN sources', NEW j \in DOMAIN sources', i < j
        PROVE  sources'[i].end <= sources'[j].start
    <3>1. i \in DOMAIN sources
      BY <1>1, <2>1
    <3>2. CASE j \in DOMAIN sources
      BY <1>1, <2>1, <3>1, <3>2 DEF MapOK
    <3>3. CASE j = Len(sources) + 1
      BY <1>1, <3>1, <3>3, BeforeCurrPos DEF Source
    <3> QED  BY <1>1, <3>2, <3>3
  <2> QED  BY <2>1
<1>4. InNext(CurrPos, f)
  <2>1. /\ sources'[Len(sources) + 1].path = f /\ sources'[Len(sources) + 1].start = CurrPos
        /\ sources'[Len(sources) + 1].end = CurrPos + Len(code[f])
    BY <1>1 DEF Source
  <2>2. CurrPos \in CurrPos..(CurrPos + Len(code[f]))
    BY <1>2
  <2> QED  BY <1>1, <2>1, <2>2 DEF InNext
<1> QED  BY <1>1, <1>3, <1>4

(* The items a step keeps, and one it may add. *)
Kept(f, m, r) == [f EXCEPT ![m] = Append(@, r)]
AllItemsNext(f) == \A k \in Path : \A i \in DOMAIN f[k] : InNext(f[k][i].pos, f[k][i].file)

LEMMA KeptItems ==
  ASSUME Grows, NEW S, NEW f \in [Path -> Seq(S)], NEW m \in Path, NEW r \in S,
         InFile(r.pos, r.file), \A k \in Path : ItemsIn(f[k])
  PROVE  AllItemsNext(Kept(f, m, r)) /\ AllItemsNext(f)
<1> DEFINE g == [f EXCEPT ![m] = Append(@, r)]
<1>1. \A k \in Path : k # m => g[k] = f[k]
  OBVIOUS
<1>2. g[m] = Append(f[m], r) /\ f[m] \in Seq(S)
  OBVIOUS
<1> HIDE DEF g
<1>3. \A i \in DOMAIN g[m] : (i \in DOMAIN f[m] /\ g[m][i] = f[m][i]) \/ g[m][i] = r
  BY <1>2
<1>4. \A i \in DOMAIN g[m] : InFile(g[m][i].pos, g[m][i].file)
  BY <1>3 DEF ItemsIn
<1>5. \A k \in Path : \A i \in DOMAIN g[k] : InFile(g[k][i].pos, g[k][i].file)
  BY <1>1, <1>4 DEF ItemsIn
<1>6. \A k \in Path : \A i \in DOMAIN g[k] : InNext(g[k][i].pos, g[k][i].file)
  BY <1>5, InFileStays
<1>7. \A k \in Path : \A i \in DOMAIN f[k] : InNext(f[k][i].pos, f[k][i].file)
  BY InFileStays DEF ItemsIn
<1> QED  BY <1>6, <1>7 DEF g, Kept, AllItemsNext

LEMMA ReadMap ==
  ASSUME Types, MapOK, Grows, ReadDecl \/ ReadImport \/ ReadExport
  PROVE  AllItemsNext(decls') /\ AllItemsNext(imports') /\ AllItemsNext(exported')
<1>1. Reading /\ Top.mod \in Path /\ InFile(Pos, Top.path)
  BY ReadMoves, TopCall, ReadingInFile
<1>2. /\ decls \in [Path -> Seq(DeclRec)] /\ imports \in [Path -> Seq(ImportRec)]
      /\ exported \in [Path -> Seq(ExportRec)]
  BY DEF Types
<1>3. \A m \in Path : ItemsIn(decls[m]) /\ ItemsIn(imports[m]) /\ ItemsIn(exported[m])
  BY DEF MapOK
<1>4. AllItemsNext(decls) /\ AllItemsNext(imports) /\ AllItemsNext(exported)
  BY <1>3, InFileStays DEF ItemsIn, AllItemsNext
<1>5. CASE ReadDecl
  <2>1. PICK r \in DeclRec : decls' = Kept(decls, Top.mod, r) /\ r.pos = Pos /\ r.file = Top.path
    BY <1>1, <1>5, ReadRecords DEF ReadDecl, Keep, Kept
  <2>2. AllItemsNext(decls')
    BY <1>1, <1>2, <1>3, <2>1, KeptItems
  <2>3. imports' = imports /\ exported' = exported
    BY <1>5 DEF ReadDecl
  <2> QED  BY <1>4, <2>2, <2>3
<1>6. CASE ReadImport
  <2>1. PICK r \in ImportRec : imports' = Kept(imports, Top.mod, r) /\ r.pos = Pos /\ r.file = Top.path
    BY <1>1, <1>6, ReadRecords DEF ReadImport, Keep, Kept
  <2>2. AllItemsNext(imports')
    BY <1>1, <1>2, <1>3, <2>1, KeptItems
  <2>3. decls' = decls /\ exported' = exported
    BY <1>6 DEF ReadImport
  <2> QED  BY <1>4, <2>2, <2>3
<1>7. CASE ReadExport
  <2>1. PICK r \in ExportRec : exported' = Kept(exported, Top.mod, r) /\ r.pos = Pos /\ r.file = Top.path
    BY <1>1, <1>7, ReadRecords DEF ReadExport, Keep, Kept
  <2>2. AllItemsNext(exported')
    BY <1>1, <1>2, <1>3, <2>1, KeptItems
  <2>3. decls' = decls /\ imports' = imports
    BY <1>7 DEF ReadExport
  <2> QED  BY <1>4, <2>2, <2>3
<1> QED  BY <1>5, <1>6, <1>7

FoundNext(f, start) == \E k \in DOMAIN sources' : sources'[k] = Source(f, start, Len(code[f]))
CallsFound == \A i \in DOMAIN calls' : calls'[i].task = "file" => FoundNext(calls'[i].path, calls'[i].start)

LEMMA FoundStays ==
  ASSUME Types, MapOK, Grows
  PROVE  /\ \A i \in DOMAIN calls : calls[i].task = "file" => FoundNext(calls[i].path, calls[i].start)
         /\ \A m \in begun : InNext(rangeOf'[m], m)
         /\ InNext(0, BuiltinFile)
         /\ AllItemsNext(decls) /\ AllItemsNext(imports) /\ AllItemsNext(exported)
<1>1. \A i \in DOMAIN calls : calls[i].task = "file" => FoundNext(calls[i].path, calls[i].start)
  BY DEF MapOK, FoundNext, Grows, Extends
<1>2. \A m \in begun : InNext(rangeOf'[m], m)
  BY InFileStays DEF MapOK, Grows
<1>3. InNext(0, BuiltinFile)
  BY InFileStays DEF MapOK
<1>4. AllItemsNext(decls) /\ AllItemsNext(imports) /\ AllItemsNext(exported)
  BY InFileStays DEF MapOK, ItemsIn, AllItemsNext
<1> QED  BY <1>1, <1>2, <1>3, <1>4

LEMMA CallsFoundKept ==
  ASSUME Types, MapOK, Grows, calls # <<>>
  PROVE  /\ UNCHANGED calls => CallsFound
         /\ \A t, a : (t = "file" <=> Top.task = "file") /\ Moves(t, a) => CallsFound
         /\ Pops => CallsFound
         /\ Includes /\ Top.task = "file" /\ FoundNext(Included, CurrPos) => CallsFound
         /\ Loads /\ FoundNext(Imported, CurrPos) => CallsFound
<1>1. /\ Len(calls) \in DOMAIN calls /\ DOMAIN calls = 1..Len(calls) /\ Top = calls[Len(calls)]
      /\ Len(calls) \in Nat \ {0}
  BY TopCall
<1>2. \A i \in DOMAIN calls : calls[i].task = "file" => FoundNext(calls[i].path, calls[i].start)
  BY FoundStays
<1>3. UNCHANGED calls => CallsFound
  BY <1>2 DEF CallsFound
<1>4. ASSUME NEW t, NEW a, t = "file" <=> Top.task = "file", Moves(t, a)  PROVE CallsFound
  BY <1>1, <1>2, <1>4 DEF CallsFound, Moves
<1>5. Pops => CallsFound
  BY <1>1, <1>2 DEF CallsFound, Pops
<1>6. ASSUME Includes, Top.task = "file", FoundNext(Included, CurrPos)  PROVE CallsFound
  BY <1>1, <1>2, <1>6 DEF CallsFound, Includes
<1>7. ASSUME Loads, FoundNext(Imported, CurrPos)  PROVE CallsFound
  <2>1. /\ ModuleCall(Imported).task = "tables"
        /\ FileCall(Imported, Imported, 0, CurrPos).path = Imported
        /\ FileCall(Imported, Imported, 0, CurrPos).start = CurrPos
    BY DEF ModuleCall, FileCall
  <2> QED  BY <1>1, <1>2, <1>7, <2>1 DEF CallsFound, Loads
<1> QED  BY <1>3, <1>4, <1>5, <1>6, <1>7

LEMMA MapParts ==
  ASSUME Types, MapOK, Grows, CallsFound \/ UNCHANGED calls,
         /\ \A i, j \in DOMAIN sources' : i < j => sources'[i].end <= sources'[j].start
         /\ \A i \in DOMAIN sources' : sources'[i].start <= sources'[i].end,
         \A m \in begun' : InNext(rangeOf'[m], m),
         AllItemsNext(decls') /\ AllItemsNext(imports') /\ AllItemsNext(exported')
  PROVE  MapOK'
<1>1. \A i \in DOMAIN calls' : calls'[i].task = "file" => FoundNext(calls'[i].path, calls'[i].start)
  BY FoundStays DEF CallsFound
<1>2. code' = code
  BY DEF Grows
<1>3. InNext(0, BuiltinFile)
  BY FoundStays
<1> QED  BY <1>1, <1>2, <1>3 DEF MapOK, InFile, InNext, FoundNext, ItemsIn, AllItemsNext

LEMMA MapStep ==
  ASSUME Types, MapOK, Grows, [Next]_vars
  PROVE  MapOK'
<1>1. ASSUME sources' = sources, begun' = begun
      PROVE  /\ \A i, j \in DOMAIN sources' : i < j => sources'[i].end <= sources'[j].start
             /\ \A i \in DOMAIN sources' : sources'[i].start <= sources'[i].end
             /\ \A m \in begun' : InNext(rangeOf'[m], m)
  BY <1>1, FoundStays DEF MapOK
<1>2. ASSUME UNCHANGED <<decls, imports, exported>>
      PROVE  AllItemsNext(decls') /\ AllItemsNext(imports') /\ AllItemsNext(exported')
  BY <1>2, FoundStays
<1>3. CASE UNCHANGED Rest \/ Descend
  <2>1. UNCHANGED <<calls, sources, begun, decls, imports, exported>>
    BY <1>3 DEF Rest, Descend, modules, stmts
  <2> QED  BY <1>1, <1>2, <2>1, MapParts
<1>4. CASE StageStep
  <2>1. PICK t, a : t # "file" /\ Moves(t, a)
    BY <1>4, StageMoves
  <2>2. /\ calls # <<>> /\ Top.task # "file"
        /\ UNCHANGED <<sources, begun, decls, imports, exported>>
    BY <1>4, StageMoves
  <2>3. CallsFound
    BY <2>1, <2>2, CallsFoundKept
  <2> QED  BY <1>1, <1>2, <2>2, <2>3, MapParts
<1>5. CASE ReadDecl \/ ReadImport \/ ReadExport
  <2>1. calls # <<>> /\ Top.task = "file" /\ Moves("file", Top.at + 1) /\ UNCHANGED <<sources, begun>>
    BY <1>5, ReadMoves
  <2>2. CallsFound
    BY <2>1, CallsFoundKept
  <2> QED  BY <1>1, <1>5, <2>1, <2>2, ReadMap, MapParts
<1>6. CASE EndOfFile \/ FinishModule
  <2>1. Pops /\ calls # <<>>
    BY <1>6, MoveSteps DEF EndOfFile, FinishModule, InStage, Types
  <2>2. UNCHANGED <<sources, begun, decls, imports, exported>>
    BY <1>6 DEF EndOfFile, FinishModule, modules, stmts
  <2>3. CallsFound
    BY <2>1, CallsFoundKept
  <2> QED  BY <1>1, <1>2, <2>2, <2>3, MapParts
<1>7. CASE Include
  <2>1. Includes /\ calls # <<>> /\ Top.task = "file" /\ Included \in DOMAIN code
    BY <1>7, IncludeStep
  <2>2. AddSource(Included) /\ UNCHANGED <<begun, decls, imports, exported>>
    BY <1>7 DEF Include, modules, stmts
  <2>3. FoundNext(Included, CurrPos)
    BY <2>1, <2>2, MapOnAdd DEF FoundNext
  <2>4. CallsFound
    BY <2>1, <2>3, CallsFoundKept
  <2>5. \A m \in begun' : InNext(rangeOf'[m], m)
    BY <2>2, FoundStays
  <2> QED  BY <1>2, <2>1, <2>2, <2>4, <2>5, MapOnAdd, MapParts
<1>8. CASE LoadModule
  <2>1. Loads /\ calls # <<>> /\ Imported \in DOMAIN code
    BY <1>8, LoadStep
  <2>2. /\ AddSource(Imported) /\ UNCHANGED <<decls, imports, exported>>
        /\ begun' = begun \cup {Imported} /\ rangeOf' = [rangeOf EXCEPT ![Imported] = CurrPos]
    BY <1>8 DEF LoadModule, stmts
  <2>3. FoundNext(Imported, CurrPos) /\ InNext(CurrPos, Imported)
    BY <2>1, <2>2, MapOnAdd DEF FoundNext
  <2>4. CallsFound
    BY <2>1, <2>3, CallsFoundKept
  <2>5. rangeOf'[Imported] = CurrPos
    BY <2>1, <2>2, NewSource DEF Types, TypeOK
  <2>6. \A m \in begun' : InNext(rangeOf'[m], m)
    BY <2>2, <2>3, <2>5, FoundStays
  <2> QED  BY <1>2, <2>1, <2>2, <2>4, <2>6, MapOnAdd, MapParts
<1>9. Refusal \/ UNCHANGED <<Rest, phase, error>> => UNCHANGED Rest
  BY RefusalEnds
<1> QED  BY <1>3, <1>4, <1>5, <1>6, <1>7, <1>8, <1>9, StepCases DEF StageStep

-----------------------------------------------------------------------------
(*                                The tables                               *)

LEMMA InstallTables ==
  ASSUME Types, Install
  PROVE  \E d \in Names, s \in SymbolRec :
           /\ d = decl.name /\ s = DeclSymbol /\ scope[M][d] = None
           /\ scope' = Put(scope, M, d, s)
           /\ exports' = exports \/ exports' = Put(exports, M, d, s)
<1>1. decl.name \in Names /\ DeclSymbol \in SymbolRec
  BY InstallingTypes DEF Install, DeclRec
<1> QED  BY <1>1 DEF Install, Put

(* A stage writes the tables of its own module only. *)
LEMMA OtherTables ==
  ASSUME Types, SymbolsOK, StageStep
  PROVE  M \in Path /\ \A m \in Path \ {M} : scope'[m] = scope[m] /\ exports'[m] = exports[m]
<1>1. M \in Path /\ scope \in [Path -> Table] /\ exports \in [Path -> Table]
  BY StageMoves, TopCall DEF M, Types, TypeOK
<1>2. CASE MakeTables
  BY <1>1, <1>2 DEF MakeTables
<1>3. CASE Install
  <2>1. PICK d \in Names, s \in SymbolRec :
          /\ scope' = Put(scope, M, d, s)
          /\ exports' = exports \/ exports' = Put(exports, M, d, s)
    BY <1>3, InstallTables
  <2>2. \A k \in Path \ {M} : Put(scope, M, d, s)[k] = scope[k]
    BY <1>1, TableSet
  <2>3. \A k \in Path \ {M} : Put(exports, M, d, s)[k] = exports[k]
    BY <1>1, TableSet
  <2> QED  BY <1>1, <2>1, <2>2, <2>3
<1>4. CASE Import
  BY <1>1, <1>4 DEF Import
<1>5. CASE EndDecls \/ EndImports \/ LookupExport
  BY <1>1, <1>5 DEF EndDecls, EndImports, LookupExport, tables
<1>6. CASE Export
  BY <1>1, <1>6 DEF Export
<1> QED  BY <1>1, <1>2, <1>3, <1>4, <1>5, <1>6 DEF StageStep

(* The innermost module's own tables, at its next stage. *)
LEMMA OwnTables ==
  ASSUME Types, SymbolsOK, TablesOK, StageStep
  PROVE  /\ calls'[Len(calls)].task # "tables"
         /\ calls'[Len(calls)].task = "decls" =>
              \A n \in Names : exports'[M][n] \in {None, scope'[M][n]}
<1>1. /\ calls # <<>> /\ Len(calls) \in DOMAIN calls /\ Top = calls[Len(calls)] /\ M = Top.mod /\ M \in Path
  BY StageMoves, TopCall DEF M
<1>2. CASE MakeTables
  <2>1. Top.task = "tables" /\ Moves("decls", 1) /\ exports' = exports
    BY <1>2, MoveSteps DEF MakeTables, InStage
  <2>2. exports[M] = NoNames
    BY <1>1, <2>1 DEF TablesOK, Empty
  <2> QED  BY <2>1, <2>2 DEF NoNames, Moves
<1>3. CASE Install
  <2>1. Top.task = "decls" /\ Moves("decls", Top.at + 1)
    BY <1>3, MoveSteps DEF Install, InStage
  <2>2. \A n \in Names : exports[M][n] \in {None, scope[M][n]}
    BY <1>1, <2>1 DEF TablesOK
  <2>3. scope \in [Path -> Table] /\ exports \in [Path -> Table]
    BY DEF Types, TypeOK
  <2>4. PICK d \in Names, s \in SymbolRec :
          /\ scope[M][d] = None /\ scope' = Put(scope, M, d, s)
          /\ exports' = exports \/ exports' = Put(exports, M, d, s)
    BY <1>3, InstallTables
  <2>5. \A n \in Names : scope'[M][n] = IF n = d THEN s ELSE scope[M][n]
    <3>1. \A k \in Path, o \in Names : Put(scope, M, d, s)[k][o] = IF k = M /\ o = d THEN s ELSE scope[k][o]
      BY <1>1, <2>3, TableSet
    <3> QED  BY <1>1, <2>4, <3>1
  <2>6. \A n \in Names : exports'[M][n] = exports[M][n] \/ (n = d /\ exports'[M][n] = s)
    <3>1. \A k \in Path, o \in Names : Put(exports, M, d, s)[k][o] = IF k = M /\ o = d THEN s ELSE exports[k][o]
      BY <1>1, <2>3, TableSet
    <3> QED  BY <1>1, <2>4, <3>1
  <2> QED  BY <2>1, <2>2, <2>4, <2>5, <2>6 DEF Moves
<1>4. CASE Import
  BY <1>4, MoveSteps DEF Moves
<1>5. CASE EndDecls
  BY <1>5, MoveSteps DEF Moves
<1>6. CASE EndImports \/ Export
  BY <1>6, MoveSteps DEF Moves
<1>7. CASE LookupExport
  BY <1>7, MoveSteps DEF Moves
<1> QED  BY <1>2, <1>3, <1>4, <1>5, <1>6, <1>7 DEF StageStep

LEMMA TablesStep ==
  ASSUME Types, CallsOK, SymbolsOK, TablesOK, [Next]_vars
  PROVE  TablesOK'
<1>1. CASE StageStep
  <2>1. PICK t, a : Moves(t, a)
    BY <1>1, StageMoves
  <2>2. /\ calls # <<>> /\ Len(calls) \in DOMAIN calls /\ Top = calls[Len(calls)] /\ M = Top.mod /\ M \in begun
        /\ Top.task # "file" /\ Len(calls) \in ModuleCalls
        /\ \A i \in DOMAIN calls : calls[i].mod \in Path
    BY <1>1, StageMoves, TopCall DEF M, ModuleCalls
  <2>3. begun' = begun
    BY <1>1, StageMoves
  <2>5. \A i \in DOMAIN calls : i # Len(calls) /\ calls[i].task # "file" => calls[i].mod # M
    BY <2>2 DEF CallsOK, ModuleCalls
  <2>6. ASSUME NEW i \in DOMAIN calls', calls'[i].task \in {"tables", "decls"}
        PROVE  /\ calls'[i].task = "tables" => scope'[calls'[i].mod] = NoNames /\ exports'[calls'[i].mod] = NoNames
               /\ calls'[i].task = "decls" =>
                    \A n \in Names : exports'[calls'[i].mod][n] \in {None, scope'[calls'[i].mod][n]}
    <3>1. CASE i = Len(calls)
      <4>1. calls'[i].mod = M
        BY <2>1, <2>2, <3>1 DEF Moves
      <4> QED  BY <1>1, <3>1, <4>1, OwnTables
    <3>2. CASE i # Len(calls)
      <4>1. i \in DOMAIN calls /\ calls'[i] = calls[i]
        BY <2>1, <3>2 DEF Moves
      <4>2. calls[i].mod \in Path \ {M}
        BY <2>2, <2>5, <2>6, <3>2, <4>1
      <4>3. scope'[calls[i].mod] = scope[calls[i].mod] /\ exports'[calls[i].mod] = exports[calls[i].mod]
        BY <1>1, <4>2, OtherTables
      <4> QED  BY <4>1, <4>3 DEF TablesOK, Empty
    <3> QED  BY <3>1, <3>2
  <2>7. \A m \in Path \ begun' : scope'[m] = NoNames /\ exports'[m] = NoNames
    BY <2>2, <2>3, <1>1, OtherTables DEF TablesOK, Empty
  <2> QED  BY <2>6, <2>7 DEF TablesOK, Empty
<1>2. CASE ReadDecl \/ ReadImport \/ ReadExport
  <2>1. Moves("file", Top.at + 1) /\ UNCHANGED <<scope, exports, begun>>
    BY <1>2, ReadMoves
  <2> QED  BY <2>1 DEF Moves, TablesOK, Empty
<1>3. CASE EndOfFile \/ FinishModule
  <2>1. Pops /\ UNCHANGED <<scope, exports, begun>>
    BY <1>3, MoveSteps DEF EndOfFile, FinishModule, tables, modules
  <2> QED  BY <2>1 DEF Pops, TablesOK, Empty
<1>4. CASE Include
  <2>1. Includes /\ UNCHANGED <<scope, exports, begun>>
    BY <1>4, IncludeStep DEF Include, modules, tables
  <2> QED  BY <2>1 DEF Includes, TablesOK, Empty
<1>5. CASE LoadModule
  <2>1. Loads /\ UNCHANGED <<scope, exports>> /\ begun' = begun \cup {Imported} /\ Imported \in Path \ begun
    BY <1>5, LoadStep, ImportingTypes DEF LoadModule, tables
  <2>2. Empty(Imported)
    BY <2>1 DEF TablesOK
  <2>3. /\ ModuleCall(Imported).task = "tables" /\ ModuleCall(Imported).mod = Imported
        /\ FileCall(Imported, Imported, 0, CurrPos).task = "file"
    BY DEF ModuleCall, FileCall
  <2> QED  BY <2>1, <2>2, <2>3 DEF Loads, TablesOK, Empty
<1>6. CASE UNCHANGED Rest \/ Descend
  <2>1. UNCHANGED <<calls, begun, scope, exports>>
    BY <1>6 DEF Rest, Descend, modules, tables
  <2> QED  BY <2>1 DEF TablesOK, Empty
<1>7. Refusal \/ UNCHANGED <<Rest, phase, error>> => UNCHANGED Rest
  BY RefusalEnds
<1> QED  BY <1>1, <1>2, <1>3, <1>4, <1>5, <1>6, <1>7, StepCases DEF StageStep

-----------------------------------------------------------------------------
(*                               The symbols                               *)

(* What a module that is done exports may be held anywhere. *)
LEMMA ExportedWell ==
  ASSUME Types, SymbolsOK, NEW k \in Path, k \in Done, NEW n \in Names, exports[k][n] # None, NEW m
  PROVE  Well(exports[k][n], m)
<1>1. Well(exports[k][n], k)
  BY DEF SymbolsOK
<1>2. exports[k][n].home = k => ExportedAtHome(exports[k][n])
  BY DEF ExportedAtHome
<1> QED  BY <1>1, <1>2 DEF Well

LEMMA BroughtWell ==
  ASSUME Types, MapOK, SymbolsOK, CanBind, NEW b \in Brought, b.sym # None
  PROVE  Well(b.sym, M)
<1>1. /\ Importing /\ M \in Path /\ Top.at \in DOMAIN imports[M] /\ Imported \in Path /\ Imported \in Done
      /\ Imported = ImportedFrom(M, imports[M][Top.at].path)
  BY ImportingTypes DEF CanBind, IsCyclic, Done
<1>2. CASE ForNamespace(b)
  BY <1>1, <1>2, BroughtInFile DEF ForNamespace, Well
<1>3. CASE FromExports(b)
  BY <1>1, <1>3, ExportedWell DEF FromExports
<1> QED  BY <1>1, <1>2, <1>3, BroughtTypes

LEMMA DeclWell ==
  ASSUME Types, MapOK, Install
  PROVE  Well(DeclSymbol, M)
<1>1. /\ M \in Path /\ Top.at \in DOMAIN decls[M] /\ decl = decls[M][Top.at]
      /\ DeclSymbol.home = M /\ DeclSymbol.via = 0 /\ DeclSymbol.pos = decl.pos /\ DeclSymbol.file = decl.file
  BY InstallingTypes DEF Install
<1>2. InFile(decl.pos, decl.file)
  BY <1>1 DEF MapOK, ItemsIn
<1> QED  BY <1>1, <1>2 DEF Well

LEMMA BuiltinWell ==
  ASSUME MapOK, NEW n, NEW m
  PROVE  Well(BuiltinSymbol(n), m)
BY DEF BuiltinSymbol, MapOK, Well

WellTable(t, m) == \A n \in Names : t[n] # None => Well(t[n], m)

LEMMA ScopeWell ==
  ASSUME Types, MapOK, SymbolsOK, [Next]_vars
  PROVE  \A m \in Path : WellTable(scope'[m], m)
<1>1. \A m \in Path : WellTable(scope[m], m)
  BY DEF SymbolsOK, WellTable
<1>2. scope \in [Path -> Table]
  BY DEF Types, TypeOK
<1>3. CASE MakeTables
  <2> DEFINE t == [n \in Names |-> IF n \in Builtins THEN BuiltinSymbol(n) ELSE None]
  <2>1. WellTable(t, M)
    BY BuiltinWell DEF WellTable
  <2>2. scope' = [scope EXCEPT ![M] = t]
    BY <1>3 DEF MakeTables
  <2> HIDE DEF t
  <2> QED  BY <1>1, <1>2, <2>1, <2>2
<1>4. CASE Install
  <2>1. PICK d \in Names, s \in SymbolRec : s = DeclSymbol /\ scope' = Put(scope, M, d, s)
    BY <1>4, InstallTables
  <2>2. M \in Path /\ Well(s, M)
    BY <1>4, <2>1, DeclWell, InstallingTypes DEF Install
  <2>3. \A k \in Path, o \in Names : Put(scope, M, d, s)[k][o] = IF k = M /\ o = d THEN s ELSE scope[k][o]
    BY <1>2, <2>2, TableSet
  <2> QED  BY <1>1, <2>1, <2>2, <2>3 DEF WellTable
<1>5. CASE Import
  <2>1. CanBind /\ \A b \in Brought : ~Fails(b) => b.sym # None
    BY <1>5 DEF Import, Fails
  <2>2. \A b \in Brought : ~Fails(b) => Well(b.sym, M)
    BY <2>1, BroughtWell
  <2> QED  BY <1>1, <1>5, <2>2, ImportScope DEF WellTable
<1>6. CASE UNCHANGED scope
  BY <1>1, <1>6
<1>7. ReadDecl \/ ReadImport \/ ReadExport \/ Include \/ EndOfFile \/ EndDecls \/ LoadModule \/ EndImports
        \/ LookupExport \/ Descend \/ Export \/ FinishModule => UNCHANGED scope
  BY DEF ReadDecl, ReadImport, ReadExport, ReadOn, Include, EndOfFile, EndDecls, LoadModule, EndImports,
         LookupExport, Descend, Export, FinishModule, tables
<1>8. Refusal \/ UNCHANGED <<Rest, phase, error>> => UNCHANGED scope
  BY RefusalEnds DEF Rest
<1> QED  BY <1>3, <1>4, <1>5, <1>6, <1>7, <1>8, StepCases

LEMMA ExportsWell ==
  ASSUME Types, MapOK, SymbolsOK, [Next]_vars
  PROVE  \A m \in Path : WellTable(exports'[m], m)
<1>1. \A m \in Path : WellTable(exports[m], m)
  BY DEF SymbolsOK, WellTable
<1>2. exports \in [Path -> Table]
  BY DEF Types, TypeOK
<1>3. ASSUME NEW d \in Names, NEW s \in SymbolRec, M \in Path, Well(s, M), exports' = Put(exports, M, d, s)
      PROVE  \A m \in Path : WellTable(exports'[m], m)
  <2>1. \A k \in Path, o \in Names : Put(exports, M, d, s)[k][o] = IF k = M /\ o = d THEN s ELSE exports[k][o]
    BY <1>2, <1>3, TableSet
  <2> QED  BY <1>1, <1>3, <2>1 DEF WellTable
<1>4. CASE Install
  <2>1. PICK d \in Names, s \in SymbolRec :
          s = DeclSymbol /\ (exports' = exports \/ exports' = Put(exports, M, d, s))
    BY <1>4, InstallTables
  <2>2. M \in Path /\ Well(s, M)
    BY <1>4, <2>1, DeclWell, InstallingTypes DEF Install
  <2> QED  BY <1>1, <1>3, <2>1, <2>2
<1>5. CASE Export
  <2>1. /\ M \in Path /\ ExportName \in Names /\ chain.sym \in SymbolRec /\ calls # <<>> /\ Top.task = "names"
        /\ exports' = Put(exports, M, ExportName, chain.sym)
    BY <1>5, NamingTypes DEF Export, LookedUp, Types, Put
  <2>2. Well(chain.sym, M)
    BY <1>5, <2>1 DEF SymbolsOK, Export
  <2> QED  BY <1>3, <2>1, <2>2
<1>6. CASE UNCHANGED exports
  BY <1>1, <1>6
<1>7. ReadDecl \/ ReadImport \/ ReadExport \/ Include \/ EndOfFile \/ MakeTables \/ EndDecls \/ LoadModule
        \/ Import \/ EndImports \/ LookupExport \/ Descend \/ FinishModule => UNCHANGED exports
  BY DEF ReadDecl, ReadImport, ReadExport, ReadOn, Include, EndOfFile, MakeTables, EndDecls, LoadModule, Import,
         EndImports, LookupExport, Descend, FinishModule, tables
<1>8. Refusal \/ UNCHANGED <<Rest, phase, error>> => UNCHANGED exports
  BY RefusalEnds DEF Rest
<1> QED  BY <1>4, <1>5, <1>6, <1>7, <1>8, StepCases

(* The lookup of an export goes on in modules that are done. *)
LookupWell(c) == c.task = "names" => c.at <= Len(exported[c.mod]) /\ (chain'.sym # None => Well(chain'.sym, c.mod))

LEMMA ChainWell ==
  ASSUME Types, CallsOK, SymbolsOK, [Next]_vars, calls' # <<>>
  PROVE  LookupWell(calls'[Len(calls')])
<1>1. CASE UNCHANGED <<calls, chain>>
  <2>1. calls # <<>> /\ calls'[Len(calls')] = Top
    BY <1>1 DEF Top
  <2> QED  BY <1>1, <2>1 DEF SymbolsOK, LookupWell, M
<1>2. CASE LookupExport
  <2>1. /\ calls # <<>> /\ Top = calls[Len(calls)] /\ M = Top.mod /\ M \in Path /\ Moves("names", Top.at)
        /\ Top.at <= Len(exported[M]) /\ Head(exp.idents) \in Names
    BY <1>2, MoveSteps, ExportingTypes, TopCall DEF LookupExport
  <2>2. chain'.sym = scope[M][Head(exp.idents)]
    BY <1>2 DEF LookupExport
  <2>3. chain'.sym # None => Well(chain'.sym, M)
    BY <2>1, <2>2 DEF SymbolsOK
  <2> QED  BY <2>1, <2>3 DEF Moves, LookupWell
<1>3. CASE Descend
  <2>1. calls' = calls /\ Descending /\ chain.sym.via # 0 /\ NativeName(NsImport, Head(chain.rest)) # None
    BY <1>3 DEF Descend
  <2> DEFINE k == ImportedFrom(chain.sym.home, NsImport.path)  n == NativeName(NsImport, Head(chain.rest))
  <2>2. calls # <<>> /\ Top.task = "names" /\ k \in Path /\ k \in Done /\ n \in Names
    BY <2>1, DescendingTypes
  <2>3. chain'.sym = exports[k][n]
    BY <1>3 DEF Descend
  <2> HIDE DEF k, n
  <2>4. chain'.sym # None => Well(chain'.sym, M)
    BY <2>2, <2>3, ExportedWell
  <2>5. calls'[Len(calls')] = Top /\ Top.at <= Len(exported[M])
    BY <2>1, <2>2 DEF Top, SymbolsOK
  <2> QED  BY <2>4, <2>5 DEF LookupWell, M
<1>4. ASSUME NEW t \in {"file", "decls", "imports", "exports"}, NEW a, Moves(t, a)
      PROVE  LookupWell(calls'[Len(calls')])
  BY <1>4 DEF Moves, LookupWell
<1>5. CASE EndOfFile \/ FinishModule
  <2>1. Pops /\ calls # <<>>
    BY <1>5, MoveSteps DEF EndOfFile, FinishModule, InStage, Types
  <2>2. Len(calls) \in Nat \ {0} /\ DOMAIN calls = 1..Len(calls) /\ DOMAIN calls' = 1..Len(calls')
    BY <2>1, TopCall DEF Pops
  <2>3. Len(calls) - 1 \in DOMAIN calls' /\ calls'[Len(calls')] = calls[Len(calls) - 1]
    <3>1. calls' \in Seq(Call) /\ Len(calls') = Len(calls) - 1
      BY <2>1 DEF Pops
    <3>2. Len(calls') # 0
      BY <3>1
    <3>3. Len(calls') \in DOMAIN calls' /\ Len(calls') = Len(calls) - 1
      BY <2>2, <3>1, <3>2
    <3> QED  BY <2>1, <3>3 DEF Pops
  <2>4. Len(calls) \in DOMAIN calls /\ Len(calls) # 1
    BY <2>2, <2>3
  <2>5. calls[Len(calls) - 1].task # "names"
    BY <2>4 DEF CallsOK, ModuleCalls, AtImportOf
  <2> QED  BY <2>3, <2>5 DEF LookupWell
<1>6. Include => LookupWell(calls'[Len(calls')])
  BY IncludeStep DEF Includes, LookupWell
<1>7. ASSUME LoadModule  PROVE LookupWell(calls'[Len(calls')])
  <2>1. calls'[Len(calls')] = FileCall(Imported, Imported, 0, CurrPos)
    BY <1>7, LoadStep DEF Loads
  <2> QED  BY <2>1 DEF FileCall, LookupWell
<1>8. Refusal \/ UNCHANGED <<Rest, phase, error>> => UNCHANGED <<calls, chain>>
  BY RefusalEnds DEF Rest
<1> QED  BY <1>1, <1>2, <1>3, <1>4, <1>5, <1>6, <1>7, <1>8, StepCases, MoveSteps

(* After the step. *)
WellNext(sym, m) ==
  /\ sym.home \in {m, BuiltinFile} \cup Done'
  /\ sym.home \notin {m, BuiltinFile} => \E n \in Names : exports'[sym.home][n] = sym
  /\ InNext(sym.pos, sym.file)
  /\ sym.via # 0 => /\ sym.home \in Path /\ sym.via \in DOMAIN imports'[sym.home]
                    /\ ImportedFrom(sym.home, imports'[sym.home][sym.via].path) \in Done'

LEMMA WellStays ==
  ASSUME Types, Grows, NEW sym, NEW m, sym # None, Well(sym, m)
  PROVE  WellNext(sym, m)
<1>1. Done \subseteq Done' /\ Done \subseteq Path
  BY LoaderAssumption DEF Grows, Done, Types, TypeOK
<1>2. sym.home \notin {m, BuiltinFile} => \E n \in Names : exports'[sym.home][n] = sym
  BY <1>1 DEF Well, ExportedAtHome, Grows
<1>3. InNext(sym.pos, sym.file)
  BY InFileStays DEF Well
<1>4. sym.via # 0 => /\ sym.home \in Path /\ sym.via \in DOMAIN imports'[sym.home]
                     /\ ImportedFrom(sym.home, imports'[sym.home][sym.via].path) \in Done'
  BY <1>1 DEF Well, Grows, Extends
<1> QED  BY <1>1, <1>2, <1>3, <1>4 DEF Well, WellNext

LEMMA SymbolsStep ==
  ASSUME Types, CallsOK, MapOK, SymbolsOK, Types', Grows, [Next]_vars
  PROVE  SymbolsOK'
<1>1. ASSUME NEW m \in Path, NEW n \in Names
      PROVE  /\ scope'[m][n] # None => WellNext(scope'[m][n], m)
             /\ exports'[m][n] # None => WellNext(exports'[m][n], m)
  BY ScopeWell, ExportsWell, WellStays DEF WellTable
<1>2. ASSUME calls' # <<>>, Top'.task = "names"
      PROVE  Top'.at <= Len(exported'[Top'.mod]) /\ (chain'.sym # None => WellNext(chain'.sym, Top'.mod))
  <2>1. Top' = calls'[Len(calls')]
    BY DEF Top
  <2>2. Top'.at <= Len(exported[Top'.mod]) /\ (chain'.sym # None => Well(chain'.sym, Top'.mod))
    BY <1>2, <2>1, ChainWell DEF LookupWell
  <2>3. Top'.mod \in Path /\ Top'.at \in Nat
    <3>1. calls' \in Seq(Call) /\ calls' # <<>>
      BY <1>2 DEF Types, TypeOK
    <3>2. calls'[Len(calls')] \in Call
      BY <3>1
    <3> QED  BY <2>1, <3>2 DEF Call
  <2>4. Len(exported[Top'.mod]) <= Len(exported'[Top'.mod])
    <3>1. ASSUME NEW s \in Seq(ExportRec), NEW t \in Seq(ExportRec), Extends(s, t)  PROVE Len(s) <= Len(t)
      <4>1. s # <<>> => Len(s) \in DOMAIN t
        BY <3>1 DEF Extends
      <4> QED  BY <4>1
    <3>2. exported[Top'.mod] \in Seq(ExportRec) /\ exported'[Top'.mod] \in Seq(ExportRec)
      BY <2>3 DEF Types
    <3>3. Extends(exported[Top'.mod], exported'[Top'.mod])
      BY <2>3 DEF Grows
    <3> QED  BY <3>1, <3>2, <3>3
  <2>5. Len(exported[Top'.mod]) \in Nat /\ Len(exported'[Top'.mod]) \in Nat
    <3>1. exported[Top'.mod] \in Seq(ExportRec) /\ exported'[Top'.mod] \in Seq(ExportRec)
      BY <2>3 DEF Types
    <3> QED  BY <3>1
  <2>6. Top'.at <= Len(exported'[Top'.mod])
    BY <2>2, <2>3, <2>4, <2>5
  <2> QED  BY <2>2, <2>6, WellStays
<1> QED  BY <1>1, <1>2 DEF SymbolsOK, Well, WellNext, ExportedAtHome, InFile, InNext, M

-----------------------------------------------------------------------------
(*                                The errors                               *)

LEMMA LoadsOn ==
  ASSUME Types, StageStep \/ ReadDecl \/ ReadImport \/ ReadExport \/ Include \/ EndOfFile \/ LoadModule
                  \/ Descend \/ FinishModule
  PROVE  phase = "loading" /\ phase' \in {"loading", "entry"} /\ error' = error
<1>1. StageStep => phase = "loading" /\ phase' = phase /\ error' = error
  BY StageMoves
<1>2. ReadDecl \/ ReadImport \/ ReadExport => phase = "loading" /\ phase' = phase /\ error' = error
  BY ReadMoves
<1> QED  BY <1>1, <1>2 DEF Include, Reading, EndOfFile, LoadModule, Importing, Descend, Descending, InStage, FinishModule

LEMMA ErrorStep ==
  ASSUME Types, MapOK, SymbolsOK, ErrorOK, [Next]_vars
  PROVE  ErrorOK'
<1>1. CASE UNCHANGED <<Rest, phase, error>>
  BY <1>1 DEF Rest, ErrorOK, HasFile, EndsAfter, InFile
<1>2. CASE Refusal
  <2>1. phase \in {"loading", "entry"} /\ phase' \in Terminal /\ sources' = sources
    BY <1>2, RefusalEnds DEF Rest
  <2>2. error = None
    BY <2>1 DEF ErrorOK
  <2>3. CASE error' = error /\ phase' # "error"
    BY <2>2, <2>3 DEF ErrorOK
  <2>4. CASE ErrorSet
    <3>1. PICK p, f : (\E why : Refuse(why, p, f)) /\ InFile(p, f)
      BY <2>4 DEF ErrorSet
    <3>2. error'.pos = p /\ error'.file = f /\ phase' = IF HasFile(p) THEN "error" ELSE "aborted"
      BY <3>1 DEF Refuse
    <3> QED  BY <2>1, <3>1, <3>2 DEF ErrorOK, HasFile, EndsAfter, InFile
  <2> QED  BY <1>2, <2>3, <2>4, RefusalInFile
<1>3. CASE StageStep \/ ReadDecl \/ ReadImport \/ ReadExport \/ Include \/ EndOfFile \/ LoadModule
             \/ Descend \/ FinishModule
  BY <1>3, LoadsOn DEF ErrorOK
<1> QED  BY <1>1, <1>2, <1>3, StepCases DEF StageStep

-----------------------------------------------------------------------------
(*                             The invariant                               *)

Core == Types /\ CallsOK /\ MapOK /\ SymbolsOK /\ TablesOK /\ ErrorOK

LEMMA InitCore == Init => Core
<1> SUFFICES ASSUME Init  PROVE Core
  OBVIOUS
<1> DEFINE c == ModuleCall(MainFile)  d == FileCall(MainFile, MainFile, 0, 1)
           s == Source(BuiltinFile, 0, 1)  t == Source(MainFile, 1, Len(code[MainFile]))
<1>1. /\ code \in Programs /\ MainFile \in DOMAIN code /\ DOMAIN code \subseteq Path /\ MainFile \in Path
      /\ code[MainFile] \in Seq(Stmt) /\ Len(code[MainFile]) \in Nat /\ BuiltinFile \notin Path
  BY LoaderAssumption DEF Init
<1>2. /\ c \in Call /\ c.task = "tables" /\ c.path = MainFile /\ c.mod = MainFile
      /\ d \in Call /\ d.task = "file" /\ d.path = MainFile /\ d.mod = MainFile /\ d.start = 1
  BY <1>1 DEF ModuleCall, FileCall, Call
<1>3. /\ s \in SourceRec /\ s.path = BuiltinFile /\ s.start = 0 /\ s.end = 1
      /\ t \in SourceRec /\ t.path = MainFile /\ t.start = 1 /\ t.end = 1 + Len(code[MainFile])
  BY <1>1 DEF Source, SourceRec, Home
<1>4. calls = <<c, d>> /\ sources = <<s, t>> /\ phase = "loading" /\ error = None
  BY DEF Init
<1>5. t = Source(MainFile, d.start, Len(code[d.path]))
  BY <1>2
<1> HIDE DEF c, d, s, t
<1>6. /\ calls \in Seq(Call) /\ Len(calls) = 2 /\ calls # <<>> /\ DOMAIN calls = {1, 2}
      /\ calls[1] = c /\ calls[2] = d
  BY <1>2, <1>4
<1>7. /\ sources \in Seq(SourceRec) /\ DOMAIN sources = {1, 2} /\ sources[1] = s /\ sources[2] = t
  BY <1>3, <1>4
<1>8. /\ seen = {} /\ begun = {MainFile} /\ parsing = {MainFile}
      /\ rangeOf = [m \in Path |-> IF m = MainFile THEN 1 ELSE 0]
      /\ decls = [m \in Path |-> <<>>] /\ imports = [m \in Path |-> <<>>] /\ exported = [m \in Path |-> <<>>]
      /\ scope = [m \in Path |-> NoNames] /\ exports = [m \in Path |-> NoNames]
      /\ chain.sym = None /\ chain.rest = <<>>
  BY DEF Init
<1>9. Types
  <2>1. rangeOf \in [Path -> Nat]
    BY <1>8
  <2>2. scope \in [Path -> Table] /\ exports \in [Path -> Table]
    BY <1>8 DEF NoNames, Table
  <2>3. /\ decls \in [Path -> Seq(DeclRec)] /\ imports \in [Path -> Seq(ImportRec)]
        /\ exported \in [Path -> Seq(ExportRec)]
    BY <1>8
  <2>4. \A i \in DOMAIN sources :
          sources[i].path \in Home /\ sources[i].start <= sources[i].end /\ sources[i].end \in Nat
    BY <1>1, <1>3, <1>7 DEF Home
  <2>5. \A i \in DOMAIN calls : calls[i].path \in DOMAIN code /\ calls[i].mod \in begun
    BY <1>1, <1>2, <1>6, <1>8
  <2>6. chain.sym \in SymbolRec \cup {None} /\ chain.rest \in Seq(Names)
    BY <1>8
  <2> QED  BY <1>1, <1>4, <1>6, <1>7, <1>8, <2>1, <2>2, <2>3, <2>4, <2>5, <2>6 DEF Types, TypeOK
<1>10. CallsOK
  <2>1. ModuleCalls = {1}
    BY <1>2, <1>6 DEF ModuleCalls
  <2> QED  BY <1>2, <1>6, <1>8, <2>1 DEF CallsOK
<1>11. MapOK
  <2>1. \A i, j \in DOMAIN sources : i < j => sources[i].end <= sources[j].start
    BY <1>3, <1>7
  <2>2. InFile(0, BuiltinFile) /\ InFile(1, MainFile)
    BY <1>1, <1>3, <1>7 DEF InFile
  <2>3. \A i \in DOMAIN calls : calls[i].task = "file" =>
          \E k \in DOMAIN sources : sources[k] = Source(calls[i].path, calls[i].start, Len(code[calls[i].path]))
    BY <1>2, <1>5, <1>6, <1>7
  <2>4. \A m \in Path : ItemsIn(decls[m]) /\ ItemsIn(imports[m]) /\ ItemsIn(exported[m])
    BY <1>8 DEF ItemsIn
  <2> QED  BY <1>1, <1>3, <1>7, <1>8, <2>1, <2>2, <2>3, <2>4 DEF MapOK
<1>12. SymbolsOK
  BY <1>2, <1>6, <1>8 DEF SymbolsOK, NoNames, Top
<1>13. TablesOK
  <2>1. \A m \in Path : Empty(m)
    BY <1>8 DEF Empty
  <2>2. \A i \in DOMAIN calls : calls[i].mod = MainFile /\ calls[i].task # "decls"
    BY <1>2, <1>6
  <2> QED  BY <1>1, <2>1, <2>2 DEF TablesOK
<1> QED  BY <1>4, <1>9, <1>10, <1>11, <1>12, <1>13 DEF Core, ErrorOK

LEMMA CoreStep == Core /\ [Next]_vars => Core'
<1> SUFFICES ASSUME Core, [Next]_vars  PROVE Core'
  OBVIOUS
<1>1. Types /\ CallsOK /\ MapOK /\ SymbolsOK /\ TablesOK /\ ErrorOK
  BY DEF Core
<1>2. Grows
  BY <1>1, Growing
<1>3. Types'
  BY <1>1, TypesStep
<1> QED  BY <1>1, <1>2, <1>3, CallsStep, MapStep, SymbolsStep, TablesStep, ErrorStep DEF Core

THEOREM CoreInvariant == Spec => []Core
BY InitCore, CoreStep, PTL DEF Spec

-----------------------------------------------------------------------------
(* The modules with is_parsing are the stack of parse_module calls, each at
   an import of the next (src/compiler.c:880-1063, :849-862). *)
THEOREM ParsingIsACall == Spec => []LoadingIsACall
<1>1. Core => LoadingIsACall
  BY DEF Core, Types, CallsOK, LoadingIsACall
<1> QED  BY <1>1, CoreInvariant, PTL

(* A declaration is bound in another module, or looked up for an export,
   only when its own module exports it (module_add_global_sym,
   src/ast/module.c:1734-1766; src/compiler.c:953-1054). *)
THEOREM PrivateStaysHome == Spec => []OnlyExportedLeaves
<1>1. Core => OnlyExportedLeaves
  <2> SUFFICES ASSUME Core, NEW m \in begun, NEW n \in Names, NEW sym \in {scope[m][n], exports[m][n]} \ {None},
                      sym.home \notin {m, BuiltinFile}
               PROVE  ExportedAtHome(sym)
    BY DEF OnlyExportedLeaves
  <2>1. m \in Path
    BY LoaderAssumption DEF Core, Types, TypeOK
  <2>2. Well(sym, m)
    BY <2>1 DEF Core, SymbolsOK
  <2> QED  BY <2>2 DEF Well
<1> QED  BY <1>1, CoreInvariant, PTL

(* Files do not overlap in the line of positions, so the first that ends
   after an error's position is the file the error is about (print_error,
   src/compiler.c:101-104). *)
THEOREM ErrorsFindTheirFile == Spec => []ErrorsInTheirFile
<1>1. Core => ErrorsInTheirFile
  <2> SUFFICES ASSUME Core, phase = "error", error.pos \notin EndOf(error.file)
               PROVE  FileAt(error.pos) = error.file
    BY DEF ErrorsInTheirFile
  <2> DEFINE p == error.pos  First(i) == EndsAfter(i, p) /\ \A j \in 1..(i - 1) : ~EndsAfter(j, p)
  <2>1. PICK i \in DOMAIN sources : sources[i].path = error.file /\ p \in sources[i].start..sources[i].end
    BY DEF Core, ErrorOK, InFile
  <2>2. sources[i].end \in EndOf(error.file)
    BY <2>1 DEF EndOf
  <2>3. /\ DOMAIN sources = 1..Len(sources) /\ Len(sources) \in Nat
        /\ \A k \in DOMAIN sources : sources[k].start \in Nat /\ sources[k].end \in Nat
    <3>1. sources \in Seq(SourceRec)
      BY DEF Core, Types
    <3>2. \A k \in DOMAIN sources : sources[k] \in SourceRec
      BY <3>1
    <3> QED  BY <3>1, <3>2 DEF SourceRec
  <2>4. p \in Nat /\ p >= sources[i].start /\ p < sources[i].end
    BY <2>1, <2>2, <2>3
  <2>5. \A j, k \in DOMAIN sources : j < k => sources[j].end <= sources[k].start
    BY DEF Core, MapOK
  <2>6. First(i)
    <3>1. ASSUME NEW j \in 1..(i - 1)  PROVE ~(p < sources[j].end)
      <4>1. j \in DOMAIN sources /\ j < i
        BY <2>1, <2>3, <3>1
      <4>2. sources[j].end <= sources[i].start
        BY <2>1, <2>5, <4>1
      <4> QED  BY <2>3, <2>4, <4>1, <4>2
    <3> QED  BY <2>4, <3>1 DEF EndsAfter
  <2>7. \A k \in DOMAIN sources : First(k) => k = i
    BY <2>1, <2>3, <2>6
  <2> HIDE DEF First
  <2>8. (CHOOSE k \in DOMAIN sources : First(k)) = i
    BY <2>1, <2>6, <2>7
  <2> QED  BY <2>1, <2>8 DEF FileAt, First
<1> QED  BY <1>1, CoreInvariant, PTL

(* A name keeps its meaning, but for what was imported or built in, which a
   namespace of the module can replace (module_add_global_sym,
   src/ast/module.c:1734-1766). *)
NameKept(m, n) ==
  scope[m][n] # None /\ scope'[m][n] # scope[m][n] =>
    scope[m][n].home # m /\ scope'[m][n].home = m /\ scope'[m][n].via # 0

THEOREM NamesAreKept == Spec => NamesStay
<1>1. ASSUME Core, [Next]_vars, NEW m \in Path, NEW n \in Names  PROVE NameKept(m, n)
  <2>1. Types /\ CallsOK /\ SymbolsOK /\ TablesOK
    BY <1>1 DEF Core
  <2>2. scope \in [Path -> Table]
    BY <2>1 DEF Types, TypeOK
  <2>3. CASE MakeTables
    <3>1. /\ calls # <<>> /\ Top.task = "tables" /\ M \in Path /\ M = Top.mod /\ Top = calls[Len(calls)]
          /\ Len(calls) \in DOMAIN calls
      BY <2>1, <2>3, TopCall DEF MakeTables, InStage, Types, M
    <3>2. scope[M] = NoNames
      BY <2>1, <3>1 DEF TablesOK, Empty
    <3>3. \A k \in Path \ {M} : scope'[k] = scope[k]
      BY <2>2, <2>3 DEF MakeTables
    <3> QED  BY <3>2, <3>3 DEF NameKept, NoNames
  <2>4. CASE Install
    <3>1. PICK d \in Names, s \in SymbolRec : scope[M][d] = None /\ scope' = Put(scope, M, d, s)
      BY <2>1, <2>4, InstallTables
    <3>2. M \in Path
      BY <2>1, <2>4, InstallingTypes DEF Install
    <3>3. \A k \in Path, o \in Names : Put(scope, M, d, s)[k][o] = IF k = M /\ o = d THEN s ELSE scope[k][o]
      BY <2>2, <3>2, TableSet
    <3> QED  BY <3>1, <3>3 DEF NameKept
  <2>5. CASE Import
    <3>1. scope'[m][n] = scope[m][n] \/ (m = M /\ \E b \in Brought : b.name = n /\ ~Fails(b) /\ scope'[m][n] = b.sym)
      BY <2>1, <2>5, ImportScope
    <3>2. ASSUME m = M, NEW b \in Brought, b.name = n, ~Fails(b), scope'[m][n] = b.sym,
                 scope[m][n] # None, scope'[m][n] # scope[m][n]
          PROVE  scope[m][n].home # m /\ b.sym.home = m /\ b.sym.via # 0
      <4>1. b.sym # None /\ b.sym.home = m /\ scope[m][n].home # m
        BY <3>2 DEF Fails, Clashes
      <4>2. /\ Importing /\ Imported \in Done /\ Imported \in Path /\ calls # <<>> /\ Top = calls[Len(calls)]
            /\ Len(calls) \in DOMAIN calls /\ Top.task = "imports" /\ M = Top.mod /\ Top \in Call
        BY <2>1, <2>5, ImportingTypes, TopCall DEF Import, CanBind, IsCyclic, Done
      <4>3. m \in parsing /\ m # BuiltinFile
        BY <2>1, <3>2, <4>2, LoaderAssumption DEF CallsOK, ModuleCalls
      <4>4. CASE ForNamespace(b)
        BY <4>1, <4>2, <4>4 DEF ForNamespace, Call
      <4>5. CASE FromExports(b)
        <5>1. Well(b.sym, Imported)
          BY <2>1, <4>1, <4>2, <4>5 DEF FromExports, SymbolsOK
        <5>2. m # Imported /\ m \notin Done
          BY <4>2, <4>3 DEF Done
        <5> QED  BY <4>1, <4>3, <5>1, <5>2 DEF Well
      <4> QED  BY <2>1, <4>1, <4>2, <4>4, <4>5, BroughtTypes
    <3> QED  BY <3>1, <3>2 DEF NameKept
  <2>6. UNCHANGED scope => NameKept(m, n)
    BY DEF NameKept
  <2>7. ReadDecl \/ ReadImport \/ ReadExport \/ Include \/ EndOfFile \/ EndDecls \/ LoadModule \/ EndImports
          \/ LookupExport \/ Descend \/ Export \/ FinishModule => UNCHANGED scope
    BY DEF ReadDecl, ReadImport, ReadExport, ReadOn, Include, EndOfFile, EndDecls, LoadModule, EndImports,
           LookupExport, Descend, Export, FinishModule, tables
  <2>8. Refusal \/ UNCHANGED <<Rest, phase, error>> => UNCHANGED scope
    BY RefusalEnds DEF Rest
  <2> QED  BY <1>1, <2>3, <2>4, <2>5, <2>6, <2>7, <2>8, StepCases
<1>2. Core /\ [Next]_vars =>
        [\A m \in Path, n \in Names :
           LET old == scope[m][n]  new == scope'[m][n] IN
           old # None /\ new # old => old.home # m /\ new.home = m /\ new.via # 0]_vars
  BY <1>1 DEF NameKept
<1> QED  BY <1>2, CoreInvariant, PTL DEF Spec, NamesStay

-----------------------------------------------------------------------------
(*                          The graph of imports                           *)

LEMMA Programs_ ==
  ASSUME NEW p \in Programs, NEW f \in DOMAIN p
  PROVE  f \in Path /\ p[f] \in Seq(Stmt) /\ \A j \in DOMAIN p[f] : p[f][j] \in Stmt
BY LoaderAssumption

LEMMA UnitHolds ==
  ASSUME NEW p \in Programs, NEW m \in DOMAIN p
  PROVE  /\ m \in Unit(p, m) /\ Unit(p, m) \subseteq DOMAIN p
         /\ \A f \in Unit(p, m) : IncludedBy(p, f) \subseteq Unit(p, m)
<1>1. m \in Unit(p, m) /\ Unit(p, m) \subseteq DOMAIN p
  BY DEF Unit, Units
<1>2. ASSUME NEW f \in Unit(p, m), NEW g \in IncludedBy(p, f)  PROVE g \in Unit(p, m)
  <2>1. g \in DOMAIN p
    BY DEF IncludedBy
  <2>2. \A S \in Units(p, m) : f \in S
    BY DEF Unit
  <2>3. \A S \in Units(p, m) : g \in S
    BY <2>2 DEF Units
  <2> QED  BY <2>1, <2>3 DEF Unit
<1> QED  BY <1>1, <1>2

LEMMA UnitLeast ==
  ASSUME NEW p \in Programs, NEW m, NEW S \in SUBSET DOMAIN p, m \in S,
         \A f \in S : IncludedBy(p, f) \subseteq S
  PROVE  Unit(p, m) \subseteq S
BY DEF Unit, Units

LEMMA ImportsTypes ==
  ASSUME NEW p \in Programs, NEW m \in Path
  PROVE  ImportsOf(p, m) \subseteq Path
<1> SUFFICES ASSUME NEW f \in Unit(p, m), NEW i \in Kind(p, f, "import")
             PROVE  ImportedFrom(m, p[f][i].path) \in Path
  BY DEF ImportsOf
<1>1. f \in DOMAIN p /\ i \in DOMAIN p[f] /\ p[f][i].kind = "import"
  BY DEF Unit, Kind
<1>2. p[f][i] \in Stmt
  BY <1>1, Programs_
<1> QED  BY <1>1, <1>2, StmtTypes, TargetPath

LEMMA ReachImports ==
  ASSUME NEW p \in Programs, NEW m \in Path
  PROVE  /\ ImportsOf(p, m) \subseteq ImportsReach(p, m)
         /\ \A k \in ImportsReach(p, m) : k \in Path /\ ImportsOf(p, k) \subseteq ImportsReach(p, m)
<1>1. ImportsOf(p, m) \subseteq ImportsReach(p, m)
  BY ImportsTypes DEF ImportsReach, Reaches
<1>2. ASSUME NEW k \in ImportsReach(p, m), NEW l \in ImportsOf(p, k)  PROVE k \in Path /\ l \in ImportsReach(p, m)
  <2>1. k \in Path /\ \A S \in Reaches(p, m) : k \in S
    BY DEF ImportsReach
  <2>2. l \in Path
    BY <2>1, ImportsTypes
  <2>3. \A S \in Reaches(p, m) : l \in S
    BY <2>1 DEF Reaches
  <2> QED  BY <2>1, <2>2, <2>3 DEF ImportsReach
<1>3. ImportsReach(p, m) \subseteq Path
  BY DEF ImportsReach
<1> QED  BY <1>1, <1>2, <1>3

LEMMA ReachThrough ==
  ASSUME NEW p \in Programs, NEW m \in Path, NEW k \in ImportsOf(p, m)
  PROVE  ImportsReach(p, k) \subseteq ImportsReach(p, m)
<1>1. \A S \in Reaches(p, m) : S \in Reaches(p, k)
  BY DEF Reaches
<1> QED  BY <1>1 DEF ImportsReach

(* What a module imports: the files being read are its own, so what is
   recorded is what it imports, and it reaches the modules being loaded
   for it. *)
FilesOfUnit == \A i \in DOMAIN calls : calls[i].task = "file" => calls[i].path \in Unit(code, calls[i].mod)
ImportsRecorded ==
  \A m \in Path : \A k \in DOMAIN imports[m] : ImportedFrom(m, imports[m][k].path) \in ImportsOf(code, m)
CallsReach == \A i, j \in ModuleCalls : i < j => calls[j].mod \in ImportsReach(code, calls[i].mod)
UnitsOK == FilesOfUnit /\ ImportsRecorded /\ CallsReach

LEMMA FilesOfUnitStep ==
  ASSUME Types, FilesOfUnit, [Next]_vars, code' = code
  PROVE  \A i \in DOMAIN calls' : calls'[i].task = "file" => calls'[i].path \in Unit(code, calls'[i].mod)
<1>1. calls # <<>> => Len(calls) \in Nat \ {0} /\ DOMAIN calls = 1..Len(calls) /\ Top = calls[Len(calls)]
  BY TopCall
<1>2. CASE UNCHANGED calls
  BY <1>2 DEF FilesOfUnit
<1>3. ASSUME NEW t, NEW a, Moves(t, a), calls # <<>>, t = "file" <=> Top.task = "file"
      PROVE  \A i \in DOMAIN calls' : calls'[i].task = "file" => calls'[i].path \in Unit(code, calls'[i].mod)
  BY <1>1, <1>3 DEF Moves, FilesOfUnit
<1>4. CASE StageStep
  BY <1>3, <1>4, StageMoves
<1>5. CASE ReadDecl \/ ReadImport \/ ReadExport
  BY <1>3, <1>5, ReadMoves
<1>6. CASE EndOfFile \/ FinishModule
  BY <1>6, MoveSteps DEF Pops, FilesOfUnit
<1>7. CASE Include
  <2>1. Includes /\ calls # <<>> /\ Top.task = "file" /\ Included \in DOMAIN code
    BY <1>7, IncludeStep
  <2>2. Top.path \in Unit(code, Top.mod) /\ Top.mod \in DOMAIN code
    <3>1. Len(calls) \in DOMAIN calls /\ Top.mod \in begun /\ Top = calls[Len(calls)]
      BY <1>1, <2>1, TopCall
    <3>2. begun \subseteq DOMAIN code
      BY DEF Types, TypeOK
    <3> QED  BY <2>1, <3>1, <3>2 DEF FilesOfUnit
  <2>3. Included \in IncludedBy(code, Top.path)
    <3>1. Reading /\ stmt.kind = "include"
      BY <1>7 DEF Include
    <3>2. Top.at \in DOMAIN code[Top.path] /\ stmt = code[Top.path][Top.at]
      BY <2>1, <3>1, ReadingTypes, TopCall
    <3> QED  BY <2>1, <3>1, <3>2 DEF IncludedBy, Kind, Included
  <2>4. Included \in Unit(code, Top.mod)
    BY <2>2, <2>3, UnitHolds DEF Types
  <2> QED  BY <1>1, <2>1, <2>2, <2>4 DEF Includes, FilesOfUnit
<1>8. CASE LoadModule
  <2>1. Loads /\ Imported \in DOMAIN code
    BY <1>8, LoadStep
  <2>2. Imported \in Unit(code, Imported)
    BY <2>1, UnitHolds DEF Types
  <2>3. /\ ModuleCall(Imported).task = "tables" /\ FileCall(Imported, Imported, 0, CurrPos).path = Imported
        /\ FileCall(Imported, Imported, 0, CurrPos).mod = Imported
    BY DEF ModuleCall, FileCall
  <2> QED  BY <2>1, <2>2, <2>3 DEF Loads, FilesOfUnit
<1>9. Descend \/ Refusal \/ UNCHANGED <<Rest, phase, error>> => UNCHANGED calls
  BY RefusalEnds DEF Rest, Descend
<1> QED  BY <1>2, <1>4, <1>5, <1>6, <1>7, <1>8, <1>9, StepCases DEF StageStep

LEMMA ImportsRecordedStep ==
  ASSUME Types, FilesOfUnit, ImportsRecorded, [Next]_vars
  PROVE  \A m \in Path : \A k \in DOMAIN imports'[m] : ImportedFrom(m, imports'[m][k].path) \in ImportsOf(code, m)
<1>1. CASE UNCHANGED imports
  BY <1>1 DEF ImportsRecorded
<1>2. CASE ReadImport
  <2>1. /\ Reading /\ calls # <<>> /\ Top.task = "file" /\ Top.mod \in Path /\ stmt.kind = "import"
        /\ Len(calls) \in DOMAIN calls /\ Top = calls[Len(calls)]
        /\ Top.at \in DOMAIN code[Top.path] /\ stmt = code[Top.path][Top.at]
    BY <1>2, ReadMoves, ReadingTypes, TopCall DEF ReadImport
  <2>2. PICK r \in ImportRec : imports' = Kept(imports, Top.mod, r) /\ r.path = stmt.path
    BY <1>2, <2>1, ReadRecords DEF ReadImport, Keep, Kept
  <2>3. ImportedFrom(Top.mod, r.path) \in ImportsOf(code, Top.mod)
    BY <2>1, <2>2 DEF FilesOfUnit, ImportsOf, Kind
  <2>4. imports \in [Path -> Seq(ImportRec)]
    BY DEF Types
  <2>5. /\ \A k \in Path : k # Top.mod => imports'[k] = imports[k]
        /\ imports'[Top.mod] = Append(imports[Top.mod], r) /\ imports[Top.mod] \in Seq(ImportRec)
    BY <2>1, <2>2, <2>4, KeepExtends DEF Kept
  <2>6. \A k \in DOMAIN imports'[Top.mod] :
          imports'[Top.mod][k] = r \/ (k \in DOMAIN imports[Top.mod] /\ imports'[Top.mod][k] = imports[Top.mod][k])
    BY <2>5
  <2> QED  BY ZenonT(40), <2>1, <2>3, <2>5, <2>6 DEF ImportsRecorded
<1>3. ReadDecl \/ ReadExport \/ Include \/ EndOfFile \/ MakeTables \/ Install \/ EndDecls \/ LoadModule \/ Import
        \/ EndImports \/ LookupExport \/ Descend \/ Export \/ FinishModule => UNCHANGED imports
  BY DEF ReadDecl, ReadExport, Include, EndOfFile, MakeTables, Install, EndDecls, LoadModule, Import,
         EndImports, LookupExport, Descend, Export, FinishModule, stmts
<1>4. Refusal \/ UNCHANGED <<Rest, phase, error>> => UNCHANGED imports
  BY RefusalEnds DEF Rest
<1> QED  BY <1>1, <1>2, <1>3, <1>4, StepCases

LEMMA CallsReachStep ==
  ASSUME Types, CallsOK, ImportsRecorded, CallsReach, Grows, [Next]_vars
  PROVE  \A i, j \in ModuleCalls' : i < j => calls'[j].mod \in ImportsReach(code, calls'[i].mod)
<1>1. calls # <<>> => Len(calls) \in Nat \ {0} /\ DOMAIN calls = 1..Len(calls) /\ Top = calls[Len(calls)]
  BY TopCall
<1>2. ModuleCalls \subseteq DOMAIN calls
  BY DEF ModuleCalls
<1>3. ASSUME ModuleCalls' \subseteq ModuleCalls, \A i \in ModuleCalls' : calls'[i].mod = calls[i].mod
      PROVE  \A i, j \in ModuleCalls' : i < j => calls'[j].mod \in ImportsReach(code, calls'[i].mod)
  BY <1>3 DEF CallsReach
<1>4. CASE UNCHANGED calls
  BY <1>3, <1>4 DEF ModuleCalls
<1>5. ASSUME NEW t, NEW a, Moves(t, a), calls # <<>>, t = "file" <=> Top.task = "file", parsing' = parsing
      PROVE  \A i, j \in ModuleCalls' : i < j => calls'[j].mod \in ImportsReach(code, calls'[i].mod)
  <2>1. ModuleCalls' = ModuleCalls
    BY <1>5, CallsOnMove
  <2>2. \A i \in DOMAIN calls : calls'[i].mod = calls[i].mod
    BY <1>1, <1>5 DEF Moves
  <2> QED  BY <1>2, <1>3, <2>1, <2>2
<1>6. CASE StageStep
  <2>1. PICK t, a : t # "file" /\ Moves(t, a)
    BY <1>6, StageMoves
  <2>2. calls # <<>> /\ (t = "file" <=> Top.task = "file") /\ parsing' = parsing
    BY <1>6, <2>1, StageMoves
  <2> QED  BY <1>5, <2>1, <2>2
<1>7. CASE ReadDecl \/ ReadImport \/ ReadExport
  BY <1>5, <1>7, ReadMoves
<1>8. CASE EndOfFile \/ FinishModule
  <2>1. ModuleCalls' = ModuleCalls \ {Len(calls)} /\ Pops
    BY <1>8, CallsOnReturn, MoveSteps
  <2>2. ModuleCalls' \subseteq DOMAIN calls'
    BY DEF ModuleCalls
  <2>3. \A i \in DOMAIN calls' : calls'[i].mod = calls[i].mod
    BY <2>1 DEF Pops
  <2> QED  BY <1>3, <2>1, <2>2, <2>3
<1>9. CASE Include
  <2>1. ModuleCalls' = ModuleCalls /\ Includes /\ calls # <<>>
    BY <1>9, CallsOnInclude, IncludeStep
  <2>2. \A i \in DOMAIN calls : calls'[i].mod = calls[i].mod
    BY <1>1, <2>1 DEF Includes
  <2> QED  BY <1>2, <1>3, <2>1, <2>2
<1>10. CASE LoadModule
  <2>1. ModuleCalls' = ModuleCalls \cup {Len(calls) + 1} /\ Loads /\ calls # <<>> /\ Importing
    BY <1>10, CallsOnLoad, LoadStep DEF LoadModule
  <2>2. (\A i \in DOMAIN calls : calls'[i].mod = calls[i].mod) /\ calls'[Len(calls) + 1].mod = Imported
    BY <2>1 DEF Loads, ModuleCall
  <2>3. Imported \in ImportsOf(code, M) /\ M \in Path /\ M = Top.mod /\ Top.task = "imports"
    BY <2>1, ImportingTypes DEF ImportsRecorded
  <2>4. Len(calls) \in ModuleCalls
    BY <1>1, <2>1, <2>3 DEF ModuleCalls
  <2>5. ASSUME NEW i \in ModuleCalls  PROVE Imported \in ImportsReach(code, calls[i].mod)
    <3>1. calls[i].mod \in Path /\ i <= Len(calls)
      BY <1>1, <1>2, <2>1, TopCall
    <3>2. i = Len(calls) \/ M \in ImportsReach(code, calls[i].mod)
      BY <1>1, <1>2, <2>1, <2>3, <2>4, <3>1 DEF CallsReach
    <3>3. i = Len(calls) => ImportsOf(code, M) \subseteq ImportsReach(code, calls[i].mod)
      BY <1>1, <2>1, <2>3, ReachImports DEF Types
    <3>4. M \in ImportsReach(code, calls[i].mod) => ImportsOf(code, M) \subseteq ImportsReach(code, calls[i].mod)
      BY <3>1, ReachImports DEF Types
    <3> QED  BY <2>3, <3>2, <3>3, <3>4
  <2>6. ASSUME NEW i \in ModuleCalls', NEW j \in ModuleCalls', i < j
        PROVE  calls'[j].mod \in ImportsReach(code, calls'[i].mod)
    <3>1. CASE j \in ModuleCalls
      <4>1. i \in ModuleCalls
        BY <1>1, <1>2, <2>1, <2>6, <3>1
      <4> QED  BY <1>2, <2>2, <2>6, <3>1, <4>1 DEF CallsReach
    <3>2. CASE j = Len(calls) + 1
      <4>1. i \in ModuleCalls
        BY <1>1, <2>1, <2>6, <3>2
      <4> QED  BY <1>2, <2>2, <2>5, <3>2, <4>1
    <3> QED  BY <2>1, <3>1, <3>2
  <2> QED  BY <2>6
<1>11. Descend \/ Refusal \/ UNCHANGED <<Rest, phase, error>> => UNCHANGED calls
  BY RefusalEnds DEF Rest, Descend
<1> QED  BY <1>4, <1>6, <1>7, <1>8, <1>9, <1>10, <1>11, StepCases DEF StageStep

LEMMA UnitsStep ==
  ASSUME Types, CallsOK, UnitsOK, Grows, [Next]_vars
  PROVE  UnitsOK'
<1>1. code' = code
  BY DEF Grows
<1>2. FilesOfUnit /\ ImportsRecorded /\ CallsReach
  BY DEF UnitsOK
<1>3. FilesOfUnit'
  BY <1>1, <1>2, FilesOfUnitStep DEF FilesOfUnit
<1>4. ImportsRecorded'
  BY <1>1, <1>2, ImportsRecordedStep DEF ImportsRecorded
<1>5. CallsReach'
  BY <1>1, <1>2, CallsReachStep DEF CallsReach
<1> QED  BY <1>3, <1>4, <1>5 DEF UnitsOK

(* A module that does import itself. *)
LEMMA CycleFound ==
  ASSUME Types, CallsOK, UnitsOK, ImportCycle
  PROVE  M \in ImportsReach(code, M)
<1>1. /\ Importing /\ calls # <<>> /\ Top.task = "imports" /\ M = Top.mod /\ M \in Path
      /\ Imported \in parsing /\ Imported \in ImportsOf(code, M)
  BY ImportingTypes DEF ImportCycle, IsCyclic, UnitsOK, ImportsRecorded
<1>2. Len(calls) \in ModuleCalls /\ DOMAIN calls = 1..Len(calls) /\ Len(calls) \in Nat /\ M = calls[Len(calls)].mod
  BY <1>1, TopCall DEF ModuleCalls
<1>3. PICK i \in ModuleCalls : calls[i].mod = Imported
  BY <1>1 DEF CallsOK
<1>4. i \in DOMAIN calls
  BY DEF ModuleCalls
<1>5. i = Len(calls) \/ M \in ImportsReach(code, Imported)
  BY <1>2, <1>3, <1>4 DEF UnitsOK, CallsReach
<1>6. i = Len(calls) => M \in ImportsReach(code, M)
  BY <1>1, <1>2, <1>3, ReachImports DEF Types
<1>7. ImportsReach(code, Imported) \subseteq ImportsReach(code, M)
  BY <1>1, ReachThrough DEF Types
<1> QED  BY <1>5, <1>6, <1>7

LEMMA CyclicStep ==
  ASSUME Types, CallsOK, ErrorOK, UnitsOK, Grows, CyclicMeansCyclic, [Next]_vars
  PROVE  CyclicMeansCyclic'
<1>1. code' = code
  BY DEF Grows
<1>2. CASE UNCHANGED <<Rest, phase, error>>
  <2>1. M' = M
    BY <1>2 DEF Rest, M, Top
  <2> QED  BY <1>1, <1>2, <2>1 DEF CyclicMeansCyclic
<1>3. CASE ImportCycle
  <2>1. M' = M
    BY <1>3 DEF ImportCycle, Refuse, M, Top
  <2> QED  BY <1>1, <1>3, <2>1, CycleFound DEF CyclicMeansCyclic
<1>4. CASE Refusal /\ ~ImportCycle
  <2>1. error = None
    BY <1>4, RefusalEnds DEF ErrorOK
  <2>2. error' = error \/ error'.why # "cyclic import"
    <3> DEFINE Other == \E why \in Reasons \ {"cyclic import"} : \E p, f : Refuse(why, p, f)
    <3>1. ASSUME Other  PROVE error'.why # "cyclic import"
      <4>1. PICK why \in Reasons \ {"cyclic import"} : \E p, f : Refuse(why, p, f)
        BY <3>1
      <4>2. PICK p, f : Refuse(why, p, f)
        BY <4>1
      <4> QED  BY <4>1, <4>2 DEF Refuse
    <3> HIDE DEF Other
    <3>2. SyntaxError \/ BadInclude \/ Duplicate \/ ImportNoFile => Other
      BY DEF SyntaxError, BadInclude, IncludeError, RefuseHere, Duplicate, ImportNoFile, Other, Reasons
    <3>3. ImportError \/ NotANamespace \/ ExportError => Other
      BY DEF ImportError, NotANamespace, ExportError, RefuseExport, Other, Reasons
    <3>4. LookupNull => error' = error
      BY DEF LookupNull
    <3>5. FindMain => Other \/ error' = error
      BY DEF FindMain, Other, Reasons
    <3> QED  BY <1>4, <3>1, <3>2, <3>3, <3>4, <3>5 DEF Refusal
  <2> QED  BY <2>1, <2>2 DEF CyclicMeansCyclic
<1>5. CASE StageStep \/ ReadDecl \/ ReadImport \/ ReadExport \/ Include \/ EndOfFile \/ LoadModule
             \/ Descend \/ FinishModule
  BY <1>5, LoadsOn DEF ErrorOK, CyclicMeansCyclic
<1> QED  BY <1>2, <1>3, <1>4, <1>5, StepCases DEF StageStep

-----------------------------------------------------------------------------
(*                      Everything imported is loaded                      *)

(* Nothing a module imports is forgotten: of the files read, each statement
   is behind or ahead of a call; later every import is recorded, and those
   behind the stage of imports are of modules that are done. *)
Recorded(m, w) == \E k \in DOMAIN imports[m] : imports[m][k].path = w
Behind(m, f, j) ==
  /\ code[f][j].kind = "import" => Recorded(m, code[f][j].path)
  /\ code[f][j].kind = "include" => Target(f, code[f][j].path) \in seen \cup {m}
Ahead(f, j) == \E i \in DOMAIN calls : calls[i].task = "file" /\ calls[i].path = f /\ calls[i].at <= j
AllRead(m) ==
  \A f \in Unit(code, m) : \A j \in Kind(code, f, "import") : Recorded(m, code[f][j].path)
ImportedDone(m, n) ==
  \A k \in DOMAIN imports[m] : k < n => ImportedFrom(m, imports[m][k].path) \in Done

FilesOnTop == \A i \in DOMAIN calls \ ModuleCalls, k \in DOMAIN calls : i < k => calls[k].task = "file"
ReadSoFar ==
  calls # <<>> /\ Top.task \in {"file", "tables"} =>
    \A f \in seen \cup {M} : \A j \in DOMAIN code[f] : Behind(M, f, j) \/ Ahead(f, j)
StageOK(c) ==
  /\ c.task \notin {"file", "tables"} => AllRead(c.mod)
  /\ c.task = "imports" => ImportedDone(c.mod, c.at)
  /\ c.task \in {"exports", "names"} => ImportedDone(c.mod, Len(imports[c.mod]) + 1)
StagesOK == \A i \in DOMAIN calls : StageOK(calls[i])

(* After the step. *)
RecordedNext(m, w) == \E k \in DOMAIN imports'[m] : imports'[m][k].path = w
BehindNext(m, f, j) ==
  /\ code[f][j].kind = "import" => RecordedNext(m, code[f][j].path)
  /\ code[f][j].kind = "include" => Target(f, code[f][j].path) \in seen' \cup {m}
AheadNext(f, j) == \E i \in DOMAIN calls' : calls'[i].task = "file" /\ calls'[i].path = f /\ calls'[i].at <= j
AllReadNext(m) ==
  \A f \in Unit(code, m) : \A j \in Kind(code, f, "import") : RecordedNext(m, code[f][j].path)
DoneNext(m, n) ==
  \A k \in DOMAIN imports'[m] : k < n => ImportedFrom(m, imports'[m][k].path) \in Done'
StageNext(c) ==
  /\ c.task \notin {"file", "tables"} => AllReadNext(c.mod)
  /\ c.task = "imports" => DoneNext(c.mod, c.at)
  /\ c.task \in {"exports", "names"} => DoneNext(c.mod, Len(imports'[c.mod]) + 1)

LEMMA RecordedStays ==
  ASSUME Types, Grows, NEW m \in Path
  PROVE  /\ \A w : Recorded(m, w) => RecordedNext(m, w)
         /\ AllRead(m) => AllReadNext(m)
         /\ \A f, j : seen \subseteq seen' /\ Behind(m, f, j) => BehindNext(m, f, j)
         /\ \A n : imports'[m] = imports[m] /\ ImportedDone(m, n) => DoneNext(m, n)
<1>1. \A w : Recorded(m, w) => RecordedNext(m, w)
  BY DEF Recorded, RecordedNext, Grows, Extends
<1>2. AllRead(m) => AllReadNext(m)
  BY <1>1 DEF AllRead, AllReadNext
<1>3. \A f, j : seen \subseteq seen' /\ Behind(m, f, j) => BehindNext(m, f, j)
  BY <1>1 DEF Behind, BehindNext
<1>4. \A n : imports'[m] = imports[m] /\ ImportedDone(m, n) => DoneNext(m, n)
  BY DEF ImportedDone, DoneNext, Grows
<1> QED  BY <1>1, <1>2, <1>3, <1>4

LEMMA StageStays ==
  ASSUME Types, Grows, NEW c \in Call, StageOK(c), c.task \in {"file", "tables", "decls"} \/ imports'[c.mod] = imports[c.mod]
  PROVE  StageNext(c)
<1>1. c.mod \in Path
  BY DEF Call
<1> QED  BY <1>1, RecordedStays DEF StageOK, StageNext

LEMMA TopFile ==
  ASSUME Types, CallsOK, FilesOnTop, calls # <<>>
  PROVE  /\ Len(calls) \in Nat \ {0} /\ DOMAIN calls = 1..Len(calls) /\ Top = calls[Len(calls)] /\ Len(calls) \in DOMAIN calls
         /\ Top.task # "file" => \A i \in DOMAIN calls : calls[i].task # "file"
<1>1. Len(calls) \in Nat \ {0} /\ DOMAIN calls = 1..Len(calls) /\ Top = calls[Len(calls)] /\ Len(calls) \in DOMAIN calls
  BY TopCall
<1>2. ASSUME NEW i \in DOMAIN calls, calls[i].task = "file"  PROVE Top.task = "file"
  <2>1. i = Len(calls) \/ (i < Len(calls) /\ i \in DOMAIN calls \ ModuleCalls)
    BY <1>1, <1>2 DEF ModuleCalls
  <2> QED  BY <1>1, <1>2, <2>1 DEF FilesOnTop
<1> QED  BY <1>1, <1>2

LEMMA FilesOnTopStep ==
  ASSUME Types, CallsOK, FilesOnTop, [Next]_vars
  PROVE  FilesOnTop'
<1>1. CASE UNCHANGED calls
  BY <1>1 DEF FilesOnTop, ModuleCalls
<1>2. calls # <<>> => Len(calls) \in Nat \ {0} /\ DOMAIN calls = 1..Len(calls) /\ Top = calls[Len(calls)]
  BY TopCall
<1>3. ASSUME NEW t, NEW a, Moves(t, a), calls # <<>>, t = "file" <=> Top.task = "file"
      PROVE  FilesOnTop'
  <2>1. DOMAIN calls' = DOMAIN calls /\ \A i \in DOMAIN calls : calls'[i].task = "file" <=> calls[i].task = "file"
    BY <1>2, <1>3 DEF Moves
  <2> QED  BY <2>1 DEF FilesOnTop, ModuleCalls
<1>4. CASE StageStep
  BY <1>3, <1>4, StageMoves
<1>5. CASE ReadDecl \/ ReadImport \/ ReadExport
  BY <1>3, <1>5, ReadMoves
<1>6. CASE EndOfFile \/ FinishModule
  <2>1. DOMAIN calls' \subseteq DOMAIN calls /\ \A i \in DOMAIN calls' : calls'[i] = calls[i]
    BY <1>6, MoveSteps DEF Pops
  <2> QED  BY <2>1 DEF FilesOnTop, ModuleCalls
<1>7. CASE Include
  <2>1. Includes /\ calls # <<>> /\ Top.task = "file"
    BY <1>7, IncludeStep
  <2>2. /\ DOMAIN calls' = DOMAIN calls \cup {Len(calls) + 1} /\ calls'[Len(calls) + 1].task = "file"
        /\ \A i \in DOMAIN calls : calls'[i].task = calls[i].task
    BY <1>2, <2>1 DEF Includes
  <2>3. \A i \in DOMAIN calls, k \in DOMAIN calls' : i < k => k \in DOMAIN calls \/ k = Len(calls) + 1
    BY <2>2
  <2>4. \A k \in DOMAIN calls : ~(Len(calls) + 1 < k)
    BY <1>2, <2>1
  <2> QED  BY <2>2, <2>3, <2>4, <1>2, <2>1 DEF FilesOnTop, ModuleCalls
<1>8. CASE LoadModule
  <2>1. Loads /\ calls # <<>> /\ Top.task = "imports"
    BY <1>8, LoadStep, ImportingTypes DEF LoadModule
  <2>2. \A i \in DOMAIN calls : calls[i].task # "file"
    BY <2>1, TopFile
  <2>3. ModuleCall(Imported).task = "tables"
    BY DEF ModuleCall
  <2>4. DOMAIN calls' \ ModuleCalls' \subseteq {Len(calls) + 2} /\ \A k \in DOMAIN calls' : ~(Len(calls) + 2 < k)
    BY <1>2, <2>1, <2>2, <2>3 DEF Loads, ModuleCalls
  <2> QED  BY <2>4 DEF FilesOnTop
<1>9. Descend \/ Refusal \/ UNCHANGED <<Rest, phase, error>> => UNCHANGED calls
  BY RefusalEnds DEF Rest, Descend
<1> QED  BY <1>1, <1>4, <1>5, <1>6, <1>7, <1>8, <1>9, StepCases DEF StageStep

(* What is read in a step is behind, what is added ahead. *)
ReadNext == \A f \in seen' \cup {Top'.mod} : \A j \in DOMAIN code[f] : BehindNext(Top'.mod, f, j) \/ AheadNext(f, j)

LEMMA ReadOnRead ==
  ASSUME Types, CallsOK, ReadSoFar, Grows, ReadDecl \/ ReadImport \/ ReadExport
  PROVE  ReadNext
<1>1. /\ Reading /\ calls # <<>> /\ Top.task = "file" /\ Moves("file", Top.at + 1) /\ seen' = seen
      /\ Len(calls) \in DOMAIN calls /\ Top = calls[Len(calls)] /\ Top \in Call /\ Top.mod \in Path /\ M = Top.mod
      /\ stmt = code[Top.path][Top.at]
  BY ReadMoves, ReadingTypes, TopCall DEF M
<1>2. Top'.mod = M
  BY <1>1 DEF Moves, Top, M
<1>3. ASSUME NEW f \in seen \cup {M}, NEW j \in DOMAIN code[f], Behind(M, f, j)  PROVE BehindNext(M, f, j)
  BY <1>1, <1>3, RecordedStays
<1>4. BehindNext(M, Top.path, Top.at)
  <2>1. stmt.kind \in {"decl", "import", "export"}
    BY DEF ReadDecl, ReadImport, ReadExport
  <2>2. ASSUME stmt.kind = "import"  PROVE RecordedNext(M, stmt.path)
    <3>1. ReadImport
      BY <2>2 DEF ReadDecl, ReadImport, ReadExport
    <3>2. PICK r \in ImportRec : imports' = Kept(imports, M, r) /\ r.path = stmt.path
      BY <1>1, <3>1, ReadRecords DEF ReadImport, Keep, Kept
    <3>3. imports'[M] = Append(imports[M], r) /\ imports[M] \in Seq(ImportRec)
      BY <1>1, <3>2 DEF Kept, Types
    <3>4. Len(imports[M]) + 1 \in DOMAIN imports'[M] /\ imports'[M][Len(imports[M]) + 1] = r
      BY <3>3
    <3> QED  BY <3>2, <3>4 DEF RecordedNext
  <2> QED  BY <1>1, <2>1, <2>2 DEF BehindNext
<1>5. ASSUME NEW f \in seen \cup {M}, NEW j \in DOMAIN code[f], Ahead(f, j)
      PROVE  BehindNext(M, f, j) \/ AheadNext(f, j)
  <2>1. PICK i \in DOMAIN calls : calls[i].task = "file" /\ calls[i].path = f /\ calls[i].at <= j
    BY <1>5 DEF Ahead
  <2>2. CASE i # Len(calls)
    BY <1>1, <2>1, <2>2 DEF Moves, AheadNext
  <2>3. CASE i = Len(calls)
    <3>1. f = Top.path /\ Top.at <= j /\ f \in DOMAIN code
      BY <1>1, <2>1, <2>3, TopCall
    <3>2. j \in Nat /\ Top.at \in Nat
      BY <1>1, <3>1, TopCall DEF Call
    <3>3. j = Top.at \/ Top.at + 1 <= j
      BY <3>1, <3>2
    <3> QED  BY <1>1, <1>4, <2>1, <2>3, <3>1, <3>3 DEF Moves, AheadNext
  <2> QED  BY <2>2, <2>3
<1> QED  BY <1>1, <1>2, <1>3, <1>5 DEF ReadSoFar, ReadNext

LEMMA ReadOnInclude ==
  ASSUME Types, CallsOK, ReadSoFar, Grows, Include
  PROVE  ReadNext
<1>1. /\ Includes /\ Reading /\ calls # <<>> /\ Top.task = "file" /\ stmt.kind = "include"
      /\ seen' = seen \cup {Included}
      /\ DOMAIN calls = 1..Len(calls) /\ Len(calls) \in Nat \ {0} /\ Top = calls[Len(calls)] /\ Top.mod \in Path /\ M = Top.mod
      /\ stmt = code[Top.path][Top.at]
  BY IncludeStep, ReadingTypes, TopCall DEF Include, M
<1>2. Top'.mod = M
  BY <1>1 DEF Includes, Top, M
<1>3. ASSUME NEW f \in seen \cup {M}, NEW j \in DOMAIN code[f], Behind(M, f, j)  PROVE BehindNext(M, f, j)
  BY <1>1, <1>3, RecordedStays
<1>4. BehindNext(M, Top.path, Top.at)
  BY <1>1 DEF BehindNext, Included
<1>5. ASSUME NEW f \in seen \cup {M}, NEW j \in DOMAIN code[f], Ahead(f, j)
      PROVE  BehindNext(M, f, j) \/ AheadNext(f, j)
  <2>1. PICK i \in DOMAIN calls : calls[i].task = "file" /\ calls[i].path = f /\ calls[i].at <= j
    BY <1>5 DEF Ahead
  <2>2. CASE i # Len(calls)
    BY <1>1, <2>1, <2>2 DEF Includes, AheadNext
  <2>3. CASE i = Len(calls)
    <3>1. f = Top.path /\ Top.at <= j /\ f \in DOMAIN code
      BY <1>1, <2>1, <2>3, TopCall
    <3>2. j \in Nat /\ Top.at \in Nat
      BY <1>1, <3>1, TopCall DEF Call
    <3>3. j = Top.at \/ Top.at + 1 <= j
      BY <3>1, <3>2
    <3>4. Len(calls) \in DOMAIN calls'
      BY <1>1, <2>1, <2>3 DEF Includes
    <3> QED  BY <1>1, <1>4, <2>1, <2>3, <3>1, <3>3, <3>4 DEF Includes, AheadNext
  <2> QED  BY <2>2, <2>3
<1>6. ASSUME NEW j \in DOMAIN code[Included]  PROVE AheadNext(Included, j)
  <2>1. Included \in DOMAIN code /\ code[Included] \in Seq(Stmt)
    BY IncludeStep, Programs_ DEF Types
  <2>2. 1 <= j /\ Len(calls) + 1 \in DOMAIN calls'
    BY <1>1, <2>1 DEF Includes
  <2> QED  BY <1>1, <2>2 DEF Includes, AheadNext
<1> QED  BY <1>1, <1>2, <1>3, <1>5, <1>6 DEF ReadSoFar, ReadNext

LEMMA ReadOnReturn ==
  ASSUME Types, CallsOK, ReadSoFar, Grows, EndOfFile
  PROVE  ReadNext
<1>1. /\ Pops /\ calls # <<>> /\ Top.task = "file" /\ seen' = seen /\ Top.at > Len(code[Top.path])
      /\ DOMAIN calls = 1..Len(calls) /\ Len(calls) \in Nat \ {0} /\ Top = calls[Len(calls)] /\ Top \in Call
      /\ Top.mod \in Path /\ M = Top.mod /\ Top.path \in DOMAIN code /\ code[Top.path] \in Seq(Stmt)
  BY MoveSteps, TopCall DEF EndOfFile, Types, M, modules
<1>2. Top'.mod = M
  <2>1. Len(calls) \in DOMAIN calls \ ModuleCalls
    BY <1>1 DEF ModuleCalls
  <2>2. Len(calls) # 1 /\ calls[Len(calls) - 1].mod = M
    BY <1>1, <2>1 DEF CallsOK
  <2>3. Len(calls') = Len(calls) - 1 /\ Len(calls') \in DOMAIN calls'
    BY <1>1, <2>2 DEF Pops
  <2>4. Top' = calls[Len(calls) - 1]
    BY <1>1, <2>3 DEF Pops, Top
  <2> QED  BY <2>2, <2>4
<1>3. ASSUME NEW f \in seen \cup {M}, NEW j \in DOMAIN code[f], Behind(M, f, j)  PROVE BehindNext(M, f, j)
  BY <1>1, <1>3, RecordedStays
<1>4. ASSUME NEW f \in seen \cup {M}, NEW j \in DOMAIN code[f], Ahead(f, j)  PROVE AheadNext(f, j)
  <2>1. PICK i \in DOMAIN calls : calls[i].task = "file" /\ calls[i].path = f /\ calls[i].at <= j
    BY <1>4 DEF Ahead
  <2>2. i # Len(calls)
    <3> SUFFICES ASSUME i = Len(calls)  PROVE FALSE
      OBVIOUS
    <3>1. f = Top.path /\ Top.at <= j /\ j \in 1..Len(code[Top.path])
      BY <1>1, <2>1
    <3> QED  BY <1>1, <3>1 DEF Call
  <2> QED  BY <1>1, <2>1, <2>2 DEF Pops, AheadNext
<1> QED  BY <1>1, <1>2, <1>3, <1>4 DEF ReadSoFar, ReadNext

LEMMA ReadOnLoad ==
  ASSUME Types, Grows, LoadModule
  PROVE  ReadNext
<1>1. Loads /\ calls # <<>> /\ Imported \in DOMAIN code /\ seen' = {} /\ Len(calls) \in Nat
  BY LoadStep, TopCall DEF LoadModule
<1>2. /\ calls'[Len(calls) + 2] = FileCall(Imported, Imported, 0, CurrPos)
      /\ Len(calls') = Len(calls) + 2 /\ Len(calls) + 2 \in DOMAIN calls'
  BY <1>1 DEF Loads
<1>3. Top'.mod = Imported
  BY <1>2 DEF Top, FileCall
<1>4. ASSUME NEW j \in DOMAIN code[Imported]  PROVE AheadNext(Imported, j)
  <2>1. code[Imported] \in Seq(Stmt)
    BY <1>1, Programs_ DEF Types
  <2>2. 1 <= j
    BY <2>1
  <2> QED  BY <1>2, <2>2 DEF AheadNext, FileCall
<1> QED  BY <1>1, <1>3, <1>4 DEF ReadNext

LEMMA ReadSoFarStep ==
  ASSUME Types, CallsOK, ReadSoFar, Grows, [Next]_vars, calls' # <<>>, Top'.task \in {"file", "tables"}
  PROVE  ReadNext
<1>1. CASE UNCHANGED <<calls, seen>>
  <2>1. calls # <<>> /\ Top' = Top /\ Top.mod \in Path
    BY <1>1, TopCall DEF Top
  <2>2. \A f \in seen \cup {M} : \A j \in DOMAIN code[f] : Behind(M, f, j) \/ Ahead(f, j)
    BY <1>1, <2>1 DEF ReadSoFar
  <2>3. \A f, j : Behind(M, f, j) => BehindNext(M, f, j)
    BY <1>1, <2>1, RecordedStays DEF M
  <2>4. \A f, j : Ahead(f, j) => AheadNext(f, j)
    BY <1>1 DEF Ahead, AheadNext
  <2> QED  BY <1>1, <2>1, <2>2, <2>3, <2>4 DEF ReadNext, M
<1>2. CASE StageStep
  <2>1. \E t \in {"decls", "imports", "exports", "names"} : \E a : Moves(t, a)
    BY <1>2, MoveSteps DEF StageStep
  <2>2. Top'.task \in {"decls", "imports", "exports", "names"}
    BY <2>1 DEF Moves, Top
  <2> QED  BY <2>2
<1>3. CASE FinishModule
  <2>1. /\ Pops /\ calls # <<>> /\ Top.task = "exports"
        /\ DOMAIN calls = 1..Len(calls) /\ Len(calls) \in Nat \ {0} /\ Top = calls[Len(calls)]
    BY <1>3, MoveSteps, TopCall DEF FinishModule, InStage, Types
  <2>2. Len(calls) # 1 /\ Len(calls) \in ModuleCalls
    <3>1. Len(calls') # 0
      BY <2>1 DEF Pops
    <3> QED  BY <2>1, <3>1 DEF Pops, ModuleCalls
  <2>3. calls[Len(calls) - 1].task = "imports"
    BY <2>2 DEF CallsOK, AtImportOf
  <2>4. Top' = calls[Len(calls) - 1]
    BY <2>1, <2>2 DEF Pops, Top
  <2> QED  BY <2>3, <2>4
<1>4. Descend \/ Refusal \/ UNCHANGED <<Rest, phase, error>> => UNCHANGED <<calls, seen>>
  BY RefusalEnds DEF Rest, Descend
<1> QED  BY <1>1, <1>2, <1>3, <1>4, StepCases, ReadOnRead, ReadOnInclude, ReadOnReturn, ReadOnLoad DEF StageStep

(* A module goes on from reading when all its files have been read, and from
   its imports when they have all been loaded. *)
LEMMA AllReadNow ==
  ASSUME Types, CallsOK, FilesOnTop, ReadSoFar, calls # <<>>, Top.task = "tables"
  PROVE  AllRead(M)
<1>1. \A f, j : ~Ahead(f, j)
  BY TopFile DEF Ahead
<1>2. M \in DOMAIN code /\ seen \cup {M} \in SUBSET DOMAIN code
  BY TopCall DEF M, Types, TypeOK
<1>3. \A f \in seen \cup {M} : \A j \in DOMAIN code[f] : Behind(M, f, j)
  BY <1>1 DEF ReadSoFar
<1>4. \A f \in seen \cup {M} : IncludedBy(code, f) \subseteq seen \cup {M}
  BY <1>3 DEF IncludedBy, Kind, Behind
<1>5. Unit(code, M) \subseteq seen \cup {M}
  BY <1>2, <1>4, UnitLeast DEF Types
<1> QED  BY <1>3, <1>5 DEF AllRead, Kind, Behind

LEMMA ImportedFromHere ==
  ASSUME Types, StagesOK, Import
  PROVE  ImportedDone(M, Top.at + 1)
<1>1. /\ calls # <<>> /\ Top.task = "imports" /\ M = Top.mod /\ M \in Path /\ Top.at \in DOMAIN imports[M]
      /\ Imported = ImportedFrom(M, imports[M][Top.at].path) /\ Imported \in Done
  BY ImportingTypes DEF Import, CanBind, IsCyclic, Done
<1>2. ImportedDone(M, Top.at)
  BY <1>1, TopCall DEF StagesOK, StageOK
<1>3. imports[M] \in Seq(ImportRec)
  BY <1>1 DEF Types
<1>4. \A k \in DOMAIN imports[M] : k < Top.at + 1 => k < Top.at \/ k = Top.at
  BY <1>1, <1>3
<1> QED  BY <1>1, <1>2, <1>4 DEF ImportedDone

LEMMA StageDone ==
  ASSUME Types, CallsOK, FilesOnTop, ReadSoFar, StagesOK, StageStep
  PROVE  StageOK(calls'[Len(calls)])
<1>1. /\ calls # <<>> /\ Len(calls) \in DOMAIN calls /\ Top = calls[Len(calls)] /\ M = Top.mod /\ M \in Path /\ Top \in Call
      /\ imports[M] \in Seq(ImportRec)
  BY StageMoves, TopCall DEF M, Types
<1>2. StageOK(Top)
  BY <1>1 DEF StagesOK
<1>3. \A t, a : Moves(t, a) =>
        calls'[Len(calls)].task = t /\ calls'[Len(calls)].at = a /\ calls'[Len(calls)].mod = M
  BY <1>1 DEF Moves
<1>4. CASE MakeTables
  <2>1. Moves("decls", 1) /\ Top.task = "tables"
    BY <1>4, MoveSteps DEF MakeTables, InStage
  <2> QED  BY <1>1, <1>3, <2>1, AllReadNow DEF StageOK
<1>5. CASE Install
  <2>1. Moves("decls", Top.at + 1) /\ Top.task = "decls"
    BY <1>5, MoveSteps DEF Install, InStage
  <2> QED  BY <1>1, <1>2, <1>3, <2>1 DEF StageOK
<1>6. CASE EndDecls
  <2>1. Moves("imports", 1) /\ Top.task = "decls"
    BY <1>6, MoveSteps DEF EndDecls, InStage
  <2>2. \A k \in DOMAIN imports[M] : ~(k < 1)
    BY <1>1
  <2> QED  BY <1>1, <1>2, <1>3, <2>1, <2>2 DEF StageOK, ImportedDone
<1>7. CASE Import
  <2>1. Moves("imports", Top.at + 1) /\ Top.task = "imports"
    BY <1>7, MoveSteps DEF Import, CanBind, Importing, InStage
  <2> QED  BY <1>1, <1>2, <1>3, <1>7, <2>1, ImportedFromHere DEF StageOK
<1>8. CASE EndImports
  <2>1. Moves("exports", 1) /\ Top.task = "imports" /\ Top.at > Len(imports[M])
    BY <1>8, MoveSteps DEF EndImports, InStage
  <2>2. \A k \in DOMAIN imports[M] : k < Top.at
    BY <1>1, <2>1 DEF Call
  <2> QED  BY <1>1, <1>2, <1>3, <2>1, <2>2 DEF StageOK, ImportedDone
<1>9. CASE LookupExport
  <2>1. Moves("names", Top.at) /\ Top.task = "exports"
    BY <1>9, MoveSteps DEF LookupExport, InStage
  <2> QED  BY <1>1, <1>2, <1>3, <2>1 DEF StageOK
<1>10. CASE Export
  <2>1. Moves("exports", Top.at + 1) /\ Top.task = "names"
    BY <1>10, MoveSteps DEF Export, LookedUp, InStage
  <2> QED  BY <1>1, <1>2, <1>3, <2>1 DEF StageOK
<1> QED  BY <1>4, <1>5, <1>6, <1>7, <1>8, <1>9, <1>10 DEF StageStep

LEMMA StagesStep ==
  ASSUME Types, CallsOK, FilesOnTop, ReadSoFar, StagesOK, Grows, Types', [Next]_vars
  PROVE  \A i \in DOMAIN calls' : StageNext(calls'[i])
<1>1. /\ \A i \in DOMAIN calls : calls[i] \in Call /\ StageOK(calls[i])
      /\ \A i \in DOMAIN calls' : calls'[i] \in Call /\ calls'[i].mod \in Path
  <2>1. calls \in Seq(Call) /\ calls' \in Seq(Call)
    BY DEF Types, TypeOK
  <2>2. \A i \in DOMAIN calls : calls[i] \in Call
    BY <2>1
  <2>3. \A i \in DOMAIN calls' : calls'[i] \in Call
    BY <2>1
  <2> QED  BY <2>2, <2>3 DEF StagesOK, Call
<1>2. calls # <<>> => Len(calls) \in DOMAIN calls /\ Top = calls[Len(calls)]
  BY TopCall
<1>3. ASSUME UNCHANGED imports, NEW i \in DOMAIN calls', StageOK(calls'[i])  PROVE StageNext(calls'[i])
  BY <1>1, <1>3, StageStays
<1>4. CASE UNCHANGED <<calls, imports>>
  BY <1>1, <1>3, <1>4
<1>5. CASE StageStep
  <2>1. PICK t, a : Moves(t, a)
    BY <1>5, StageMoves
  <2>2. UNCHANGED imports
    BY <1>5, StageMoves
  <2>3. \A i \in DOMAIN calls' : i # Len(calls) => calls'[i] = calls[i] /\ i \in DOMAIN calls
    BY <2>1 DEF Moves
  <2> QED  BY <1>1, <1>3, <1>5, <2>2, <2>3, StageDone
<1>6. CASE ReadDecl \/ ReadImport \/ ReadExport
  <2>1. Moves("file", Top.at + 1) /\ Top.task = "file" /\ calls # <<>>
    BY <1>6, ReadMoves
  <2>2. ASSUME NEW i \in DOMAIN calls'  PROVE StageNext(calls'[i])
    <3>1. CASE calls'[i].task \in {"file", "tables"}
      BY <3>1 DEF StageNext
    <3>2. CASE calls'[i].task \notin {"file", "tables"}
      <4>1. i \in DOMAIN calls /\ calls'[i] = calls[i] /\ i \in ModuleCalls
        BY <2>1, <3>2 DEF Moves, ModuleCalls
      <4>2. PICK j \in ModuleCalls : calls[j].task = "tables" /\ calls[j].mod = Top.mod
        BY <1>2, <2>1 DEF CallsOK, ModuleCalls
      <4>3. calls[i].mod # Top.mod
        BY <3>2, <4>1, <4>2 DEF CallsOK
      <4>4. imports'[calls[i].mod] = imports[calls[i].mod]
        BY <1>1, <1>6, <4>1, <4>3, ReadGrows
      <4> QED  BY <1>1, <4>1, <4>4, StageStays
    <3> QED  BY <3>1, <3>2
  <2> QED  BY <2>2
<1>7. CASE EndOfFile \/ FinishModule
  <2>1. Pops /\ UNCHANGED imports
    BY <1>7, MoveSteps DEF EndOfFile, FinishModule, stmts
  <2>2. \A i \in DOMAIN calls' : calls'[i] = calls[i] /\ i \in DOMAIN calls
    BY <2>1 DEF Pops
  <2> QED  BY <1>1, <1>3, <2>1, <2>2
<1>8. CASE Include
  <2>1. Includes /\ UNCHANGED imports
    BY <1>8, IncludeStep DEF Include, stmts
  <2>2. \A i \in DOMAIN calls' : (i \in DOMAIN calls /\ calls'[i] = calls[i]) \/ calls'[i].task = "file"
    BY <2>1 DEF Includes
  <2>3. \A i \in DOMAIN calls' : StageOK(calls'[i])
    BY <1>1, <2>2 DEF StageOK
  <2> QED  BY <1>3, <2>1, <2>3
<1>9. CASE LoadModule
  <2>1. Loads /\ UNCHANGED imports
    BY <1>9, LoadStep DEF LoadModule, stmts
  <2>2. \A i \in DOMAIN calls' : (i \in DOMAIN calls /\ calls'[i] = calls[i]) \/ calls'[i].task \in {"file", "tables"}
    BY <2>1 DEF Loads, ModuleCall, FileCall
  <2>3. \A i \in DOMAIN calls' : StageOK(calls'[i])
    BY <1>1, <2>2 DEF StageOK
  <2> QED  BY <1>3, <2>1, <2>3
<1>10. Descend \/ Refusal \/ UNCHANGED <<Rest, phase, error>> => UNCHANGED <<calls, imports>>
  BY RefusalEnds DEF Rest, Descend, stmts
<1> QED  BY <1>4, <1>5, <1>6, <1>7, <1>8, <1>9, <1>10, StepCases DEF StageStep

LEMMA StageNow ==
  ASSUME code' = code, NEW i \in DOMAIN calls', StageNext(calls'[i])
  PROVE  StageOK(calls[i])'
<1>1. \A m : AllReadNext(m) <=> \A f \in Unit(code', m) : \A j \in Kind(code', f, "import") : RecordedNext(m, code'[f][j].path)
  BY DEF AllReadNext
<1> QED  BY <1>1 DEF StageOK, StageNext, AllRead, Recorded, RecordedNext, ImportedDone, DoneNext, Done

-----------------------------------------------------------------------------
Graph == FilesOnTop /\ UnitsOK /\ ReadSoFar /\ StagesOK /\ CyclicMeansCyclic

LEMMA InitGraph == Init => Graph
<1> SUFFICES ASSUME Init  PROVE Graph
  OBVIOUS
<1>1. Types
  BY InitCore DEF Core
<1>2. /\ calls = <<ModuleCall(MainFile), FileCall(MainFile, MainFile, 0, 1)>> /\ seen = {} /\ error = None
      /\ imports = [m \in Path |-> <<>>]
  BY DEF Init
<1>3. /\ Len(calls) = 2 /\ DOMAIN calls = {1, 2} /\ Top = calls[2] /\ ModuleCalls = {1}
      /\ calls[1].task = "tables" /\ calls[1].mod = MainFile
      /\ calls[2].task = "file" /\ calls[2].mod = MainFile /\ calls[2].path = MainFile /\ calls[2].at = 1
  BY <1>2 DEF ModuleCall, FileCall, Top, ModuleCalls
<1>4. FilesOnTop
  BY <1>3 DEF FilesOnTop
<1>5. MainFile \in DOMAIN code /\ code \in Programs
  BY LoaderAssumption DEF Init
<1>6. UnitsOK
  <2>1. FilesOfUnit
    BY <1>3, <1>5, UnitHolds DEF FilesOfUnit
  <2>2. ImportsRecorded
    BY <1>2 DEF ImportsRecorded
  <2>3. CallsReach
    BY <1>3 DEF CallsReach
  <2> QED  BY <2>1, <2>2, <2>3 DEF UnitsOK
<1>7. ReadSoFar
  <2>1. M = MainFile
    BY <1>3 DEF M
  <2>2. code[MainFile] \in Seq(Stmt)
    BY <1>5, Programs_
  <2>3. \A j \in DOMAIN code[MainFile] : 1 <= j
    BY <2>2
  <2>4. \A j \in DOMAIN code[MainFile] : Ahead(MainFile, j)
    BY <1>3, <2>3 DEF Ahead
  <2> QED  BY <1>2, <2>1, <2>4 DEF ReadSoFar
<1>8. StagesOK
  BY <1>3 DEF StagesOK, StageOK
<1> QED  BY <1>2, <1>4, <1>6, <1>7, <1>8 DEF Graph, CyclicMeansCyclic

LEMMA GraphStep == Core /\ Graph /\ [Next]_vars => Graph'
<1> SUFFICES ASSUME Core, Graph, [Next]_vars  PROVE Graph'
  OBVIOUS
<1>1. Types /\ CallsOK /\ MapOK /\ SymbolsOK /\ TablesOK /\ ErrorOK
  BY DEF Core
<1>2. FilesOnTop /\ UnitsOK /\ ReadSoFar /\ StagesOK /\ CyclicMeansCyclic
  BY DEF Graph
<1>3. Types'
  BY <1>1, TypesStep
<1>4. Grows
  BY <1>1, Growing
<1>5. code' = code
  BY <1>4 DEF Grows
<1>6. ReadSoFar'
  <2>1. SUFFICES ASSUME calls' # <<>>, Top'.task \in {"file", "tables"},
                        NEW f \in seen' \cup {M'}, NEW j \in DOMAIN code[f]
                 PROVE  BehindNext(M', f, j) \/ AheadNext(f, j)
    BY <1>5 DEF ReadSoFar, Behind, BehindNext, Recorded, RecordedNext, Ahead, AheadNext
  <2>2. ReadNext
    BY <1>1, <1>2, <1>4, <2>1, ReadSoFarStep
  <2> QED  BY <2>2 DEF ReadNext, M
<1>7. StagesOK'
  BY <1>1, <1>2, <1>3, <1>4, <1>5, StagesStep, StageNow DEF StagesOK
<1> QED  BY <1>1, <1>2, <1>4, <1>6, <1>7, FilesOnTopStep, UnitsStep, CyclicStep DEF Graph

THEOREM GraphInvariant == Spec => [](Core /\ Graph)
BY InitCore, InitGraph, CoreStep, GraphStep, PTL DEF Spec

(* A module refused for importing itself does import itself, over whichever
   others (src/compiler.c:932-968). *)
THEOREM CyclesAreCycles == Spec => []CyclicMeansCyclic
BY GraphInvariant, PTL DEF Graph

-----------------------------------------------------------------------------
LEMMA NeedsTypes == Types => Needs \in [Path -> SUBSET Path]
BY ImportsTypes DEF Types, Needs

LEMMA FinishesOne ==
  ASSUME Types, CallsOK, StagesOK, FinishModule
  PROVE  /\ M \in Path \ Done /\ Needs[M] \subseteq Done
         /\ Done' = Done \cup {M}
<1>1. /\ calls # <<>> /\ Top.task = "exports" /\ Top = calls[Len(calls)] /\ Len(calls) \in DOMAIN calls
      /\ M = Top.mod /\ M \in Path
  BY TopCall DEF FinishModule, InStage, Types, M
<1>2. M \in parsing /\ parsing' = parsing \ {M} /\ begun' = begun
  BY <1>1 DEF CallsOK, ModuleCalls, FinishModule
<1>3. AllRead(M) /\ ImportedDone(M, Len(imports[M]) + 1)
  BY <1>1 DEF StagesOK, StageOK
<1>4. \A k \in DOMAIN imports[M] : ImportedFrom(M, imports[M][k].path) \in Done
  <2>1. imports[M] \in Seq(ImportRec)
    BY <1>1 DEF Types
  <2>2. \A k \in DOMAIN imports[M] : k < Len(imports[M]) + 1
    BY <2>1
  <2> QED  BY <1>3, <2>2 DEF ImportedDone
<1>5. ASSUME NEW f \in Unit(code, M), NEW i \in Kind(code, f, "import")
      PROVE  ImportedFrom(M, code[f][i].path) \in Done
  BY <1>3, <1>4 DEF AllRead, Recorded
<1>6. ImportsOf(code, M) \subseteq Done
  BY <1>5 DEF ImportsOf
<1>7. parsing \subseteq begun
  BY DEF Types, TypeOK
<1> QED  BY <1>1, <1>2, <1>6, <1>7 DEF Needs, Done

(* A module is done only when all it imports is, one at a time, and for good
   (parse_module, src/compiler.c:880-1063). *)
THEOREM OrderImplemented == Spec => ImplementsOrder
<1>1. Init => Order!Init
  BY InitCore, NeedsTypes DEF Init, Core, Order!Init
<1>2. Core /\ Graph /\ [Next]_vars => [Order!Next]_<<Needs, begun \ parsing>>
  <2> SUFFICES ASSUME Core, Graph, [Next]_vars  PROVE [Order!Next]_<<Needs, begun \ parsing>>
    OBVIOUS
  <2>1. Types /\ CallsOK /\ StagesOK /\ Grows
    BY Growing DEF Core, Graph
  <2>2. Needs' = Needs
    BY <2>1 DEF Grows, Needs
  <2>3. CASE FinishModule
    BY <2>1, <2>2, <2>3, FinishesOne DEF Done, Order!Next, Order!Settle
  <2>4. CASE LoadModule
    BY <2>2, <2>4 DEF LoadModule
  <2>5. CASE UNCHANGED <<begun, parsing>>
    BY <2>2, <2>5
  <2>6. CASE StageStep
    <3>1. UNCHANGED <<begun, parsing>>
      BY <2>6 DEF StageStep, MakeTables, Install, EndDecls, Import, EndImports, LookupExport, Export, modules
    <3> QED  BY <2>5, <3>1
  <2>7. CASE ReadDecl \/ ReadImport \/ ReadExport \/ Include \/ EndOfFile \/ Descend
    <3>1. UNCHANGED <<begun, parsing>>
      BY <2>7 DEF ReadDecl, ReadImport, ReadExport, ReadOn, Include, EndOfFile, Descend, modules
    <3> QED  BY <2>5, <3>1
  <2>8. Refusal \/ UNCHANGED <<Rest, phase, error>> => UNCHANGED <<begun, parsing>>
    BY RefusalEnds DEF Rest
  <2> QED  BY <2>3, <2>4, <2>5, <2>6, <2>7, <2>8, StepCases DEF StageStep
<1> QED  BY <1>1, <1>2, GraphInvariant, PTL DEF Spec, ImplementsOrder, Order!Spec

=============================================================================
