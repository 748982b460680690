---------------------------- MODULE ModuleLoader ----------------------------
(***************************************************************************)
(* From source files to modules with their tables of names                 *)
(* (src/compiler.c, src/ast/module.c): a module is a file and the files it *)
(* includes; loading one reads its statements, installs its declarations,  *)
(* loads and imports other modules, depth first, and builds the table of   *)
(* what it exports.  All files share one line of positions, by which an    *)
(* error finds the file it is reported in.                                 *)
(*                                                                         *)
(* The recursion of parse_code_recursive and parse_module is the sequence  *)
(* `calls'.  A statement has one position; what a declaration says is left *)
(* to the resolver.                                                        *)
(***************************************************************************)
EXTENDS Integers, Sequences, FiniteSets

CONSTANTS
  Dirs, Bases,    (* directories and file names                            *)
  Here,           (* a path relative to the file that holds it             *)
  Names,          (* identifiers                                           *)
  Builtins,       (* names of the builtin module's symbols                 *)
  BuiltinFile,    (* the text the compiler brings along                    *)
  MainFile,       (* the program's entry file                              *)
  MainProc,       (* the identifier `main'                                 *)
  IncludeLimit,   (* NIBBLE_INCLUDE_LIMIT                                  *)
  Programs,       (* the files there are, with their statements            *)
  None            (* no name, no symbol                                    *)

Path    == [dir : Dirs, base : Bases]
Written == [dir : Dirs \cup {Here}, base : Bases]

(* get_import_abspath, for a path written in file f. *)
Target(f, w) == [dir |-> IF w.dir = Here THEN f.dir ELSE w.dir, base |-> w.base]

(***************************************************************************)
(* Global statements: declarations, #include, imports (of all a module     *)
(* exports, of the names listed, or under a namespace) and exports of one  *)
(* name, which namespaces may precede.  The last two are text the parser   *)
(* refuses, at its first token and at the end of the file.                 *)
(***************************************************************************)
ImportSym == [name : Names, as : Names]
Stmt ==
  [kind : {"decl"}, name : Names, exported : BOOLEAN]
    \cup [kind : {"include"}, path : Written]
    \cup [kind : {"import"}, path : Written, syms : Seq(ImportSym), ns : Names \cup {None}]
    \cup [kind : {"export"}, idents : Seq(Names) \ {<<>>}, as : Names \cup {None}]
    \cup [kind : {"wrong", "truncated"}]

ASSUME LoaderAssumption ==
  /\ MainFile \in Path /\ MainProc \in Names /\ Builtins \subseteq Names
  /\ Here \notin Dirs /\ None \notin Names /\ BuiltinFile \notin Path
  /\ IncludeLimit \in Nat
  /\ \A p \in Programs :
       /\ MainFile \in DOMAIN p /\ DOMAIN p \subseteq Path
       /\ \A f \in DOMAIN p : p[f] \in Seq(Stmt)

(***************************************************************************)
(* A symbol is known by its home module, its name there and, for the       *)
(* symbol of a namespace, the import statement (`via') it stands for;      *)
(* `pos' and `file' say where it is declared.                              *)
(***************************************************************************)
Home == Path \cup {BuiltinFile}
SymbolRec == [home : Home, name : Names, via : Nat, pos : Nat, file : Home]
Table == [Names -> SymbolRec \cup {None}]
NoNames == [n \in Names |-> None]

BuiltinSymbol(n) == [home |-> BuiltinFile, name |-> n, via |-> 0, pos |-> 0, file |-> BuiltinFile]

VARIABLES
  code,      (* the program                                                *)
  phase,     (* loading, entry, or how it ended                            *)
  calls,     (* the calls in progress, innermost last                      *)
  sources,   (* ctx->src_files: the files read, in order                   *)
  seen,      (* seen_includes of the module being read                     *)
  begun,     (* ctx->mod_map: modules that have been added                 *)
  parsing,   (* modules with is_parsing                                    *)
  rangeOf,   (* mod->range.start                                           *)
  decls, imports, exported,   (* a module's statements, by kind            *)
  scope,     (* a module's symbol table                                    *)
  exports,   (* a module's export table                                    *)
  chain,     (* the symbol and the names left in the lookup of an export   *)
  error      (* where the error is, and why                                *)

modules == <<begun, parsing, rangeOf>>
stmts   == <<decls, imports, exported>>
tables  == <<scope, exports>>
vars == <<code, phase, calls, sources, seen, modules, stmts, tables, chain, error>>

Terminal == {"loaded", "error", "aborted"}
Reasons  == {"syntax", "path", "include limit", "cyclic include", "cyclic import", "duplicate",
             "unknown", "conflict", "export", "no main"}

(* A call is that of a file being read (`at' is the next statement) or of a
   module in one of the stages of parse_module (`at' is the next item). *)
Call == [task : {"file", "tables", "decls", "imports", "exports", "names"},
         path : Path, mod : Path, at : Nat \ {0}, start : Nat, depth : Nat]

-----------------------------------------------------------------------------
Top == calls[Len(calls)]
Below == SubSeq(calls, 1, Len(calls) - 1)
Next1_NotOfImports(c) == [c EXCEPT !.at = IF c.task = "imports" THEN @ ELSE @ + 1]
Next1(c) == [c EXCEPT !.at = @ + 1]

(* get_curr_src_pos: where the next file starts. *)
CurrPos == IF sources = <<>> THEN 0 ELSE sources[Len(sources)].end

Source(f, start, len) == [path |-> f, start |-> start, end |-> start + len]

FileCall(f, m, depth, start) ==
  [task |-> "file", path |-> f, mod |-> m, at |-> 1, start |-> start, depth |-> depth]
ModuleCall(m) == [task |-> "tables", path |-> m, mod |-> m, at |-> 1, start |-> 0, depth |-> 0]

AddSource(f) == sources' = Append(sources, Source(f, CurrPos, Len(code[f])))

(* The builtin module's text is read before the main module's. *)
Init ==
  /\ code \in Programs
  /\ phase = "loading"
  /\ calls = <<ModuleCall(MainFile), FileCall(MainFile, MainFile, 0, 1)>>
  /\ sources = <<Source(BuiltinFile, 0, 1), Source(MainFile, 1, Len(code[MainFile]))>>
  /\ seen = {}
  /\ begun = {MainFile} /\ parsing = {MainFile}
  /\ rangeOf = [m \in Path |-> IF m = MainFile THEN 1 ELSE 0]
  /\ decls = [m \in Path |-> <<>>] /\ imports = [m \in Path |-> <<>>] /\ exported = [m \in Path |-> <<>>]
  /\ scope = [m \in Path |-> NoNames] /\ exports = [m \in Path |-> NoNames]
  /\ chain = [sym |-> None, rest |-> <<>>]
  /\ error = None

-----------------------------------------------------------------------------
(***************************************************************************)
(* An error ends the run: every call returns false and the error is        *)
(* printed, under the first file that ends after its position; with no     *)
(* such file print_error's assert fails.                                   *)
(***************************************************************************)
EndsAfter_OrAt(i, p) == p <= sources[i].end
EndsAfter(i, p) == p < sources[i].end
HasFile(p) == \E i \in DOMAIN sources : EndsAfter(i, p)
FileAt(p) ==
  sources[CHOOSE i \in DOMAIN sources : EndsAfter(i, p) /\ \A j \in 1..(i - 1) : ~EndsAfter(j, p)].path

Refuse(why, pos, file) ==
  /\ error' = [why |-> why, pos |-> pos, file |-> file]
  /\ phase' = IF HasFile(pos) THEN "error" ELSE "aborted"
  /\ UNCHANGED <<code, calls, sources, seen, modules, stmts, tables, chain>>

-----------------------------------------------------------------------------
(*                       Reading a file's statements                       *)

Reading == phase = "loading" /\ Top.task = "file" /\ Top.at <= Len(code[Top.path])
stmt == code[Top.path][Top.at]
Pos  == Top.start + Top.at - 1
EndPos == Top.start + Len(code[Top.path])

RefuseHere(why) == Refuse(why, Pos, Top.path)

Keep(list, item) == list' = [list EXCEPT ![Top.mod] = Append(@, item)]

ReadOn ==
  /\ calls' = Append(Below, Next1(Top))
  /\ UNCHANGED <<code, phase, sources, seen, modules, tables, chain, error>>

ReadDecl ==
  /\ Reading /\ stmt.kind = "decl"
  /\ Keep(decls, [name |-> stmt.name, exported |-> stmt.exported, pos |-> Pos, file |-> Top.path])
  /\ UNCHANGED <<imports, exported>> /\ ReadOn

ReadImport ==
  /\ Reading /\ stmt.kind = "import"
  /\ Keep(imports, [path |-> stmt.path, syms |-> stmt.syms, ns |-> stmt.ns, pos |-> Pos, file |-> Top.path])
  /\ UNCHANGED <<decls, exported>> /\ ReadOn

ReadExport ==
  /\ Reading /\ stmt.kind = "export"
  /\ Keep(exported, [idents |-> stmt.idents, as |-> stmt.as, pos |-> Pos, file |-> Top.path])
  /\ UNCHANGED <<decls, imports>> /\ ReadOn

SyntaxError ==
  /\ Reading
  /\ \/ stmt.kind = "wrong" /\ RefuseHere("syntax")
     \/ stmt.kind = "truncated" /\ Refuse("syntax", EndPos, Top.path)

(* The path of an #include is relative to the file it stands in.  (Paths are
   compared as far as the included one goes; none is a prefix of another.) *)
Included == Target(Top.path, stmt.path)
IncludeError ==
  \/ /\ Top.depth > IncludeLimit /\ RefuseHere("include limit")
  \/ /\ Top.depth <= IncludeLimit
     /\ Included \notin DOMAIN code /\ RefuseHere("path")
  \/ /\ Top.depth <= IncludeLimit
     /\ Included \in DOMAIN code
     /\ Included = Top.path \/ Included \in seen
     /\ RefuseHere("cyclic include")

BadInclude == Reading /\ stmt.kind = "include" /\ IncludeError

CanInclude ==
  /\ Top.depth <= IncludeLimit
  /\ Included \in DOMAIN code
  /\ Included # Top.path /\ Included \notin seen

Include ==
  /\ Reading /\ stmt.kind = "include"
  /\ CanInclude
  /\ seen' = seen \cup {Included}
  /\ AddSource(Included)
  /\ calls' = Append(Append(Below, Next1(Top)), FileCall(Included, Top.mod, Top.depth + 1, CurrPos))
  /\ UNCHANGED <<code, phase, modules, stmts, tables, chain, error>>

EndOfFile ==
  /\ phase = "loading" /\ Top.task = "file" /\ Top.at > Len(code[Top.path])
  /\ calls' = Below
  /\ UNCHANGED <<code, phase, sources, seen, modules, stmts, tables, chain, error>>

-----------------------------------------------------------------------------
(*                  The stages of a module that has been read              *)

InStage(task) == phase = "loading" /\ Top.task = task
M == Top.mod

InTask(c, task) == [c EXCEPT !.task = task]
Stage(task) == calls' = Append(Below, InTask(ModuleCall(M), task))

(* module_init_tables and import_builtin_syms. *)
MakeTables ==
  /\ InStage("tables")
  /\ scope' = [scope EXCEPT ![M] = [n \in Names |-> IF n \in Builtins THEN BuiltinSymbol(n) ELSE None]]
  /\ Stage("decls")
  /\ UNCHANGED <<code, phase, sources, seen, modules, stmts, exports, chain, error>>

decl == decls[M][Top.at]
DeclSymbol ==
  [home |-> M, name |-> decl.name, via |-> 0, pos |-> decl.pos, file |-> decl.file]

(* install_module_decl: add_unresolved_symbol, and the export table. *)
InstallDecl ==
  /\ InStage("decls") /\ Top.at <= Len(decls[M])
  /\ IF scope[M][decl.name] # None
     THEN Refuse("duplicate", decl.pos, decl.file)
     ELSE /\ scope' = [scope EXCEPT ![M][decl.name] = DeclSymbol]
          /\ exports' = IF decl.exported THEN [exports EXCEPT ![M][decl.name] = DeclSymbol] ELSE exports
          /\ calls' = Append(Below, Next1(Top))
          /\ UNCHANGED <<code, phase, sources, seen, modules, stmts, chain, error>>

EndDecls ==
  /\ InStage("decls") /\ Top.at > Len(decls[M])
  /\ Stage("imports")
  /\ UNCHANGED <<code, phase, sources, seen, modules, stmts, tables, chain, error>>

-----------------------------------------------------------------------------
(*                                 Imports                                 *)

Importing == InStage("imports") /\ Top.at <= Len(imports[M])
imp == imports[M][Top.at]

(* Relative to the module's file, wherever the statement stands. *)
ImportedFrom(m, w) == Target(m, w)
Imported == ImportedFrom(M, imp.path)

ImportNoFile == Importing /\ Imported \notin DOMAIN code /\ Refuse("path", imp.pos, imp.file)

(* parse_import_module: a module is added to the map, then parsed, once. *)
LoadModule ==
  /\ Importing /\ Imported \in DOMAIN code /\ Imported \notin begun
  /\ begun' = begun \cup {Imported}
  /\ parsing' = parsing \cup {Imported}
  /\ rangeOf' = [rangeOf EXCEPT ![Imported] = CurrPos]
  /\ seen' = {}
  /\ AddSource(Imported)
  /\ calls' = calls \o <<ModuleCall(Imported), FileCall(Imported, Imported, 0, CurrPos)>>
  /\ UNCHANGED <<code, phase, stmts, tables, chain, error>>

IsCyclic_Self == Imported = M
IsCyclic_Known == Imported \in begun
IsCyclic == Imported \in parsing

ImportCycle == Importing /\ Imported \in begun /\ IsCyclic /\ Refuse("cyclic import", imp.pos, imp.file)

NamespaceSymbol ==
  [home |-> M, name |-> imp.ns, via |-> Top.at, pos |-> rangeOf[M], file |-> M]

(* What the statement brings into the module: a name and its symbol each,
   in the order they are added.  A greedy import takes a symbol's own name,
   not the exported one, in the order of a hash table. *)
Item(name, sym, nth) == [name |-> name, sym |-> sym, nth |-> nth]
Brought_Private ==
  IF imp.ns # None THEN {Item(imp.ns, NamespaceSymbol, 1)}
  ELSE {Item(imp.syms[i].as, scope[Imported][imp.syms[i].name], i) : i \in DOMAIN imp.syms}
Brought ==
  IF imp.ns # None THEN {Item(imp.ns, NamespaceSymbol, 1)}
  ELSE IF imp.syms # <<>>
  THEN {Item(imp.syms[i].as, exports[Imported][imp.syms[i].name], i) : i \in DOMAIN imp.syms}
  ELSE {Item(sym.name, sym, 1) : sym \in {exports[Imported][n] : n \in Names} \ {None}}

(* module_add_global_sym: a namespace may take the place of something
   imported before; nothing else may take a place. *)
Clashes_ForeignOnly(b) ==
  LET old == scope[M][b.name] IN
  b.sym # None /\ old \notin {None, b.sym} /\ b.sym.home # M /\ old.home # M
Clashes(b) ==
  LET old == scope[M][b.name] IN
  b.sym # None /\ old \notin {None, b.sym} /\ (b.sym.home # M \/ old.home = M)

Fails(b) ==
  \/ b.sym = None
  \/ Clashes(b)
  \/ \E c \in Brought : c.name = b.name /\ c.sym # b.sym /\ c.nth <= b.nth
FirstFailure(b) == Fails(b) /\ \A c \in Brought : c.nth < b.nth => ~Fails(c)

CanBind == Importing /\ Imported \in begun /\ ~IsCyclic

(* A conflict is reported at the declaration of the symbol brought, or at
   the start of the module for a namespace, which has none. *)
ImportError ==
  /\ CanBind
  /\ \E b \in Brought :
       /\ FirstFailure(b)
       /\ \/ b.sym = None /\ Refuse("unknown", imp.pos, imp.file)
          \/ b.sym # None /\ b.sym.via = 0 /\ Refuse("conflict", b.sym.pos, b.sym.file)
          \/ b.sym # None /\ b.sym.via # 0 /\ Refuse("conflict", rangeOf[M], M)

Import ==
  /\ CanBind
  /\ \A b \in Brought : ~Fails(b)
  /\ scope' = [scope EXCEPT ![M] =
                 [n \in Names |-> IF \E b \in Brought : b.name = n
                                  THEN (CHOOSE b \in Brought : b.name = n).sym ELSE @[n]]]
  /\ calls' = Append(Below, Next1(Top))
  /\ UNCHANGED <<code, phase, sources, seen, modules, stmts, exports, chain, error>>

EndImports ==
  /\ InStage("imports") /\ Top.at > Len(imports[M])
  /\ Stage("exports")
  /\ UNCHANGED <<code, phase, sources, seen, modules, stmts, tables, chain, error>>

-----------------------------------------------------------------------------
(*                                 Exports                                 *)

exp == exported[M][Top.at]
RefuseExport(why) == Refuse(why, exp.pos, exp.file)

(* lookup_scope_symbol of the first name. *)
LookupExport ==
  /\ InStage("exports") /\ Top.at <= Len(exported[M])
  /\ chain' = [sym |-> scope[M][Head(exp.idents)], rest |-> Tail(exp.idents)]
  /\ calls' = Append(Below, InTask(Top, "names"))
  /\ UNCHANGED <<code, phase, sources, seen, modules, stmts, tables, error>>

Descending == InStage("names") /\ chain.sym # None /\ chain.rest # <<>>
NsImport == imports[chain.sym.home][chain.sym.via]

(* get_import_sym_name: the name in the namespace's module, None for a name
   that the import statement does not list. *)
ListedFirst(st, n, i) ==
  i \in DOMAIN st.syms /\ st.syms[i].as = n /\ \A j \in 1..(i - 1) : st.syms[j].as # n
NativeName(st, n) ==
  IF st.syms = <<>> THEN n
  ELSE IF \E i \in DOMAIN st.syms : ListedFirst(st, n, i)
  THEN st.syms[CHOOSE i \in DOMAIN st.syms : ListedFirst(st, n, i)].name
  ELSE None

NotANamespace == Descending /\ chain.sym.via = 0 /\ RefuseExport("export")

(* hmap_get asserts that its key is not null. *)
LookupNull ==
  /\ Descending /\ chain.sym.via # 0
  /\ NativeName(NsImport, Head(chain.rest)) = None
  /\ phase' = "aborted"
  /\ UNCHANGED <<code, calls, sources, seen, modules, stmts, tables, chain, error>>

Descend ==
  /\ Descending /\ chain.sym.via # 0
  /\ NativeName(NsImport, Head(chain.rest)) # None
  /\ chain' = [sym |-> exports[ImportedFrom(chain.sym.home, NsImport.path)][NativeName(NsImport, Head(chain.rest))],
               rest |-> Tail(chain.rest)]
  /\ UNCHANGED <<code, phase, calls, sources, seen, modules, stmts, tables, error>>

LookedUp == InStage("names") /\ (chain.sym = None \/ chain.rest = <<>>)

ExportName == IF exp.as # None THEN exp.as ELSE exp.idents[Len(exp.idents)]
NotRenamed == Len(exp.idents) > 1 /\ exp.as = None

ExportError ==
  /\ LookedUp
  /\ \/ chain.sym = None /\ RefuseExport("unknown")
     \/ chain.sym # None /\ (NotRenamed \/ chain.sym.home = BuiltinFile) /\ RefuseExport("export")
     \/ /\ chain.sym # None /\ ~NotRenamed /\ chain.sym.home # BuiltinFile
        /\ exports[M][ExportName] \notin {None, chain.sym}
        /\ RefuseExport("conflict")

Export ==
  /\ LookedUp /\ chain.sym # None
  /\ ~NotRenamed /\ chain.sym.home # BuiltinFile
  /\ exports[M][ExportName] \in {None, chain.sym}
  /\ exports' = [exports EXCEPT ![M][ExportName] = chain.sym]
  /\ calls' = Append(Below, InTask(Next1(Top), "exports"))
  /\ UNCHANGED <<code, phase, sources, seen, modules, stmts, scope, chain, error>>

(* The only successful exit of parse_module. *)
FinishModule ==
  /\ InStage("exports") /\ Top.at > Len(exported[M])
  /\ parsing' = parsing \ {M}
  /\ calls' = Below
  /\ phase' = IF Below = <<>> THEN "entry" ELSE "loading"
  /\ UNCHANGED <<code, sources, seen, begun, rangeOf, stmts, tables, chain, error>>

(* nibble_compile: the entry module has to have a `main', its own (which is
   a procedure) or an imported one.  A namespace of that name is refused at
   its declaration, and it has none: null is followed. *)
FindMain ==
  /\ phase = "entry"
  /\ LET sym == scope[MainFile][MainProc] IN
     \/ sym = None /\ Refuse("no main", rangeOf[MainFile], MainFile)
     \/ /\ sym # None
        /\ phase' = IF sym.via # 0 THEN "aborted" ELSE "loaded"
        /\ UNCHANGED <<code, calls, sources, seen, modules, stmts, tables, chain, error>>

-----------------------------------------------------------------------------
ReadStmt == ReadDecl \/ ReadImport \/ ReadExport \/ SyntaxError \/ BadInclude \/ Include \/ EndOfFile
Declare  == MakeTables \/ InstallDecl \/ EndDecls
Imports  == ImportNoFile \/ LoadModule \/ ImportCycle \/ ImportError \/ Import \/ EndImports
Exports  == LookupExport \/ NotANamespace \/ LookupNull \/ Descend \/ ExportError \/ Export \/ FinishModule

Step == ReadStmt \/ Declare \/ Imports \/ Exports \/ FindMain
Stopped == phase \in Terminal /\ UNCHANGED vars
Next == Step \/ Stopped

Spec == Init /\ [][Next]_vars
(* One thread, and no step waits for anything: it keeps running. *)
FairSpec == Spec /\ WF_vars(Step)

-----------------------------------------------------------------------------
(* The types of the variables. *)
TypeOK ==
  /\ DOMAIN code \subseteq Path
  /\ phase \in {"loading", "entry"} \cup Terminal
  /\ calls \in Seq(Call)
  /\ \A i \in DOMAIN sources :
       sources[i].path \in Home /\ sources[i].start <= sources[i].end /\ sources[i].end \in Nat
  /\ seen \subseteq DOMAIN code
  /\ parsing \subseteq begun /\ begun \subseteq DOMAIN code
  /\ rangeOf \in [Path -> Nat]
  /\ scope \in [Path -> Table] /\ exports \in [Path -> Table]
  /\ chain.sym \in SymbolRec \cup {None} /\ chain.rest \in Seq(Names)
  /\ error = None \/ (error.why \in Reasons /\ error.pos \in Nat /\ error.file \in Home)

(* The modules with is_parsing are those on the stack of parse_module calls
   (src/compiler.c:880-1063, :849-862), none twice, and each was reached by
   the import its importer is at: the flag, which is cleared at one exit
   only, says "import cycle" when there is one. *)
ModuleCalls == {i \in DOMAIN calls : calls[i].task # "file"}
AtImportOf(c, m) ==
  /\ c.task = "imports" /\ c.at \in DOMAIN imports[c.mod]
  /\ ImportedFrom(c.mod, imports[c.mod][c.at].path) = m
LoadingIsACall ==
  /\ TypeOK
  /\ {calls[i].mod : i \in ModuleCalls} = parsing
  /\ \A i, j \in ModuleCalls : calls[i].mod = calls[j].mod => i = j
  /\ \A i \in ModuleCalls \ {1} : AtImportOf(calls[i - 1], calls[i].mod)

(* A name keeps its meaning in a module's scope once it has one, and a
   module's own declaration keeps it against every import; only what was
   imported, or built in, can give way, and to a namespace
   (module_add_global_sym, src/ast/module.c:1734-1766). *)
NamesStay ==
  [][\A m \in Path, n \in Names :
       LET old == scope[m][n]  new == scope'[m][n] IN
       old # None /\ new # old => old.home # m /\ new.home = m /\ new.via # 0]_vars

(* A declaration is bound in another module, or reached by the lookup of an
   export, only when its own module exports it: no chain of imports,
   namespaces and re-exports gets at a private one. *)
ExportedAtHome(sym) == \E n \in Names : exports[sym.home][n] = sym
OnlyExportedLeaves ==
  \A m \in begun, n \in Names :
    \A sym \in {scope[m][n], exports[m][n]} \ {None} :
      sym.home \notin {m, BuiltinFile} => ExportedAtHome(sym)

(* The order of positions, in which included and imported files take their
   place after everything read so far, tells the files apart: an error is
   printed under the file it is about (print_error, src/compiler.c:101-104),
   but for one at the end of a file, which is another file's start. *)
EndOf(f) == {sources[i].end : i \in {j \in DOMAIN sources : sources[j].path = f}}
ErrorsInTheirFile ==
  phase = "error" /\ error.pos \notin EndOf(error.file) => FileAt(error.pos) = error.file

(* The files a module consists of, and the modules they import: the least
   sets that hold the module's file with what its files include, and what a
   module imports with what those import. *)
Kind(p, f, kind) == {j \in DOMAIN p[f] : p[f][j].kind = kind}
IncludedBy(p, f) == {Target(f, p[f][i].path) : i \in Kind(p, f, "include")} \cap DOMAIN p
Units(p, m) == {S \in SUBSET DOMAIN p : m \in S /\ \A f \in S : IncludedBy(p, f) \subseteq S}
Unit(p, m) == {f \in DOMAIN p : m \in DOMAIN p /\ \A S \in Units(p, m) : f \in S}
ImportsOf(p, m) ==
  UNION {{ImportedFrom(m, p[f][i].path) : i \in Kind(p, f, "import")} : f \in Unit(p, m)}
Reaches(p, m) ==
  {S \in SUBSET Path : ImportsOf(p, m) \subseteq S /\ \A k \in S : ImportsOf(p, k) \subseteq S}
ImportsReach(p, m) == {k \in Path : \A S \in Reaches(p, m) : k \in S}

(* A module is done (is_parsing is cleared, src/compiler.c:1061) only when all
   it imports are, so nothing on a cycle of imports ever is. *)
Needs == [m \in Path |-> ImportsOf(code, m)]
Order == INSTANCE DependencyOrder WITH Things <- Path, needs <- Needs, settled <- begun \ parsing
ImplementsOrder == Order!Spec

(* Only a module that does import itself, over whichever others, is refused
   for it; being imported twice is no reason (src/compiler.c:932-968). *)
CyclicMeansCyclic ==
  error # None /\ error.why = "cyclic import" => M \in ImportsReach(code, M)

(* The compiler always ends reading, whatever imports and includes what. *)
Terminates == <>(phase \in Terminal)
=============================================================================
