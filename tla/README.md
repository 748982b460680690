# A verification of the nibble compiler

Nibble is a compiler from the nibble language to x64 ELF executables, written in
C (`src/src`, 34,000 lines). These modules model parts of it in TLA+, TLC checks
them on small instances, and TLAPS proves some of their properties for every
instance. Paths below are relative to `src/src` in the repository.

## The system

The compiler is sequential and runs once per program. Its hard parts are not
threads but long sequences of dependent steps over shared, mutable structures:
lists that are changed while they are walked, decisions taken now that a later
step relies on, and agreement between two passes written apart.

| component | code | state | operations | what makes it correct |
|---|---|---|---|---|
| module loader | `compiler.c` | module map, include cache, source map, symbol tables of modules | parse module, include, import, export, resolve, check, generate | each file once per module; only real cycles are errors; import order cannot change the result |
| lexer | `lexer/module.c` | position, current token, errors | next token; skip comments; scan literals | literals have their value or an overflow error; comments nest |
| parser | `parser/*` | current and previous token | one function per construct | every tree is one the grammar has; errors end parsing |
| syntax and types | `ast/module.c` | symbols, scopes, interned types | new nodes; intern a type; complete an aggregate | one object per type; scopes nest |
| resolver | `resolver/*`, `const_eval.c` | symbol status, current scope, module, procedure | resolve a symbol, declaration, statement, expression; fold constants | cycles found, nothing resolved twice; flow facts agree with the generator; folding is two's complement at the width |
| IR generator | `bytecode/*` | blocks of the procedure, deferred jumps, free lists, temporary objects | emit a statement, an expression; patch; prune; lay out | the blocks do what the statements say; every jump has a target; fall-through blocks follow |
| IR to XIR | `x64_gen/ir_to_xir.c`, `xir.c` | aliases (union-find), constraints | convert an instruction; alias two registers; place arguments | aliased registers are never live together; constraints can be met |
| live intervals | `x64_gen/livevar.c` | first and last touch of each register; call sites | touch | an interval covers every point where the register is live |
| register allocator | `x64_gen/reg_alloc.c` | unhandled, active and done intervals, free registers, stack offset | expire, place, spill, steal; masks of call sites | overlapping intervals never share; forced registers are honoured; calls save what lives across them |
| XIR to x64 | `x64_gen/xir_to_x64.c` | instruction list, temporary registers, frame | convert an instruction; prologue; saves around calls | spilled operands get distinct temporaries; what is saved is restored |
| machine code | `x64_gen/machine_code.c` | bytes, block offsets, patches | encode; shrink jumps to a fix-point; patch | offsets fit their field; encodings decode to the instruction |
| data, ELF | `x64_gen/data.c`, `elf_writer.c`, `elf.c` | sections, symbols, relocations | lay out; write | offsets are aligned and disjoint; local symbols come first |
| hash map | `hash_map.c` | slots, capacity, number of keys | put, get, grow | what is put is found again, through growth and failures to grow; a probe ends |
| memory, arrays | `allocator.c`, `array.c`, `stream.c`, `llist.h` | memory blocks | allocate, save, restore | restoring frees exactly what came after |
| strings, paths | `cstring.c`, `path_utils.c`, `print*.c` | none | normalise, print | a normal path names the same file |
| driver | `main.c`, `linker.c`, `os_utils.c` | options | compile, call `ld` | pure I/O |

The parts meet as follows. The loader calls lexer and parser per module, then
the resolver per symbol, then the IR generator per procedure. The generator
trusts what the resolver said of a body (`resolver/stmts.c` computes whether a
statement returns or leaves the loop). The x64 generator takes the blocks in
their layout order: `livevar.c` turns them into intervals, `reg_alloc.c` places
these, `xir_to_x64.c` emits instructions with saves around calls from the masks
the allocator left in the call instructions, and `machine_code.c` encodes them.

`PROJECT.json` lists, under "hazards", what can go wrong in each of these places
that a test would hardly reach, with its line and the property that covers it.

## Modules

| module | what it is |
|---|---|
| `IntervalList` | the sorted interval lists (`reg_alloc.c:111-140`): where an insertion goes |
| `RegColoring` | abstract: intervals are given registers or stack slots one by one, no register to two intervals that overlap |
| `RegAlloc` | the linear-scan allocator, step by step |
| `MCRegAlloc` | procedures and registers for TLC |
| `RegAllocProofs`, `RegAllocColoring` | theorems about them: no sharing; the refinement, what the allocator reports, and that it never fails |
| `SourceProgram` | statements and conditions, and what a program means: a continuation and the events it may do next |
| `ControlFlow` | the control-flow half of `bytecode/procs.c`, removal and layout of blocks, and a run of the result |
| `MCControlFlow` | procedure bodies for TLC |
| `DependencyOrder` | abstract: things that need each other are settled one by one, each after all it needs |
| `SymbolResolver` | resolution of symbols on demand (`resolver/common.c`, `module.c`, `decls.c`, `typespecs.c`) |
| `MCSymbolResolver` | programs for TLC, and the reference for refusals: whether what a program reaches can be settled in any order |
| `SymbolResolverProofs`, `SymbolResolverReach` | theorems about it: cycles and order; what is settled and what is refused |
| `ModuleLoader` | reading files, includes, imports and exports (`compiler.c`, `ast/module.c`) |
| `MCModuleLoader` | sets of files for TLC |
| `ModuleLoaderProofs` | theorems about it |
| `ConstFold` | types, conversions and constant operators of integers and pointers (`resolver/exprs.c`, `const_eval.c`) |
| `ExprEmit` | what the generator emits for an operator, as the value it computes (`bytecode/procs.c`) |
| `ExprMeaning` | the reference: the type and value that an expression means |
| `Expressions`, `MCExpressions` | literals from digits, expressions operator by operator, through the resolver and the generator |
| `XirConvert` | from an IR instruction to the calls its converter makes on the XIR builder (`ir_to_xir.c`) |
| `IrToXir` | the builder (`xir.c`), live intervals (`livevar.c`), and a run of the IR beside a run of the XIR |
| `MCIrToXir` | procedures for TLC |
| `X64Registers`, `CallArgs` | the registers, and where arguments and results go (`regs.c`, `ir_to_xir.c:447`) |
| `X64Machine` | the processor: words of symbolic bytes, registers, memory, flags, one operator per instruction |
| `X64Emit` | from an XIR instruction to x64 instructions (`xir_to_x64.c`, calls apart) |
| `Lowering`, `MCLowering` | one XIR instruction, emitted, executed and compared with what it says |
| `FrameLayout` | the stack frame of a procedure, variable by variable (`xir_to_x64.c:452-721`) |
| `FrameLayoutProofs` | theorems about it, for any procedure |
| `CallSequence`, `MCCallSequence` | the layout of the callee's frame, then one call: placement, saves, prologue, epilogue (`xir_to_x64.c`, `ir_to_xir.c`) |
| `Encoding` | from an x64 instruction to bytes (`machine_code.c`) |
| `X64Decode` | the reference: what the processor reads in bytes, from the architecture manuals |
| `GlobalData` | type layout (`ast/module.c`), initializers (`bytecode/vars.c`) and their bytes (`data.c`) |
| `JumpSizes` | the lengths of a procedure's jumps (`machine_code.c:888-998`, `:2123-2184`), part of `ObjectFile` |
| `JumpSizesProofs` | theorems about it, for any blocks |
| `ObjectFile`, `MCObjectFile` | patches, sections, symbols, relocations, and the linker (`machine_code.c`, `text.c`, `elf_writer.c`) |
| `Dictionary` | abstract: a table of keys, with a put that may fail |
| `HashMap` | the hash table (`hash_map.c`), one turn of a loop per step |
| `MCHashMap` | keys that collide, for TLC |
| `HashMapProofs` | theorems about it, for any keys, any hash function and any capacity |

The back end is modelled as a chain; each link is checked against what the next
assumes:

    ControlFlow -> IrToXir -> RegAlloc -> Lowering, CallSequence -> ObjectFile
       blocks       intervals   places      instructions             bytes

`IrToXir` runs the XIR under the worst sharing of registers its intervals
permit, which is what `NoSharedRegister` of `RegAlloc` permits. `Lowering` and
`CallSequence` take any placement of lregs that live together in different
places. `ObjectFile` encodes the instructions that `X64Emit` produces.

### RegAlloc

State: the unhandled, active, done and pending lists of `X64_LRegIntervalList`
(as sequences of interval numbers), `preg` and `offset` of each interval
(`reg_loc`), the free registers of `X64_ScanState`, the stack offset, the used
callee-saved registers and the call-site masks. The scan is split into the
actions a reader finds in the loop body of `X64_linear_scan_reg_alloc`: `Build`
(195-205), `TakeNext`, `ExpireOld` (one expired interval per step), then one
placement according to the constraint (`PlaceForced`, `PlaceForcedAny`,
`PlaceRegOrSpill`, `PlaceInFreeReg`, `SpillLongest`, `StealReg`), `DrainActive`,
and one `CallSite` per call. An `assert` that would fail is an action that ends
in phase "aborted"; compiled without asserts the program would go on with a
register that has two owners.

`RegColoring` is the promise: it only ever assigns a location to an interval
that has none, or moves an interval from its register to a new stack slot.
`RegAlloc` implements it with the placed intervals as the refinement mapping
(property `ImplementsColoring`).

### ControlFlow

State: the builder (`b`: the blocks with code and predecessors, the registers
that comparisons define, the heap and free list of `IR_DeferredJmpcc` nodes),
and the C call stack of the recursive functions, made explicit: `work` holds
what is still to be emitted, `at` is the current block (`last_bb`; 0 is NULL),
`ers` the expression results, `loops` the break and continue jumps to patch.
`IR_emit_stmt` and `IR_emit_expr` are one action per kind of node; the part of a
function after a recursive call is a work item of its own (`Left`, `Right`,
`CondJmp`, `EndIf`, `EndLoop`, ...), so the order in which blocks are allocated,
instructions numbered and jumps patched is the order of the code. The walk that
settles the left operand's jumps (`procs.c:1734`) is one action per node, because
the list changes under it. `RemoveEmpty`, `KeepBlock` and `RemoveJump` are the
iterations of `IR_rm_dead_bblocks`; `Layout` sorts and hands over. Then the
compiled code runs: a block's conditional jump goes to its target or to the
block laid out next, as the x64 generator makes it.

Beside the run goes `SourceProgram`: a continuation of statements. The leaves of
conditions are opaque; each time the compiled code tests one the value is the
environment's choice, and the source program must be at the test of the same leaf
(`src # Lost`). `Flow` is the resolver's judgement of a body and filters the
initial programs, as the compiler does.

A comparison is a leaf that is tested where it is emitted, a boolean variable is
loaded where it is used; what a comparison compares, and the types, are left out.

### SymbolResolver

State: `sym->status`, the marks `is_completing` and the set of complete types,
`resolver->state.mod`, the four lists of the context (`procs`, `foreign_procs`,
`vars`, `aggregate_types`), and the C call stack: a frame is a call of
`resolve_symbol`, `complete_aggregate_type`, `resolve_global_proc_body` or of
the pass over `#static_assert`, with the names its declaration has yet to use.
A program says of each symbol which names its declaration uses and how (by
name, as a typedef's target, by size, as an element, as a procedure type's
result, or as a declaration of a parameter or local); expressions and types are
otherwise left out. One use of a name is one action, according to the status of
the symbol found: `Lookup` (`Demand`: an unresolved symbol, its declaration is
gone through first), `UseType` (an incomplete type whose size is needed is
completed first), `Used`, or an error. A failure unwinds the calls one by one
(`UnwindSymbol`, `UnwindType`, `UnwindRest`), as what the callers do with it
differs: two of them assert or crash. The passes are `Headers`, `Asserts`,
`Bodies` and `Completions`; the lists of the last two grow meanwhile.

`DependencyOrder` is the promise: `Needs` reads off the program what a symbol, a
type's size and a body need, `Settled` is what has been resolved, completed and
checked (property `ImplementsOrder`). `Roots` and `Leads` say where a program starts
and what each thing leads to; `Closed`, of a set, that it holds all that is reached.
`SettlesWhatItReaches` says that what is settled at the end is such a set and that
no smaller one is: in this form, without a recursive closure, TLC checks it and the
prover can reason about it.

### ModuleLoader

State: the source map (`ctx->src_files`), the set of seen includes, the module
map with `is_parsing` and `range.start`, the three lists of statements, the
symbol table and the export table of each module, and the C call stack of
`parse_module` and `parse_code_recursive`: `calls` holds a frame for each file
being read and each module in one of its stages (tables, declarations, imports,
exports, the names of one export). A statement takes one position, so a file is
as long as it has statements. A symbol is its home module and name, with the
import statement for the symbol of a namespace; a declaration is its name and
whether it is exported. `Refuse` is an error and its report: the compiler ends,
by an assert when no file is found for the position.

Paths are a directory and a file name, absolute or relative to the file they
stand in; search paths, directories that stand for their `module.nib`, and the
extension are not modelled. An import is relative to the module's file, an
include to the file it stands in (`compiler.c:929`, `:700`).

`DependencyOrder` is the promise here too: the things are modules, what a module
needs is what its files import, and a module is settled when `is_parsing` is
cleared.

The two specifications meet in the tables: `scope` of `SymbolResolver` is what
`ModuleLoader` leaves behind; `OnlyExportedLeaves` and `NamesStay` say what the
resolver may rely on.

### Expressions, ConstFold, ExprEmit

State: the expression so far (`expr`) and the literal that is being read
(`scan`). An expression is what the resolver knows of it (the fields of
`ExprOperand`: its type, whether it is constant and known, the bytes of its
scalar), what the generator has for it (`er`, an `IR_ExprResult` with the value
it stands for) and what it means. One action per kind of operator takes it as one operand and any
other operand beside it: conversions (`ConvertArith`, `Wrapped`), the
resolver's result (`ArithResult`, ...) and the code (`EmitInstr`, ...). A scalar
is kept as its 64-bit member reads it; a cast writes the bytes of the new type
and leaves the others (`Stored`), as the union in C does.

Integer ranks (`type_integer_ranks`) order the types as their sizes do, which
`Rank` uses. A byte has `ByteBits` bits.

`LeftOut` names kinds of expression that go wrong (`BinaryKinds`, `UnaryKinds`,
`CastKinds`, `TernaryKinds` say which they are); with any of them taken out of the
set the run fails.

### IrToXir, XirConvert

State: the builder `XIR_Builder`: the instructions so far (`code`), the
constraints on lregs (`ranges`: hint, forced, any of a mask), the union-find of
aliases with the sizes of its classes, the call sites, and `live`, the interval
of each lreg. `Convert` of `XirConvert` has one alternative per converter of
`ir_to_xir.c` and yields the builder calls in their order; `Build` performs one
of them per step (`EmitInstr`, `XIR_def_phys_reg`, `XIR_hint_same_reg`,
`XIR_alias_regs`, ... ; a failed `assert` ends in phase "abort"). `TouchInstr` is one iteration of the pass of `livevar.c`,
`TouchFramePointer` its end.

Then the procedure runs twice in step. `StepIr` is what an IR instruction means;
`StepX` executes its XIR, where a write to an lreg destroys every lreg whose
interval does not overlap the written one's: no allocator may share more. Values are
terms. Both branches of a conditional jump are taken. A register lives in an
lreg named by what it holds, so that numbering adds no states.

### X64Emit, Lowering

State of `Lowering`: an XIR instruction `x`, the places of its lregs `loc`
(registers or frame slots), whether the procedure is a leaf, the emitted
`code` and the machine `m`. `Gen` is `X64_gen_instr`: it borrows registers for
spilled operands, saves and restores them. `Step` executes one emitted
instruction. `Ideal` executes the instruction on a machine that has a register
for each lreg. A word is a sequence of symbolic bytes (an input byte, a byte of a
number, a byte of the result of an operation on words), so every width and
every extension is compared and no arithmetic is done.

### FrameLayout, CallSequence, CallArgs

State of `FrameLayout`: the procedure, what `X64_assign_proc_param_offsets` keeps
(`nextReg`, `spillSize`, `stackArg`), the spills it emits (`saved`), what has an
offset (`placed`), and one activation per scope that is being laid out: the C call
stack of `X64_assign_scope_stack_offsets`. A parameter is spilled from one register
(`SpillOne`) or two (`SpillPair`), or left where the caller stored it
(`TakeStackArg`); `PlaceVar` places a variable, a temporary or an anonymous object;
`EnterScope` calls, `LeaveScope` returns and takes the larger size; `CloseProc` is
the last line of `X64_assign_proc_stack_offsets`. `within` says in which scopes a
variable is, so that two of them are in use together when one's scopes are among
the other's.

`CallSequence` lays out the callee's frame by those steps, and then makes a call of
it. State: the call (parameter list, result, what is in use around it), the position
`pc` in the whole sequence, and one machine. The sequence is the caller's moves of
arguments (`CallArgs`), saves of the registers its mask names, the call, the callee's
prologue with its stack frame, its moves of parameters to their variables, a body
that assigns all variables and every register the callee may use, the epilogue, the
restores and the move of the result.

### Encoding, X64Decode, GlobalData, ObjectFile

State of `ObjectFile`: the sections, the procedure that is being generated, its
blocks with the length of each jump, `updateJmps`, the text so far, the file and the
linked image. `GenData` lays out `.data` and `.rodata`; `GenProc` encodes the
blocks with short jumps, `NextJmp` is one iteration of the inner loop that
makes jumps long, `NextPass` the test of `update_jmps`; `Serialized`
writes a procedure to the text and patches its jumps; `PatchProcUses` patches
calls and uses of procedures; `WriteElf` writes sections, symbols and
relocations; `Link` is the linker (external). `SkipIncomplete` passes over a
declaration without a body.

The lengths of the jumps are a module of their own, `JumpSizes`: of a block it
keeps the size of its other instructions (`size`), its jump and the lengths and the
offset the jump has so far. `ObjectFile` extends it: its actions are those of
`JumpSizes` (`BeginJumps`, `UpdateJmp`, `UpdateAgain`, `JumpsKnown`) with what happens to
the bytes, so what is proved of `JumpSizes` is proved of the sizes in `ObjectFile`: of `pc` it
only asks whether it is "jumps", and no other action of `ObjectFile` changes a
block. The code's offsets are `s32`; a procedure of two gigabytes is left out.

`X64Decode` was written from the processor's manuals, not from the encoder, so
that a slip in one is not repeated in the other. Bytes of numbers are symbols
except where their value decides the form of an instruction.

### HashMap, Dictionary

State: the slots (`entries`), the capacity `cap` and the number of keys `len` of an
`HMap`; the call in progress and what the last one returned; where its probe is
(`at`); and, while `hmap_expand` moves the entries, the old table with the position
in it. `Put` and `Get` begin a call; `FindsRoom`, `Expand` and `NoMemory` are the
load test of `hmap_put` and its outcomes; `ProbeOn` and `Store` are the turns of its
loop, for the caller's pair and for each entry that `hmap_expand` puts into the new
table; `MoveNone`, `MoveEntry` and `AllMoved` are the turns of that loop; `Look` is
one of `hmap_get`. A capacity of 0 is a table that was never created, of which
`hmap_get` is asked all the same (`ast/module.c:1628`); `hmap_put` is not.

`Dictionary` is the promise. The table that `HashMap` stands for (`Contents`) is what
is in the slots, and behind that what has yet to be moved: that it is the same before,
during and after a growth is the refinement (`ImplementsDictionary`).

The hash functions are an arbitrary constant `Hash`: interned strings, types and
literals are compared by their callers. A capacity is a power of two, so `i & mask` is
`i % cap`. `hmap_clear` has no caller and `hmap_destroy` frees; both are left out.

## Runs

| run | shows |
|---|---|
| `regalloc` | every procedure below satisfies the safety properties, the refinement and termination |
| `regalloc_forced` | violation: an interval is placed in a register that a later, overlapping interval is forced into; the assert at `reg_alloc.c:250` fails |
| `controlflow` | 1369 bodies compile to code that does what they say |
| `controlflow_settled` | violation: `(a \|\| b \|\| c) && d` leaves a jump without a target |
| `resolver` | every program below is resolved in an order its needs allow, as far as it reaches, or refused for what no order can settle; the marks are those of the calls in progress; it ends |
| `loader` | modules are loaded after what they import, only import cycles are refused as such, nothing private is bound elsewhere, names keep their meaning, errors are printed under their file, loading ends |
| `expressions` | every expression of up to three operators over the limits of the types has the type and value it means, folded or run; the generator stops on none; integer literals are exact |
| `ir_to_xir` | 1183 procedures do as XIR what they do as IR, whatever sharing of registers their intervals allow; forced registers stay apart; no assertion of the builder fails |
| `lowering` | every kind of XIR instruction, over registers and slots: the emitted code does what it says and nothing else |
| `calls` | 3864 calls: arguments arrive, the result arrives, what is live is preserved, the frame's objects are disjoint |
| `object_file` | instructions decode to themselves, jumps and references land where they should, data holds its initializers, jumps only grow |
| `hash_map` | a lookup returns what was last put, while the table grows or cannot; every probe and every call ends |

Each violation was also seen with the compiler itself (built with asserts).

Bounds of `regalloc`: three virtual registers and the frame pointer, over four
interval shapes (nested, overlapping, a point, one past a call), every
constraint (none, hint of a register or of another interval, forced, forced to
a set, set or spill), two calls, two integer registers (one caller-saved, one
callee-saved), RBP which is forced but never allocated, and one float register.
Three intervals and two registers are what it takes to expire, spill the
longest, steal, and meet a forced register ahead; the fourth (RBP) is the
interval that every procedure with a frame has. Two forced uses of one register
do not overlap or start together (`ir_to_xir.c` copies the value out; `ForcedApart`
of `IrToXir` checks it), which `WellFormed` states. The frame is first used at the
start or midway, since the frame pointer counts as held from then on (see "Met
while modelling").

Bounds of `controlflow`: conditions of up to four leaves over `&&`, `||`, `!`
and `?:`, comparisons and variables, in an `if`, an `if-else`, a store, an
expression statement, a loop and a `do`; loops of every kind (with and without
next statement, constant conditions) whose body breaks, continues or returns,
and loops in loops. Four leaves are what it takes to merge two lists of two
jumps. Bodies that the code is known to miscompile are left out of this run, and
only those: a left operand of which a jump other than the first has the opposite
value (the subject of `controlflow_settled`), and what "Met while modelling" lists
for statements and conditions.

Bounds of `resolver`: two modules, nine symbols (a procedure, a variable, a
typedef, a struct and a constant in the entry module; a struct, a procedure, a
foreign procedure and a constant in the library), one name that means different
things in the two. 1080 programs vary how the types use each other, in three
orders of declaration; 1728 vary constants, procedures, parameters, locals,
bodies and static asserts. Cycles of length one to four, through both modules,
occur. `RefusesOnlyCycles` leaves out programs with procedure types that return
something, and `SettlesWhatItReaches` bodies first met by the last pass (see "Met
while modelling").

Bounds of `loader`: an entry file and three more in two directories (two share a
name, paths are relative or absolute), five names of which one is builtin, an
include limit of one. Every way a module can take names (all, some, renamed, as a
namespace, some of them as a namespace) meets every way to pass them on; the
graph programs have chains, diamonds, cycles and self-references of imports and
includes, and errors in each file. Two levels of include beyond the entry file
reach the limit; three modules make the longest chain that a re-export and a
cycle over more than two modules need. `ErrorsInTheirFile` leaves out errors at
the end of a file: the code prints those under the next file, or aborts if there
is none.

Bounds of `expressions`: bytes of two bits, so that `u8` ends at 3, `s32` at 127,
`u64` at 65535 and a shift, a wrap, a carry into the next type are a few values
away; every type but the 16-bit ones (which promote like the 8-bit ones). The
first operator takes 24 operands (the limits of the types, constants and variables
of each kind, null, a size, an address), the second eight others, the third one, in every
position; every cast after every operator. Three operators make a folded or
emitted result the operand of a conversion whose result is used again. Literals
have up to one digit more than the largest number in each base. The ten kinds
named in `LeftOut` are left out, each a defect below (`UnsignedShift`,
`ConstPtrMinus`, `AddrConst`, `HostTraps`, `StaleScalar`, `MixedTernary`,
`CmpAsByte`, `NegatedStore`, `ImmPointer`, `FarDisplacement`). What has no meaning
(a division by zero, a shift by the width or of a truth value, the difference of
pointers that are not a multiple apart) is computed and must not stop the
compiler, but is not built upon.

Bounds of `ir_to_xir`: every converter, on operands that are immediates (of 31,
32 and 64 bits), registers and addresses of every kind (local, global, literal,
register base, with an index of a scale the processor has or lacks, nested,
aliased), between loads of what it uses and uses of values that live across it:
what a wrong interval or a clobbered register would lose. Procedures of several
blocks have phis, nested ternaries, a loop, arguments that wait for a call, calls
of eight arguments and objects, system calls of up to seven. `MaxSteps` (40) is
longer than any of them runs before it returns, the loop apart, which it follows through
several rounds. Left out: an unsigned 32-bit immediate in an 8-byte operation, an
index of another scale than 1, 2, 4, 8 that is used again, a global with a
displacement or index (see "Met while modelling"), scales above 127,
conversions of unsigned integers of 4 bytes or more to and from floats.

Bounds of `lowering`: the registers that are borrowed first, one that is not,
and two slots, in every combination for up to three operands and an index, in
leaf and other procedures: each choice of a borrowed register depends on the
first few of its list. Four kinds are left out, named in `LeftOut`; each is a
defect below.

Bounds of `calls`: ten parameter lists (both classes of registers run out,
objects of 3 to 40 bytes), eleven results, two frames (without locals; with
nested scopes, siblings of different sizes and temporaries of odd sizes), four states of the caller (what it
keeps live, direct or through a register, what is pushed). Nine arguments are one
more than the class with most registers.

Bounds of `object_file`: each form of instruction over the registers whose
encoding has an exception (RAX, RBX, RSP, RBP, RSI, R8, R12, R13), displacements
of no, one and four bytes; two or three blocks with sizes around the limit of a
short jump (-128 and 127) in both directions, and chains in which one jump's
growth pushes another over the limit; every pair of initializers from a list with
nested compounds, unions, out-of-order members, strings and addresses; up to four
procedures with calls and uses before and after their definition, foreign
procedures among them. Two instruction kinds are left out
(`RipImmediate` and `MovDst8h`, both below).

Bounds of `hash_map`: four keys and two values; two of the keys have the last slot
of every table up to eight slots as their home, another the first, so probes collide and
go round the end. Tables are created with no, one or four
slots: from one slot the table grows three times (2, 4, 8), from four once, each time
with and without memory.

Fairness: weak fairness of the step relation as a whole in all specifications but
`HashMap`, where it is that of a call's own steps (a call runs until it returns;
nobody has to make another). The
compiler is one thread that nothing blocks; `Terminates` and `KeepsPace` need no
more. (`SymbolResolver` and `ModuleLoader` have a stuttering `Stopped` step once
the compiler has ended, outside of the fairness, so deadlock stays checked.)
`KeepsPace` quantifies over a run in which the tested values are free, so
it says only that something observable happens again and again.

## Met while modelling

Seen with the compiler itself; the models contain them unless their part is
listed as not modelled, and where a run would stop at one, the run leaves out
exactly the inputs that show it.

Loader and resolver:

* `import {x} from "./a.nib"; import "./b.nib" as x;` silently makes `x` the
  namespace, in the other order it is a conflict (`ast/module.c:1746`);
* an `export {A::z as q}` where `import {x} ... as A` does not list `z` fails
  `hmap_get`'s assert (`LookupNull`);
* `import ... as main;` crashes: the namespace has no declaration
  (`compiler.c:1128`, `FindMain`);
* a syntax error at the end of the last file fails `assert(src_file)`
  (`compiler.c:104`), and so does an empty entry file;
* two files that include a third are refused as a cyclic inclusion
  (`compiler.c:749`);
* a global variable whose type is in error is recorded all the same, and its
  null type read (`resolver/common.c:117`, `UnwindSymbol`);
* `#static_assert` in an imported module is never looked at
  (`resolver/module.c:4` runs on the entry module only);
* `typedef F = proc() => S;` is refused if nothing has completed `S` yet, and
  accepted otherwise (`resolver/typespecs.c:307`);
* `struct S { a: nosuch; }` fails `assert(field_type)` (`resolver/typespecs.c:71`),
  a parameter named like a global `assert(param_sym)`;
* a procedure first met while the last pass completes a struct never has its
  body resolved (`resolver/module.c:58`);
* a statement after `if (c) {return;} else {break;}` is accepted and then emitted
  into no block (`resolver/stmts.c:144`).

Expressions (the kind that `LeftOut` of `Expressions` has for it in brackets):

* `u >> n` of a `u32` shifts in copies of its upper bit at run time, zeros when
  folded (`procs.c:2040`; `UnsignedShift`); `1 << 33` is 0 folded and 2 at run time;
* a constant pointer minus a constant adds it (`exprs.c:1020`), and the difference
  of two is shifted as if unsigned (`exprs.c:1060`; `ConstPtrMinus`);
* `!(^g) + 1` and `(^g - ^h) + 1` fail the assert at `exprs.c:930`; `!(^g) ? 1 : 2`
  is 1, and `^g ? y : 2` fails the one at `procs.c:2229` (`AddrConst`);
* the constant `(-9223372036854775807 - 1) / -1` stops the compiler with SIGFPE
  (`const_eval.c:102`; `HostTraps`);
* a constant cast leaves the upper bytes of its scalar: `(-7 :> u32) /% 2u` divides
  them too (`procs.c:2128`; `StaleScalar`), `while ((256 :> u8))` runs its body,
  `#static_assert((256 :> u8))` passes (`stmts.c:688`), `[(258 :> u8)]T` is not
  `[2]T` (`typespecs.c:239`), `enum E : u8 {A = (257 :> u8)}` is refused
  (`decls.c:226`); the last four are outside the model;
* `true ? 5 : y` is an immediate that is not constant: to convert it fails the
  assert at `procs.c:2503`, to add to it the one at `ir_to_xir.c:574`, to compare it
  the one at `ir_to_xir.c:1352` (`MixedTernary`);
* `((a < b) :> u8)` fails the assert at `procs.c:929` (`CmpAsByte`),
  `(0 :> ^int) + i` the one at `procs.c:1073` (`ImmPointer`);
* `p + 5000000000` loses the upper half of the offset, and an offset from 2^31 is
  negative (`bytecode/module.h:43`; `FarDisplacement`);
* `b << 1` of a `bool` is a `bool` that holds 2; `g + inc()` reads `g` after the
  call (both outside the model).

IR generator:

* `var x : bool = !(a == b)` stores `a == b` (`procs.c:942`; `NegatedStore`);
* `while (true) {}`: the header block is removed though it jumps to itself
  (`procs.c:4172`); `if (false)` without `else` emits a NULL statement
  (`procs.c:3815`); `do { } while (false)` drops its body, a `continue` in a `do`
  skips the condition (`procs.c:4133`);
* `q - p` is wrong when the pointed-to size is not a power of two
  (`procs.c:1856`, `exprs.c:1060`);
* `p = {p.y, p.x :P}` is built in `p` while `p` is read (`procs.c:1404`);
* `t[i]` of 256-byte elements reads `t[0]`: the scale is a `u8` (`procs.c:1622`).

IR to XIR and XIR to x64:

* a 64-bit `x + 4294967295` adds -1 (`ir_to_xir.c:64`, `SignedImm`);
* `t[i]` of 200-byte elements scales by -56 (`ir_to_xir.c:266`);
* `arr[i].b += 7` with 12-byte structs crashes: the first use of the address
  scales the index in place, the second scales it again (`ir_to_xir.c:242`);
* a global's displacement and index are dropped: `g = {1, 2 :P}` stores both fields
  at the start of `g` (`ir_to_xir.c:297`);
* a struct literal nested in one assigned to a global fails an assert
  (`ir_to_xir.c:312`); the index of an `AtAddress` without an index of its own
  base is dropped (`ir_to_xir.c:314`);
* `u32` values from 2^31 are converted to and from floats as if signed;
* the frame pointer counts against the integer scratch registers although it is not
  one of them: a procedure whose frame is first used when all of them are held
  fails the assert at `reg_alloc.c:96` instead of spilling (thirteen globals negated
  in one nested sum, then a parameter). `SpillsInsteadOfFailing` therefore assumes
  `ForcedOutsideScratch`, that no forced register outside the scratch set has an
  interval;
* a borrowed register that is also the source (`TmpIsSource`), four bytes stored to
  a slot of eight (`HalfSlot`), flags changed by giving back a borrowed XMM
  register (`FlagsLost`);
* register-register and register-immediate instructions of some kinds have no
  form for a spilled operand and end in a fatal error (`SpilledOperandsLower`), so does
  `s8` to `f64` (`xir_to_x64.c:1866`);
* a call with ten structs by value crashes (`xir_to_x64.c:1106`: the base of one
  argument is overwritten by another); an indirect call with fourteen arguments
  fails `reg_alloc.c:96`, as do other procedures that hold more registers than
  the scratch set has;
* the stack is not aligned at a call after an odd number of pushes; a procedure
  that returns a large object leaves address plus size in RAX.

Machine code and data:

* `if (g == 5)` on a global compares another address: the immediate behind the
  displacement is not counted (`machine_code.c:304`; `RipImmediate`);
* `mov dil, al` is encoded as `mov bh, al` (`MovDst8h`);
* a global initialised with a foreign procedure crashes the writer
  (`elf_writer.c:533`); so do a global `[8]char` with a string initializer, and a
  global with the address of an array element; `.data` takes its alignment from
  the first variable alone (`data.c:210`);
* `-asm` with a call of nine `f64` fails an assert (`nasm_gen.c:142`).

## Proofs

Every theorem is about `Spec`, without fairness, for all values of the constants
that satisfy the module's assumptions. Each rests on an inductive invariant, which
TLC checked on the runs' instances before it was proved: one lemma per action, or
per kind of action, shows that a step keeps it. The type invariants of `RegAlloc`,
`SymbolResolver` and `HashMap`, and `LoadingIsACall` of `ModuleLoader`, are proved and
not run again.

### RegAlloc

The assumptions: `AllocAssumption` (the number of virtual registers is positive,
scratch arrays hold registers, `Programs` are programs), `ScratchAssumption` (a
scratch register is listed once and under its own class, as in `regs.c`) and
`ProgramAssumption` (every procedure is `WellFormed`, which is what `ir_to_xir.c`
and `livevar.c` establish and `IrToXir` checks: an interval does not end before it
starts, forced registers are of the interval's class, two intervals forced into
one register are apart, call sites are in order).

| theorem | module | property |
|---|---|---|
| `TypeCorrect` | `RegAllocProofs` | `TypeOK` |
| `NoSharing` | `RegAllocProofs` | `NoSharedRegister`: intervals that overlap and are in registers are in different ones |
| `ColoringImplemented` | `RegAllocColoring` | `ImplementsColoring`: each step gives one interval a place, or moves one from its register to a new slot, as `RegColoring` allows, or is a stutter |
| `CalleeSaved` | `RegAllocColoring` | `CalleeSavedReported` |
| `ForcedKeptClear` | `RegAllocColoring` | `ForcedRegsKeptClear` |
| `CallSitesSave` | `RegAllocColoring` | `CallSitesSaveLive` |
| `SpillsNotFails` | `RegAllocColoring` | `SpillsInsteadOfFailing` |

`NoSharedRegister` is not inductive: it speaks of all intervals placed so far,
and a register may be given again only because the intervals that held it ended
before the current one starts. `IInv` adds what the scan maintains: a register is
free or is owned by one active interval of its class; the active list holds
exactly the owners; done intervals end before the current start or are on the
stack; the unhandled list is sorted by start, so whatever comes starts no
earlier. The first lemmas of `RegAllocProofs` give the facts about insertion at a
sorted position and removal (the range of the result, that it stays sorted, that nothing is
duplicated).

`CInv` adds where each value is (`Places`: in a register that its constraint
allows, or in a slot; `SlotsApart`), which intervals the lists hold between them
(`Members`), and the orders that the rest of the scan relies on: what is placed
started before what is pending (`Started`), `active` is sorted by end. An
unconstrained value is clear of a register not only where a pending interval is
forced into it and overlaps, but already where they touch (`KeptClear`): the code
compares with the ends, and the weaker statement is not inductive. For the call
sites the invariant is that of a merge of two sorted lists (`CallsSoFar`): the
handled intervals before the current one are live across none of the calls to come.

`SInv` adds that while something is pending no class has more active intervals
than scratch registers. That a free register is then found, which the code
asserts, is the pigeonhole principle: the active intervals of a class are in
different registers (`IInv`) that are scratch registers of the class (`Places`),
so with fewer of them one register is left over.

### SymbolResolver

The assumption `ResolverAssumption`: programs are well typed, and what a type name
stands for agrees with the typedefs that lead there.

* `TypeCorrect`: `Spec => []TypeOK`;
* `MarksTrue`: `Spec => []MarksMatchCalls`: the marks `resolving` and
  `is_completing` are those of the calls in progress, and `state.mod` is the module
  of the innermost call's symbol;
* `OrderImplemented`: `Spec => ImplementsOrder`: initial states map to initial
  states of `DependencyOrder`, every step settles one thing whose needs are all
  settled, or maps to a stutter;
* `SettlesExactly`: `Spec => []SettlesWhatItReaches`;
* `RefusesCycles`: `Spec => [](phase \in Failure => Refused)`: any set that holds all
  that a refused program reaches has a part that needs itself (a cycle, or a name
  that nobody declares), or a procedure type there reads the size of its result.

The first three are in `SymbolResolverProofs`, the others in `SymbolResolverReach`. The refinement needs to know, when a call ends, that everything its declaration
uses has been settled, though the call kept only what was left to do. The invariant
`IInv` therefore ties each frame of the stack to its declaration (`FrameOK`): what
remains is a suffix of it, the locals known are the parameters and the names
declared in the part that is behind, and whatever the uses behind need is settled;
each frame has saved the module of the frame below (`SavedAt`), so returning
restores it. `TypesTrue` says that the type of a resolved symbol is the one its name
stands for, so that completing the type a use finds completes what the use needs;
for a typedef it follows from the frame's own use, which cannot have found an
undeclared name (`LostIsNot`). `ProcsResolved` is what lets a body begin. There is
one lemma per way of changing the stack (`Push`, `Pop`), one per kind of step, each
giving both `IInv'` and `Settles`.

`ReachInv` adds, while nothing has failed, the two halves of "exactly". Nothing is
forgotten: each list holds the resolved symbols of its kind (`Listed`), the needs of
what is settled are settled (`Met`), and each pass has dealt with the part of its
list that its position has passed, though the list grows (`OrderBehind`,
`BodiesBehind`, `TypesBehind`); what holds when the pass over bodies ends
(`BodiesDone`) is carried through the last pass, which may meet procedures whose
bodies stay unchecked. Nothing is settled for nothing: `Covered` says that every set
that holds all the program reaches holds what is settled and what the calls in
progress are for. That each call is there because the current use of the call below
needs it (`CallsNeeded`) is what makes a refusal right: when a use meets a mark, the
calls from the marked one up need each other in a circle (`NeedsItself`), and all of
them are within reach. After a failure only `Refused` is kept, which speaks of the
program alone.

### ModuleLoader

The assumption `LoaderAssumption`: the entry file exists, files are sequences of
statements, the special values are not among the ordinary ones.

* `ParsingIsACall`: `Spec => []LoadingIsACall`;
* `PrivateStaysHome`: `Spec => []OnlyExportedLeaves`;
* `ErrorsFindTheirFile`: `Spec => []ErrorsInTheirFile`;
* `NamesAreKept`: `Spec => NamesStay`;
* `CyclesAreCycles`: `Spec => []CyclicMeansCyclic`;
* `OrderImplemented`: `Spec => ImplementsOrder`.

`Core` is the invariant of the first four. The calls of files lie above the call of
their module (`CallsOK`). The files of the source map follow one another, and every
position that is kept anywhere is in the file kept with it (`MapOK`), which an
error needs to find its file. What a table holds is the module's own, builtin, or
exported by a module that is done (`Well`): "done" is what makes it stay so, since
the export table of a module that is done no longer changes, and a module that is
still being loaded cannot be imported from.

`Graph` adds what the recursion has not forgotten. `UnitsOK`: a file that is read
belongs to its module, what is recorded is what the module imports, and each
module being loaded is reached by the imports of every one below it; a cyclic
import then closes a cycle. `ReadSoFar`: every statement of a file read is behind
(recorded, or a file included and read) or ahead of a call that is at that file, so
when the calls of files have returned all imports are recorded; `StagesOK`: those
behind the stage of imports have been loaded and are done. That `seen` is one set
for all files of a module, cleared when another module is begun, is harmless
because a module imports only after its files have been read (`FilesOnTop`). The
units of a module and what its imports reach are defined as least sets, so that
closure and minimality can be used without induction.

### HashMap

The assumption `HashAssumption`: the empty key is no key, NULL no value, a hash is a
natural number, a capacity too. Nothing is assumed of the hash function's quality, nor
of the number of keys.

* `Invariance`: `Spec => []IInv`, and from it `TypeCorrect`;
* `KeysAreReached`: `Spec => []Reachable`: no slot between a key's home and its own is
  empty, round the end of the table too, which is why a lookup may stop at the first
  empty slot;
* `ProbesEnd`: `Spec => []SparseEnough`;
* `DictionaryImplemented`: `Spec => ImplementsDictionary`.

`Reachable` is not inductive: an entry is stored where a probe ended, and that all slots
on the way there are taken is in the state only as the probe's position. `Passed` says
so: from the home of the item in hand to `at` every slot is held by another key. With
it, storing makes the item reachable and cannot cut off anybody else, since slots are
only filled. `Placed` has the position of the move and the capacities of the two tables
fit `pc`; `Apart` says that a key is in one slot, and, while entries move, in one table.
`Counted` says that `len` is the number of slots in use, and that those still to be
moved are few enough: together they are less than 60% of the old capacity, so they fill
less than 30% of the new one, which is why the nested `hmap_put` never finds the table
too full. The end of a probe is then the pigeonhole principle: fewer slots are in use
than there are.

For the refinement `Has(k, v)` says that `k` stands for `v` in one of the two tables;
by `Apart` it does so for one `v` at most, so `Contents`, which is defined by a choice
of slot, is determined (`ContentsHold`). Each step of a growth moves one entry from one
table to the other and leaves `Has` alone.

### JumpSizes

No assumption: the conditions are any set, the blocks any number, of any size.

* `Invariance`: `Spec => []IInv`;
* `OnlyGrow`: `Spec => JumpsOnlyGrow`;
* `SerializedRight`: `Spec => []JumpsExact`: when the blocks are copied to the text,
  every jump has its bytes, its offset is the distance from the end of its block to the
  start of its target, and its form is the one that offset needs.

Two facts carry the loop over `update_jmps`. First, `Needed`: a jump with four bytes
needs four bytes now. It is kept because no block ever gets shorter, and when no block
gets shorter no offset gets nearer to zero (`OffsetsGrow`); but that no block gets
shorter is `Needed` itself, applied to the jump that is updated (`JumpUpdated`), hence
one invariant. The backward case has a subtlety: the offset counts the jump itself, and
goes from -128 straight to -132 or -133 where the long form is taken. Second,
`Current`: while a pass has changed no size, all jumps behind it have the offsets that
the sizes give. `Shapes` has the assert of `X64_update_jmp` (a jump with one byte has an
offset that fits it, `machine_code.c:964`). `Current` at the end of a pass without a
change is `JumpsExact`.

A pass that is followed by another made a jump grow, and a jump grows once: the loop
ends after at most one pass more than there are jumps. That sentence is the only part
that is not formal.

The sizes are sums over blocks, defined by a recursive function. Facts about all its
values are proved by induction: `Counting` derives it for sets of numbers from the
well-foundedness of `<` (`WFMin`), since the library's induction theorems take an
operator as a parameter.

### FrameLayout

The assumption `ProcsAssumption`: parameters, variables and objects have a size and an
alignment of 1, 2, 4 or 8 (`ast/module.c` makes no other), scopes have numbered
children. Nothing is assumed of how many there are or of how scopes nest.

* `Invariance`: `LayoutSpec => []IInv`;
* `FramesAreDisjoint`: `LayoutSpec => []FrameDisjoint`;
* `ArgumentsAgreed`: `LayoutSpec => []ArgumentsAgree`: caller and callee each assign
  registers and stack words to the parameter list (`XIR_convert_call_args`,
  `X64_assign_proc_param_offsets`), and every parameter is spilled from the registers
  its argument is in, its words in order, or is where the caller stored it. The run
  checks the consequence, `ArgumentsArrive`, by executing both.

`FrameDisjoint` speaks of variables that are placed; that the next one is apart from
them is in the state only as two sizes of each activation. `Covered`: all that a scope
and its enclosing ones have placed ends at or above `base`, where its children start.
`Reached`: all else, the scopes already left, ends at or above the `size` of some
activation. A scope places its own variables before it enters a child, which is why
`base` is `size` until then (`OwnFirst`). Siblings share bytes: they are not
`Together`, because the activations on the stack are of scopes inside one another and
a scope is numbered when it is entered (`Nested`).

`InStep` carries `ArgumentsAgree`: after as many parameters the callee's counts are the
caller's. The two round differently: the callee to the parameter's alignment and then to a
word, at its absolute offset, the caller the size to a word; they agree because the offset
is a multiple of a word and no alignment exceeds one (`StackWords`). That the second
half of a pair needs no padding is `WordAligned`. `Taken`, a recursive function, is
given its equation by `Counting`, as the sums of `JumpSizes` are.

### What TLC alone checks

Liveness (`Terminates`, `KeepsPace`, `CallsReturn`), which is out of the prover's reach. `RefusesOnlyCycles`, whose
reference is computed by recursion: `RefusesCycles` proves the same of closed sets
in place of the least one. All of `Expressions` (its bit operators are the recursive
ones of `Bitwise`); all of `ControlFlow` (its `Flow` is recursive); the back end
after the allocator but for frames and the sizes of jumps, whose properties compare two executions
of one finite list of forms, and whose operators are recursive: for these the enumeration
of forms is the argument. `JumpsLand` of `ObjectFile` goes further than `JumpsExact`: it
reads the bytes back.

## Not modelled

Floating-point expressions, fields, indices, calls and compound literals in
`resolver/exprs.c`, assignment and objects in `procs.c`; `switch` (the generator emits it, the x64 generator rejects
it); multiplication and division of one
byte in `ir_to_xir.c`, which no program reaches (operands are promoted); the
parser and, integer literals apart, the lexer; allocators, arrays and lists; the parts marked `not_modelled` in
`PROJECT.json`, for now (see the plan); formatting (`print*`, `nasm_gen.c`, dumps)
and I/O (`main.c`, `linker.c`, `os_utils.c`) for good.

## Plan

1. `IntervalList`, `RegAlloc`, `SymbolResolver`: done, with proofs.
2. `SourceProgram`, `ControlFlow`, `ModuleLoader`: done. Left: line and column
   numbers, search paths.
3. `IrToXir`, `Lowering`, `CallSequence`, `ObjectFile`: done; `FrameLayout` and `JumpSizes` with proofs.
4. `Expressions`: done for integers and pointers. Left: floating point, fields and
   indices (`exprs.c:1561`), the other tokens.
5. Object values (`procs.c`): temporaries, copies and their elision.
6. `HashMap`: done, with proofs. Left: `Arena`, `BucketList`: refinements of a stack of
   allocations, a sequence.
7. Paths; statements of the resolver (`switch` cases); the parser.

Theorems to come: of `IrToXir`, that an interval contains every touch of its lreg,
and of `ControlFlow`, that every jump has a target (each needs the recursive
operators of its module moved to a module of their own); the invariant of `Arena`.
