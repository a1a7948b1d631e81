# Ilya: models and proofs of the compiler, the virtual machine and the run-time system

Ilya is a dialect of Lua 5.5 written in C: a one-pass compiler to byte code, a
virtual machine, and below both a run-time system that keeps the stack, the heap,
tables, coroutines and the garbage collector.  This directory models all of that
in TLA+, checks the models with TLC and proves theorems about three of them, the
stack, the coroutines and the tables, with TLAPS.

The program has no threads of the operating system.  What makes it hard is
re-entrancy and representation.  Re-entrancy: an allocation may run the collector,
the collector runs finalizers, closing a variable runs a method, any metamethod
may yield in the middle of its instruction, an error jumps over C frames, and each
of these may start any of the others again.  So "interleaving" below always means:
the program, a finalizer, a metamethod or a closing method acts between two steps
of an operation that is still in progress.  Representation: jump lists live inside
the instructions they patch, collision chains inside the node vector, lists of
pending variables inside the stack, line numbers as differences; a long sequence
of legal operations on each must never make it say something else than it means.

## 1. Inventory

| Part | State | Operations | Talks to | Hard because | Correct when |
|---|---|---|---|---|---|
| Collector, `lgc.c` | object lists, gray lists, color and age of each object, `gcstate`, `gckind`, `sweepgc`, limits of generations | basic step, full and emergency collection, change of mode, barriers, registration of finalizers, final collection | everything that stores a reference (barriers), `lmem.c`, finalizers | the program changes the graph between any two steps; two modes share lists and colors; finalizers run inside a collection | nothing in use is freed, garbage is freed, every finalizer is called once, lists and ages are what the next phase assumes |
| Allocator, `lmem.c` | debt and byte counts | allocate, resize, free, try again after an emergency collection | collector | a failed allocation collects in the middle of an operation | the operation that allocates has anchored what it needs |
| Upvalues and to-be-closed variables, `lfunc.c` | open list, `tbclist` with its deltas | find, create, close upvalue; new tbc variable; close | stack, collector (`twups`) | scopes end by blocks, returns, tail calls and errors; methods run in between | a captured variable is one variable for ever; each tbc variable is closed once, in reverse order |
| Calls and errors, `ldo.c` | CallInfo list, stack, `errorJmp` | call, return, tail call, throw, protected call, resume, yield, unroll, recover | all | `longjmp` past C frames; continuations instead of C frames | results and errors arrive where they should; stack and counters are as before the call |
| Threads and states, `lstate.c` | global and thread state | create, reset, close | collector, `ldo.c` | closing runs finalizers and methods | every resource is released |
| Strings, `lstring.c` | string table, API cache | intern, resize, remove, cache | collector, allocator | dead strings come back; resizing may collect | equal short strings are one object |
| Tables, `ltable.c` | array part, hash part, free pointer, length hint | get, set, insert, rehash, next, length, constructor | collector (dead keys, barriers), allocator | collisions move nodes; sizes are chosen from counts; a resize may fail or collect half-way; keys die under a traversal | a table is a function from keys to values; a traversal meets each key once |
| Coroutines, `lcorolib.c` with `ldo.c` | status, CallInfo list, `nCcalls` of each thread, one C stack | resume, wrap, yield, status, close | protected calls, to-be-closed variables | a yield discards the C functions it passes; others finish for them later | an error reaches the innermost protected call; every variable is closed; the counter counts the C stack |
| C API, `lapi.c` | the stack of the caller | about 100 calls | all | each call must choose the barrier and anchor new objects | as the virtual machine |
| Virtual machine, `lvm.c`, metamethods, `ltm.c` | frames, program counters, open upvalues | 83 instructions, `finishOp` | all | metamethods, overflow, loops at the ends of the integers, yields in the middle of an instruction | it does what the program means |
| Parser, `lparser.c` | blocks, active variables, upvalues, labels, pending gotos | one function per production | code generator | one pass: gotos, closes and upvalues are known only after code is out | legal programs are accepted and no others; scopes, closes and jumps are those of the source |
| Code generator, `lcode.c` | expression descriptors, free register, jump lists, constants, `lasttarget`, line tables | discharge, jump, patch, fold, operators, constructors, finish | parser, debug interface | delayed code; instructions rewritten or removed after they were emitted | the code computes what the expression means and is well formed |
| Debug interface, `ldebug.c` | `oldpc`, hook mask | line of an instruction, name of a value, local variables, line hook | code generator's tables, virtual machine | everything is read back from the code | lines and names are the true ones |
| Precompiled chunks, `ldump.c`, `lundump.c`, streams, `lzio.c` | strings seen, alignment, buffer | dump, undump, read, getaddr | parser, virtual machine | a chunk ends anywhere, in any block, or is used in place | what is loaded is what was dumped, or an error |
| Lexer, `llex.c`; conversions, `lobject.c` | look-ahead, buffer | tokens, numerals | parser, libraries | boundaries of numerals | the value of a numeral is the one written |
| Libraries `l*lib.c`, `lauxlib.c`, interpreter `ilya.c` | files, loaded modules | pure functions and wrappers | C API, C library | `table.sort` with an inconsistent order; `string` patterns | - |

PROJECT.json lists the same parts with what is modelled of each, and under
`hazards` what is hard to test, each at its line and with the properties that
look for it.

## 2. Modules

| Module | Models | Described in |
|---|---|---|
| `Upvals`, `Upvals_proofs` | one thread's stack as `lfunc.c` and the protected calls of `ldo.c` use it; the proofs about it | 2.1, 5 |
| `GCHeap` | `lgc.c`: what each C function does to the heap (`global_State`), as a function from heap to heap | 2.2 |
| `Lgc` | the program, and the control of the collector: which functions run, in which order, and what can happen between them | 2.2 |
| `Dict`, `Table` | the abstract specification of a table; `ltable.c` with what the API and constructors do to a table | 2.3 |
| `Table_chains`, `Table_proofs` | the proofs about a table: lemmas on its node vector and its operators; its steps and theorems | 5 |
| `Coro` | resume, yield, protected calls, errors and closing over one C stack: `ldo.c`, `lcorolib.c`, `lstate.c` | 2.4 |
| `CoroInv`; `Coro_steps`, `Coro_throws`, `Coro_calls`, `Coro_returns`, `Coro_proofs` | its inductive invariant; the proofs about it | 5 |
| `Arith` | values and raw arithmetic: `lvm.c`, `lobject.c` | 2.5 |
| `Code`, `Parser` | `lcode.c` and `lparser.c`: from a syntax tree to prototypes | 2.5 |
| `Chunk` | `ldump.c`, `lundump.c`, `lzio.c` and the mode of `load` | 2.5 |
| `Debug` | `ldebug.c`: what the debug interface finds in the code | 2.5 |
| `VM` | `lvm.c` with `ltm.c`, one instruction a step | 2.5 |
| `Meaning` | the language: an interpreter of the source and the legality of programs, against which the compiler and the machine are compared | 2.5 |
| `MCUpvals`, `MCLgc`, `MCTable`, `MCCoro`, `MCCompile` | the instances that TLC checks | 3 |

### 2.1 Upvals

`stk` is the part of the stack up to `L->top`, `openupval` the list of open
upvalues, `uv` the upvalues, `tbclist` and `delta` the list of to-be-closed
variables as the code threads it through the stack slots.  `ctl` is the C and
CallInfo stack reduced to what matters here: running frames ("thread", "call",
"pcall", "method") and the loops of `ilyaF_close` that wait for a method
("block" from `OP_CLOSE`, "return" from `OP_RETURN`, "error" from
`ilyaD_closeprotected`).  One action per instruction or call that touches a
variable: `Declare`, `SetLocal`, `SetUpval`, `CaptureOld`, `CaptureNew`, `NewTbc`,
`Call`, `TailCall`, `LeaveBlock`, `Return`, `Throw`; then the loop of
`ilyaF_close` one turn at a time, `CloseMethod` and `CloseDone`, because methods
are arbitrary code that runs between the turns.  `Throw` is also what an error in
a method, in a protected call or in the thread's own function does:
the place it lands (`Catcher`) decides.  `LeaveTwups` is the only thing the
collector does to this state.

What it abstracts: values are a set `Vals` with those that have a closing method;
the slots that `ilyaF_close` pushes for the method's arguments are one; a tbc
variable that is false is an ordinary variable; a value without method is an
error like any other.  `delta` starts with arbitrary contents (the field is never
initialized) and keeps what earlier variables left in it.  `inst`, `cell`
and `pending` are history variables: what the program's source says each closure
must see and each scope must close.

### 2.2 GCHeap and Lgc

A heap is a record with the fields of `global_State` that the collector uses, and
the objects with their mark bits and references.  Each function of `lgc.c` is an
operator of (nearly) the same name: `ReallyMark`, `PropagateMark`, `Atomic`,
`SweepList`, `SweepToLive`, `UData2Finalize`, `CheckFinalizer`,
`BarrierForward`, `BarrierBack`, `CorrectGrayLists`, `MarkOld`, `SweepGen`,
`YoungCollection`, `Atomic2Gen`, and so on.  Lists whose order matters
(`allgc`, `finobj`, `tobefnz`) are sequences; gray lists and `twups` are sets,
since the code's results do not depend on their order and every order of
`propagatemark` is explored.  `sweepgc`, a pointer to a `next` field, is the
object (or list header) that owns the field: this is what lets an object that
moves drag the sweep along with it, which finding 1 is about.

`Lgc` has the program and the collector take turns.  The program's actions are
the ways in which `lapi.c`, `lvm.c`, `lfunc.c` and `lstring.c` change the graph,
each with its barrier: `New`, `Store`, `Drop`, `SetMode`, `SetFinalizer`, `Intern`,
`CacheHit`, `Capture`, `Join`, `CloseUpvalue`, `Switch`.  It uses only what it can
reach (`Accessible`, computed from the roots and the running thread, through weak
references too).  The collector's are `IncStep`, `IncCycle`, `YoungStep`,
`Collect`, `TryAgain`, `ChangeMode` and `Close`.  A collection that calls
finalizers is not one step: `todo` is the stack of collector calls in progress,
with what each has left to do, and while a finalizer runs (`todo` begins with
"fin") the program's actions, emergency collections included, are
enabled.  `gcstp`, `gcstopem` and `gcemergency` are read off `todo`.

What it abstracts: object sizes, debts and the tuning parameters.  Every decision
the code takes from them (when to step, how far to sweep, when to shift between
minor and major collections) is a free choice, except that one basic step does
one `singlestep` (any number follow each other) or a whole cycle.  Propagation in
the atomic phase is its result, a least fixed point; in the propagate phase it is
one object at a time, in any order.  Prototypes and C closures, which are
traversed like closures, and `fixedgc`, never swept, are left out.

### 2.3 Table and Dict

A table is a record of an array part `arr`, a vector of nodes with their offsets
`next`, `lastfree` and the length hint.  Each function of `ltable.c` is an
operator from tables to tables: main positions, `FreePos`, `InsertKey` (with
the collision moved or chained), `ComputeSizes`, `NewSizes`, `Resize` with its exchange
of hash parts and the reinsertion of a vanishing slice, `FindIndex`, `Length`
with its hint and both binary searches.  The actions are a program's: `Assign`
(which includes `newkey` and its rehash), `Construct` and `SetList`, `TakeLength`,
`StartNext` and `NextKey`, and `Collect`, which clears weak values and kills keys.
Every allocation may succeed, succeed after an emergency collection (`"retry"`) or
fail, and the table must be whole in each case.

`Dict` is what the manual promises: a map, and a traversal that visits each
present key exactly once if no field is added.  `Table` implements it under the
mapping `map <- [k \in Key |-> Get(t, k)]`, `walking <- cur # Idle` (property
`IsDict`): every step of a table is a step of the map or none, rehashes and
collections included.

A loop of the code is a recursive function: `Search` and `Previous` over the nodes of
a chain, `Reinserted` and `ReinsertOldSlice` over what is left to insert,
`ComputeSizes` over the candidate sizes, `BinSearch` over intervals.  So each of them
can be proved to have a value.

Keys are records of a kind, an identity and a hash, chosen so that they collide;
floats with integer values are normalized as in the code.  The memory layout of
the array (values and tags at both sides of a pointer), the cache of absent
metamethods and the string cases, which differ only in how they compare, are left out.

### 2.4 Coro

The state is the threads, each with its CallInfo list, status, `nCcalls` (calls and
non-yieldable calls apart), pending variables and whether a message handler is
set; and the one C stack `cs` of activations: `ilyaV_execute`, a C function,
`rawrunprotected`, `ilyaF_close`, `ilyaG_errormsg`, `unroll`.  Running code acts when
an activation of `execute` is on top: it calls a function, a C function of each
kind (`pcall`, `xpcall`, an ordinary one that calls back, `yield`, `resume`,
`wrap`, `close`), declares a variable to be closed, raises an error or returns.  The
other actions take one step of the C function on top: a turn of the closing
loop, a step of `unroll` (`finishCcall`, `finishpcallk`), a return of a protected
function.  `Throw` cuts `cs` at the innermost jump of the thread; `Precover` goes on
from the first CallInfo with `CIST_YPCALL`; a yield cuts `cs` at the `resume`.
C stack overflow, with its error inside the handling of errors, is what
`CheckCStack` does at the limits.

Slots are numbers, and values are left out: what is followed is which variables are
still to be closed, by which frame, and where each error goes.  `of`, `hit`
and `wrong` are history.

### 2.5 From source to events: Code, Parser, Chunk, VM, Debug, Meaning

`MCCompile` composes them.  A program is a syntax tree with the answers that its
external objects may give, and how it is compiled, dumped and loaded:

    Compile (Parser, Code) -> Dump, Undump (Chunk) -> VM, asking Debug for names
                                                   vs. Meaning

`VM` does not know the compiler: it gets it, and the names `Debug` finds, through the
constants `Load`, `FuncName` and `ObjName`; the properties in `Meaning` get the
interpreter through `Means`.  (TLC caches what constants of a model compute, and
each module can be read by itself.)

* `Code` keeps the state of a `FuncState`: code, constants, registers, jump lists
  threaded through the `b` operands of the jumps, line tables.  Operators have the
  names of the C functions (`Exp2Reg`, `JumpOnCond`, `PatchListAux`, `Finish`...),
  and leave the expression they change in `s.e`.  `s.sound` records the
  assertions of the code; `s.meant` records for each instruction the line and
  the variables in scope that it was compiled for.  A local function is in scope in
  its own body, but has no value before the `CLOSURE` that creates it: it is not
  meant to be told there, and `LocalFunc` has the debug information begin after it.
* `Parser` has one operator per production, and blocks, labels, pending gotos,
  upvalues and attributes as in `lparser.c`.
* `Chunk` writes a chunk as a sequence of bytes where the first byte of a datum
  carries it, and reads it back through blocks of any size, in place or copied, to
  the end or until it is cut.
* `VM` has one action per instruction or group of instructions of one shape.
  External objects have every metamethod; each call of one, and each event on one,
  is appended to `trace` and answered by any of the program's answers.  In a program
  that yields, the event leaves the machine suspended in the middle of the
  instruction and `Resume` ends it as `ilyaV_finishOp` and `unroll` do.  A line
  hook is set from the start.
* `Debug` finds lines, local variables and names from the prototype alone.
* `Meaning` evaluates the tree by the rules of the language, with a cell for each
  variable and without registers, jumps, upvalues or constants; it also tells
  which names a value may be called by, and which programs are legal.

What is abstracted, and so not checked:

* Numbers: integers have `Bits` bits, floats are halves without limit or rounding;
  `/`, `^` and float `*`, `//`, `%` do not occur.  Strings are numbers of their
  digits; they are keys, names, operands of `..` and of `#`; no program does
  arithmetic on, orders or indexes one, or concatenates a number.
* Tables and strings have no metatables; all metamethods are those of objects.
* No program depends on an order of evaluation that the manual leaves open.
* The limit on the length of a jump ("control structure too long"), the float constants
  that `ilyaK_numberK` repeats and the encoding of the sizes of `NEWTABLE`.
* An error ends a program; its unwinding is in `Coro` and `Upvals`.
* A machine is cut after `MaxEvents` events; the memory never runs out.
* A `CLOSE` or `RETURN` repeated after a closing method has yielded is traced
  again by a line hook; the model does the same.
* The name of a failed concatenation may be that of its first operand (its
  result is in that register), and a value that passed `and` or `or` may have no name;
  `BlamesTruly` allows both.  Names in stripped chunks are not judged.
* `1 < (x or 2.0)` does not occur.  `isSCnumber` (`lcode.c:1256`) sets its flag
  for a float constant before it knows that the operand has jumps; the operand
  is then not used as an immediate, but the flag stays for the other one, and a
  metamethod gets 1.0 in the place of 1.
* A stripped chunk in a fixed buffer does not occur: `loadDebug` (`lundump.c:290`)
  sets a line vector that has no elements but is not NULL, and
  `ilyaG_getfuncline` (`ldebug.c:84`) takes it for line information.  What it
  reads then has no meaning to be modelled.

## 3. Runs

Each passes within five minutes on two cores.

| Run | Question | Instance | States |
|---|---|---|---|
| `upvals` | all of 2.1 | 4 slots, `ctl` of 4 entries, 2 upvalues, 2 values of which one has a closing method, `MAXDELTA` 2 | 3.7 million |
| `gc_inc` | incremental cycles with weak tables, finalizers, emergency collections; liveness | main thread, a table of any mode, a userdata with a finalizer, in cycles | 341 thousand |
| `gc_gen` | generational mode, shifts to major and incremental mode | main thread, userdata, its metatable, a table below it that has a finalizer | 805 thousand |
| `gc_threads` | threads and open upvalues in both modes, emergency collections | main thread, coroutine, closure, upvalue | 868 thousand |
| `gc_close` | full, emergency and final collection with finalizers | main thread, two tables with finalizers, a string they share | 911 thousand |
| `gc_close_sweep` | finding 1 | the same, closed in `GCSswptobefnz` | counterexample |
| `gc_join` | finding 2 | two closures with upvalues, of the main thread and of a coroutine | counterexample |
| `table` | a table is a map, and its chains, sizes and borders are sound | six programs of 3 to 6 keys each | 31 thousand |
| `table_weak` | finding 3 | a weak table with a vanishing slice | counterexample |
| `coro` | coroutines, protected calls, errors, closing and the C stack; every C function in progress serves its own frames | main thread and one coroutine, 4 frames and 1 pending variable each, limits 4 and 6 of the C stack | 844 thousand |
| `coro_close` | finding 4 | the same, with `xpcall`, `yield`, `resume`, `close` | counterexample |
| `compile` | compiled code does what the source means; lines and names are true | 5963 programs in twelve families, 4-bit integers, operands of 3 and 4 bits, 6 events | 231 thousand |

Why these bounds are enough to be interesting:

* `MAXDELTA` is 2 instead of 65535, so that with 4 slots a variable may need one
  dummy node, a node may lie in a slot with a stale delta, and the case of an exact
  multiple occurs.  Four entries of `ctl` allow an error in a method of a
  return inside a protected call.
* Two upvalues allow sharing, and a slot used again by another variable.
* The heaps have few objects but every reference among them that the code treats
  in its own way: through tables (back barrier), metatables and upvalues (forward
  barrier), stacks (none), weak keys and values, string cache.  `MayHold` lists
  the references that a run's program ever stores; `MayMode`, `MayFinalize` and
  `Calls` what else it does.  `SweepMax`, `GCSWEEPMAX` in the code, is 1 or 2, so
  that the program acts in the middle of a list.
* `CloseStates` in `gc_close` leaves out `GCSswptobefnz` because of finding 1, and
  only that; no other run closes the state.
* Tables: the keys of each program collide in small vectors and come from both
  sides of the array part; `LIMFORLAST` is 2 instead of 3 so that vectors with and
  without a free pointer occur, and `MaxVicinity` 1 instead of 4 so that the length
  leaves the vicinity of its hint.  Each program does what is of interest for its keys
  (lengths, constructors, traversals with collections).  Weakness is left to
  `table_weak`, because of finding 3.
* Coroutines: four frames allow a protected call inside a protected call inside a
  coroutine that resumes; the limits 4 and 6 of the C stack (200 and 220 in the
  code) are reached by calls, resumes, closing methods and message handlers, the
  second one inside the handling of the first.
* Programs: 4 bits make all edges of integers small numbers; operands of 3 and 4
  bits let every instruction leave its immediate form, its constant form and its
  short jump of `LOADK` and `NEWTABLE`.  The families in `MCCompile` are: three operands under
  `and` and `or` in every place a condition or its value may stand; each operator with
  constants inside and outside the immediates on either side; numeric loops from, to
  and by all edges; loops left in every way with plain, captured and to-be-closed
  variables; legal and illegal scopes, labels and attributes; conflicting
  assignments; constructors around each batch size; calls, methods and varargs; values of the wrong
  kind from every origin used in every way; functions past operand sizes and line differences;
  chunks cut at each byte; all load modes.  Programs take turns in being loaded
  as text, from a dump, stripped, and in a fixed buffer, and in yielding in every event.
* Deadlock is checked everywhere except in the two runs that close a state,
  which has nothing more to do then.

What the properties say is written above each in its module.  The safety ones
that matter most: `UpvalSeesVariable`, `TbcListExact`, `OutcomeIntact`
(`Upvals`), `NoDangling`, `BarriersHold`, `GrayListsExact`, `GenerationsExact`,
`AllFinalized` (`Lgc`), `IsDict` (`Table`), `ErrorsAimed`, `FramesFinishable`
(`Coro`), `StackMirrorsFrames` (`CoroInv`), `SourceMeaning`, `BlamesTruly`,
`DebugInfoExact` (`VM`, `Meaning`).
`BarriersHold`, `GrayListsExact`, `GenerationsExact` and
`SweepComplete` are what `ltests.c` asserts in a debugging build
(`checkmemory`), but over all interleavings.  `LeavesWeakValues` is an action
property: the atomic phase removes an object from weak values in the very step
that makes its finalizer due.  It is restricted to tables that the program can
get at after the step, since the manual (`manual/manual.of:868`) does not promise
it for resurrected tables.  `BarriersHold` follows `testobjref1`
(`ltests.c:297`) but for its first line: that no reference leads to a dead object
is stated by `NoDangling`, of everything the program can reach rather than of
every object not yet swept.

### Fairness

Only `gc_inc` checks liveness (`GarbageCollected`, `FinalizersCalled`), under
`FairSpec`:

* collector steps (`IncStep`, `YoungStep`, `Continue`) are taken again and again.
  The code does this for a program that goes on allocating: allocations raise
  `GCdebt` and `ilyaC_condGC` runs a step whenever it is positive.  A program that
  stops allocating gets no collections, and nothing is claimed for it;
* a finalizer that may return infinitely often does (`SF` on `FinReturn`): strong,
  because a finalizer may switch to another coroutine and come back.

`FinalizersCalled` excepts behaviours with emergency collections without end:
they call no finalizer, and may come before every step that would.  Those with
some of them are in the run.  Changes of mode are not: old garbage waits for a major
collection, which depends on sizes that are not modelled.  `gc_gen` has them, and
checks safety only.

## 4. Findings

1. **Closing a state while the collector sweeps `tobefnz`** (`gc_close_sweep`).
   `ilyaC_freeallobjects` does not finish the sweep in progress.  If `sweepgc`
   lies in an object of `tobefnz`, `udata2finalize` moves that object to `allgc` and
   the sweep pointer with it.  An emergency collection inside a later finalizer
   continues the sweep in `allgc`; the rest of `tobefnz` stays black from the old
   cycle, is not marked again, and what only those objects refer to is freed
   although their finalizers still run.  The code's own comments say that all
   resurrected objects are marked at that point (`lgc.c:1551`) and that all objects
   are white during the pause (`ltests.c:546`).
2. **`debug.upvaluejoin` in generational mode** (`gc_join`).  The forward barrier of
   `ilya_upvaluejoin` (`lapi.c:1464`) makes the joined upvalue OLD0 when the closure
   is old.  If the upvalue is open in a coroutine that is still young, the assertion
   of `remarkupvals` (`lgc.c:419`, explained at `lgc.c:401`: "upvalues cannot be older
   than their threads") fails; without assertions the value can be lost when the
   coroutine dies.

3. **A weak table resized while an emergency collection runs** (`table_weak`).
   `ilyaH_resize` copies the values of the vanishing part of the array into the new
   hash part and then reallocates the array (`ltable.c:722`).  An emergency
   collection there clears the weak values of the table as it is, with its old hash
   part; the copies in the new one are not seen.  The table gets them with the new
   part, and a later access finds a value that was freed.
4. **A coroutine closed inside `xpcall`** (`coro_close`).  `ilyaE_resetthread`
   (`lstate.c:323`) unwinds the thread and runs its closing methods, but
   `L->errfunc` still is the stack index of the handler of the protected call
   that the coroutine was suspended in.  An error in a closing method calls
   what lies in that slot.

## 5. Proofs

### Upvals

`Upvals_proofs` proves the six invariants of run `upvals` for every value of the
constants: any stack, depth, set of values and of upvalues, any `MAXDELTA` of at
least 1 (`ConstantsAssumption`, which TLC evaluates in the run).

None of the six is inductive.  `Invariance` proves `Spec => []IInv` where `IInv`
adds four strengthenings, each something the C code relies on without saying it:

* `Nesting`: how frames and closing loops may follow each other in `ctl`, that
  each begins above the one below, and that a return's value lies between the
  frame and what runs on it;
* `Captures`: an open upvalue is in the list and its slot is *owned*, i.e. it is
  a variable of some frame and not a slot that a closing loop keeps for itself;
* `TbcOrder`: pending variables ascend, their links are no dummies, and none is
  the function slot of a frame;
* `ErrorKept`: while a method runs for an error, the error is right below the
  method's function.

The argument: a step either pushes above everything (then nothing owned, kept or
pending changes: lemmas `PushNests`, `PushKeeps`, `PushOwned`), or pops to a level
below which nothing has been touched (`PopNests`, `PopKeeps`, `PopOwned`), or
closes upvalues from a level up (`CloseEffect`, `UpvalsClosed`), or changes the
delta list (`NewEntry`, `TbcKept`, `PopStep`).  The search lemmas (`LastIn`
`AboveStops` and others) say that each `CHOOSE`, a loop of the code, has a value.  There is
one lemma per action; `InitIInv` and `NextIInv` combine them.  The delta list needs
the most: `HopsIn` and `Least` show that the walk over dummy nodes from an entry
ends at its predecessor whatever stale deltas lie elsewhere, since all nodes
between two entries were written when the upper one was made, and `NewTbc` changes
no slot at or below the old head.

### Coro

`Coro_proofs` proves all the invariants of run `coro`, and type correctness
(`TypeOK`, a part of `StackMirrorsFrames`), for any set of threads, any kinds of C
functions, any number of frames and pending variables, and any limits of the C
stack with `2 <= MaxCCalls < ErrCCalls` (`CoroAssumption`; the code has 200 and
220, and TLC evaluates the assumption in the run).  The bounds on frames and
variables are in the guards of a few actions only; no proof needs them.

None of the invariants is inductive, and no conjunction of properties of the state
alone would be short: what makes the code right is which activation of the C stack
is responsible for which CallInfos, and the code keeps no record of that.
`CoroInv` therefore describes a state with a ghost, a sequence parallel to the C stack
that has for each activation the calls counted up to it (`p`), those among them
that cannot yield (`q`), and how many frames of its thread lie below the ones it
serves (`b`).  `Inv(u, g)` says of a state `u` and its ghost `g`

* of each activation (`Local`): its counts are those of the activation below
  plus its own, and a `rawrunprotected` saved exactly its caller's
  (`Counted`); and by its kind, which activation it runs on and which frames it
  serves (`ExecOK`, `CFunOK`, `TryOK`, `CloseOK`, `MsgOK`, `UnrollOK`): `execute`
  one fresh frame and those called from it, a C function one frame, a protection
  everything above the level of its protected call;
* of each thread (`Global`): its activations are contiguous and nested; its frames
  are in order, and below one that `unroll` may finish each can be finished by
  `unroll` (`FramesOK`); each frame of a C function is served or finishable (`Backed`);
  protections made by C functions are inside those of the resume (`Ordered`); each
  pending variable is in its frame, or a protected call or the closing of its
  thread has it (`Owned`); and its status agrees with all that (`StatusOK`).

`IInv` says that some ghost fits.  In a state there is only one: `GhostOf` computes
it, which is how TLC checks the invariant, as `StackMirrorsFrames`, in run
`coro`; `MirrorKept` proves that form, too.

The argument, module by module:

1. `Coro_steps`: a step works at the top of the C stack and on the thread that runs
   there.  So the invariant holds after it if the activations below have what
   they had (`KeptLocal`, `KeptGlobal`), and the top and the thread are as they should be:
   `CutOK` for a step that leaves activations, `AddOK` and `GrowOK` for
   one that enters some.  This needs `Contiguous`, by which an error
   never has to look at other threads.
2. `Coro_throws`: an error lands in the innermost protection of its thread
   (`LastTryIs`, `Aimed1`, `Aimed2`: that one is for the innermost protected call),
   the saved counts are the ghost's, and closing, or `precover`, goes on from there.
3. `Coro_calls`: `ccall`, overflow and all, keeps the invariant where `MayCall`
   holds; that a yield passes only activations that may be left is `Quiet`: where
   the count of non-yieldable calls is zero, it is zero in every activation
   of the thread below.
4. `Coro_returns`: every activation that ends gives its frames and its counts to
   the one it ran on.
5. `Coro_proofs`: resume, one lemma for each action, `InitOK`, `NextOK`, and what follows
   from the invariant: `CStackExact` because `p` and `q` are the partial sums of the
   calls, `ErrorsAimed` because the jump and the history choose the same call,
   `NoLostVariable` from `Owned`, `FramesFinishable` from `Backed` and `Quiet` by
   an injection of the frames into activations, `StatusTruthful` from `StatusOK`.

`HandlerExact` is no theorem: it is false (finding 4).

### Table

`Table_proofs` proves the five invariants of run `table` and, for tables whose values
are not weak, that `Table` implements `Dict`, for any set of programs, keys with any
hashes, values, `LimForLast`, `MaxVicinity` and length of constructors.
`TableAssumption`, which TLC evaluates in the run, asks for a finite set of keys
(a program's execution uses finitely many) and that an integer is its own hash, as
in `hashint`.  A table may be weak and every allocation may fail
in all theorems but the last.

The invariants are not inductive.  `ChainsSound` says that a field is found from its
main position; an insertion that moves a colliding node keeps that only if the node
before it exists, and a collection keeps it only if dead nodes still link the chain.
`Invariance` proves `Spec => []TableInv`, where `TableInv` says

* of the node vector (`Sound`): offsets stay inside it and lead from keys to keys; no
  two lead to the same node; some rank descends along them, so that chains end; the
  main position of every key in the vector, dead ones included, has a key that is
  at home there and leads to it; a live node comes before dead ones of the same key;
  only live keys have values; and where `lastfree` is kept every free node is below it;
* of the table (`Fine`): the size of the vector is a power of 2; no key with a value in
  the hash part has a slot in the array part; the hint is in range;
* of a traversal (`Given`): its key is still in the table, live, empty or dead, and it
  has given exactly the fields up to the position of that key.

The argument, in the order of the modules:

1. `Table_chains`, on vectors: `b` is reached from `a` when it is in every set closed under
   `next` that has `a`.  `SearchWalks` shows by induction on the rank that a search has the
   value its definition says at every node, `FoundReach` and `FoundFirst` that it finds
   the first node of the chain that matches.  (Induction here is the least
   element of a set of ranks: no induction theorem with an operator parameter.)
   An insertion is one of three changes: a free main position is filled
   (`FillChained`), a free node is linked after the main position (`AppendChained`), or the
   colliding node moves to the free one and its predecessor follows (`MoveChained`).
2. On tables: an insertion adds one field and nothing else, or finds no room.
   `Roomy` says that a hash part without dead keys has its keys in a set `K` no larger
   than it: then it has a free node for every key of `K` that it lacks
   (`RoomLeft`).  With that a resize reinserts everything, by induction on the
   number inserted, and a recursion of `rehash` never meets a full vector
   (`ResizeIs`).  An allocation that fails leaves the fields as they were, one that collects
   removes at most what is weak.
3. `Table_proofs`, on sizes: `ComputeSizes` after `n` candidates has the best of those
   (`Sized`), so `NewSizes` has the best array part and room for the rest (`NewSizesIs`).
4. On lengths: halving keeps an interval from a present to an absent index, doubling ends
   because the keys are finitely many.
5. On traversals: a position is an array index or a node; what neither adds fields nor
   resizes keeps all positions (`StableGiven`), and a new field ends the traversal, as the
   manual has it undefined.
6. One lemma for each action, `InitInv`, `NextInv`, and the theorems.  `TableIsDict` maps
   each action to the one of `Dict`: an assignment to `Assign`, of nil when the memory
   for the new field fails; a constructor with its resize to
   `AssignItems`; a collection, a length and a release to no step; a call of `next` to `Visit`,
   of a field not given before, or to `End`, when all have been given.

`TableIsDict` needs `Weak = FALSE`: a weak table loses fields, as it should.  `NoFreedValue` is
no theorem: it is false (finding 3).

### What stays model-checked

Out of the prover's reach and left to TLC: liveness and fairness
(`GarbageCollected`, `FinalizersCalled`), `ENABLED`, and induction over data.
`Code`, `Parser`, `Chunk`, `VM` and `Meaning` follow syntax trees and lists with
RECURSIVE operators and use `Bitwise`; so their properties are only
model-checked.  `GCHeap` computes reachability with an operator that takes a step
as its parameter, and `Lgc` has no proofs yet.  Its invariants lean on each other:
that a sweep pointer has the type it should takes that accessible objects are
allocated (`NoDangling`), which takes that no dead object survives the sweep
(`SweepComplete`), which takes the barriers and, between minor collections,
`GenerationsExact`; so there is no small first theorem, only the conjunction of all of them.

## 6. Plan

Done: the collector, the stack and its variables, tables, coroutines, the compiler,
precompiled chunks, the debug interface and the machine.  Next, in this order:

1. Proofs about the collector: the barriers and the propagation as lemmas on heaps, with
   reachability stated by closed sets as in `Table_chains`; then the incremental
   cycle alone, with types, lists, `BarriersHold` and `NoDangling` as one inductive
   invariant; then minor collections.
2. `Strings`: the hash table and its resizing, with removal by the sweep in between.
3. Call, return and count hooks, and a hook set while the program runs.
4. `Sort`: the partition loop of `ltablib.c` with an inconsistent order.

## 7. Not modelled, and why

Byte counts and the pace of the collector (only the order of what it does matters
for the properties above); the reallocation of the stack (slots are indices, which
is what `relstack` and `correctstack` turn pointers into); the hash table of
strings (only `checkSizes` shrinks it, where `gcstopem` forbids the emergency
collection that could disturb it, `lmem.c:58`); the lexer and the conversions
between numbers and text, character by character; the rest of the C API,
which moves values on its caller's stack; input and output, the command-line
interpreter and libraries that only compute; the transpilers, which rewrite
keywords.  PROJECT.json says of each part what is left out.
