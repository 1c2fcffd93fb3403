# A verification development for the Neko virtual machine

This directory holds TLA+ models of the Neko VM of this repository (the VM with the LLVM
compiler), of the Neko compiler, and of the parts of its standard library that have state of
their own; configurations that model-check them; and machine-checked proofs about them.
`PROJECT.json` lists, for every definition, the source lines it stands for, and for every
run, mutant, finding, hazard and theorem what it is about.

To check a module: `tlc -config <Run>.cfg <Module>.tla`; to check proofs: `tlapm <Module>Proofs.tla`.

## 1. The system

A Neko source is compiled to a bytecode module (`src/neko`). `vm/load.c` finds modules,
`vm/module.c` decodes and checks them, `vm/interp.c` runs them or one of the compilers
translates them first (`vm/llvm`, `vm/jit_x86.c`), and `vm/callback.c` lets C libraries call
back. One VM belongs to one thread; threads share the heap, the field names, the kinds, the
loaded libraries and whatever values they pass each other.

| Component | State | Operations | What is hard | What makes it correct |
|---|---|---|---|---|
| VM stacks, traps, callbacks (`interp.c`, `callback.c`, `others.c`) | one array with two stacks that grow towards each other; `vm->trap`, a chain of traps written into the data stack; `vm->start`, one `jmp_buf`; `vthis`, `env`; the C stack | calls, tail calls, `Trap`/`EndTrap`, throw, rethrow, `val_callEx`, `neko_vm_execute`, growth of the array | exceptions that cross C functions and interpreters; an overflow in the middle of an instruction; everything is restored by hand | a throw lands in the innermost handler; whoever continues finds its stacks, traps, this and env as it left them; the stacks never overlap |
| Neko compiler (`src/neko/Compile.nml`, `Bytecode.nml`) | a context: code, stack depth, open traps, loop, labels, captured variables | one per kind of expression; gotos resolved at the end | breaks, returns and gotos that leave loops and traps | what it emits passes the checker and runs without touching its traps |
| Bytecode reader and checker (`module.c`, `opcodes.h`) | a depth per instruction (`tmp`), the recursion | `neko_read_module`, `neko_check_stack` | jumps, tables, handlers and functions that share code | an accepted program runs with the depths that were checked, in its own frame |
| Interpreter (`interp.c`) | `pc`, `acc`, `sp`, open traps | one per instruction | the checker's table and the interpreter's code are two texts that must agree | as above |
| LLVM compiler (`vm/llvm/`) | blocks, a queue of blocks to compile, a compile-time stack and trap list per block | cut into functions and blocks, compile, run | the stack of a block is that of whichever predecessor is compiled first | the code does what the interpreter does |
| Loader (`load.c`, `kind_share`) | cache of modules, list of libraries, list of kinds | `loadmodule`, `loadprim` | cyclic and failing imports; strings cut in place; no locks | a module's code runs once; a primitive is the one that was named |
| Field names, objects (`others.c`, `objtable.*`, `alloc.c`) | 64 shared sorted tables and a lock; one table per object | `val_id`, `alloc_field`, `$objremove`, lookups | lookups without the lock; hash collisions | an id means one name for ever; an object is a map |
| Hash tables (`builtins.c`) | array of lists of cells, count | `$hnew` to `$hsize` | a comparison or an iterated function may work on the same table | every cell is in the bucket of its hash; the newest binding masks the others |
| Serialization and hash (`serialize.c`, `hash.c`) | the writer's tree of references, the reader's array, positions | write, read, hash | writer and reader number references each for itself | a copy has the shape of its original, and its hash |
| Threads (`vm/threads.c`, `std/thread.c`) | parameters and a mutex on the creator's stack; a handle with a queue; the VM's custom data | create, current, send, read | the new thread uses its creator's stack frame; either may run first | the frame outlives its use; one handle per thread; messages in order |
| Deque (`std/thread.c`) | linked list, two end pointers, mutex, condition variable | add, push, pop | signals, spurious wake-ups, barging | it is a queue; a reader and a message meet |
| Lock (`std/thread.c`) | counter, mutex, condition variable | release, wait with and without timeout | a release between a timeout and its return | releases are neither lost nor used twice |
| Closures, apply (`alloc.c`); x86 compiler; GC glue; the other builtins and libraries; web modules; NekoML; tools | see `PROJECT.json`, "components" | | | |

Interactions: the compiler's output is what the reader decodes; the loader calls the reader and
then `neko_vm_execute`; the interpreter calls C primitives, which call back through
`val_callEx`, which enters the interpreter again; a new thread makes a VM and enters it
through `val_callEx`; primitives of the thread library block inside a deque or a lock; hash
tables call back into Neko code to compare keys; serialization rebuilds hash tables and loads
modules; all of them register field names.

The hazards of the code, each with its line and the properties that watch it, are listed in
`PROJECT.json` under "hazards"; those that no property watches have a note saying why.

## 2. The modules

| Module | Code | A step is |
|---|---|---|
| NekoVM | `interp.c` 94-618, 808-912, 1090-1170; `callback.c`; `others.c` 331-355, 463-507 | an instruction, a call or return of C code, a landing |
| Opcodes | `opcodes.h`, and the instructions' effects in `interp.c` 630-1100 | (operators) |
| Compile, MCCompile | `src/neko/Compile.nml`, `Bytecode.nml` | (operators) |
| Bytecode, MCBytecode | `module.c` 132-218, 376-567; `interp.c` 630-1100 | one instruction visited, or run |
| Activation | `interp.c` 630-1170, one activation | one instruction |
| Blocks, MCBlocks | `vm/llvm/`: `neko_*.cpp`, `blocks.*`, `stack.*`, `llvm_*.cpp`, `primitives.cpp` | a block taken from the queue, an instruction compiled, an instruction run |
| Loader, MCLoader | `load.c`; `alloc.c` 405-430 | one access to what threads share |
| Otable, Fields, MCFields | `objtable.*`; `others.c` 358-428; `alloc.c` 324-369 | one access to what threads share |
| Hashtable, MCHashtable | `builtins.c` 740-1010; the copy in `serialize.c` | an operation up to its next call of a function |
| Serialize, MCSerialize | `serialize.c`; `hash.c` | a value written, then read |
| Threads | `vm/threads.c` 72-160; `thread.c` 202-302 | one access to what threads share |
| Deque, DequeSpec | `thread.c` 38-154 | a critical section |
| Lock | `thread.c` 319-414 | a critical section, a wake-up, a tick |

**NekoVM** models one VM. Values are not told apart, so the data stack `sp` is its number of
slots, the call stack `csp` a sequence of frames, the trap chain a sequence of records (in the
code it is threaded through the data stack), and the C stack a sequence of activations:
`host`, `prim` (a C primitive), `callex` (`val_callEx`), `execute`, `interp` (`neko_interp`).
`start` is the index of the activation whose `jmp_buf` is in `vm->start`. A throw is two steps:
the `longjmp` (`mode = "throw"`) and the landing, where the handler may reraise. A bytecode
activation carries what its compiler knows statically: the arguments it began with, the depth it
counts on (`d`), its open traps, and the this and env it should have. The bytecode is nondeterministic: at
each point any instruction that depth, arguments and open traps allow (the checker lets no instruction but
a return or a tail call drop the arguments, module.c:151, 209). C code passes up to `CallbackArgs` arguments,
which may be more than a call instruction can. The ghost `floor` of an activation says how full
both stacks and the chain of traps were when it was entered. An overflow moves `sp` before it throws, as the
code does, and `Clobber` is what the erasing loop of the handler then destroys; `damage` marks
a VM whose further behaviour is undefined, and the model stops there. Only stack and control
effects of instructions appear.

**Opcodes** holds what the other bytecode modules share: the instructions, which of them have a
parameter, and what each does to the stack. Values in the models below are named by the
instruction that made them.

**Compile** is the compiler's code generator as functions on a context, one operator per kind
of expression: variables and captured environments, calls, `if`, `while`, `do`, `break`,
`continue`, `return`, `try`, `switch` with and without a jump table, functions, labels and
gotos; at the end labels become distances and functions are put in front. Instructions that differ in what
they compute only, and builtins, are one kind. `MCCompile` makes small sources: expressions
nested `n` deep in which loops, handlers, functions and the ways out of them meet. A `return` outside of all functions
is not among them: it is compiled to a `Ret`, which the checker accepts, and pops a frame that `neko_vm_execute`
(interp.c:248-263) never pushed.

**Bytecode** models `neko_read_module`'s checks of parameters, `neko_check_stack` and one
activation of the interpreter. The recursion of the checker is the sequence `todo` of calls
still to make. A program is a constant of the model: `Programs` is any set of programs, and
`MCBytecode` gives small ones, written by hand (`by = "hand"`) or by Compile. Calls return with the
arguments popped, or throw. What the
checker does not look at and no compiler should emit (leaving a function with a trap open, popping a
trap's slots) ends in `"undefined"`. `SharedHandlers = FALSE` puts aside programs with a trap
whose handler was checked before it (section 5).

**Activation** is one function under the interpreter with its values: `pc`, `acc`, the
activation's slots and its traps. It is what **Blocks** has to implement. Blocks cuts the code
into functions and blocks, compiles the blocks through the queue of `Blocks`
with one compile-time stack and list of handlers each, and then runs the code it made: each
item of a block knows the variables and the handlers that were bound into it. A handler's
block starts with the code that fetches the exception, which is put at the block's end when its trap
is compiled, as the code does. A tail call is compiled as a call; the rest of the block, which is still
compiled, is not reached.

**Loader** models `loadmodule` and `loadprim` of the default loader, for threads that share it. The
code of a module is a sequence of imports, primitives and throws. A primitive's name is a string
`library@symbol`, cut at its `@` for a while. The list of libraries is searched from the head that was read
before the cut (`ReadHead`). The entry point of a library may throw before or after it asks for its kind
(`EntryThrows`), which leaves the loader without putting anything back. Two ghosts record what the properties
must leave out. `clash`: a string that two threads work on at once, a module that both are about to read, and the
list of libraries, when a thread misses in it while another adds to it or after another has; nothing protects them.
`failed`: the loads that an entry point threw out of.

**Otable** holds the sorted tables as operators; **Fields** models `val_id` step by step, with
the read of the count, the lookup in the cells, the lookup under the lock, and the two stores
that publish an insertion as actions of their own, and the objects of two threads.

**Hashtable** models the operations of `$hnew` to `$hsize` and the copy that unserialize makes. The
stack `calls` holds the operations in progress, of which all but the last wait for a function
of the user (a comparison, or `$hiter`'s argument) and keep a cell and a bucket in C variables; the function may
start operations on the same table, or throw. `Reentrant` names the operations whose function may do so.

**Serialize** writes a heap of values, with the binary tree in which the writer keeps the
addresses it has met, and reads what was written, with the reader's own array of references; then
both heaps are hashed. The writer, the reader and the hash are recursive operators. Malformed input is not
modelled, nor are the exceptions of the loader when a module that is named is missing or has changed.

**Threads** composes `vm/threads.c` and the thread half of `libs/std/thread.c`: the creation
as its steps in two threads, handles named by where they were allocated, and message
queues as sequences, which is what `Deque` is shown to implement.

**DequeSpec** is what a deque promises, a sequence with atomic operations; **Deque** is the
linked list with its mutex and condition variable, at the grain of one critical section or
wait per action. `Abstract` maps the list to the sequence.

**Lock** models `lock_release` and `lock_wait` the same way, with a clock: `left` is a timed
waiter's remaining time, `"expired"` the moment between the timeout and getting the mutex back. A signal
wakes a sleeper or, as POSIX allows, is taken by an expired wait; the ghost `astray` says that the last
signal was.

### Refinements

- `ImplementsQueue`: every step of Deque is a step of DequeSpec, or a stutter.
- `ImplementsInterpreter`: every step of Blocks is a step of Activation, or a stutter. The
  mapping reads the compiled program's variables where the interpreter has its slots; compiling is
  a stutter, and so is the fetch of an exception. Values are named by the address of the instruction that
  made them, so that a slot with the value of another path, or a handler of another trap, shows.

## 3. The runs

Each property has a mutant in `PROJECT.json`: a plausible bug in the code that TLC finds
through this property. Mutated forms stand next to the definitions they would replace.

| Run | Bounds | Shows |
|---|---|---|
| `NekoVM` | array of 9 slots that may double once; 5 activations on the C stack; call instructions with at most 1 argument, callbacks without; 6 slots per activation; two environments | `StacksApart`, `StartIsInnermost`, `TrapsNest`, `DepthsAgree`, `ContextAgrees`, `CallbacksBalance`, `TriesCatch`, `ThrowLands` |
| `NekoVM_TriesCatch` | array of 10 slots; callbacks with up to 6 arguments | violated: section 5 |
| `NekoVM_FramesSurvive` | array of 10 slots; 7 slots per activation; callbacks with up to 1 argument | violated: section 5 |
| `Bytecode` | all programs of four control-flow instructions, with and without a function; every other instruction, and pairs, on a stack of up to four pushed slots; compiled sources: expressions nested two deep, loops and handlers nested three deep, closures, forward gotos; traps of two slots | `DepthIsStatic`, `FrameIsLeft`, `SlotsInFrame`, `CompiledIsAccepted` |
| `Blocks` | the main program and the functions of compiled sources: nested two deep, loops and handlers nested four deep, closures; traps of two slots | `StacksAgree`, `BlocksAreReady`, `HandlersAreOpen`, `ImplementsInterpreter` |
| `Loader` | two threads; modules that import each other and one that fails; two libraries, the name of one a prefix of the other's; strings with an unknown library and an unknown symbol | `CodeRunsOnce`, `PrimitivesAreFound`, `NamesAreRestored`, `LibrariesAgree` |
| `Fields` | two threads, three names, two of which collide, one value | `LookupInBounds`, `IdsAreKept`, `ObjectIsMap`, `LookupFindsRegistered`, `LookupsEnd` |
| `Hashtable` | two keys, two values, three cells, tables of one or two buckets, two operations within one another | `TableIsSound`, `BindingsAreKept` |
| `Serialize` | all heaps of three values under one root, with names for modules and primitives; recursion to depth eight | `RoundTrip`, `HashIsStable` |
| `Threads` | three threads, three messages in all | `FrameIsAlive`, `OneHandle`, `MessagesInOrder`, `CreationEnds` |
| `Deque` | three threads, two messages, three cells | `EndsAgree`, `NoLostWakeup`, `MessagesAreTaken`, `ImplementsQueue` |
| `Lock` | three threads, four releases, timeout of two ticks | `ReleasesAreKept`, `NoLostWakeup`, `ReleaseReachesWaiter` |

Why these bounds are enough for the interesting cases. In `NekoVM` a trap (6) and a frame (4)
do not fit the array and make it grow; two more frames and a slot overflow it for good, and five
activations allow a handler, a nested interpreter with a handler of its own, a primitive in it and
another callback with exc. That these bounds hide nothing, and that callbacks with arguments change nothing,
is what the theorems of section 4 add. In `Bytecode` four instructions hold a
trap, its body, its end and its handler, or a branch with two arms; with traps of two slots, all
limits can be met. In `Blocks` four levels hold a loop in a handler in a loop in a branch,
with a `break` or `return` inside. In `Loader` the two cyclic modules may be entered from either end,
by either thread, and the failing one twice; one thread loads by strings of both libraries while
the other does, again after an entry point threw, and with a snapshot of the list that the other has outdated. In `Fields` the colliding pair lies beside a third
name, so that insertions happen before, behind and between cells. In `Hashtable` the two keys share the bucket of a
table of one and not of a table of two, and three cells allow one key to mask another binding of
itself while the other key stands between them. In `Serialize` three values allow a
value met twice, a cycle through an array, object, prototype or environment, and a sibling that is numbered
after either; the root is the second address, so that the writer's tree grows both ways. The depth is more than three values can be nested
without repeating one, so the limit refuses only what contains itself and is written anew each time; `Storable` says so. In `Deque` three cells give a list
whose first, middle and last cells are distinct, and
three threads a sleeper, one that barges in and one that signals. In `Lock` four releases are
one more than there are threads to sleep.

Types are checked by the proofs (`TypeOK` of Bytecode, Deque, Lock and Threads is a conjunct of
their inductive invariants), and in the runs by the properties that would not evaluate otherwise. No run spends a
property on them.

Deadlock is checked where the system may always continue (`NekoVM`, where a host can call
again; `Fields`). It is off where threads may all be waiting for a message or a release
(`Deque`, `Lock`, `Threads`) and where what is modelled ends: a program (`Bytecode`, `Blocks`), the
threads' scripts (`Loader`), a write and a read (`Serialize`), the supply of cells (`Hashtable`).

### Fairness

- `NekoVM`: a landing that is due happens (`longjmp` is a jump, not a wait).
- `Deque`, `Lock`: a thread that has been woken gets the mutex in the end. No operation is ever
  forced to start, and nobody has to signal.
- `Threads`: a thread that is being created, and its creator, are scheduled. What the thread's
  function does is not forced.
- `Fields`: a thread inside `val_id` is scheduled. The lock need not be fair: every time it is
  found taken, a name is being inserted, and names run out.

Nothing else is fair, in particular no spurious wake-up and no clock.

## 4. What is proved

TLAPS checks the following for every value of the constants (every size of array and C stack,
any number of threads, messages, cells, every program).

**`HandlersAreInnermost`** (`NekoVMProofs`): `Spec => []StartIsInnermost`. The property is not
inductive: when a handler is left, `start` becomes what it had saved. `HandlerInv` adds that the
saved values form a chain, each being the innermost handler below its owner. The lemmas say how
the chain fares under the four changes a step can make to the C stack: a handler pushed, another
activation pushed, the top updated, the stack cut.

**`StacksStayApart`, `TrapsAlwaysNest`, `DepthsAlwaysAgree`, `ContextsAlwaysAgree`,
`CallbacksAlwaysBalance`, `TriesAlwaysCatch`, `ExceptionsDescend`** (`NekoVMProofs`): all safety
properties of the run `NekoVM`, and that an exception which a handler passes on goes to an
older one. They follow from one inductive invariant, since none of them survives a step without the
others: a `Ret` is right because of what its frame says, the frame because no trap, callback or tail
call disturbed it, the trap because the data stack above it was left as it was found. `VMInv` is
`HandlerInv`, the bounds on the array (`Bounds`), and, as long as the VM has a defined behaviour,
`Healthy`: the parts of the machine fit each other, and the activation in control finds what it expects
(`InControl`). The parts of `Machine` are

- `FramesFit`, `TrapsFit`: frames and traps lie in order on both stacks, and a frame holds the
  this and env of the code it returns to;
- `Floors`: the floor of an activation, how full everything was at its entry, splits frames and traps into
  those that were there and those that came later;
- `Kept`: what a C function saw is still there below its floor, but for slots that were erased;
- `Waits`: how an activation was made by the one before it, and so what it will find when control returns;
- `Own`, `Stands`, `Placed`: the frames of a `neko_interp` lead back, one to the next, to the place where it was
  entered, and the open traps of each code point are the traps that lie in its slots;
- `Leads`, `Armed`: a trap leads into the live handler it belongs to, with the stacks it was set up over.

Each action is put together from lemmas about the elementary changes (`Grow` and `SetHeight` for the data stack,
a frame or a trap or an activation pushed, popped or cut), and each way to run bytecode on from there ends in `RunsOn`, each
throw in `Throws`.

These seven assume `FewArguments`: C code passes a function fewer arguments than a trap has slots
(`CallbackArgs < 6`). `val_call0` to `val_call3` never pass more; `val_callN` with six or more is where
the test of interp.c:1118 fails, as `NekoVM_TriesCatch` shows (section 5). `HandlersAreInnermost` needs no assumption.

**`WakeupsAreKept`, `EndsAlwaysAgree`, `ListImplementsQueue`** (`DequeProofs`). `NoLostWakeup` is inductive with the
types. `EndsAgree` needs `ListInv`: the cell that follows a live cell is live, and no two cells have the
same successor, nor has any the first cell as its successor. `ListImplementsQueue` is the refinement of
`DequeSpec`. It needs `ChainInv`: following the links from `q->first` visits every cell in use once and ends at
`q->last`. The cell at place *i* (`Nth`) is a recursive function. That it exists, and what an operation does to
the places, is proved by induction over a set of naturals: an add leaves the places and appends one, a push moves all
by one to the right, a pop by one to the left. The messages at the places are then the abstract queue's, step by
step; a spurious wakeup, and a woken reader that finds nothing, are stutters.

**`ReleasesAreAlwaysKept`, `WakeupsAreKept`, `UntimedWakeupsAreKept`** (`LockProofs`). The first two are inductive
with the types; the work is in the actions that wake a thread, where the thread that was woken is the witness, or
`astray`. The third says that this exception needs a timeout: as long as no thread has waited with one, a sleeper
beside a positive counter always has a woken thread next to it.

**`FramesAreAlive`, `HandlesAreOne`, `MessagesStayInOrder`** (`ThreadsProofs`). `FrameIsAlive` needs `HandOver`: the mutex
stays locked until the parameters are copied, and a locked mutex keeps the creator in its frame.
`OneHandle` needs `Owned`: what the VM of a thread holds in each phase of its life, that nothing of a
thread that has not begun is known to anybody, and that what a creator waits for has been created.
`MessagesInOrder` speaks of what was read. It becomes inductive for what was read followed by what still
lies in the queue (`Mail`), given `OneHandle`: nobody else reads a thread's queue.

**`BytecodeTypeOK`, `DepthsAreStatic`, `SlotsAreInFrame`, `FramesAreLeft`** (`BytecodeProofs`),
under the assumption `SharedHandlers = FALSE`, without which the code violates them. `Closed`:
each edge out of a visited instruction leads to an instruction visited with the right depth, or
to a call still in `todo`. When `todo` is empty the depths are closed under the edges, and
`Running` says that the interpreter is always at an instruction with its depth and that each
open trap remembers the depth its handler was checked with. `SlotsInFrame` and `FrameIsLeft`
follow from what `Legal` checked at that depth.

**`BlocksAreAlwaysReady`, `StacksAlwaysAgree`, `HandlersAreAlwaysOpen`, `CodeImplementsInterpreter`**
(`BlocksProofs`). The first holds for
any program, well-formed or not. It is not inductive: that a block queued now has no code follows from `Queued`, which
says of all the blocks ever queued that they have stacks, and that no other block has code of its own.

The other three assume `WellFormedPrograms`: each instruction that can be reached finds one stack, whichever way
it is reached (`Fits`), with what else a compiler's output keeps (`Balanced`). A goto into a `try` breaks that, and these
properties with it (section 5). `WellFormed` is stated in `Blocks` without the compiler's
operators, and `FormAssumption` of `MCBlocks` lets TLC verify it for every program of the run: it walks through each
function and finds the stacks. `CodeInv` then ties the compiler to these stacks (`find`): every item was
made with the stack its address finds and follows the item it should (`Coded`), all code leads to blocks that are
known (`LeadsToKnown`), the block in the making stands where its stack says (`Stands`), a handler has fetching
code from the trap that names it (`Fetching`), a block in the queue has nothing else (`Waiting`), and what has left the queue is whole
(`Finished`). When the code runs, `RunsWell` says that the traps open are those its place names.

`CodeImplementsInterpreter` is the refinement: `Spec => ImplementsInterpreter`, every step of the code is a step of
`Activation` or none. The interpreter's stack is what the variables of the place's stack hold
(`Reads`). Two more invariants carry it. `NewSlots`: the variables of one stack are distinct, each made by code that
was compiled before, so that a store changes one slot and a push none of those that are there. `RunsTrue`: below an open
trap lies what its handler finds (`Level`), and after a tail call, where the interpreter has left the function, the code
that is still to come only returns (`Returning`). There is one lemma for each instruction (`PushStep`, `JumpStep`,
`ThrowStep`, ...); the fetching code, the jumps at the ends of blocks and what follows a tail call map to no step, the start of a main
program to the interpreter's first jump.

**`CodeAlwaysRunsOnce`, `NamesAreAlwaysRestored`, `PrimitivesAreAlwaysFound`, `LibrariesAlwaysAgree`**
(`LoaderProofs`), for any number of threads, modules, strings and libraries and any graph of imports.
`CodeRunsOnce` needs `Importing`: a module that is not in the cache has not run, and two threads that
read one module have left a note in `clash`. `NamesAreRestored` is inductive with the types: each way out of
`load_primitive` puts the `@` back, but an exception of the entry point. `PrimitivesAreFound` needs `Loading`: two threads that load by one
string have left a note, too, and one alone with its string keeps the `@` cut and has the library that the
string names; a string found cut by a thread alone with it has been left by an entry point. `LibrariesAgree` needs `OpenOnce` and `OneKind`, which hold while no two threads work on
the lists at once and none misses in a list that has grown since it was read: a library is in the list when it has been entered, the new list a thread is about to
publish is the old one and one more, and a kind is shared by all that asked for it once the first has been named. A library
whose entry point threw is in the list all the same, and is never entered again.

**`SearchAnswers`, `IdsAreAlwaysKept`, `ObjectsAreMaps`, `LookupsStayInBounds`, `LookupsFindRegistered`**
(`FieldsProofs`), for any number of threads, names and values and any hash. `LookupInBounds` needs `Table`:
the array is as long as the count, but for the moment between the two stores of the thread that holds the
lock, when it is one longer; so what a reader took for the count never exceeds its length.

The other four rest on the binary search. `Search` is a recursive function, so what it answers is an
induction over data; it is done without the induction theorems (the prover cannot instantiate them),
with the least element of a set of naturals (`Least`, from the well-foundedness of `<`). `BisectExists`
builds the function that satisfies the equation, by induction on the length of what is left; `SearchAnswers`
then shows that the search finds the id's cell, or the one place where it belongs. `InsertedCells`,
`ReplacedCells` and `RemovedCells` say what each operation of `Otable` does to the set of a table's cells.
`NamesInv`: each cell of the shared table is that of a name, and a thread about to publish holds the table
with one more; it gives registered names ids of their own, and without that an object would not be a map:
`ObjectsInv`. `LateInv`: until an insertion overlaps a lookup, none is between its two stores and the
count it read is the table's.

The assumptions on constants are those in the modules: sizes are naturals that let a trap and a
frame fit the initial array, programs are sequences of instructions, NULL is no cell, None is no
thread, handle, name or value, the code of a module consists of imports of known modules, primitives and throws,
a library has primitives only if it can be opened.

Only model-checked: every liveness property (`ThrowLands`, `MessagesAreTaken`,
`ReleaseReachesWaiter`, `CreationEnds`, `LookupsEnd`) and everything that a recursive operator
computes (`CompiledIsAccepted`, `RoundTrip`, `HashIsStable`), which the prover does not reach; and `TableIsSound` and
`BindingsAreKept` of `Hashtable`, whose lists are selected and joined with the folds of the sequence
library: those are recursive over their argument, and nothing is proved about them.

## 5. What disagrees with the repository's own words, or with what one expects

Runs that are violated:

- `NekoVM_TriesCatch`: `neko_interp` takes a trap for one of its callers' when it lies no higher than the
  data stack was at its entry (interp.c:1118), and the stack it compares with includes the arguments that `val_callEx`
  pushed. A function that C code calls with six arguments or more (`$call` does) may drop them with a tail call;
  a `try` of the function it calls then lies below that mark, and the exception passes through it to the C caller, whose handler
  removes the wrong trap.
- `NekoVM_FramesSurvive`: `Push` and `Trap` let `sp` pass `csp` before they throw
  (interp.c:813, 894); the handler erases the frames below, and returning through them fails.

Met while modelling; the models keep what the code does, and the properties say how far they
hold:

- `val_callEx` makes itself the handler before it pushes its trap (callback.c:58). If the trap
  does not fit, its handler pops a trap that is not its own. `CallbacksBalance` holds otherwise.
- The checker compares a handler it has already seen with the depth that includes the trap
  (module.c:168). `CompiledIsAccepted` shows that the compiler emits no such program.
- A goto to a label that is already placed writes the label's address where all other jumps
  have a distance (Compile.nml:690). The sources of `MCCompile` jump forward only.
- A goto into a `try` gives a handler two traps, and a block whose predecessors disagree: under
  LLVM the first that is compiled wins (blocks.h:44). `MCBlocks` leaves such sources out.
- `thread_create` returns null if the new thread has ended by then (thread.c:240, 256); `OneHandle`
  speaks of living threads.
- Two threads in the loader: a primitive's name may be found cut, a library may be opened and a
  module run twice (load.c:201, 202, 222, 397). For the library the two need not be in the loader's lists at once: it is
  enough that one has read the head before the other published its library and searches after. The
  properties of `Loader` leave out what both worked on at once, and such a stale search.
- An exception of a library's entry point leaves `load_primitive` with the `@` cut (load.c:242): nothing restores it as
  the failure before it (load.c:231) does. `std_main` can raise one, since it calls `val_id`, which fails with "Field conflict"
  (others.c:420-426). From then on the same string has no `@`, and `loadprim` reports a primitive missing that the library
  has; the library, linked before its entry point was called (load.c:239), is taken as initialised by other strings, perhaps without
  the kind it was to share. One thread is enough. `PrimitivesAreFound`, `NamesAreRestored` and `LibrariesAgree` except the
  loads in `failed`; without the exception each of them is violated.
- A timed wait that expires returns false without a second look at the counter and without passing a signal on
  (thread.c:400-403), though POSIX lets such a wait take one. A release may then leave another thread asleep beside a
  counter of one, until the next release. `NoLostWakeup` and `ReleaseReachesWaiter` of `Lock` except this by `astray`; without it TLC
  finds a behaviour of six steps: one thread sleeps, another's wait expires, a third releases, and the signal
  goes to the second.
- A `return` outside of all functions is compiled to a `Ret` (Compile.nml:892-900) that pops a frame nobody pushed;
  `MCCompile` writes none.
- `unserialize` composes the message that a module "has invalid __unserialize function", but does not throw it
  (serialize.c:506-510); the call that follows fails instead.
- `$hremove` unlinks through a bucket and a cell that it found before it compared keys
  (builtins.c:893-912); if the comparison resized the table or removed the cell, the table is
  damaged. `Hashtable` lets the functions of `$hget`, `$hset` and `$hiter` work on the table, and not that of `$hremove`.
- A field whose name is empty has the id 0, which serialization uses for the end of an object's
  fields (serialize.c:288, 379); `Serialize` gives objects other fields.
- `apply5` stores five arguments in four slots (alloc.c:279).
- The signal a `_deque_pop` or `lock_wait` passes on when more is left is not needed for
  `NoLostWakeup`, since every add and release signals too; a timed wait starts its timeout again at each
  wake-up that finds the counter zero; `val_field_name` can miss a registered name
  (`LookupFindsRegistered` says when).

## 6. What the models leave out

Values (apart from names, messages, handles, and which instruction made them), the garbage
collector (no memory is reused while it can be reached), the Windows build, formatting and
traces. Loads and stores of `Fields` and `Loader` take
effect in source order: on a machine that reorders stores, `LookupInBounds` would need a barrier
the code does not have. `NekoVM` covers the interpreter, `Blocks` one compiled function; a nesting of
interpreted and compiled activations, where `val_rethrow` and the reraise of interp.c:1123 know one handler less than
`val_throw` (others.c:469), is not composed yet.

**Not modelled**, each with its reason in `PROJECT.json`: the x86 compiler (`jit_x86.c`, one
template of machine code per instruction: the interpreter again, or an emulator), wrappers of system calls and of
libraries, the database clients, the web modules, the user interface loop, NekoML and the parser, tools.
Most of the repository's lines are not its own: PCRE's sources and the headers of Apache, SQLite,
MySQL and zlib under `libs/include` make up two thirds of the C code, and much of the rest are sequential primitives
with one function per operation and no state between calls. The map therefore covers a few per cent of all
lines, and most of the lines of the components it names: the core of `vm/`, `vm/llvm/`, the compiler's generator,
`thread.c` and `serialize.c`.

## 7. Plan

Done: NekoVM, Deque, Lock, Bytecode, Threads, Fields; Compile, Activation, Blocks, Loader,
Hashtable, Serialize; the proofs of section 4.

Next, in this order:

1. `NekoVM` with compiled activations: `llvm_handle_trap`, `jit_handle_trap` and what `val_rethrow`
   does between them.
2. Objects: `$new`, prototypes, iteration while a field is removed; composed with Otable.
3. Apply and the two lazy initialisations of `vm/threads.c`, if a property can be found that says
   more than the code.

Proofs still worth doing: `TableIsSound` of Hashtable, with its lists followed as `DequeProofs` follows a
queue's, cell by cell, and no fold.

Runs stay few: a new module gets one that passes, and one that does not only where the code
contradicts the repository. Instances are meant to finish in about a minute.
