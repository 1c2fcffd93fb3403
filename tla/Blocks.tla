------------------------------- MODULE Blocks -------------------------------
(***************************************************************************)
(* The LLVM compiler, vm/llvm, for one function of a module, and the code  *)
(* it makes.                                                               *)
(*                                                                         *)
(* The code of a module is cut into functions and these into blocks.  A    *)
(* block is compiled when a block that leads to it has been, with a copy   *)
(* of that block's compile-time stack: the variables (allocas) that hold   *)
(* the slots, and the handlers (catch blocks) of the open traps.           *)
(*                                                                         *)
(* A variable is named by the instruction that made it and a number, a     *)
(* block by its first address.  Generated code is a sequence of items per  *)
(* block, each an instruction's code with the slots and handlers that were *)
(* bound into it.  Then the code runs, once.                               *)
(***************************************************************************)
EXTENDS Opcodes, FiniteSetsExt, SequencesExt, TLC

CONSTANT Programs      \* see Opcodes

ASSUME BlockAssumption ==
    /\ TrapSize \in Nat \ {0}
    /\ \A p \in Programs : p.code \in Seq(Instructions) /\ p.functions \in Seq(Functions)

VARIABLES
    prog, chunk,   \* the program, and the function: from, to, nargs
    blocks,        \* the following block of each block
    mode,          \* "compile", "run", then "returned" or "thrown"
    cur, at,       \* the block and address that are compiled, or block and item that run
    todo, given,   \* blocks the last instruction leads to, and the stack they are given
    queue,         \* Blocks::blocks_to_compile
    compiled,      \* blocks that are, or have been, in the queue
    stacks,        \* compile-time stack of the blocks that have one
    code,          \* items of each block
    mem, acc,      \* the variables that have been written, the accumulator
    handlers,      \* vm->trap: handler of each open trap and depth at its Trap
    tailcalled     \* has a tail call been made?

compiler == <<blocks, todo, given, queue, compiled, stacks, code>>
running == <<mem, acc, handlers, tailcalled>>
vars == <<prog, chunk, blocks, mode, cur, at, todo, given, queue, compiled, stacks, code,
          mem, acc, handlers, tailcalled>>

\* Values that no instruction makes, as in Activation.
Argument(i) == -i
Exception == -100
TrapSlot == -101
Entry == -102      \* acc on entry; unlike the interpreter's it holds nothing of use
Unset == -103      \* a variable that has not been written

ReturnBlock == -1  \* the NativeBlock: return acc
NoBlock == -2

-----------------------------------------------------------------------------
(* neko_module.cpp, neko_function.cpp: functions and blocks. *)

End(p) == Len(p.code) + 1

\* Functions in the order of the globals, then the main code.
Chunks(p) ==
    LET starts == {p.functions[j].at : j \in DOMAIN p.functions}
                    \cup {IF At(p, 0).op = "Jump" /\ p.functions # <<>>
                          THEN At(p, 0).arg ELSE 0}
        To(a) == Min({b \in starts \cup {End(p)} : b > a})
    IN  {[from |-> p.functions[j].at, to |-> To(p.functions[j].at),
          nargs |-> p.functions[j].nargs] : j \in DOMAIN p.functions}
        \cup {[from |-> Max(starts), to |-> End(p), nargs |-> 0]}

\* Mutant: the block behind a conditional jump is not cut off.
TargetsOfJumpOnly(p, i) ==
    LET op == At(p, i).op
    IN  CASE op \in Jumps -> {At(p, i).arg}
          [] op = "JumpTable" -> {i + At(p, i).arg + 1}
          [] OTHER -> {}

\* get_block_addresses: what an instruction makes the start of a block.
Targets(p, i) ==
    LET op == At(p, i).op
    IN  CASE op \in {"Trap", "Jump"} -> {At(p, i).arg}
          [] op \in {"JumpIf", "JumpIfNot"} ->
            {At(p, i).arg} \cup ({i + 1} \ {Len(p.code)})
          [] op = "JumpTable" -> {i + At(p, i).arg + 1}
          [] OTHER -> {}

Starts(p, c) ==
    {c.from} \cup UNION {Targets(p, i) : i \in c.from..(Min({c.to, Len(p.code)}) - 1)}

Following(p, c) ==
    [b \in Starts(p, c) |->
        LET later == {s \in Starts(p, c) : s > b}
        IN  IF later = {} THEN ReturnBlock ELSE Min(later)]

BlockEnd(b) == IF blocks[b] = ReturnBlock THEN Min({chunk.to, Len(prog.code)}) ELSE blocks[b]

-----------------------------------------------------------------------------
(* stack.cpp: compile-time stacks. *)

Variable(a, i) == [at |-> a, n |-> i]
Variables(a, n) == [i \in 1..n |-> Variable(a, i)]

\* pop takes what there is.
Popped(s, n) == SubSeq(s, 1, Len(s) - Min({n, Len(s)}))

\* Mutant: EndTrap leaves its handler in the list.
TrapPopForgotten(catch) == catch

TrapPop(catch) == Tail(catch)

\* The stack after the instruction at i.
After(s, i, op, arg) ==
    CASE op = "Push" -> [s EXCEPT !.slots = @ \o Variables(i, 1)]
      [] op = "Trap" -> [slots |-> s.slots \o Variables(i, TrapSize),
                         catch |-> <<arg>> \o s.catch]
      [] op = "EndTrap" -> [slots |-> Popped(s.slots, TrapSize), catch |-> TrapPop(s.catch)]
      [] op = "TailCall" -> [s EXCEPT !.slots = Popped(@, arg % 8)]
      [] OTHER -> [s EXCEPT !.slots = Popped(@, IF op = "Ret" THEN arg ELSE Erased(op, arg))]

-----------------------------------------------------------------------------
(* blocks.cpp, llvm_code_generation.cpp, llvm_instr_helper.cpp: compiling. *)

Item(does, pc, s) == [do |-> does, pc |-> pc, slots |-> s.slots, catch |-> s.catch]

Init ==
    /\ prog \in Programs /\ chunk \in Chunks(prog)
    /\ blocks = Following(prog, chunk)
    /\ mode = "compile" /\ cur = NoBlock /\ at = 0
    /\ todo = <<>> /\ given = [slots |-> <<>>, catch |-> <<>>]
    /\ queue = <<chunk.from>> /\ compiled = {chunk.from}
    /\ stacks = [b \in {chunk.from} |-> [slots |-> Variables(-1, chunk.nargs), catch |-> <<>>]]
    /\ code = [b \in DOMAIN blocks \cup {ReturnBlock} |->
                  IF b = ReturnBlock THEN <<Item("ret", b, given)>> ELSE <<>>]
    /\ mem = [v \in {Variable(-1, i) : i \in 1..chunk.nargs} |-> Argument(v.n)]
    /\ acc = Entry /\ handlers = <<>> /\ tailcalled = FALSE

Dequeue ==
    /\ mode = "compile" /\ todo = <<>> /\ cur = NoBlock /\ queue # <<>>
    /\ cur' = Head(queue) /\ at' = Head(queue)
    /\ queue' = Tail(queue)
    /\ UNCHANGED <<prog, chunk, blocks, mode, todo, given, compiled, stacks, code, running>>

\* Blocks an instruction leads to, in the order the compiler visits them.
Successors(i, op, arg) ==
    CASE op \in {"Jump", "Trap"} -> <<arg>>
      [] op \in {"JumpIf", "JumpIfNot"} -> <<arg, blocks[cur]>>
      [] op = "JumpTable" -> <<blocks[cur]>> \o [k \in 1..arg |-> At(prog, i + k).arg]
      [] OTHER -> <<>>

\* Mutant: a block that is in the queue is not given a stack any more.
GivenBeforeQueued(b) ==
    IF b \in compiled' THEN stacks ELSE [x \in DOMAIN stacks \cup {b} |->
        IF x \in DOMAIN stacks THEN stacks[x] ELSE given]

\* copyOrCheckStack: the first stack wins.
Given(b) ==
    [x \in DOMAIN stacks \cup {b} |-> IF x \in DOMAIN stacks THEN stacks[x] ELSE given]

\* Mutant: a block is queued at every visit.
EnqueueAlways(b) == Append(queue, b)

\* addToCompilationQueue
Enqueue(b) == IF b \in compiled THEN queue ELSE Append(queue, b)

\* checkAndCopyStack, for the next block the last instruction leads to.
Reach ==
    /\ mode = "compile" /\ todo # <<>>
    /\ LET b == Head(todo)
       IN  IF b = ReturnBlock THEN UNCHANGED <<queue, compiled, stacks>>
           ELSE /\ queue' = Enqueue(b)
                /\ compiled' = compiled \cup {b}
                /\ stacks' = Given(b)
    /\ todo' = Tail(todo)
    /\ UNCHANGED <<prog, chunk, blocks, mode, cur, at, given, code, running>>

\* A trap puts the code that fetches the exception at the end of what its catch
\* block holds by then.
WithFetch(b) ==
    [code EXCEPT ![b] =
        Append(@, Item("fetch", b, IF b \in DOMAIN stacks THEN stacks[b] ELSE stacks[cur]))]

\* The rest of a block is ignored behind Ret and Jump, not behind TailCall.
IgnoresRest(op) == op \in {"Ret", "Jump"}

\* makeOpCode and makeJumpTable, for the instruction at at.
Generate ==
    /\ mode = "compile" /\ todo = <<>> /\ cur # NoBlock /\ at < BlockEnd(cur)
    /\ LET op == At(prog, at).op
           arg == At(prog, at).arg
           s == stacks[cur]
           caught == IF op = "Trap" THEN WithFetch(arg) ELSE code
       IN  /\ code' = [caught EXCEPT ![cur] = Append(@, Item("op", at, s))]
           /\ stacks' = [stacks EXCEPT ![cur] = After(s, at, op, arg)]
           /\ todo' = Successors(at, op, arg) /\ given' = s
           /\ IF op = "JumpTable" THEN at' = BlockEnd(cur) /\ cur' = cur
              ELSE IF IgnoresRest(op) THEN at' = 0 /\ cur' = NoBlock
              ELSE at' = at + 1 /\ cur' = cur
    /\ UNCHANGED <<prog, chunk, blocks, mode, queue, compiled, running>>

Branches == {"JumpIf", "JumpIfNot", "JumpTable"}

\* The destructor of LLVMInstrHelper: a block without a jump at its end gets one.
Close ==
    /\ mode = "compile" /\ todo = <<>> /\ cur # NoBlock /\ at >= BlockEnd(cur)
    /\ IF code[cur] # <<>> /\ Last(code[cur]).do = "op"
          /\ At(prog, Last(code[cur]).pc).op \in Branches
       THEN UNCHANGED <<todo, given, code>>
       ELSE /\ code' = [code EXCEPT ![cur] = Append(@, Item("br", blocks[cur], stacks[cur]))]
            /\ todo' = <<blocks[cur]>> /\ given' = stacks[cur]
    /\ at' = 0 /\ cur' = NoBlock
    /\ UNCHANGED <<prog, chunk, blocks, mode, queue, compiled, stacks, running>>

\* All blocks are compiled: the entry block jumps to the first.
Start ==
    /\ mode = "compile" /\ todo = <<>> /\ cur = NoBlock /\ queue = <<>>
    /\ mode' = "run" /\ cur' = chunk.from /\ at' = 1
    /\ UNCHANGED <<prog, chunk, compiler, running>>

-----------------------------------------------------------------------------
(* What the generated code does. *)

Here == code[cur][at]
Op == At(prog, Here.pc).op
Arg == At(prog, Here.pc).arg

\* A variable of the slot that is n below the top.
SlotVar(n) == Here.slots[Len(Here.slots) - n]

Read(v) == IF v \in DOMAIN mem THEN mem[v] ELSE Unset

\* Memory once x has been stored into the variables vs.
Stored(vs, x) == [v \in DOMAIN mem \cup vs |-> IF v \in vs THEN x ELSE mem[v]]

Continue ==
    /\ at' = at + 1
    /\ UNCHANGED <<prog, chunk, mode, cur, compiler>>

Goto(b) ==
    /\ cur' = b /\ at' = 1
    /\ UNCHANGED <<prog, chunk, mode, compiler, running>>

Leave(how) ==
    /\ mode' = how
    /\ UNCHANGED <<prog, chunk, cur, at, compiler, running>>

Stores == {"SetGlobal", "SetEnv", "SetThis", "SetField", "SetIndex", "SetArray"}
Loads == {"AccStack", "AccStack0", "AccStack1"}
Slot(op, arg) == CASE op = "AccStack" -> arg + 2
                   [] op = "AccStack1" -> 1
                   [] op = "AccStack0" -> 0
                   [] OTHER -> arg

\* A tail call is a call: what follows it must do nothing but return.
Compute ==
    /\ Op \in (Plain \ (Loads \cup {"Pop"})) \cup {"TailCall"}
    /\ acc' = IF Op \in Stores THEN acc ELSE Here.pc
    /\ tailcalled' = (tailcalled \/ Op = "TailCall")
    /\ Continue /\ UNCHANGED <<mem, handlers>>

Load ==
    /\ Op \in Loads
    /\ acc' = Read(SlotVar(Slot(Op, Arg)))
    /\ Continue /\ UNCHANGED <<mem, handlers, tailcalled>>

\* Push makes its variable when it is compiled, and stores into it.
Store ==
    /\ Op \in {"SetStack", "Push"}
    /\ LET v == IF Op = "Push" THEN Variable(Here.pc, 1) ELSE SlotVar(Arg)
       IN  mem' = Stored({v}, acc)
    /\ Continue /\ UNCHANGED <<acc, handlers, tailcalled>>

Pop == Op = "Pop" /\ Continue /\ UNCHANGED running

Jump ==
    \/ Op \in {"Jump", "JumpIf", "JumpIfNot"} /\ Goto(Arg)
    \/ Op \in {"JumpIf", "JumpIfNot"} /\ Goto(blocks[cur])
    \/ Op = "JumpTable" /\ \/ Goto(blocks[cur])
                           \/ \E k \in 1..Arg : Goto(At(prog, Here.pc + k).arg)

\* p_setup_trap
Trap ==
    /\ Op = "Trap"
    /\ handlers' = <<[handler |-> Arg, below |-> Len(Here.slots)]>> \o handlers
    /\ mem' = Stored(Range(Variables(Here.pc, TrapSize)), TrapSlot)
    /\ Continue /\ UNCHANGED <<acc, tailcalled>>

\* p_end_trap
EndTrap ==
    /\ Op = "EndTrap"
    /\ handlers' = Tail(handlers)
    /\ Continue /\ UNCHANGED <<mem, acc, tailcalled>>

\* What callPrimitive calls unwinds: an invoke lands in the catch block that
\* was innermost when it was compiled.
Throw ==
    /\ Op \in (Plain \ (Loads \cup {"Pop"})) \cup {"TailCall", "Trap"}
    /\ IF Here.catch = <<>> THEN Leave("thrown") ELSE Goto(Head(Here.catch))

\* At the start of a catch block: acc = vm->vthis, then neko_process_trap.
Fetch ==
    /\ acc' = Exception
    /\ handlers' = Tail(handlers)
    /\ Continue /\ UNCHANGED <<mem, tailcalled>>

Ret == Leave("returned")

Run ==
    /\ mode = "run"
    /\ \/ Here.do = "br" /\ Goto(Here.pc)
       \/ Here.do = "fetch" /\ Fetch
       \/ Here.do = "ret" /\ Ret
       \/ /\ Here.do = "op"
          /\ \/ Compute \/ Load \/ Store \/ Pop \/ Jump \/ Trap \/ EndTrap \/ Throw
             \/ Op = "Ret" /\ Ret

Next == Dequeue \/ Generate \/ Reach \/ Close \/ Start \/ Run

Spec == Init /\ [][Next]_vars

(***************************************************************************)
(* Properties.                                                             *)
(***************************************************************************)
\* What the interpreter has where the compiled code is: nothing any more once it
\* has ended, and the exception before a catch block has fetched it.
Ended == mode \in {"returned", "thrown"} \/ tailcalled

AtFetch == mode = "run" /\ Here.do = "fetch"

Mode == IF mode = "compile" THEN "run" ELSE IF mode = "run" /\ tailcalled THEN "returned" ELSE mode

\* Address of the interpreter's next instruction.
Address ==
    IF Ended THEN -1
    ELSE IF mode = "compile" THEN (IF chunk.to = End(prog) THEN 0 ELSE chunk.from)
    ELSE IF Here.pc = ReturnBlock THEN Min({chunk.to, Len(prog.code)})
    ELSE Here.pc

Acc == IF mode = "thrown" \/ AtFetch THEN Exception ELSE acc

Data == IF Ended THEN <<>>
        ELSE IF mode = "compile" THEN [i \in 1..chunk.nargs |-> Argument(i)]
        ELSE [k \in DOMAIN Here.slots |-> Read(Here.slots[k])]

Open == IF Ended THEN <<>> ELSE IF AtFetch THEN Tail(handlers) ELSE handlers

Interpreter ==
    INSTANCE Activation WITH mode <- Mode, pc <- Address, acc <- Acc, data <- Data, traps <- Open

\* The code that is made for a function does what the interpreter does with it:
\* the same instructions in the same order, with the same values in acc and in
\* every slot, and exceptions that land in the same handlers.
ImplementsInterpreter == Interpreter!Spec

EntryStack(b) ==
    IF code[b] = <<>> THEN stacks[b] ELSE [slots |-> code[b][1].slots, catch |-> code[b][1].catch]

\* "assert( *stack == newStack )" (blocks.h:52), disabled because the stack of
\* a block that is being compiled has changed: all jumps to a block agree about
\* the stack on entry.
StacksAgree ==
    \A b \in {todo[k] : k \in DOMAIN todo} \cap DOMAIN stacks : EntryStack(b) = given

Generated(b) == b \in DOMAIN code /\ \E k \in DOMAIN code[b] : code[b][k].do = "op"

\* "assert(block->hasStack())" (llvm_code_generation.cpp:136): a block that waits
\* has a stack, waits once, and has no code yet but that of the traps that name
\* it, also when a loop or a second branch reaches it again.
BlocksAreReady ==
    mode = "compile" =>
        /\ \A j, k \in DOMAIN queue : queue[j] = queue[k] => j = k
        /\ \A k \in DOMAIN queue : queue[k] \in DOMAIN stacks /\ ~Generated(queue[k])
        /\ cur # NoBlock =>
               cur \in DOMAIN stacks /\ \A k \in DOMAIN queue : queue[k] # cur

\* The handlers bound into an instruction's code are those that are open when it
\* runs, innermost first.
HandlersAreOpen ==
    mode = "run" /\ Here.do = "op" =>
        Here.catch = [k \in DOMAIN handlers |-> handlers[k].handler]

(***************************************************************************)
(* What these properties ask of a program.                                 *)
(*                                                                         *)
(* The instructions that can be reached find one compile-time stack,       *)
(* whichever way they are reached, and only a throw leads into a handler,  *)
(* that of one trap.                                                       *)
(***************************************************************************)
Limit(p, c) == Min({c.to, Len(p.code)})

\* Slots an instruction takes off the stack, and puts there.
Takes(op, arg) ==
    CASE op = "EndTrap" -> TrapSize
      [] op = "TailCall" -> arg % 8
      [] OTHER -> Erased(op, arg)

Makes(op) == IF op = "Push" THEN 1 ELSE IF op = "Trap" THEN TrapSize ELSE 0

\* The stack behind the instruction at i, which finds s.
Behind(s, i, op, arg) ==
    [slots |-> SubSeq(s.slots, 1, Len(s.slots) - Takes(op, arg)) \o Variables(i, Makes(op)),
     catch |-> CASE op = "Trap" -> <<arg>> \o s.catch
                 [] op = "EndTrap" -> Tail(s.catch)
                 [] OTHER -> s.catch]

\* Where an instruction leads, but for the next one.
Leads(p, i) ==
    LET op == At(p, i).op
        arg == At(p, i).arg
    IN  CASE op \in {"Jump", "Trap"} -> {arg}
          [] op \in {"JumpIf", "JumpIfNot"} -> {arg, i + 1}
          [] op = "JumpTable" -> {i + arg + 1} \cup {At(p, i + k).arg : k \in 1..arg}
          [] OTHER -> {}

GoesOn(p, i) == At(p, i).op \notin {"Ret", "Jump", "JumpTable"}

Traps(p, is) == {i \in is : At(p, i).op = "Trap"}
Catches(p, is) == {At(p, i).arg : i \in Traps(p, is)}

\* find is the stack that each reachable instruction of the function finds.
Fits(p, c, find) ==
    LET reached == DOMAIN find
        is == reached \ {Limit(p, c)}
    IN  /\ c.from \in Nat /\ c.to \in Nat
        /\ Starts(p, c) \cup reached \subseteq c.from..Limit(p, c)
        /\ find \in [reached -> [slots : Seq([at : Int, n : Int]), catch : Seq(Int)]]
        /\ c.from \in reached
        /\ find[c.from] = [slots |-> Variables(-1, c.nargs), catch |-> <<>>]
        /\ \A i \in is : GoesOn(p, i) =>
               LET op == At(p, i).op
                   arg == At(p, i).arg
               IN  /\ Takes(op, arg) \in 0..Len(find[i].slots)
                   /\ i + 1 \in reached /\ find[i + 1] = Behind(find[i], i, op, arg)
        /\ \A i \in is : \A j \in Leads(p, i) : j \in reached /\ find[j] = find[i]
        /\ \A i \in is : At(p, i).op = "JumpTable" =>
               /\ At(p, i).arg \in Nat
               /\ \A k \in 1..At(p, i).arg : At(p, i + k).op = "Jump" /\ i + k \notin Starts(p, c)
        /\ \A i \in is : At(p, i).op = "EndTrap" => find[i].catch # <<>>
        /\ \A i \in reached : find[i].catch # <<>> =>
               /\ Head(find[i].catch) \in Catches(p, is)
               /\ find[Head(find[i].catch)].catch = Tail(find[i].catch)
        /\ \A i, j \in Traps(p, is) : At(p, i).arg = At(p, j).arg => i = j
        /\ \A i \in is \ Traps(p, is) : Leads(p, i) \cap Catches(p, is) = {}
        /\ \A i \in is : GoesOn(p, i) => i + 1 \notin Catches(p, is)
        /\ c.from \notin Catches(p, is)

\* Besides, an instruction names slots that are there, what is below a trap
\* stays until it is taken down, the function returns without traps, a tail
\* call leads to where there is nothing else to do, ends, and the main program
\* starts at the first address.
Balanced(p, c, find, ends) ==
    LET reached == DOMAIN find
        is == reached \ {Limit(p, c)}
    IN  /\ \A i \in is :
               LET op == At(p, i).op
                   arg == At(p, i).arg
                   depth == Len(find[i].slots)
               IN  /\ op \in Loads \cup {"SetStack"} => Slot(op, arg) \in 0..(depth - 1)
                   /\ op \in {"Ret", "TailCall"} => find[i].catch = <<>>
                   /\ op = "TailCall" => i + 1 \in ends
                   /\ i \in ends =>
                          \/ op = "Ret"
                          \/ op = "Jump" /\ arg \in ends
                          \/ op = "Pop" /\ i + 1 \in ends
                   /\ op = "EndTrap" => Len(find[Head(find[i].catch)].slots) + TrapSize = depth
        /\ \A i \in reached : find[i].catch # <<>> =>
               IsPrefix(find[Head(find[i].catch)].slots, find[i].slots)
        /\ Limit(p, c) \in reached =>
               Limit(p, c) = Len(p.code) /\ find[Limit(p, c)] = [slots |-> <<>>, catch |-> <<>>]
        /\ c.to = End(p) =>
               c.nargs = 0 /\ (c.from = 0 \/ (At(p, 0).op = "Jump" /\ At(p, 0).arg = c.from))

WellFormed(p) ==
    \A c \in Chunks(p) : \E find, ends : Fits(p, c, find) /\ Balanced(p, c, find, ends)
=============================================================================
