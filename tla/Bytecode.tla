------------------------------ MODULE Bytecode ------------------------------
(***************************************************************************)
(* The stack check of vm/module.c and the interpreter it is made for.      *)
(*                                                                         *)
(* A module's code is accepted if the reader finds every parameter in      *)
(* range and neko_check_stack finds one stack depth for every instruction  *)
(* that can be reached.  One activation of the main code, or of a function *)
(* of an accepted program, then runs on a stack of which only the depth is *)
(* kept.  What it calls returns, with the arguments popped, or throws.     *)
(*                                                                         *)
(* The recursion of neko_check_stack is a list of the calls still to make, *)
(* innermost first; a step visits one instruction.                         *)
(*                                                                         *)
(* An address is an instruction's index: the reader's marks of parameters  *)
(* (module.c:423-446) leave only those to jump to.                         *)
(***************************************************************************)
EXTENDS Opcodes

CONSTANTS
    Programs,          \* see Opcodes
    MaxStack,          \* MAX_STACK_PER_FUNCTION - 4
    SharedHandlers     \* look at programs with a trap whose handler has been
                       \* checked before the trap?

ASSUME SizeAssumption == TrapSize \in Nat \ {0} /\ MaxStack \in Nat \ {0}

ASSUME ProgramAssumption ==
    \A p \in Programs : p.code \in Seq(Instructions) /\ p.functions \in Seq(Functions)

VARIABLES
    prog,      \* the program
    mode,      \* "check", "rejected", "aside" (see SharedHandlers); "run" and then
               \* "returned", "tailcalled", "ended" by Last, "thrown" to an outer
               \* handler, or "undefined" behaviour
    tmp,       \* the checker's depth for each instruction
    todo,      \* its calls still to make
    checked,   \* functions checked
    istack,    \* arguments of the function being checked, or running
    pc,        \* address of the next instruction
    sp,        \* slots of this activation on the stack, arguments included
    traps      \* its traps, innermost first: the depth below, and the handler

checker == <<tmp, todo, checked>>
vars == <<prog, mode, tmp, todo, checked, istack, pc, sp, traps>>

UNKNOWN == -1

-----------------------------------------------------------------------------
(* module.c: neko_read_module and neko_check_stack. *)

\* Of other parameters (AccInt, AccField, TailCall...) the sign is not looked at.
Unsigned == Jumps \cup {"SetStack", "Ret", "Pop", "AccGlobal", "SetGlobal", "AccEnv", "SetEnv",
                        "Call", "ObjCall", "MakeEnv", "MakeArray", "JumpTable"}

ParameterInRange(p, i) ==
    LET op == At(p, i).op
        arg == At(p, i).arg
    IN  /\ op # "Last"
        /\ op \in Unsigned => arg >= 0
        /\ op = "AccStack" => arg + 2 >= 0
        /\ op \in Jumps => arg <= Len(p.code)
        /\ op \in {"MakeEnv", "JumpTable"} => arg <= 255
        /\ op = "MakeArray" => arg <= 65536
        /\ op \in {"Call", "ObjCall"} => arg <= CALL_MAX_ARGS
        /\ op = "TailCall" => arg % 8 <= CALL_MAX_ARGS
        /\ op = "Apply" => arg \in 1..(CALL_MAX_ARGS - 1)
        /\ op = "JumpTable" => i + arg < Len(p.code)

AboveArguments(stack, base) == stack >= base

\* Mutant: a function may leave less on the stack than its frame.
RetExactAtMost(arg, stack) == arg <= stack

RetExact(arg, stack) == arg = stack

\* Mutant: SetStack may name the slot behind the frame.
InFrameOrNext(n, stack) == n <= stack

InFrame(n, stack) == n < stack

\* What neko_check_stack asks of an instruction once its effect is applied.
\* AccStack's parameter was incremented by the reader.
\* base is the function's istack.
InstructionOK(op, arg, stack, base) ==
    /\ op = "AccStack" => InFrame(arg + 2, stack)
    /\ op = "SetStack" => InFrame(arg, stack)
    /\ op = "AccStack0" => 0 < stack
    /\ op = "AccStack1" => 1 < stack
    /\ op = "Last" => stack = 0
    /\ op = "Ret" => RetExact(arg, stack)
    /\ op = "ObjCall" => AboveArguments(stack - 1, base)
    /\ op = "TailCall" => AboveArguments(stack - (arg % 8), base) /\ arg \div 8 = stack

\* Mutant: the depths of a jump and of its target are not compared.
TargetAgreesAlways(known, stack) == TRUE

TargetAgrees(known, stack) == known = UNKNOWN \/ known = stack

StackLimit(stack) == stack < MaxStack

Legal(op, arg, after, base) ==
    /\ AboveArguments(after, base)
    /\ StackLimit(after)
    /\ InstructionOK(op, arg, after, base)

\* Calls made for the targets of an instruction, unless they are known: the
\* handler of a trap is entered without the trap.
Check(i, stack) == [at |-> i, stack |-> stack]

TargetChecks(known, i, op, arg, after) ==
    IF op = "JumpTable" THEN [k \in 1..arg |-> Check(i + k, after)]
    ELSE IF op \notin Jumps \/ known[arg] # UNKNOWN THEN <<>>
    ELSE IF op = "Trap" THEN <<Check(arg, after - TrapSize)>>
    ELSE <<Check(arg, after)>>

\* Then the loop goes on behind the instruction.
FollowingCheck(i, op, arg, after) ==
    IF op \in {"Jump", "Last", "Ret", "TailCall"} THEN <<>>
    ELSE IF op = "JumpTable" THEN <<Check(i + arg + 1, after)>>
    ELSE IF op = "ObjCall" THEN <<Check(i + 1, after - 1)>>
    ELSE <<Check(i + 1, after)>>

Readable(p) ==
    /\ \A i \in 0..(Len(p.code) - 1) : ParameterInRange(p, i)
    /\ \A j \in DOMAIN p.functions : p.functions[j].at < Len(p.code)
    /\ \A j, k \in DOMAIN p.functions : j < k => p.functions[j].at <= p.functions[k].at

Init ==
    /\ prog \in Programs
    /\ mode = IF Readable(prog) THEN "check" ELSE "rejected"
    /\ tmp = [i \in 0..Len(prog.code) |-> UNKNOWN]
    /\ todo = <<Check(0, 0)>>
    /\ checked = 0 /\ istack = 0
    /\ pc = 0 /\ sp = 0 /\ traps = <<>>

Stop(how) ==
    /\ mode' = how
    /\ UNCHANGED <<prog, checker, istack, pc, sp, traps>>

\* One instruction of neko_check_stack.
Visit ==
    /\ mode = "check" /\ todo # <<>>
    /\ LET i == Head(todo).at
           stack == Head(todo).stack
           op == At(prog, i).op
           arg == At(prog, i).arg
           after == stack + stack_table(op, arg)
           known == [tmp EXCEPT ![i] = stack]
       IN  IF tmp[i] # UNKNOWN THEN
               IF tmp[i] # stack THEN Stop("rejected")
               ELSE /\ todo' = Tail(todo)
                    /\ UNCHANGED <<prog, mode, tmp, checked, istack, pc, sp, traps>>
           ELSE IF ~Legal(op, arg, after, istack) THEN Stop("rejected")
           ELSE IF op \in Jumps /\ ~TargetAgrees(known[arg], after) THEN Stop("rejected")
           ELSE IF op = "JumpTable" /\ \E k \in 1..arg : At(prog, i + k).op # "Jump"
                THEN Stop("rejected")
           ELSE IF op = "Trap" /\ known[arg] # UNKNOWN /\ ~SharedHandlers THEN Stop("aside")
           ELSE /\ tmp' = known
                /\ todo' = TargetChecks(known, i, op, arg, after)
                             \o FollowingCheck(i, op, arg, after) \o Tail(todo)
                /\ UNCHANGED <<prog, mode, checked, istack, pc, sp, traps>>

\* The functions follow in the order of the globals, which must be the order
\* of their addresses; all of them share tmp.
CheckFunction ==
    /\ mode = "check" /\ todo = <<>> /\ checked < Len(prog.functions)
    /\ checked' = checked + 1
    /\ LET f == prog.functions[checked + 1]
       IN  todo' = <<Check(f.at, f.nargs)>> /\ istack' = f.nargs
    /\ UNCHANGED <<prog, mode, tmp, pc, sp, traps>>

-----------------------------------------------------------------------------
(* interp.c: what an instruction does. *)

\* The module is accepted: its main code runs, or one of its functions.
Enter(i, nargs) ==
    /\ pc' = i /\ istack' = nargs /\ sp' = nargs
    /\ mode' = "run"
    /\ UNCHANGED <<prog, checker, traps>>

Run ==
    /\ mode = "check" /\ todo = <<>> /\ checked = Len(prog.functions)
    /\ \/ Enter(0, 0)
       \/ \E j \in DOMAIN prog.functions :
              Enter(prog.functions[j].at, prog.functions[j].nargs)

Op == At(prog, pc).op
Arg == At(prog, pc).arg

\* An instruction that erases or overwrites a slot of an open trap breaks the
\* trap; the compiler never writes one.
ErasesTrap(lowest) == traps # <<>> /\ Head(traps).sp + TrapSize > lowest
OverwritesTrap(slot) ==
    \E k \in DOMAIN traps : slot \in traps[k].sp..(traps[k].sp + TrapSize - 1)

Undefined == Stop("undefined")

Execute ==
    /\ Op \in Plain
    /\ IF ErasesTrap(sp - Erased(Op, Arg)) THEN Undefined
       ELSE /\ sp' = sp - Erased(Op, Arg)
            /\ pc' = pc + 1
            /\ UNCHANGED <<prog, mode, checker, istack, traps>>

Push ==
    /\ Op = "Push"
    /\ sp' = sp + 1 /\ pc' = pc + 1
    /\ UNCHANGED <<prog, mode, checker, istack, traps>>

\* sp[n] = acc
SetStack ==
    /\ Op = "SetStack"
    /\ IF OverwritesTrap(sp - 1 - Arg) THEN Undefined
       ELSE pc' = pc + 1 /\ UNCHANGED <<prog, mode, checker, istack, sp, traps>>

Jump ==
    /\ \/ Op \in {"Jump", "JumpIf", "JumpIfNot"} /\ pc' = Arg
       \/ Op \in {"JumpIf", "JumpIfNot"} /\ pc' = pc + 1
       \/ Op = "JumpTable" /\ \E k \in 0..Arg : pc' = pc + 1 + k
    /\ UNCHANGED <<prog, mode, checker, istack, sp, traps>>

Trap ==
    /\ Op = "Trap"
    /\ traps' = <<[sp |-> sp, handler |-> Arg]>> \o traps
    /\ sp' = sp + TrapSize /\ pc' = pc + 1
    /\ UNCHANGED <<prog, mode, checker, istack>>

\* Raised by any instruction but the simplest, and by Push and Trap when the
\* stack is full.
Throw ==
    /\ IF traps = <<>>
       THEN mode' = "thrown" /\ UNCHANGED <<pc, sp, traps>>
       ELSE /\ sp' = Head(traps).sp
            /\ pc' = Head(traps).handler
            /\ traps' = Tail(traps)
            /\ UNCHANGED mode
    /\ UNCHANGED <<prog, checker, istack>>

Throws ==
    /\ Op \in Plain \cup {"Push", "Trap"}
    /\ Throw

\* "Invalid End Trap" unless the innermost trap is on top of the stack.
EndTrap ==
    /\ Op = "EndTrap"
    /\ IF traps # <<>> /\ Head(traps).sp + TrapSize = sp
       THEN /\ sp' = Head(traps).sp
            /\ traps' = Tail(traps)
            /\ pc' = pc + 1
            /\ UNCHANGED <<prog, mode, checker, istack>>
       ELSE Throw

\* The frame goes; what is left belongs to the caller.
Leave(op, how, erased) ==
    /\ Op = op
    /\ IF traps # <<>> THEN Undefined
       ELSE /\ sp' = sp - erased
            /\ mode' = how
            /\ UNCHANGED <<prog, checker, pc, istack, traps>>

Ret == Leave("Ret", "returned", Arg)

\* The arguments move up over the rest of the frame.
TailCall == Leave("TailCall", "tailcalled", (Arg \div 8) - (Arg % 8))

End == Leave("Last", "ended", 0)

Step ==
    /\ mode = "run"
    /\ \/ Execute \/ Push \/ SetStack \/ Jump \/ Trap \/ Throws \/ EndTrap
       \/ Ret \/ TailCall \/ End

Next == Visit \/ CheckFunction \/ Run \/ Step

Spec == Init /\ [][Next]_vars

(***************************************************************************)
(* Properties.                                                             *)
(***************************************************************************)
TypeOK ==
    /\ prog \in Programs
    /\ mode \in {"check", "rejected", "aside", "run", "returned", "tailcalled", "ended",
                "thrown", "undefined"}
    /\ tmp \in [0..Len(prog.code) -> Nat \cup {UNKNOWN}]
    /\ todo \in Seq([at : 0..Len(prog.code), stack : Nat])
    /\ checked \in 0..Len(prog.functions) /\ istack \in Nat
    /\ pc \in 0..Len(prog.code) /\ sp \in Nat
    /\ traps \in Seq([sp : Nat, handler : 0..Len(prog.code)])

\* "Check stack preservation" (module.c:537): on every path, exceptions
\* included, the stack is as deep as the checker found it for the instruction.
DepthIsStatic == mode = "run" => tmp[pc] = sp

\* An activation that ends hands its caller exactly the stack it was given: Ret
\* leaves none of its frame, a tail call the arguments of the next function.
FrameIsLeft ==
    /\ mode \in {"returned", "ended"} => sp = 0
    /\ mode = "tailcalled" => sp = Arg % 8

\* An instruction names slots of its own frame only.
SlotsInFrame ==
    mode = "run" =>
        /\ Op = "AccStack" => Arg + 2 < sp
        /\ Op = "SetStack" => Arg < sp
        /\ Op \in Binary \cup {"AccArray", "AccStack0", "SetField", "SetIndex"} => sp >= 1
        /\ Op \in {"AccStack1", "SetArray"} => sp >= 2
=============================================================================
