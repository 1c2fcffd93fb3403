----------------------------- MODULE Activation -----------------------------
(***************************************************************************)
(* One activation of a function under vm/interp.c, with its values: what a *)
(* compiler's code has to do.                                              *)
(*                                                                         *)
(* A value is named by the address of the instruction that made it; acc    *)
(* and data, top last, are the accumulator and the activation's part of    *)
(* the stack.  What is called returns or throws; a branch may go either    *)
(* way.                                                                    *)
(***************************************************************************)
EXTENDS Opcodes

VARIABLES
    prog,      \* the program
    mode,      \* "run", "returned", or "thrown" to an outer handler
    pc,        \* address of the next instruction
    acc, data, \* see above
    traps      \* its open traps, innermost first: handler and depth below

vars == <<prog, mode, pc, acc, data, traps>>

\* Values no instruction of the activation makes.
Argument(i) == -i
Exception == -100
TrapSlot == -101
Entry == -102      \* what acc holds on entry: null, or the function

Op == At(prog, pc).op
Arg == At(prog, pc).arg

Stores == {"SetGlobal", "SetEnv", "SetThis", "SetField", "SetIndex", "SetArray"}
Loads == {"AccStack", "AccStack0", "AccStack1"}

\* Distance from the top of the slot an instruction names: the reader adds two
\* to the parameter of AccStack (module.c:484).
Slot(op, arg) == CASE op = "AccStack" -> arg + 2
                   [] op = "AccStack1" -> 1
                   [] op = "AccStack0" -> 0
                   [] OTHER -> arg

Drop(s, n) == SubSeq(s, 1, Len(s) - n)

Continue(a, d) ==
    /\ acc' = a /\ data' = d /\ pc' = pc + 1
    /\ UNCHANGED <<prog, mode, traps>>

Compute ==
    /\ Op \in Plain \ (Loads \cup {"Pop"})
    /\ Continue(IF Op \in Stores THEN acc ELSE pc, Drop(data, Erased(Op, Arg)))

Load ==
    /\ Op \in Loads
    /\ Continue(data[Len(data) - Slot(Op, Arg)], data)

SetStack ==
    /\ Op = "SetStack"
    /\ Continue(acc, [data EXCEPT ![Len(data) - Arg] = acc])

Push == Op = "Push" /\ Continue(acc, Append(data, acc))

Pop == Op = "Pop" /\ Continue(acc, Drop(data, Arg))

\* JumpTable and the jump it leads to are one step.
Jump ==
    /\ \/ Op \in {"Jump", "JumpIf", "JumpIfNot"} /\ pc' = Arg
       \/ Op \in {"JumpIf", "JumpIfNot"} /\ pc' = pc + 1
       \/ Op = "JumpTable" /\ \/ \E k \in 1..Arg : pc' = At(prog, pc + k).arg
                              \/ pc' = pc + Arg + 1
    /\ UNCHANGED <<prog, mode, acc, data, traps>>

Trap ==
    /\ Op = "Trap"
    /\ traps' = <<[handler |-> Arg, below |-> Len(data)]>> \o traps
    /\ data' = data \o [i \in 1..TrapSize |-> TrapSlot]
    /\ pc' = pc + 1
    /\ UNCHANGED <<prog, mode, acc>>

EndTrap ==
    /\ Op = "EndTrap" /\ traps # <<>> /\ Head(traps).below + TrapSize = Len(data)
    /\ traps' = Tail(traps)
    /\ data' = Drop(data, TrapSize)
    /\ pc' = pc + 1
    /\ UNCHANGED <<prog, mode, acc>>

\* The frame is gone; its result is in acc.
Leave(how, a) ==
    /\ mode' = how /\ acc' = a /\ pc' = -1 /\ data' = <<>> /\ traps' = <<>>
    /\ UNCHANGED prog

\* Calls and errors; Push and Trap throw when the stack is full.
Throw ==
    /\ Op \in Plain \cup {"Push", "Trap"}
    /\ IF traps = <<>> THEN Leave("thrown", Exception)
       ELSE /\ acc' = Exception
            /\ pc' = Head(traps).handler
            /\ data' = SubSeq(data, 1, Head(traps).below)
            /\ traps' = Tail(traps)
            /\ UNCHANGED <<prog, mode>>

Ret == Op \in {"Ret", "Last"} /\ traps = <<>> /\ Leave("returned", acc)

\* The callee returns, or throws, to this function's caller.
TailCall ==
    /\ Op = "TailCall" /\ traps = <<>>
    /\ Leave("returned", pc) \/ Leave("thrown", Exception)

Init ==
    /\ mode = "run" /\ acc = Entry /\ traps = <<>>
    /\ \/ pc = 0 /\ data = <<>>
       \/ \E j \in DOMAIN prog.functions :
              /\ pc = prog.functions[j].at
              /\ data = [i \in 1..prog.functions[j].nargs |-> Argument(i)]

Next ==
    /\ mode = "run"
    /\ \/ Compute \/ Load \/ SetStack \/ Push \/ Pop \/ Jump \/ Trap \/ EndTrap \/ Throw
       \/ Ret \/ TailCall

Spec == Init /\ [][Next]_vars
=============================================================================
