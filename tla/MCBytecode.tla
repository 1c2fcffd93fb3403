----------------------------- MODULE MCBytecode -----------------------------
(***************************************************************************)
(* Programs for Bytecode: all small ones, and what the compiler makes of   *)
(* small sources.  Traps take two slots.                                   *)
(***************************************************************************)
EXTENDS Bytecode

LOCAL C == INSTANCE MCCompile

Is(op, args) == {[op |-> op, arg |-> a] : a \in args}
IsOne(ops) == {[op |-> o, arg |-> 0] : o \in ops}

\* Control flow: all programs of four instructions over these, with and
\* without a function of one argument in them.
Flow ==
    IsOne({"Push", "EndTrap", "ObjCall"}) \cup Is("Call", {1}) \cup Is("Trap", 1..4)
    \cup Is("JumpIf", 0..4) \cup Is("Jump", {4}) \cup Is("JumpTable", {1})
    \cup Is("Ret", 0..2) \cup Is("TailCall", {8 * 1 + 1, 8 * 2 + 0})

FlowPrograms ==
    [code : [1..4 -> Flow], functions : {<<>>, <<[at |-> 1, nargs |-> 1]>>},
     by : {"hand"}]

\* Every other instruction, on a stack of up to five.
Data ==
    UNION {Is(op, 0..3) : op \in PopsParameter \cup {"SetStack"}} \cup Is("AccStack", -3..3)
    \cup IsOne({"Push"} \cup (Plain \ (PopsParameter \cup {"AccStack"})))

DataPrograms ==
    {[code |-> [i \in 1..6 |-> IF i <= 4 THEN [op |-> "Push", arg |-> 0]
                               ELSE IF i = 5 THEN d ELSE e],
      functions |-> <<>>, by |-> "hand"] :
        d \in Data, e \in Is("Pop", 0..5) \cup IsOne({"SetArray", "Add"})}

\* One instruction below the limit.
LimitPrograms ==
    {[code |-> [i \in 1..(MaxStack - 1) |-> [op |-> "Push", arg |-> 0]] \o <<f>> \o <<e>>,
      functions |-> <<>>, by |-> "hand"] :
        f \in Flow, e \in Is("Pop", (MaxStack - 2)..(MaxStack + 1))}

\* What the compiler makes of expressions, functions, and gotos to later labels.
\* Returns are in functions only: one outside compiles to a Ret that takes down a
\* frame nobody has pushed (neko_vm_execute pushes none), which is not in Bytecode.
Sources == C!Structured(2) \cup C!Nested(3) \cup C!Closures(1) \cup C!ForwardGotos

Compiled ==
    {LET m == C!Module(e) IN [code |-> m.code, functions |-> m.functions, by |-> "compiler"] :
        e \in Sources}

AllPrograms == FlowPrograms \cup DataPrograms \cup LimitPrograms \cup Compiled

\* Compiler and checker are made for each other (Compile.nml:698, "in order to
\* comply with bytecode checker"): what the one makes the other accepts, and it
\* runs without touching its traps.
CompiledIsAccepted ==
    prog.by = "compiler" => mode \notin {"rejected", "aside", "undefined"}
=============================================================================
