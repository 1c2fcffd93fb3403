------------------------------ MODULE Compile ------------------------------
(***************************************************************************)
(* The code generator of the Neko compiler, src/neko/Compile.nml, and the  *)
(* addresses that Bytecode.nml writes.                                     *)
(*                                                                         *)
(* An expression is a record: its kind k, a name v, and the expressions es *)
(* it is made of.  Expressions that differ in the instruction they end     *)
(* with only are one kind: "const", "op", "call", "method".  A context c   *)
(* is the record the compiler calls ctx, passed on and returned.           *)
(***************************************************************************)
EXTENDS Opcodes, SequencesExt, TLC

\* What the compiler believes an instruction does to the stack.
stack_delta(op, arg) ==
    CASE op = "Push" -> 1
      [] op = "Trap" -> TrapSize
      [] op = "EndTrap" -> -TrapSize
      [] op = "TailCall" -> -(arg % 8)
      [] OTHER -> -Erased(op, arg)

write(c, op, arg) ==
    [c EXCEPT !.ops = Append(@, [op |-> op, arg |-> arg]), !.stack = @ + stack_delta(op, arg)]

pos(c) == Len(c.ops)

\* jmp, cjmp and trap write a jump to be completed; Land completes it.
Land(c, p, op) == [c EXCEPT !.ops[p + 1] = [op |-> op, arg |-> pos(c) - p]]

LandAll(c, ps) == FoldLeft(LAMBDA d, p : Land(d, p, "Jump"), c, ps)

PopTo(c, depth) == IF c.stack > depth THEN write(c, "Pop", c.stack - depth) ELSE c

\* The code after a jump away counts on the stack before it.
WithStack(c, depth) == [c EXCEPT !.stack = depth]

Bind(c, v) == [c EXCEPT !.locals = (v :> c.stack) @@ @]

\* save_breaks, process_breaks: the loop's own exits, then the outer loop's.
EnterLoop(c) == [c EXCEPT !.loop = c.stack, !.breaks = <<>>, !.continues = <<>>]
LeaveLoop(c, outer) ==
    [c EXCEPT !.loop = outer.loop, !.breaks = outer.breaks, !.continues = outer.continues]

-----------------------------------------------------------------------------
(* scan_labels: the stack and the traps, outermost first, of each label. *)

RECURSIVE scan_labels(_, _)
RECURSIVE scan_all(_, _)

scan_labels(s, e) ==
    CASE e.k = "label" ->
            [s EXCEPT !.labels = (e.v :> [stack |-> s.stack, traps |-> Reverse(s.traps)]) @@ @]
      [] e.k = "vars" -> LET t == scan_all(s, e.es) IN [t EXCEPT !.stack = @ + 1]
      [] e.k = "block" -> [scan_all(s, e.es) EXCEPT !.stack = s.stack]
      [] e.k = "try" ->
            LET in == [s EXCEPT !.stack = @ + TrapSize, !.traps = <<s.stack + TrapSize>> \o @]
                out == [scan_labels(in, e.es[1]) EXCEPT !.stack = s.stack + 1, !.traps = s.traps]
            IN  [scan_labels(out, e.es[2]) EXCEPT !.stack = s.stack]
      [] e.k = "function" ->
            [scan_all([s EXCEPT !.stack = @ + 1, !.traps = <<>>], e.es)
                EXCEPT !.stack = s.stack, !.traps = s.traps]
      [] OTHER -> scan_all(s, e.es)

scan_all(s, es) == IF es = <<>> THEN s ELSE scan_all(scan_labels(s, Head(es)), Tail(es))

-----------------------------------------------------------------------------
(* compile *)

\* Longest common part of two lists of traps.
RECURSIVE Common(_, _)
Common(s, t) ==
    IF s = <<>> \/ t = <<>> \/ Head(s) # Head(t) THEN 0 ELSE 1 + Common(Tail(s), Tail(t))

RECURSIVE Pad(_, _)
Pad(c, depth) == IF c.stack < depth THEN Pad(write(c, "Push", 0), depth) ELSE c

Adjust(c, depth) == Pad(PopTo(c, depth), depth)

\* Mutant: the traps that are left stay open.
LeaveTrapsOpen(c, ts) == c

\* Traps that are left: innermost first.
RECURSIVE LeaveTraps(_, _)
LeaveTraps(c, ts) ==
    IF ts = <<>> THEN c
    ELSE LeaveTraps(write(PopTo(c, Head(ts)), "EndTrap", 0), Tail(ts))

\* Traps that are entered by a goto: outermost first.  ps collects them.
RECURSIVE EnterTraps(_, _, _)
EnterTraps(c, ts, ps) ==
    IF ts = <<>> THEN <<c, ps>>
    ELSE LET d == Adjust(c, Head(ts) - TrapSize)
         IN  EnterTraps(write(d, "Trap", 0), Tail(ts), Append(ps, pos(d)))

\* The handler of a trap that a goto entered throws the exception again.
Rethrow(c, p) ==
    LET d == write(write(Land(c, p, "Trap"), "Push", 0), "AccBuiltin", 0)
    IN  write(write(d, "Call", 1), "Jump", 0)

goto(c, v) ==
    LET l == c.labels[v]
        n == Common(Reverse(c.traps), l.traps)
        left == LeaveTraps(c, SubSeq(c.traps, 1, Len(c.traps) - n))
        in == EnterTraps(left, SubSeq(l.traps, n + 1, Len(l.traps)), <<>>)
        there == WithStack(Adjust(in[1], l.stack), c.stack)
        jump == write(there, "Jump", IF v \in DOMAIN c.at THEN c.at[v] ELSE 0)
        waits == IF v \in DOMAIN c.at THEN jump
                 ELSE [jump EXCEPT !.waits = Append(@, <<v, pos(there)>>)]
    IN  FoldLeft(Rethrow, waits, in[2])

Ident(c, v) ==
    IF v \notin DOMAIN c.locals THEN write(c, "AccGlobal", 0)
    ELSE IF c.locals[v] <= c.limit THEN
        [write(c, "AccEnv", 0) EXCEPT !.env = IF v \in ToSet(@) THEN @ ELSE Append(@, v)]
    ELSE LET p == c.stack - c.locals[v]
         IN  IF p < 2 THEN write(c, IF p = 0 THEN "AccStack0" ELSE "AccStack1", 0)
             ELSE write(c, "AccStack", p)

Assign(c, v) ==
    IF v \notin DOMAIN c.locals THEN write(c, "SetGlobal", 0)
    ELSE IF c.locals[v] <= c.limit THEN
        [write(c, "SetEnv", 0) EXCEPT !.env = IF v \in ToSet(@) THEN @ ELSE Append(@, v)]
    ELSE write(c, "SetStack", c.stack - c.locals[v])

TailCallOf(c, n) == write(c, "TailCall", n + 8 * (c.stack - c.limit))

RECURSIVE compile(_, _, _)
RECURSIVE Pushed(_, _)
RECURSIVE Body(_, _, _)
RECURSIVE Cases(_, _, _, _)
RECURSIVE Arms(_, _, _, _, _)

\* Arguments: each is compiled and pushed.
Pushed(c, es) ==
    IF es = <<>> THEN c ELSE Pushed(write(compile(c, FALSE, Head(es)), "Push", 0), Tail(es))

\* Only the last expression of a block can be a tail call; a label may follow.
Body(c, tail, es) ==
    IF Len(es) = 1 THEN compile(c, tail, es[1])
    ELSE IF Len(es) = 2 /\ es[2].k = "label" THEN compile(compile(c, tail, es[1]), tail, es[2])
    ELSE Body(compile(c, FALSE, Head(es)), tail, Tail(es))

\* A function is compiled on top of the locals of the one around it.
compile_function(c, e) ==
    LET nargs == 1
        in == [c EXCEPT !.ops = <<>>, !.breaks = <<>>, !.continues = <<>>, !.env = <<>>,
                        !.traps = <<>>, !.limit = c.stack, !.stack = @ + nargs,
                        !.locals = (e.v :> c.stack + nargs) @@ @]
        body == compile(in, TRUE, e.es[1])
        done == write(body, "Ret", body.stack - body.limit)
        fns == Append(done.fns, [ops |-> done.ops, nargs |-> nargs])
        out == [c EXCEPT !.fns = fns]
        idents == [i \in DOMAIN done.env |-> [k |-> "ident", v |-> done.env[i], es |-> <<>>]]
    IN  IF done.env = <<>> THEN write(out, "AccGlobal", 0)
        ELSE write(write(Pushed(out, idents), "AccGlobal", 0), "MakeEnv", Len(done.env))

\* The comparisons of a switch on values, then its arms; es alternates both.
Cases(c, es, tail, ps) ==
    IF es = <<>> THEN <<c, ps>>
    ELSE LET d == write(compile(write(write(c, "AccStack0", 0), "Push", 0), FALSE, es[1]), "Eq", 0)
         IN  Cases(write(d, "Jump", 0), SubSeq(es, 3, Len(es)), tail, Append(ps, pos(d)))

Arms(c, es, tail, ps, op) ==
    IF es = <<>> THEN <<c, <<>>>>
    ELSE LET d == compile(Land(c, Head(ps), op), tail, es[2])
             rest == Arms(write(d, "Jump", 0), SubSeq(es, 3, Len(es)), tail, Tail(ps), op)
         IN  <<rest[1], <<pos(d)>> \o rest[2]>>

compile(c, tail, e) ==
    CASE e.k = "const" -> write(c, "AccInt", 0)
      [] e.k = "ident" -> Ident(c, e.v)
      [] e.k = "set" -> Assign(compile(c, FALSE, e.es[1]), e.v)
      [] e.k = "op" ->
            write(compile(write(compile(c, FALSE, e.es[1]), "Push", 0), FALSE, e.es[2]), "Add", 0)
      [] e.k \in {"and", "or"} ->
            LET a == compile(c, FALSE, e.es[1])
                b == compile(write(a, "Jump", 0), tail, e.es[2])
            IN  Land(b, pos(a), IF e.k = "and" THEN "JumpIfNot" ELSE "JumpIf")
      [] e.k = "block" -> 
            IF e.es = <<>> THEN write(c, "AccNull", 0)
            ELSE [PopTo(Body(c, tail, e.es), c.stack) EXCEPT !.locals = c.locals]
      [] e.k = "vars" -> Bind(write(compile(c, FALSE, e.es[1]), "Push", 0), e.v)
      [] e.k = "call" ->
            LET n == Len(e.es) - 1
                d == compile(Pushed(c, SubSeq(e.es, 1, n)), FALSE, e.es[n + 1])
            IN  IF tail THEN TailCallOf(d, n) ELSE write(d, "Call", n)
      [] e.k = "method" ->
            LET n == Len(e.es) - 1
                d == write(compile(Pushed(c, SubSeq(e.es, 1, n)), FALSE, e.es[n + 1]), "Push", 0)
            IN  write(write(d, "AccField", 0), "ObjCall", n)
      [] e.k = "while" ->
            LET cond == compile(c, FALSE, e.es[1])
                body == compile(EnterLoop(write(cond, "Jump", 0)), FALSE, e.es[2])
                back == LandAll(body, body.continues)
                loop == write(back, "Jump", pos(c) - pos(back))
                end == LandAll(loop, body.breaks)
            IN  Land(LeaveLoop(end, c), pos(cond), "JumpIfNot")
      [] e.k = "do" ->
            LET body == compile(EnterLoop(c), FALSE, e.es[2])
                cond == compile(LandAll(body, body.continues), FALSE, e.es[1])
                loop == write(cond, "JumpIf", pos(c) - pos(cond))
            IN  LeaveLoop(LandAll(loop, loop.breaks), c)
      [] e.k = "if" ->
            LET cond == compile(c, FALSE, e.es[1])
                then == compile(write(cond, "Jump", 0), tail, e.es[2])
                else == Land(write(then, "Jump", 0), pos(cond), "JumpIfNot")
            IN  IF Len(e.es) = 2 THEN Land(then, pos(cond), "JumpIfNot")
                ELSE Land(compile(else, tail, e.es[3]), pos(then), "Jump")
      [] e.k = "try" ->
            LET t == write(c, "Trap", 0)
                in == [t EXCEPT !.breaks = <<>>, !.continues = <<>>, !.traps = <<t.stack>> \o @]
                body == write(compile(in, FALSE, e.es[1]), "EndTrap", 0)
                out == [body EXCEPT !.breaks = c.breaks, !.continues = c.continues, !.traps = c.traps]
                catch == Bind(write(Land(write(out, "Jump", 0), pos(c), "Trap"), "Push", 0), e.v)
                end == write(compile(catch, tail, e.es[2]), "Pop", 1)
            IN  Land([end EXCEPT !.locals = c.locals], pos(out), "Jump")
      [] e.k = "return" ->
            LET d == compile(c, c.traps = <<>>, e.es[1])
                out == LeaveTraps(d, d.traps)
            IN  WithStack(write(out, "Ret", out.stack - c.limit), d.stack)
      [] e.k \in {"break", "continue"} ->
            LET d == WithStack(IF c.loop # c.stack THEN write(c, "Pop", c.stack - c.loop) ELSE c,
                               c.stack)
                j == write(d, "Jump", 0)
            IN  IF e.k = "break" THEN [j EXCEPT !.breaks = <<pos(d)>> \o @]
                ELSE [j EXCEPT !.continues = <<pos(d)>> \o @]
      [] e.k = "table" ->     \* switch on consecutive integers, from 0; the default comes last
            LET n == Len(e.es) \div 2
                arms == SubSeq(e.es, 1, 2 * n)
                t == write(compile(c, FALSE, [k |-> "ident", v |-> e.v, es |-> <<>>]),
                           "JumpTable", n)
                jumps == FoldLeft(LAMBDA d, i : write(d, "Jump", 0), t, [i \in 1..n |-> i])
                default == compile(jumps, tail, e.es[2 * n + 1])
                end == write(default, "Jump", 0)
                done == Arms(end, arms, tail, [i \in 1..n |-> pos(t) + i - 1], "Jump")
            IN  LandAll(done[1], <<pos(default)>> \o done[2])
      [] e.k = "switch" ->    \* on other values
            LET n == Len(e.es) \div 2
                arms == SubSeq(e.es, 1, 2 * n)
                v == write(compile(c, FALSE, [k |-> "ident", v |-> e.v, es |-> <<>>]), "Push", 0)
                cases == Cases(v, arms, tail, <<>>)
                default == compile(cases[1], tail, e.es[2 * n + 1])
                done == Arms(write(default, "Jump", 0), arms, tail, cases[2], "JumpIf")
            IN  write(LandAll(done[1], <<pos(default)>> \o done[2]), "Pop", 1)
      [] e.k = "function" -> compile_function(c, e)
      [] e.k = "goto" -> goto(c, e.v)
      [] e.k = "label" ->
            LET mine == SelectSeq(c.waits, LAMBDA w : w[1] = e.v)
            IN  [LandAll(c, [i \in DOMAIN mine |-> mine[i][2]])
                    EXCEPT !.at = (e.v :> pos(c)) @@ @]

-----------------------------------------------------------------------------
(* A module: the functions, a jump over them, the main code. *)

MainContext(e) ==
    [ops |-> <<>>, stack |-> 0, limit |-> -1, loop |-> 0, locals |-> <<>>, env |-> <<>>,
     breaks |-> <<>>, continues |-> <<>>, traps |-> <<>>, fns |-> <<>>, at |-> <<>>,
     waits |-> <<>>,
     labels |-> scan_labels([stack |-> 0, traps |-> <<>>, labels |-> <<>>], e).labels]

\* Bytecode.nml turns distances into addresses and takes two off AccStack.
Written(ops) ==
    [i \in DOMAIN ops |->
        CASE ops[i].op \in Jumps -> [ops[i] EXCEPT !.arg = @ + i - 1]
          [] ops[i].op = "AccStack" -> [ops[i] EXCEPT !.arg = @ - 2]
          [] OTHER -> ops[i]]

Module(e) ==
    LET c == compile(MainContext(e), FALSE, e)
        before(n) == FoldLeft(LAMBDA ops, f : ops \o f.ops, <<[op |-> "Jump", arg |-> 0]>>,
                              SubSeq(c.fns, 1, n))
        all == before(Len(c.fns))
    IN  IF c.fns = <<>> THEN [code |-> Written(c.ops), functions |-> <<>>]
        ELSE [code |-> Written([all EXCEPT ![1].arg = Len(all)] \o c.ops),
              functions |-> [j \in DOMAIN c.fns |->
                                [at |-> Len(before(j - 1)), nargs |-> c.fns[j].nargs]]]
=============================================================================
