--------------------------- MODULE BytecodeProofs ---------------------------
(***************************************************************************)
(* What neko_check_stack establishes, for every program, trap size and     *)
(* stack limit: the depth found for an instruction is the depth the stack  *)
(* has whenever the instruction runs.                                      *)
(*                                                                         *)
(* The argument: whatever instruction has been visited, each of its edges  *)
(* (to the next instruction, to a target, to a handler) ends in a visited  *)
(* instruction of the right depth, or in a call still to make (Closed).    *)
(* When no call is left, the depths are closed under the edges, and every  *)
(* step of the interpreter follows an edge or returns to the depth below   *)
(* an open trap (Running).                                                 *)
(***************************************************************************)
EXTENDS Bytecode, TLAPS

\* The depths with which instruction i, entered with depth d, enters j.
Edge(i, d, j, e) ==
    LET op == At(prog, i).op
        arg == At(prog, i).arg
        after == d + stack_table(op, arg)
    IN  \/ op \in Jumps \ {"Trap"} /\ j = arg /\ e = after
        \/ op = "Trap" /\ j = arg /\ e = after - TrapSize
        \/ op = "JumpTable" /\ j \in (i + 1)..(i + arg + 1) /\ e = after
        \/ op \notin {"Jump", "Last", "Ret", "TailCall", "JumpTable"} /\ j = i + 1
           /\ e = IF op = "ObjCall" THEN after - 1 ELSE after

Elems(s) == {s[k] : k \in DOMAIN s}

Items == [at : 0..Len(prog.code), stack : Nat]

Pending(j, e) == tmp[j] = e \/ Check(j, e) \in Elems(todo)

Visited(i) == tmp[i] # UNKNOWN

Closed ==
    \A i \in 0..Len(prog.code) : Visited(i) =>
        /\ \E base \in Nat :
               Legal(At(prog, i).op, At(prog, i).arg,
                     tmp[i] + stack_table(At(prog, i).op, At(prog, i).arg), base)
        /\ \A j, e : Edge(i, tmp[i], j, e) => Check(j, e) \in Items /\ Pending(j, e)

Entered ==
    /\ Pending(0, 0)
    /\ \A k \in 1..checked : Pending(prog.functions[k].at, prog.functions[k].nargs)

Running ==
    mode = "run" =>
        /\ todo = <<>> /\ checked = Len(prog.functions)
        /\ tmp[pc] = sp
        /\ \A k \in 1..Len(traps) : tmp[traps[k].handler] = traps[k].sp

WasRead == mode # "rejected" => Readable(prog)

StackInv ==
    /\ WasRead /\ Closed /\ Entered /\ Running
    /\ mode = "check" => traps = <<>>

USE DEF UNKNOWN, checker

-----------------------------------------------------------------------------
(* Sequences and programs. *)

LEMMA ElemsOfConcatenation ==
    ASSUME NEW S, NEW s \in Seq(S), NEW t \in Seq(S)
    PROVE  Elems(s \o t) = Elems(s) \cup Elems(t)
<1>1. \A x : x \in Elems(s \o t) => x \in Elems(s) \cup Elems(t)
  BY DEF Elems
<1>2. \A x : x \in Elems(s) => x \in Elems(s \o t)
  BY DEF Elems
<1>3. ASSUME NEW x \in Elems(t) PROVE x \in Elems(s \o t)
  <2>1. PICK k \in 1..Len(t) : x = t[k]
    BY DEF Elems
  <2>2. k + Len(s) \in DOMAIN (s \o t) /\ (s \o t)[k + Len(s)] = x
    BY <2>1
  <2> QED BY <2>2 DEF Elems
<1> QED BY <1>1, <1>2, <1>3

LEMMA ElemsOfHeadAndTail ==
    ASSUME NEW S, NEW s \in Seq(S), s # <<>>
    PROVE  Elems(s) = {Head(s)} \cup Elems(Tail(s))
<1>1. \A x : x \in Elems(s) => x = Head(s) \/ x \in Elems(Tail(s))
  <2> SUFFICES ASSUME NEW k \in 1..Len(s), k # 1 PROVE s[k] \in Elems(Tail(s))
    BY DEF Elems
  <2>1. k - 1 \in DOMAIN Tail(s) /\ Tail(s)[k - 1] = s[k]
    OBVIOUS
  <2> QED BY <2>1 DEF Elems
<1>2. \A x : x = Head(s) \/ x \in Elems(Tail(s)) => x \in Elems(s)
  BY DEF Elems
<1> QED BY <1>1, <1>2

LEMMA ElemsOfOne == \A x : Elems(<<x>>) = {x}
BY DEF Elems

LEMMA HeadAndTail ==
    ASSUME NEW S, NEW s \in Seq(S), s # <<>>
    PROVE  Head(s) \in S /\ Tail(s) \in Seq(S)
OBVIOUS

LEMMA InstructionType ==
    ASSUME NEW p \in Programs, NEW i \in 0..Len(p.code)
    PROVE  At(p, i).arg \in Int /\ Len(p.code) \in Nat
<1>1. p.code \in Seq(Instructions)
  BY ProgramAssumption
<1>2. Len(p.code) \in Nat /\ \A k \in 1..Len(p.code) : p.code[k] \in Instructions
  BY <1>1
<1>3. CASE i = Len(p.code)
  BY <1>2, <1>3 DEF At
<1>4. CASE i # Len(p.code)
  <2>1. p.code[i + 1] \in Instructions
    BY <1>2, <1>4
  <2> QED BY <1>2, <1>4, <2>1 DEF At, Instructions
<1> QED BY <1>3, <1>4

LEMMA FunctionType ==
    ASSUME NEW p \in Programs
    PROVE  /\ Len(p.functions) \in Nat
           /\ \A k \in 1..Len(p.functions) :
                  p.functions[k].at \in Nat /\ p.functions[k].nargs \in Nat
<1>1. p.functions \in Seq(Functions)
  BY ProgramAssumption
<1>2. \A k \in 1..Len(p.functions) : p.functions[k] \in Functions
  BY <1>1
<1> QED BY <1>1, <1>2 DEF Functions

LEMMA EntryTypes ==
    ASSUME TypeOK, Readable(prog)
    PROVE  /\ Check(0, 0) \in Items
           /\ \A k \in 1..Len(prog.functions) :
                  Check(prog.functions[k].at, prog.functions[k].nargs) \in Items
<1>1. prog \in Programs /\ Len(prog.code) \in Nat
  BY InstructionType DEF TypeOK
<1>2. Check(0, 0) \in Items
  BY <1>1 DEF Check, Items
<1>3. ASSUME NEW k \in 1..Len(prog.functions)
      PROVE  Check(prog.functions[k].at, prog.functions[k].nargs) \in Items
  <2>1. prog.functions[k].at \in Nat /\ prog.functions[k].nargs \in Nat
    BY <1>1, FunctionType
  <2>2. prog.functions \in Seq(Functions)
    BY <1>1, ProgramAssumption
  <2>3. prog.functions[k].at < Len(prog.code)
    BY <2>2 DEF Readable
  <2> QED BY <1>1, <2>1, <2>3 DEF Check, Items
<1> QED BY <1>2, <1>3

LEMMA EffectType ==
    ASSUME NEW op, NEW arg \in Int
    PROVE  stack_table(op, arg) \in Int
BY SizeAssumption DEF stack_table

-----------------------------------------------------------------------------
(* The checker. *)

\* Edges end at instructions, as the reader saw to it.
LEMMA EdgeEnds ==
    ASSUME TypeOK, Readable(prog), NEW i \in 0..Len(prog.code), NEW d \in Nat,
           NEW base \in Nat,
           Legal(At(prog, i).op, At(prog, i).arg,
                 d + stack_table(At(prog, i).op, At(prog, i).arg), base),
           NEW j, NEW e, Edge(i, d, j, e)
    PROVE  Check(j, e) \in Items
<1> DEFINE op == At(prog, i).op
           arg == At(prog, i).arg
           after == d + stack_table(op, arg)
<1>1. /\ prog \in Programs /\ Len(prog.code) \in Nat /\ arg \in Int
      /\ stack_table(op, arg) \in Int
  BY InstructionType, EffectType DEF TypeOK
<1>2. after \in Nat
  BY <1>1 DEF Legal, AboveArguments
<1>3. i = Len(prog.code) => op = "Last"
  BY DEF At
<1>4. i # Len(prog.code) => ParameterInRange(prog, i)
  BY <1>1 DEF Readable
<1>5. CASE op \in Jumps \ {"Trap"} /\ j = arg /\ e = after
  BY <1>1, <1>2, <1>3, <1>4, <1>5 DEF ParameterInRange, Unsigned, Items, Check, Jumps
<1>6. CASE op = "Trap" /\ j = arg /\ e = after - TrapSize
  <2>1. e = d
    BY <1>6, SizeAssumption DEF stack_table, Binary, PopsParameter
  <2> QED BY <1>1, <1>3, <1>4, <1>6, <2>1 DEF ParameterInRange, Unsigned, Items, Check, Jumps
<1>7. CASE op = "JumpTable" /\ j \in (i + 1)..(i + arg + 1) /\ e = after
  BY <1>1, <1>2, <1>3, <1>4, <1>7 DEF ParameterInRange, Unsigned, Items, Check
<1>8. CASE /\ op \notin {"Jump", "Last", "Ret", "TailCall", "JumpTable"} /\ j = i + 1
           /\ e = IF op = "ObjCall" THEN after - 1 ELSE after
  <2>1. e \in Nat
    BY <1>1, <1>2, <1>8 DEF Legal, InstructionOK, AboveArguments
  <2> QED BY <1>1, <1>3, <1>8, <2>1 DEF Items, Check
<1> QED BY <1>5, <1>6, <1>7, <1>8 DEF Edge

\* A step of the checker that goes on.
VisitNew(i, stack, rest) ==
    LET op == At(prog, i).op
        arg == At(prog, i).arg
        after == stack + stack_table(op, arg)
        known == [tmp EXCEPT ![i] = stack]
    IN  /\ tmp[i] = UNKNOWN
        /\ Legal(op, arg, after, istack)
        /\ op \in Jumps => TargetAgrees(known[arg], after)
        /\ op = "Trap" => known[arg] = UNKNOWN
        /\ tmp' = known
        /\ todo' = TargetChecks(known, i, op, arg, after)
                     \o FollowingCheck(i, op, arg, after) \o rest
        /\ UNCHANGED <<prog, mode, checked, istack, pc, sp, traps>>

VisitKnown(i, stack, rest) ==
    /\ tmp[i] = stack /\ todo' = rest
    /\ UNCHANGED <<prog, mode, tmp, checked, istack, pc, sp, traps>>

LEMMA VisitCases ==
    ASSUME SharedHandlers = FALSE, Visit
    PROVE  \/ VisitNew(Head(todo).at, Head(todo).stack, Tail(todo))
           \/ VisitKnown(Head(todo).at, Head(todo).stack, Tail(todo))
           \/ Stop("rejected") \/ Stop("aside")
BY DEF Visit, VisitNew, VisitKnown, Jumps

\* The calls made for an instruction are its edges, but those to a target that
\* is known, with the right depth.
LEMMA ChecksAreEdges ==
    ASSUME TypeOK, Readable(prog), NEW i \in 0..Len(prog.code), NEW d \in Nat,
           NEW rest \in Seq(Items), VisitNew(i, d, rest)
    PROVE  /\ todo' \in Seq(Items)
           /\ \A j, e : Edge(i, d, j, e) => tmp'[j] = e \/ Check(j, e) \in Elems(todo')
           /\ Elems(rest) \subseteq Elems(todo')
<1> DEFINE op == At(prog, i).op
           arg == At(prog, i).arg
           after == d + stack_table(op, arg)
           known == [tmp EXCEPT ![i] = d]
           targets == TargetChecks(known, i, op, arg, after)
           following == FollowingCheck(i, op, arg, after)
<1>1. Legal(op, arg, after, istack) /\ istack \in Nat
  BY DEF VisitNew, TypeOK
<1>2. /\ arg \in Int /\ Len(prog.code) \in Nat /\ stack_table(op, arg) \in Int
  BY InstructionType, EffectType DEF TypeOK
<1>3. \A j, e : Edge(i, d, j, e) => Check(j, e) \in Items
  BY <1>1, EdgeEnds
<1>4. op \in Jumps => known[arg] = UNKNOWN \/ (op # "Trap" /\ known[arg] = after)
  BY DEF VisitNew, TargetAgrees
<1>10. op = "JumpTable" => arg \in Nat
  BY <1>2 DEF Readable, ParameterInRange, Unsigned, At
<1>11. /\ tmp' = known /\ todo' = targets \o following \o rest
  BY DEF VisitNew
<1>12. \A j, e : Edge(i, d, j, e) <=>
         \/ op \in Jumps \ {"Trap"} /\ j = arg /\ e = after
         \/ op = "Trap" /\ j = arg /\ e = after - TrapSize
         \/ op = "JumpTable" /\ j \in (i + 1)..(i + arg + 1) /\ e = after
         \/ op \notin {"Jump", "Last", "Ret", "TailCall", "JumpTable"} /\ j = i + 1
            /\ e = IF op = "ObjCall" THEN after - 1 ELSE after
  BY DEF Edge
<1>13. after \in Int
  BY <1>2
<1> HIDE DEF op, arg, after, known, targets, following
<1>5. /\ targets \in Seq(Items)
      /\ \A j, e : /\ op \in Jumps \ {"Trap"} /\ j = arg /\ e = after
                  => known[j] = e \/ Check(j, e) \in Elems(targets)
      /\ \A j, e : /\ op = "Trap" /\ j = arg /\ e = after - TrapSize
                  => Check(j, e) \in Elems(targets)
      /\ \A j, e : /\ op = "JumpTable" /\ j \in (i + 1)..(i + arg) /\ e = after
                  => Check(j, e) \in Elems(targets)
  <2>1. CASE op = "JumpTable"
    <3>1. targets = [k \in 1..arg |-> Check(i + k, after)] /\ op \notin Jumps
      BY <2>1 DEF targets, TargetChecks, Jumps
    <3>2. arg \in Nat
      BY <1>10, <2>1
    <3>3. \A k \in 1..arg : Edge(i, d, i + k, after)
      BY <1>2, <1>12, <1>13, <2>1, <3>2
    <3>4. \A k \in 1..arg : Check(i + k, after) \in Items
      BY <1>3, <3>3
    <3>5. targets \in Seq(Items)
      BY <3>1, <3>2, <3>4
    <3>6. \A j \in (i + 1)..(i + arg) : j - i \in 1..arg /\ targets[j - i] = Check(j, after)
      BY <1>2, <3>1, <3>2
    <3>7. DOMAIN targets = 1..arg
      BY <3>1
    <3> QED BY <2>1, <3>1, <3>5, <3>6, <3>7 DEF Elems
  <2>2. CASE op \in Jumps /\ known[arg] # UNKNOWN
    <3>1. targets = <<>> /\ op # "JumpTable"
      BY <2>2 DEF targets, TargetChecks, Jumps
    <3> QED BY <1>4, <2>2, <3>1
  <2>3. CASE op = "Trap" /\ known[arg] = UNKNOWN
    <3>1. targets = <<Check(arg, after - TrapSize)>>
      BY <2>3 DEF targets, TargetChecks, Jumps
    <3>2. Edge(i, d, arg, after - TrapSize)
      BY <1>12, <2>3
    <3> QED BY <1>3, <2>3, <3>1, <3>2, ElemsOfOne
  <2>4. CASE op \in Jumps \ {"Trap"} /\ known[arg] = UNKNOWN
    <3>1. targets = <<Check(arg, after)>>
      BY <2>4 DEF targets, TargetChecks, Jumps
    <3>2. Edge(i, d, arg, after)
      BY <1>12, <2>4
    <3>3. op # "JumpTable"
      BY <2>4 DEF Jumps
    <3> QED BY <1>3, <2>4, <3>1, <3>2, <3>3, ElemsOfOne
  <2>5. CASE op \notin Jumps /\ op # "JumpTable"
    <3>1. targets = <<>> /\ op # "Trap"
      BY <2>5 DEF targets, TargetChecks, Jumps
    <3> QED BY <2>5, <3>1
  <2> QED BY <2>1, <2>2, <2>3, <2>4, <2>5
<1>6. /\ following \in Seq(Items)
      /\ op = "JumpTable" => Check(i + arg + 1, after) \in Elems(following)
      /\ op \notin {"Jump", "Last", "Ret", "TailCall", "JumpTable"} =>
             Check(i + 1, IF op = "ObjCall" THEN after - 1 ELSE after) \in Elems(following)
  <2>1. CASE op = "JumpTable"
    <3>1. following = <<Check(i + arg + 1, after)>>
      BY <2>1 DEF following, FollowingCheck
    <3>2. arg \in Nat
      BY <1>10, <2>1
    <3>3. Edge(i, d, i + arg + 1, after)
      BY <1>2, <1>12, <1>13, <2>1, <3>2
    <3>4. Check(i + arg + 1, after) \in Items
      BY <1>3, <3>3
    <3>5. following \in Seq(Items)
      BY <3>1, <3>4
    <3>6. Check(i + arg + 1, after) \in Elems(following)
      BY <3>1, ElemsOfOne
    <3> QED BY <2>1, <3>5, <3>6
  <2>2. CASE op \in {"Jump", "Last", "Ret", "TailCall"}
    <3>1. following = <<>>
      BY <2>2 DEF following, FollowingCheck
    <3>2. following \in Seq(Items)
      BY <3>1
    <3> QED BY <2>2, <3>2
  <2>3. CASE op \notin {"Jump", "Last", "Ret", "TailCall", "JumpTable"}
    <3> DEFINE e == IF op = "ObjCall" THEN after - 1 ELSE after
    <3>1. following = <<Check(i + 1, e)>>
      BY <2>3 DEF following, FollowingCheck
    <3>2. Edge(i, d, i + 1, e)
      BY <1>12, <2>3
    <3>3. Check(i + 1, e) \in Items
      BY <1>3, <3>2
    <3> HIDE DEF e
    <3>4. following \in Seq(Items)
      BY <3>1, <3>3
    <3>5. Check(i + 1, e) \in Elems(following)
      BY <3>1, ElemsOfOne
    <3> QED BY <2>3, <3>4, <3>5 DEF e
  <2> QED BY <2>1, <2>2, <2>3
<1>8. /\ todo' \in Seq(Items)
      /\ Elems(todo') = Elems(targets) \cup Elems(following) \cup Elems(rest)
  <2>1. targets \o following \in Seq(Items)
    BY <1>5, <1>6
  <2>2. Elems(targets \o following) = Elems(targets) \cup Elems(following)
    BY <1>5, <1>6, ElemsOfConcatenation
  <2>3. Elems(todo') = Elems(targets \o following) \cup Elems(rest)
    <3>1. \A q, r \in Seq(Items) : Elems(q \o r) = Elems(q) \cup Elems(r)
      BY ElemsOfConcatenation
    <3> DEFINE both == targets \o following
    <3>2. todo' = both \o rest /\ both \in Seq(Items)
      BY <1>11, <2>1
    <3> HIDE DEF both
    <3>3. Elems(todo') = Elems(both) \cup Elems(rest)
      BY <3>1, <3>2
    <3> QED BY <3>3 DEF both
  <2> QED BY <1>11, <2>1, <2>2, <2>3
<1>9. ASSUME NEW j, NEW e, Edge(i, d, j, e)
      PROVE  tmp'[j] = e \/ Check(j, e) \in Elems(todo')
  <2>1. CASE op = "JumpTable"
    <3>1. j \in (i + 1)..(i + arg + 1) /\ e = after
      BY <1>9, <1>12, <2>1 DEF Jumps
    <3>2. j \in (i + 1)..(i + arg) \/ j = i + arg + 1
      BY <1>2, <3>1
    <3> QED BY <1>5, <1>6, <1>8, <2>1, <3>1, <3>2
  <2>2. CASE op \in Jumps \ {"Trap"} /\ j = arg /\ e = after
    BY <1>5, <1>8, <1>11, <2>2
  <2>3. CASE op = "Trap" /\ j = arg /\ e = after - TrapSize
    BY <1>5, <1>8, <2>3
  <2>4. CASE /\ op \notin {"Jump", "Last", "Ret", "TailCall", "JumpTable"} /\ j = i + 1
             /\ e = IF op = "ObjCall" THEN after - 1 ELSE after
    BY <1>6, <1>8, <2>4
  <2> QED BY <1>9, <1>12, <2>1, <2>2, <2>3, <2>4
<1> QED BY <1>8, <1>9

\* What an instruction or a function waits for is not lost by a visit.
LEMMA PendingIsKept ==
    ASSUME TypeOK, Readable(prog), todo # <<>>,
           \/ VisitNew(Head(todo).at, Head(todo).stack, Tail(todo))
           \/ VisitKnown(Head(todo).at, Head(todo).stack, Tail(todo)),
           NEW j, NEW e, Check(j, e) \in Items, Pending(j, e)
    PROVE  Pending(j, e)'
<1> DEFINE i == Head(todo).at
           d == Head(todo).stack
<1>1. /\ todo \in Seq(Items) /\ Head(todo) \in Items /\ Tail(todo) \in Seq(Items)
      /\ i \in 0..Len(prog.code) /\ d \in Nat
  <2>1. todo \in Seq(Items)
    BY DEF TypeOK, Items
  <2>2. Head(todo) \in Items /\ Tail(todo) \in Seq(Items)
    BY <2>1, HeadAndTail
  <2> QED BY <2>1, <2>2 DEF Items
<1>2. j \in 0..Len(prog.code) /\ e \in Nat /\ j \in DOMAIN tmp /\ i \in DOMAIN tmp
  BY <1>1 DEF Items, Check, TypeOK
<1>3. Check(j, e) \in Elems(todo) => (j = i /\ e = d) \/ Check(j, e) \in Elems(Tail(todo))
  <2>1. Elems(todo) = {Head(todo)} \cup Elems(Tail(todo))
    BY <1>1, ElemsOfHeadAndTail
  <2> QED BY <2>1 DEF Check
<1>4. CASE VisitNew(i, d, Tail(todo))
  <2>1. tmp' = [tmp EXCEPT ![i] = d] /\ tmp[i] = UNKNOWN
    BY <1>4 DEF VisitNew
  <2>2. Elems(Tail(todo)) \subseteq Elems(todo')
    BY <1>1, <1>4, ChecksAreEdges
  <2>3. tmp[j] = e => tmp'[j] = e
    BY <1>2, <2>1
  <2>4. j = i /\ e = d => tmp'[j] = e
    BY <1>2, <2>1
  <2> QED BY <1>3, <2>2, <2>3, <2>4 DEF Pending, Check
<1>5. CASE VisitKnown(i, d, Tail(todo))
  BY <1>3, <1>5 DEF VisitKnown, Pending, Check
<1> QED BY <1>4, <1>5

LEMMA VisitNewKeeps ==
    ASSUME TypeOK, StackInv, mode = "check", todo # <<>>,
           VisitNew(Head(todo).at, Head(todo).stack, Tail(todo))
    PROVE  TypeOK' /\ StackInv'
<1> DEFINE i == Head(todo).at
           d == Head(todo).stack
<1>1. /\ todo \in Seq(Items) /\ Head(todo) \in Items /\ Tail(todo) \in Seq(Items)
      /\ i \in 0..Len(prog.code) /\ d \in Nat /\ Readable(prog)
  <2>1. todo \in Seq(Items)
    BY DEF TypeOK, Items
  <2>2. Head(todo) \in Items /\ Tail(todo) \in Seq(Items)
    BY <2>1, HeadAndTail
  <2> QED BY <2>1, <2>2 DEF Items, StackInv, WasRead
<1>2. /\ todo' \in Seq(Items)
      /\ \A j, e : Edge(i, d, j, e) => tmp'[j] = e \/ Check(j, e) \in Elems(todo')
  BY <1>1, ChecksAreEdges
<1>3. /\ tmp' = [tmp EXCEPT ![i] = d] /\ tmp[i] = UNKNOWN
      /\ UNCHANGED <<prog, mode, checked, istack, pc, sp, traps>>
  BY DEF VisitNew
<1>4. TypeOK'
  BY <1>1, <1>2, <1>3 DEF TypeOK, Items
<1>5. Closed'
  <2>1. SUFFICES ASSUME NEW k \in 0..Len(prog.code), tmp'[k] # UNKNOWN
                 PROVE  /\ \E base \in Nat :
                              Legal(At(prog, k).op, At(prog, k).arg,
                                    tmp'[k] + stack_table(At(prog, k).op, At(prog, k).arg),
                                    base)
                        /\ \A j, e : Edge(k, tmp'[k], j, e) =>
                              Check(j, e) \in Items /\ Pending(j, e)'
    BY <1>3 DEF Closed, Visited, Edge, Items
  <2>2. CASE k = i
    <3>1. tmp'[k] = d
      BY <1>1, <1>3, <2>2 DEF TypeOK
    <3>2. istack \in Nat /\ Legal(At(prog, k).op, At(prog, k).arg,
                             d + stack_table(At(prog, k).op, At(prog, k).arg), istack)
      BY <2>2 DEF VisitNew, TypeOK
    <3>3. \A j, e : Edge(k, d, j, e) => Check(j, e) \in Items
      BY <1>1, <3>2, EdgeEnds
    <3>4. \A j, e : Edge(k, d, j, e) => Pending(j, e)'
      BY <1>2, <2>2 DEF Pending, Check
    <3> QED BY <3>1, <3>2, <3>3, <3>4
  <2>3. CASE k # i
    <3>1. tmp'[k] = tmp[k] /\ Visited(k)
      BY <1>3, <2>1, <2>3 DEF TypeOK, Visited
    <3> QED BY <1>1, <2>1, <3>1, PendingIsKept DEF Closed, StackInv
  <2> QED BY <2>2, <2>3
<1>6. Entered'
  <2>1. Check(0, 0) \in Items
    BY <1>1, EntryTypes
  <2>2. checked \in Nat /\ 1..checked \subseteq 1..Len(prog.functions)
    BY FunctionType DEF TypeOK
  <2>3. \A k \in 1..checked : Check(prog.functions[k].at, prog.functions[k].nargs) \in Items
    BY <1>1, <2>2, EntryTypes
  <2> QED BY <1>1, <1>3, <2>1, <2>3, PendingIsKept DEF Entered, StackInv
<1>7. Running' /\ WasRead' /\ (mode = "check" => traps = <<>>)'
  BY <1>3 DEF Running, StackInv, WasRead
<1> QED BY <1>4, <1>5, <1>6, <1>7 DEF StackInv

LEMMA VisitKnownKeeps ==
    ASSUME TypeOK, StackInv, mode = "check", todo # <<>>,
           VisitKnown(Head(todo).at, Head(todo).stack, Tail(todo))
    PROVE  TypeOK' /\ StackInv'
<1>1. /\ tmp' = tmp /\ todo' = Tail(todo)
      /\ UNCHANGED <<prog, mode, checked, istack, pc, sp, traps>> /\ Readable(prog)
  BY DEF VisitKnown, StackInv, WasRead
<1>2. TypeOK'
  BY <1>1 DEF TypeOK
<1>3. Closed'
  <2>1. SUFFICES ASSUME NEW k \in 0..Len(prog.code), Visited(k),
                        NEW j, NEW e, Edge(k, tmp[k], j, e)
                 PROVE  Pending(j, e)'
    BY <1>1 DEF Closed, Visited, Edge, Items, StackInv
  <2> QED BY <1>1, <2>1, PendingIsKept DEF Closed, StackInv
<1>4. Entered'
  <2>1. Check(0, 0) \in Items
    BY <1>1, EntryTypes
  <2>2. checked \in Nat /\ 1..checked \subseteq 1..Len(prog.functions)
    BY FunctionType DEF TypeOK
  <2>3. \A k \in 1..checked : Check(prog.functions[k].at, prog.functions[k].nargs) \in Items
    BY <1>1, <2>2, EntryTypes
  <2> QED BY <1>1, <2>1, <2>3, PendingIsKept DEF Entered, StackInv
<1>5. Running' /\ WasRead' /\ (mode = "check" => traps = <<>>)'
  BY <1>1 DEF Running, StackInv, WasRead
<1> QED BY <1>2, <1>3, <1>4, <1>5 DEF StackInv

LEMMA VisitKeeps ==
    ASSUME SharedHandlers = FALSE, TypeOK, StackInv, Visit
    PROVE  TypeOK' /\ StackInv'
<1>1. mode = "check" /\ todo # <<>>
  BY DEF Visit
<1>2. ASSUME NEW how \in {"rejected", "aside"}, Stop(how)
      PROVE  TypeOK' /\ StackInv'
  <2>1. TypeOK'
    BY <1>2 DEF Stop, TypeOK
  <2>2. StackInv'
    BY <1>1, <1>2 DEF Stop, StackInv, WasRead, Closed, Visited, Pending, Items, Edge, Entered, Running
  <2> QED BY <2>1, <2>2
<1> QED BY <1>1, <1>2, VisitCases, VisitNewKeeps, VisitKnownKeeps

LEMMA CheckFunctionKeeps ==
    ASSUME TypeOK, StackInv, CheckFunction
    PROVE  TypeOK' /\ StackInv'
<1> DEFINE f == prog.functions[checked + 1]
<1>1. /\ mode = "check" /\ todo = <<>> /\ checked < Len(prog.functions)
      /\ checked' = checked + 1
      /\ todo' = <<Check(f.at, f.nargs)>> /\ istack' = f.nargs
      /\ UNCHANGED <<prog, mode, tmp, pc, sp, traps>> /\ Readable(prog)
  BY DEF CheckFunction, StackInv, WasRead
<1>2. Len(prog.functions) \in Nat /\ checked \in 0..Len(prog.functions)
  BY FunctionType DEF TypeOK
<1>3. Check(f.at, f.nargs) \in Items /\ f.nargs \in Nat
  BY <1>1, <1>2, EntryTypes, FunctionType DEF TypeOK
<1>4. Elems(todo') = {Check(f.at, f.nargs)} /\ todo' \in Seq(Items)
  BY <1>1, <1>3, ElemsOfOne
<1>5. \A j, e : Pending(j, e) => tmp[j] = e
  BY <1>1 DEF Pending, Elems
<1>6. TypeOK'
  BY <1>1, <1>2, <1>3, <1>4 DEF TypeOK, Items
<1>7. Closed'
  BY <1>1, <1>5 DEF StackInv, Closed, Visited, Pending, Items, Edge
<1>8. Entered'
  <2>1. Check(f.at, f.nargs) \in Elems(todo')
    BY <1>4
  <2>2. prog' = prog /\ tmp' = tmp /\ checked' = checked + 1
    BY <1>1
  <2>3. tmp[0] = 0
    BY <1>5 DEF StackInv, Entered
  <2>4. \A k \in 1..checked : tmp[prog.functions[k].at] = prog.functions[k].nargs
    BY <1>5 DEF StackInv, Entered
  <2>5. \A k \in 1..(checked + 1) : k \in 1..checked \/ k = checked + 1
    BY <1>2
  <2> HIDE DEF f
  <2>6. ASSUME NEW k \in 1..checked'
        PROVE  \/ tmp'[prog'.functions[k].at] = prog'.functions[k].nargs
               \/ Check(prog'.functions[k].at, prog'.functions[k].nargs) \in Elems(todo')
    BY <2>1, <2>2, <2>4, <2>5 DEF f
  <2> QED BY <2>2, <2>3, <2>6 DEF Entered, Pending, Check
<1>9. Running' /\ WasRead' /\ (mode = "check" => traps = <<>>)'
  BY <1>1 DEF Running, StackInv, WasRead
<1> QED BY <1>6, <1>7, <1>8, <1>9 DEF StackInv

-----------------------------------------------------------------------------
(* The interpreter. *)

\* What the checker found does not change any more.
LEMMA CheckerIsKept ==
    ASSUME StackInv, UNCHANGED <<prog, checker>>, mode # "rejected" \/ mode' = mode
    PROVE  WasRead' /\ Closed' /\ Entered'
BY DEF StackInv, WasRead, Closed, Visited, Pending, Items, Edge, Entered

\* The calls are all made: a depth that was to be checked has been.
LEMMA PendingIsDone ==
    ASSUME todo = <<>>
    PROVE  \A j, e : Pending(j, e) => tmp[j] = e
BY DEF Pending, Elems

LEMMA RunKeeps ==
    ASSUME TypeOK, StackInv, Run
    PROVE  TypeOK' /\ StackInv'
<1>1. /\ mode = "check" /\ todo = <<>> /\ checked = Len(prog.functions) /\ traps = <<>>
      /\ Readable(prog) /\ Entered
  BY DEF Run, StackInv, WasRead
<1>2. ASSUME NEW i, NEW nargs, Enter(i, nargs), Check(i, nargs) \in Items, Pending(i, nargs)
      PROVE  TypeOK' /\ StackInv'
  <2>1. /\ pc' = i /\ istack' = nargs /\ sp' = nargs /\ mode' = "run"
        /\ UNCHANGED <<prog, checker, traps>>
    BY <1>2 DEF Enter
  <2>2. i \in 0..Len(prog.code) /\ nargs \in Nat
    BY <1>2 DEF Check, Items
  <2>3. TypeOK'
    BY <2>1, <2>2 DEF TypeOK
  <2>4. tmp[i] = nargs
    BY <1>1, <1>2, PendingIsDone
  <2>5. Running'
    BY <1>1, <2>1, <2>4 DEF Running
  <2> QED BY <1>1, <2>1, <2>3, <2>5, CheckerIsKept DEF StackInv
<1>3. Check(0, 0) \in Items /\ Pending(0, 0)
  BY <1>1, EntryTypes DEF Entered
<1>4. \A j \in DOMAIN prog.functions :
          /\ Check(prog.functions[j].at, prog.functions[j].nargs) \in Items
          /\ Pending(prog.functions[j].at, prog.functions[j].nargs)
  <2>1. prog.functions \in Seq(Functions)
    BY ProgramAssumption DEF TypeOK
  <2>2. DOMAIN prog.functions = 1..Len(prog.functions)
    BY <2>1
  <2> QED BY <1>1, <2>2, EntryTypes DEF Entered
<1> QED BY <1>2, <1>3, <1>4 DEF Run

\* The instruction that runs is legal, and its edges end at depths found.
LEMMA RunningInstruction ==
    ASSUME TypeOK, StackInv, mode = "run"
    PROVE  /\ sp + stack_table(Op, Arg) \in Nat /\ Arg \in Int
           /\ \E base \in Nat : Legal(Op, Arg, sp + stack_table(Op, Arg), base)
           /\ \A j, e : Edge(pc, sp, j, e) =>
                  j \in 0..Len(prog.code) /\ e \in Nat /\ tmp[j] = e
<1>1. pc \in 0..Len(prog.code) /\ tmp[pc] = sp /\ todo = <<>> /\ sp \in Nat
  BY DEF TypeOK, StackInv, Running
<1>2. Visited(pc)
  BY <1>1 DEF Visited
<1>3. PICK base \in Nat : Legal(Op, Arg, sp + stack_table(Op, Arg), base)
  BY <1>1, <1>2 DEF StackInv, Closed, Op, Arg
<1>4. Arg \in Int /\ stack_table(Op, Arg) \in Int
  BY <1>1, InstructionType, EffectType DEF TypeOK, Arg
<1>5. sp + stack_table(Op, Arg) \in Nat
  BY <1>1, <1>3, <1>4 DEF Legal, AboveArguments
<1>6. \A j, e : Edge(pc, sp, j, e) => Check(j, e) \in Items /\ Pending(j, e)
  BY <1>1, <1>2 DEF StackInv, Closed
<1>7. \A j, e : Edge(pc, sp, j, e) => j \in 0..Len(prog.code) /\ e \in Nat /\ tmp[j] = e
  BY <1>1, <1>6, PendingIsDone DEF Check, Items
<1> QED BY <1>3, <1>4, <1>5, <1>7

\* A step along an edge.
LEMMA EdgeKeeps ==
    ASSUME TypeOK, StackInv, mode = "run", Edge(pc, sp, pc', sp'),
           UNCHANGED <<prog, mode, checker, istack, traps>>
    PROVE  TypeOK' /\ StackInv'
<1>1. pc' \in 0..Len(prog.code) /\ sp' \in Nat /\ tmp[pc'] = sp'
  BY RunningInstruction
<1>2. TypeOK'
  BY <1>1 DEF TypeOK
<1>3. Running'
  BY <1>1 DEF StackInv, Running
<1> QED BY <1>2, <1>3, CheckerIsKept DEF StackInv

\* The end of an activation.
LEMMA EndKeeps ==
    ASSUME TypeOK, StackInv, sp' \in Nat, mode = "run",
           mode' \in {"returned", "tailcalled", "ended", "thrown", "undefined"},
           UNCHANGED <<prog, checker, istack, pc, traps>>
    PROVE  TypeOK' /\ StackInv'
<1>1. TypeOK'
  BY DEF TypeOK
<1>2. Running' /\ (mode = "check" => traps = <<>>)'
  BY DEF Running
<1> QED BY <1>1, <1>2, CheckerIsKept DEF StackInv

LEMMA UndefinedKeeps ==
    ASSUME TypeOK, StackInv, mode = "run", Undefined
    PROVE  TypeOK' /\ StackInv'
BY EndKeeps DEF Undefined, Stop, TypeOK

\* The trap that is popped was set at a depth found for its handler.
LEMMA ThrowKeeps ==
    ASSUME TypeOK, StackInv, mode = "run", Throw
    PROVE  TypeOK' /\ StackInv'
<1>1. CASE traps = <<>>
  <2>1. mode' = "thrown" /\ sp' = sp /\ UNCHANGED <<prog, checker, istack, pc, traps>>
    BY <1>1 DEF Throw
  <2> QED BY <2>1, EndKeeps DEF TypeOK
<1>2. CASE traps # <<>>
  <2> DEFINE T == [sp : Nat, handler : 0..Len(prog.code)]
  <2>1. /\ sp' = Head(traps).sp /\ pc' = Head(traps).handler /\ traps' = Tail(traps)
        /\ UNCHANGED <<prog, mode, checker, istack>>
    BY <1>2 DEF Throw
  <2>2. traps \in Seq(T)
    BY DEF TypeOK
  <2>3. Head(traps) \in T /\ Tail(traps) \in Seq(T)
    BY <1>2, <2>2, HeadAndTail
  <2>4. sp' \in Nat /\ pc' \in 0..Len(prog.code)
    BY <2>1, <2>3
  <2>5. TypeOK'
    BY <2>1, <2>3, <2>4 DEF TypeOK
  <2>6. \A k \in 1..Len(traps) : tmp[traps[k].handler] = traps[k].sp
    BY DEF StackInv, Running
  <2>7. tmp[pc'] = sp'
    BY <1>2, <2>1, <2>2, <2>6
  <2>8. \A k \in 1..Len(Tail(traps)) : k + 1 \in 1..Len(traps) /\ Tail(traps)[k] = traps[k + 1]
    BY <1>2, <2>2
  <2>9. Running'
    BY <2>1, <2>6, <2>7, <2>8 DEF StackInv, Running
  <2> QED BY <2>1, <2>5, <2>9, CheckerIsKept DEF StackInv
<1> QED BY <1>1, <1>2

\* The kinds of instructions exclude each other.
LEMMA Effects ==
    ASSUME NEW op, NEW arg \in Int
    PROVE  /\ op = "Push" => stack_table(op, arg) = 1
           /\ op = "EndTrap" => stack_table(op, arg) = -TrapSize
           /\ op = "SetArray" => stack_table(op, arg) = -2
           /\ op \in Binary \cup {"AccArray", "SetField", "SetIndex"} =>
                  /\ stack_table(op, arg) = -1
                  /\ op \notin Jumps \cup {"Last", "Ret", "TailCall", "JumpTable", "SetArray"}
                  /\ op \notin PopsParameter
<1>1. op \in Binary \cup {"AccArray", "SetField", "SetIndex"} =>
          op \notin {"Push", "Trap", "EndTrap", "SetArray"} \cup PopsParameter \cup Jumps
                    \cup {"Last", "Ret", "TailCall", "JumpTable"}
  BY DEF Binary, PopsParameter, Jumps
<1>2. op \in {"Push", "EndTrap", "SetArray"} =>
          op \notin Binary \cup {"AccArray", "SetField", "SetIndex"} \cup PopsParameter
  BY DEF Binary, PopsParameter
<1> QED BY <1>1, <1>2 DEF stack_table

\* What the interpreter erases is what the checker takes away.
LEMMA ErasedAsChecked ==
    ASSUME NEW op \in Plain, NEW arg \in Int
    PROVE  /\ op # "ObjCall" => Erased(op, arg) = -stack_table(op, arg)
           /\ op = "ObjCall" => Erased(op, arg) = 1 - stack_table(op, arg)
           /\ op \notin Jumps \cup {"Last", "Ret", "TailCall", "JumpTable"}
           /\ Erased(op, arg) \in Int
<1>1. CASE op \in Binary \cup {"AccArray", "SetField", "SetIndex"}
  <2>1. Erased(op, arg) = 1 /\ op # "ObjCall"
    BY <1>1, Effects DEF Erased, PopsParameter
  <2> QED BY <1>1, <2>1, Effects
<1>2. CASE op = "SetArray"
  <2>1. Erased(op, arg) = 2
    BY <1>2 DEF Erased, Binary
  <2> QED BY <1>2, <2>1, Effects DEF Jumps
<1>3. CASE op \in PopsParameter
  BY <1>3 DEF Erased, stack_table, PopsParameter, Binary, Jumps
<1>4. CASE op \notin Binary \cup PopsParameter \cup {"AccArray", "SetField", "SetIndex", "SetArray"}
  BY <1>4 DEF Erased, stack_table, Plain, PopsParameter, Jumps
<1> QED BY <1>1, <1>2, <1>3, <1>4

LEMMA ExecuteKeeps ==
    ASSUME TypeOK, StackInv, mode = "run", Execute
    PROVE  TypeOK' /\ StackInv'
<1>1. CASE ErasesTrap(sp - Erased(Op, Arg))
  BY <1>1, UndefinedKeeps DEF Execute
<1>2. CASE ~ErasesTrap(sp - Erased(Op, Arg))
  <2>1. /\ Op \in Plain /\ sp' = sp - Erased(Op, Arg) /\ pc' = pc + 1
        /\ UNCHANGED <<prog, mode, checker, istack, traps>>
    BY <1>2 DEF Execute
  <2>2. Arg \in Int /\ sp \in Nat
    BY RunningInstruction DEF TypeOK
  <2>3. stack_table(Op, Arg) \in Int
    BY <2>2, EffectType
  <2>4. Edge(pc, sp, pc', sp')
    BY <2>1, <2>2, <2>3, ErasedAsChecked DEF Edge, Op, Arg, Jumps
  <2> QED BY <2>1, <2>4, EdgeKeeps
<1> QED BY <1>1, <1>2

LEMMA PushKeeps ==
    ASSUME TypeOK, StackInv, mode = "run", Push
    PROVE  TypeOK' /\ StackInv'
<1>1. /\ Op = "Push" /\ sp' = sp + 1 /\ pc' = pc + 1
      /\ UNCHANGED <<prog, mode, checker, istack, traps>>
  BY DEF Push
<1>2. stack_table(Op, Arg) = 1
  BY <1>1, RunningInstruction, Effects
<1>3. Edge(pc, sp, pc', sp')
  BY <1>1, <1>2 DEF Edge, Op, Arg, Jumps
<1> QED BY <1>1, <1>3, EdgeKeeps

LEMMA SetStackKeeps ==
    ASSUME TypeOK, StackInv, mode = "run", SetStack
    PROVE  TypeOK' /\ StackInv'
<1>1. CASE OverwritesTrap(sp - 1 - Arg)
  BY <1>1, UndefinedKeeps DEF SetStack
<1>2. CASE ~OverwritesTrap(sp - 1 - Arg)
  <2>1. /\ Op = "SetStack" /\ sp' = sp /\ pc' = pc + 1
        /\ UNCHANGED <<prog, mode, checker, istack, traps>>
    BY <1>2 DEF SetStack
  <2>2. stack_table(Op, Arg) = 0 /\ sp \in Nat
    BY <2>1 DEF stack_table, Binary, PopsParameter, TypeOK
  <2>3. Edge(pc, sp, pc', sp')
    BY <2>1, <2>2 DEF Edge, Op, Arg, Jumps
  <2> QED BY <2>1, <2>3, EdgeKeeps
<1> QED BY <1>1, <1>2

LEMMA JumpKeeps ==
    ASSUME TypeOK, StackInv, mode = "run", Jump
    PROVE  TypeOK' /\ StackInv'
<1>1. sp' = sp /\ UNCHANGED <<prog, mode, checker, istack, traps>>
  BY DEF Jump
<1>2. sp \in Nat /\ Arg \in Int /\ pc \in Int
  BY RunningInstruction, InstructionType DEF TypeOK
<1>3. Op \in {"Jump", "JumpIf", "JumpIfNot", "JumpTable"} => stack_table(Op, Arg) = 0
  BY DEF stack_table, Binary, PopsParameter
<1>4. CASE Op \in {"Jump", "JumpIf", "JumpIfNot"} /\ pc' = Arg
  <2>1. Edge(pc, sp, pc', sp')
    BY <1>1, <1>2, <1>3, <1>4 DEF Edge, Op, Arg, Jumps
  <2> QED BY <1>1, <2>1, EdgeKeeps
<1>5. CASE Op \in {"JumpIf", "JumpIfNot"} /\ pc' = pc + 1
  <2>1. Edge(pc, sp, pc', sp')
    BY <1>1, <1>2, <1>3, <1>5 DEF Edge, Op, Arg, Jumps
  <2> QED BY <1>1, <2>1, EdgeKeeps
<1>6. CASE Op = "JumpTable" /\ \E k \in 0..Arg : pc' = pc + 1 + k
  <2>1. pc' \in (pc + 1)..(pc + Arg + 1)
    BY <1>2, <1>6
  <2>2. Edge(pc, sp, pc', sp')
    BY <1>1, <1>2, <1>3, <1>6, <2>1 DEF Edge, Op, Arg, Jumps
  <2> QED BY <1>1, <2>2, EdgeKeeps
<1> QED BY <1>4, <1>5, <1>6 DEF Jump

\* The new trap remembers the depth its handler is entered with.
LEMMA TrapKeeps ==
    ASSUME TypeOK, StackInv, mode = "run", Trap
    PROVE  TypeOK' /\ StackInv'
<1> DEFINE t == [sp |-> sp, handler |-> Arg]
           T == [sp : Nat, handler : 0..Len(prog.code)]
<1>1. /\ Op = "Trap" /\ traps' = <<t>> \o traps /\ sp' = sp + TrapSize /\ pc' = pc + 1
      /\ UNCHANGED <<prog, mode, checker, istack>>
  BY DEF Trap
<1>2. stack_table(Op, Arg) = TrapSize /\ sp \in Nat /\ TrapSize \in Nat
  BY <1>1, SizeAssumption DEF stack_table, Binary, PopsParameter, TypeOK
<1>3. Edge(pc, sp, Arg, sp) /\ Edge(pc, sp, pc', sp')
  BY <1>1, <1>2 DEF Edge, Op, Arg, Jumps
<1>4. /\ Arg \in 0..Len(prog.code) /\ tmp[Arg] = sp
      /\ pc' \in 0..Len(prog.code) /\ sp' \in Nat /\ tmp[pc'] = sp'
  BY <1>3, RunningInstruction
<1>5. traps \in Seq(T) /\ t \in T /\ traps' \in Seq(T)
  <2>1. traps \in Seq(T) /\ t \in T
    BY <1>2, <1>4 DEF TypeOK
  <2> HIDE DEF T, t
  <2> QED BY <1>1, <2>1
<1>6. TypeOK'
  BY <1>1, <1>4, <1>5 DEF TypeOK
<1>7. \A k \in 1..Len(traps') : IF k = 1 THEN traps'[k] = t
                               ELSE k - 1 \in 1..Len(traps) /\ traps'[k] = traps[k - 1]
  <2> HIDE DEF T, t
  <2> QED BY <1>1, <1>5
<1>8. \A k \in 1..Len(traps) : tmp[traps[k].handler] = traps[k].sp
  BY DEF StackInv, Running
<1>9. ASSUME NEW k \in 1..Len(traps')
      PROVE  tmp[traps'[k].handler] = traps'[k].sp
  <2>1. CASE k = 1
    BY <1>4, <1>7, <2>1
  <2>2. CASE k # 1
    BY <1>7, <1>8, <2>2
  <2> QED BY <2>1, <2>2
<1>10. Running'
  BY <1>1, <1>4, <1>9 DEF StackInv, Running
<1> QED BY <1>1, <1>6, <1>10, CheckerIsKept DEF StackInv

LEMMA EndTrapKeeps ==
    ASSUME TypeOK, StackInv, mode = "run", EndTrap
    PROVE  TypeOK' /\ StackInv'
<1>1. CASE ~(traps # <<>> /\ Head(traps).sp + TrapSize = sp)
  BY <1>1, ThrowKeeps DEF EndTrap
<1>2. CASE traps # <<>> /\ Head(traps).sp + TrapSize = sp
  <2> DEFINE T == [sp : Nat, handler : 0..Len(prog.code)]
  <2>1. /\ Op = "EndTrap" /\ sp' = Head(traps).sp /\ pc' = pc + 1 /\ traps' = Tail(traps)
        /\ UNCHANGED <<prog, mode, checker, istack>>
    BY <1>2 DEF EndTrap
  <2>2. traps \in Seq(T)
    BY DEF TypeOK
  <2>3. Head(traps) \in T /\ Tail(traps) \in Seq(T)
    BY <1>2, <2>2, HeadAndTail
  <2>4. stack_table(Op, Arg) = -TrapSize /\ sp' = sp - TrapSize
    <3>1. stack_table(Op, Arg) = -TrapSize
      BY <2>1, RunningInstruction, Effects
    <3>2. Head(traps).sp \in Nat /\ TrapSize \in Nat
      BY <2>3, SizeAssumption
    <3>3. sp' = Head(traps).sp /\ sp = Head(traps).sp + TrapSize
      BY <1>2, <2>1
    <3> QED BY <3>1, <3>2, <3>3
  <2>5. Edge(pc, sp, pc', sp')
    BY <2>1, <2>4, SizeAssumption DEF Edge, Op, Arg, Jumps, TypeOK
  <2>6. pc' \in 0..Len(prog.code) /\ sp' \in Nat /\ tmp[pc'] = sp'
    BY <2>5, RunningInstruction
  <2>7. TypeOK'
    BY <2>1, <2>3, <2>6 DEF TypeOK
  <2>8. \A k \in 1..Len(Tail(traps)) : k + 1 \in 1..Len(traps) /\ Tail(traps)[k] = traps[k + 1]
    BY <1>2, <2>2
  <2>9. Running'
    BY <2>1, <2>6, <2>8 DEF StackInv, Running
  <2> QED BY <2>1, <2>7, <2>9, CheckerIsKept DEF StackInv
<1> QED BY <1>1, <1>2

\* An activation that is left has exactly its frame on the stack.
LEMMA LeavingDepths ==
    ASSUME TypeOK, StackInv, mode = "run"
    PROVE  /\ Op = "Ret" => sp = Arg
           /\ Op = "Last" => sp = 0
           /\ Op = "TailCall" => Arg \div 8 = sp /\ sp - ((Arg \div 8) - (Arg % 8)) = Arg % 8
                                 /\ Arg % 8 \in Nat
<1>1. PICK base \in Nat : Legal(Op, Arg, sp + stack_table(Op, Arg), base)
  BY RunningInstruction
<1>2. sp \in Nat /\ Arg \in Int
  BY RunningInstruction DEF TypeOK
<1>3. Op \in {"Ret", "Last", "TailCall"} => stack_table(Op, Arg) = 0
  BY DEF stack_table, Binary, PopsParameter
<1>4. Arg % 8 \in Nat
  BY <1>2
<1>5. Op = "Ret" => sp = Arg
  BY <1>1, <1>2, <1>3 DEF Legal, InstructionOK, RetExact
<1>6. Op = "Last" => sp = 0
  BY <1>1, <1>2, <1>3 DEF Legal, InstructionOK
<1>7. Op = "TailCall" => Arg \div 8 = sp
  BY <1>1, <1>2, <1>3 DEF Legal, InstructionOK
<1> QED BY <1>2, <1>4, <1>5, <1>6, <1>7

LEMMA LeaveKeeps ==
    ASSUME TypeOK, StackInv, mode = "run", Ret \/ TailCall \/ End
    PROVE  TypeOK' /\ StackInv' /\ FrameIsLeft'
<1>1. sp \in Nat
  BY DEF TypeOK
<1>2. CASE traps # <<>>
  BY <1>2, UndefinedKeeps
     DEF Ret, TailCall, End, Leave, Undefined, Stop, FrameIsLeft
<1>3. CASE traps = <<>> /\ Ret
  <2>1. /\ sp' = 0 /\ mode' = "returned" /\ UNCHANGED <<prog, checker, istack, pc, traps>>
    BY <1>1, <1>3, LeavingDepths DEF Ret, Leave
  <2> QED BY <2>1, EndKeeps DEF FrameIsLeft
<1>4. CASE traps = <<>> /\ TailCall
  <2>1. /\ sp' = Arg % 8 /\ Arg % 8 \in Nat /\ mode' = "tailcalled"
        /\ UNCHANGED <<prog, checker, istack, pc, traps>>
    BY <1>4, LeavingDepths DEF TailCall, Leave
  <2> QED BY <2>1, EndKeeps DEF FrameIsLeft, Arg
<1>5. CASE traps = <<>> /\ End
  <2>1. /\ sp' = 0 /\ mode' = "ended" /\ UNCHANGED <<prog, checker, istack, pc, traps>>
    BY <1>1, <1>5, LeavingDepths DEF End, Leave
  <2> QED BY <2>1, EndKeeps DEF FrameIsLeft
<1> QED BY <1>2, <1>3, <1>4, <1>5

-----------------------------------------------------------------------------
(* The invariant. *)

StaticInv == TypeOK /\ StackInv

LEMMA InitImpliesInv == Init => StaticInv
<1> SUFFICES ASSUME Init PROVE StaticInv
  OBVIOUS
<1>1. /\ prog \in Programs /\ WasRead /\ mode \in {"check", "rejected"}
      /\ tmp = [i \in 0..Len(prog.code) |-> UNKNOWN] /\ todo = <<Check(0, 0)>>
      /\ checked = 0 /\ istack = 0 /\ pc = 0 /\ sp = 0 /\ traps = <<>>
  BY DEF Init, WasRead
<1>2. Len(prog.code) \in Nat /\ Len(prog.functions) \in Nat
  BY <1>1, InstructionType, FunctionType
<1>3. Check(0, 0) \in Items /\ Check(0, 0) \in Elems(todo)
  BY <1>1, <1>2, ElemsOfOne DEF Check, Items
<1>4. TypeOK
  BY <1>1, <1>2, <1>3 DEF TypeOK, Items
<1>5. Closed /\ Entered /\ Running
  BY <1>1, <1>3 DEF Closed, Visited, Entered, Pending, Running
<1> QED BY <1>1, <1>4, <1>5 DEF StaticInv, StackInv

LEMMA StepKeeps ==
    ASSUME SharedHandlers = FALSE, StaticInv, [Next]_vars
    PROVE  StaticInv'
<1> USE DEF StaticInv
<1>1. CASE Visit
  BY <1>1, VisitKeeps
<1>2. CASE CheckFunction
  BY <1>2, CheckFunctionKeeps
<1>3. CASE Run
  BY <1>3, RunKeeps
<1>4. CASE Step
  <2>1. mode = "run"
    BY <1>4 DEF Step
  <2>2. CASE Execute
    BY <2>1, <2>2, ExecuteKeeps
  <2>3. CASE Push
    BY <2>1, <2>3, PushKeeps
  <2>4. CASE SetStack
    BY <2>1, <2>4, SetStackKeeps
  <2>5. CASE Jump
    BY <2>1, <2>5, JumpKeeps
  <2>6. CASE Trap
    BY <2>1, <2>6, TrapKeeps
  <2>7. CASE Throws
    BY <2>1, <2>7, ThrowKeeps DEF Throws
  <2>8. CASE EndTrap
    BY <2>1, <2>8, EndTrapKeeps
  <2>9. CASE Ret \/ TailCall \/ End
    BY <2>1, <2>9, LeaveKeeps
  <2> QED BY <1>4, <2>2, <2>3, <2>4, <2>5, <2>6, <2>7, <2>8, <2>9 DEF Step
<1>5. CASE UNCHANGED vars
  <2>1. TypeOK'
    BY <1>5 DEF vars, TypeOK
  <2>2. Running' /\ (mode = "check" => traps = <<>>)'
    BY <1>5 DEF vars, StackInv, Running
  <2>3. UNCHANGED <<prog, checker, mode>>
    BY <1>5 DEF vars
  <2> QED BY <2>1, <2>2, <2>3, CheckerIsKept DEF StackInv
<1> QED BY <1>1, <1>2, <1>3, <1>4, <1>5 DEF Next

LEMMA Invariance ==
    ASSUME SharedHandlers = FALSE
    PROVE  Spec => []StaticInv
<1>1. StaticInv /\ [Next]_vars => StaticInv'
  BY StepKeeps
<1> QED BY <1>1, InitImpliesInv, PTL DEF Spec

\* Type correctness, which includes that the stack of an activation is never
\* popped below its arguments' end (sp is a natural number).
THEOREM BytecodeTypeOK ==
    ASSUME SharedHandlers = FALSE
    PROVE  Spec => []TypeOK
<1>1. StaticInv => TypeOK
  BY DEF StaticInv
<1> QED BY <1>1, Invariance, PTL

\* neko_check_stack is right: in a program it accepts, whose handlers are not
\* checked before their trap, an instruction always finds the stack as deep as
\* the check found it, whatever was jumped over, thrown and caught before.
THEOREM DepthsAreStatic ==
    ASSUME SharedHandlers = FALSE
    PROVE  Spec => []DepthIsStatic
<1>1. StaticInv => DepthIsStatic
  BY DEF StaticInv, StackInv, Running, DepthIsStatic
<1> QED BY <1>1, Invariance, PTL

\* Every slot an instruction names or takes exists, for any accepted program.
THEOREM SlotsAreInFrame ==
    ASSUME SharedHandlers = FALSE
    PROVE  Spec => []SlotsInFrame
<1>1. ASSUME StaticInv PROVE SlotsInFrame
  <2> SUFFICES ASSUME mode = "run" PROVE SlotsInFrame
    BY DEF SlotsInFrame
  <2>1. PICK base \in Nat : Legal(Op, Arg, sp + stack_table(Op, Arg), base)
    BY <1>1, RunningInstruction DEF StaticInv
  <2>2. sp \in Nat /\ Arg \in Int /\ sp + stack_table(Op, Arg) \in Nat
    BY <1>1, RunningInstruction DEF StaticInv, TypeOK
  <2>3. Op = "AccStack" => Arg + 2 < sp
    BY <2>1, <2>2 DEF Legal, InstructionOK, InFrame, stack_table, Binary, PopsParameter
  <2>4. Op = "SetStack" => Arg < sp
    BY <2>1, <2>2 DEF Legal, InstructionOK, InFrame, stack_table, Binary, PopsParameter
  <2>5. ASSUME Op \in Binary \cup {"AccArray", "SetField", "SetIndex"}
        PROVE  sp >= 1
    <3>1. stack_table(Op, Arg) = -1
      BY <2>2, <2>5, Effects
    <3> QED BY <2>2, <3>1
  <2>6. (Op = "AccStack0" => sp >= 1) /\ (Op = "AccStack1" => sp >= 2)
    <3>1. Op \in {"AccStack0", "AccStack1"} => stack_table(Op, Arg) = 0
      BY DEF stack_table, Binary, PopsParameter
    <3> QED BY <2>1, <2>2, <3>1 DEF Legal, InstructionOK
  <2>7. Op = "SetArray" => sp >= 2
    <3>1. Op = "SetArray" => stack_table(Op, Arg) = -2
      BY <2>2, Effects
    <3> QED BY <2>2, <3>1
  <2> QED BY <2>3, <2>4, <2>5, <2>6, <2>7 DEF SlotsInFrame
<1> QED BY <1>1, Invariance, PTL

\* An activation that ends leaves exactly what its caller counts on.
THEOREM FramesAreLeft ==
    ASSUME SharedHandlers = FALSE
    PROVE  Spec => []FrameIsLeft
<1>1. Init => FrameIsLeft
  BY DEF Init, FrameIsLeft
<1>2. ASSUME StaticInv, FrameIsLeft, [Next]_vars
      PROVE  FrameIsLeft'
  <2>1. CASE mode = "run" /\ (Ret \/ TailCall \/ End)
    BY <1>2, <2>1, LeaveKeeps DEF StaticInv
  <2>2. CASE mode' \notin {"returned", "tailcalled", "ended"}
    BY <2>2 DEF FrameIsLeft
  <2>3. CASE UNCHANGED vars
    BY <1>2, <2>3 DEF FrameIsLeft, vars, Arg
  <2>4. CASE Visit \/ CheckFunction \/ Run
    BY <2>4 DEF Visit, CheckFunction, Run, Enter, Stop, FrameIsLeft
  <2>5. CASE mode = "run" /\ (Execute \/ Push \/ SetStack \/ Jump \/ Trap \/ Throws \/ EndTrap)
    BY <2>5 DEF Execute, Undefined, Stop, Push, SetStack, Jump, Trap, Throws, Throw,
                EndTrap, FrameIsLeft
  <2> QED BY <1>2, <2>1, <2>3, <2>4, <2>5 DEF Next, Step
<1>3. StaticInv /\ FrameIsLeft /\ [Next]_vars => FrameIsLeft'
  BY <1>2
<1> QED BY <1>1, <1>3, Invariance, PTL DEF Spec
=============================================================================
