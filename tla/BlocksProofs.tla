---------------------------- MODULE BlocksProofs ----------------------------
(***************************************************************************)
(* The assertions of the LLVM compiler, for every program.                 *)
(*                                                                         *)
(* Ready blocks (llvm_code_generation.cpp:136), well-formed program or     *)
(* not: BlocksAreReady is not inductive; that a block queued now has no    *)
(* code follows from compiled, the set of all blocks that were ever        *)
(* queued, which all have stacks, and which hold all blocks with code.     *)
(*                                                                         *)
(* Stacks that agree (blocks.h:52), and handlers that are open, when the   *)
(* program is well-formed, that is when each instruction finds one stack,  *)
(* find: CodeInv says that each item was made with the stack its address   *)
(* finds and follows the item it should; RunsWell, that the code which     *)
(* runs is whole, and that the open traps have the handlers named there.   *)
(*                                                                         *)
(* The refinement of Activation, of those programs, too: NewSlots, that    *)
(* the variables of a stack are distinct and not made again by the code    *)
(* that has them; RunsTrue, that what is below an open trap is what its    *)
(* handler finds, and that behind a tail call the code does nothing but    *)
(* return.  Reads(mem, find[i].slots) is the interpreter's stack at i.     *)
(***************************************************************************)
EXTENDS Blocks, WellFoundedInduction, TLAPS

IsSequence(s) == \E S : s \in Seq(S)

NoCodeYet == \A k \in DOMAIN queue : ~Generated(queue[k])

QueueIsSet == \A j, k \in DOMAIN queue : queue[j] = queue[k] => j = k

\* The queue, what was ever in it, and the code that was made.
Queued ==
    /\ queue \in Seq(compiled) /\ QueueIsSet
    /\ compiled \subseteq DOMAIN stacks
    /\ NoCodeYet
    /\ cur # NoBlock => cur \in compiled /\ \A k \in DOMAIN queue : queue[k] # cur
    /\ \A b \in DOMAIN code : Generated(b) => b \in compiled

CodeIsItems == \A b \in DOMAIN code : IsSequence(code[b])

BlockInv == mode = "compile" => Queued /\ CodeIsItems

-----------------------------------------------------------------------------
(* Sequences of anything. *)

LEMMA AppendAny ==
    ASSUME NEW s, IsSequence(s), NEW e
    PROVE  /\ IsSequence(Append(s, e))
           /\ \A k \in DOMAIN Append(s, e) :
                  \/ k \in DOMAIN s /\ Append(s, e)[k] = s[k]
                  \/ Append(s, e)[k] = e
<1>1. PICK S : s \in Seq(S)
  BY DEF IsSequence
<1> DEFINE T == S \cup {e}
<1>2. s \in Seq(T) /\ e \in T
  BY <1>1
<1>3. Append(s, e) \in Seq(T)
  BY <1>2
<1>4. \A k \in DOMAIN Append(s, e) :
          \/ k \in DOMAIN s /\ Append(s, e)[k] = s[k]
          \/ Append(s, e)[k] = e
  BY <1>2
<1> QED BY <1>3, <1>4 DEF IsSequence

\* A shorter queue, and a longer one, of the same blocks.
LEMMA SetInSeq ==
    ASSUME NEW S, NEW T, S \subseteq T, NEW s \in Seq(S) PROVE s \in Seq(T)
OBVIOUS

-----------------------------------------------------------------------------
(* Steps of the compiler. *)

\* Code is added to one block: only an instruction's code counts as such.
HasCode(f, b) == b \in DOMAIN f /\ \E k \in DOMAIN f[b] : f[b][k].do = "op"

AreItems(f) == \A b \in DOMAIN f : IsSequence(f[b])

LEMMA Adding ==
    ASSUME NEW f, AreItems(f), NEW b, NEW item, NEW g, DOMAIN g = DOMAIN f,
           \A x \in DOMAIN f : g[x] = IF x = b THEN Append(f[x], item) ELSE f[x]
    PROVE  /\ AreItems(g)
           /\ \A x : HasCode(g, x) => HasCode(f, x) \/ (x = b /\ item.do = "op")
<1>1. ASSUME NEW x \in DOMAIN g PROVE IsSequence(g[x])
  BY <1>1, AppendAny DEF AreItems
<1>2. ASSUME NEW x, HasCode(g, x) PROVE HasCode(f, x) \/ (x = b /\ item.do = "op")
  <2>1. x \in DOMAIN f
    BY <1>2 DEF HasCode
  <2>2. CASE x # b
    BY <1>2, <2>1, <2>2 DEF HasCode
  <2>3. CASE x = b
    <3>1. g[x] = Append(f[x], item) /\ IsSequence(f[x])
      BY <2>1, <2>3 DEF AreItems
    <3>2. PICK k \in DOMAIN g[x] : g[x][k].do = "op"
      BY <1>2 DEF HasCode
    <3>3. CASE k \in DOMAIN f[x] /\ g[x][k] = f[x][k]
      BY <2>1, <3>2, <3>3 DEF HasCode
    <3>4. CASE g[x][k] = item
      BY <2>3, <3>2, <3>4
    <3> QED BY <3>1, <3>2, <3>3, <3>4, AppendAny
  <2> QED BY <2>2, <2>3
<1> QED BY <1>1, <1>2 DEF AreItems

LEMMA SameCode == \A x : Generated(x) <=> HasCode(code, x)
BY DEF Generated, HasCode

LEMMA SameCodeNext == \A x : Generated(x)' <=> HasCode(code', x)
BY DEF Generated, HasCode

LEMMA DequeueStep == BlockInv /\ Dequeue => BlockInv'
<1> SUFFICES ASSUME Queued, CodeIsItems, Dequeue PROVE Queued' /\ CodeIsItems'
  BY DEF BlockInv, Dequeue
<1>1. queue \in Seq(compiled) /\ queue # <<>> /\ QueueIsSet
  BY DEF Queued, Dequeue
<1>2. queue' = Tail(queue) /\ cur' = Head(queue)
  BY DEF Dequeue
<1>3. UNCHANGED <<compiled, stacks, code>>
  BY DEF Dequeue
<1>4. queue' \in Seq(compiled)
  BY <1>1, <1>2
<1>5. \A k \in DOMAIN queue' : k + 1 \in DOMAIN queue /\ queue'[k] = queue[k + 1] /\ k \in Nat \ {0}
  BY <1>1, <1>2
<1>6. 1 \in DOMAIN queue /\ cur' = queue[1] /\ cur' \in compiled
  BY <1>1, <1>2
<1>7. QueueIsSet'
  BY <1>1, <1>5 DEF QueueIsSet
<1>8. \A k \in DOMAIN queue' : queue'[k] # cur'
  BY <1>1, <1>5, <1>6 DEF QueueIsSet
<1>9. NoCodeYet'
  BY <1>3, <1>5 DEF Queued, NoCodeYet, Generated
<1>10. CodeIsItems'
  BY <1>3 DEF CodeIsItems
<1> QED BY <1>3, <1>4, <1>6, <1>7, <1>8, <1>9, <1>10 DEF Queued, Generated

LEMMA ReachStep == BlockInv /\ Reach => BlockInv'
<1> SUFFICES ASSUME Queued, CodeIsItems, Reach PROVE Queued' /\ CodeIsItems'
  BY DEF BlockInv, Reach
<1>1. UNCHANGED <<cur, code>>
  BY DEF Reach
<1>2. CodeIsItems' /\ \A x : Generated(x)' <=> Generated(x)
  BY <1>1 DEF CodeIsItems, Generated
<1>3. CASE UNCHANGED <<queue, compiled, stacks>>
  BY <1>1, <1>2, <1>3 DEF Queued, QueueIsSet, NoCodeYet, Generated
<1>4. ASSUME NEW b, queue' = Enqueue(b), compiled' = compiled \cup {b}, stacks' = Given(b)
      PROVE  Queued'
  <2>1. compiled' \subseteq DOMAIN stacks'
    BY <1>4 DEF Given, Queued
  <2>2. CASE b \in compiled
    <3>1. queue' = queue /\ compiled' = compiled
      BY <1>4, <2>2 DEF Enqueue
    <3> QED BY <1>1, <1>2, <2>1, <3>1 DEF Queued, QueueIsSet, NoCodeYet, Generated
  <2>3. CASE b \notin compiled
    <3>1. queue \in Seq(compiled') /\ b \in compiled'
      BY <1>4, SetInSeq DEF Queued
    <3>2. queue' = Append(queue, b)
      BY <1>4, <2>3 DEF Enqueue
    <3>3. queue' \in Seq(compiled')
      BY <3>1, <3>2
    <3>4. DOMAIN queue' = 1..(Len(queue) + 1) /\ DOMAIN queue = 1..Len(queue) /\ Len(queue) \in Nat
      BY <3>1, <3>2
    <3>5. queue'[Len(queue) + 1] = b /\ \A k \in DOMAIN queue : queue'[k] = queue[k]
      BY <3>1, <3>2
    <3>6. \A k \in DOMAIN queue : queue[k] \in compiled
      BY DEF Queued
    <3>7. \A k \in DOMAIN queue' : k \in DOMAIN queue \/ k = Len(queue) + 1
      BY <3>4
    <3>8. QueueIsSet'
      BY <2>3, <3>5, <3>6, <3>7 DEF Queued, QueueIsSet
    <3>9. ~Generated(b)
      BY <2>3 DEF Queued, Generated
    <3>10. NoCodeYet'
      BY <1>1, <3>5, <3>7, <3>9 DEF Queued, NoCodeYet, Generated
    <3>11. cur' # NoBlock => cur' \in compiled' /\ \A k \in DOMAIN queue' : queue'[k] # cur'
      BY <1>1, <1>4, <2>3, <3>5, <3>7 DEF Queued
    <3>12. \A x \in DOMAIN code' : Generated(x)' => x \in compiled'
      BY <1>1, <1>2, <1>4 DEF Queued
    <3> QED BY <2>1, <3>3, <3>8, <3>10, <3>11, <3>12 DEF Queued
  <2> QED BY <2>2, <2>3
<1> QED BY <1>2, <1>3, <1>4 DEF Reach

LEMMA GenerateStep == BlockInv /\ Generate => BlockInv'
<1> SUFFICES ASSUME Queued, CodeIsItems, Generate PROVE Queued' /\ CodeIsItems'
  BY DEF BlockInv, Generate
<1> DEFINE op == At(prog, at).op
           arg == At(prog, at).arg
           s == stacks[cur]
           caught == IF op = "Trap" THEN WithFetch(arg) ELSE code
<1>1. cur # NoBlock /\ UNCHANGED <<queue, compiled>>
  BY DEF Generate
<1>2. code' = [caught EXCEPT ![cur] = Append(@, Item("op", at, s))]
  BY DEF Generate
<1>3. DOMAIN stacks' = DOMAIN stacks /\ cur' \in {cur, NoBlock}
  BY DEF Generate
<1>4. AreItems(code)
  BY DEF CodeIsItems, AreItems
<1>5. AreItems(caught) /\ \A x : HasCode(caught, x) => HasCode(code, x)
  <2>1. CASE op # "Trap"
    BY <1>4, <2>1
  <2>2. CASE op = "Trap"
    <3> DEFINE item == Item("fetch", arg, IF arg \in DOMAIN stacks THEN stacks[arg] ELSE s)
    <3>1. caught = [code EXCEPT ![arg] = Append(@, item)]
      BY <2>2 DEF WithFetch
    <3>2. item.do # "op"
      BY DEF Item
    <3> HIDE DEF caught, arg, item
    <3>3. /\ DOMAIN caught = DOMAIN code
          /\ \A x \in DOMAIN code :
                caught[x] = IF x = arg THEN Append(code[x], item) ELSE code[x]
      BY <3>1
    <3> QED BY <1>4, <3>2, <3>3, Adding
  <2> QED BY <2>1, <2>2
<1>6. AreItems(code') /\ \A x : HasCode(code', x) => HasCode(caught, x) \/ x = cur
  <2> DEFINE item == Item("op", at, s)
  <2> HIDE DEF caught, item
  <2>1. /\ DOMAIN code' = DOMAIN caught
        /\ \A x \in DOMAIN caught :
              code'[x] = IF x = cur THEN Append(caught[x], item) ELSE caught[x]
    BY <1>2 DEF item
  <2>2. AreItems(caught)
    BY <1>5
  <2>3. /\ AreItems(code')
        /\ \A x : HasCode(code', x) => HasCode(caught, x) \/ (x = cur /\ item.do = "op")
    BY <2>1, <2>2, Adding
  <2> QED BY <2>3
<1>7. CodeIsItems'
  BY <1>6 DEF CodeIsItems, AreItems
<1>8. \A x : Generated(x)' => Generated(x) \/ x = cur
  BY <1>5, <1>6, SameCode, SameCodeNext
<1>9. NoCodeYet'
  BY <1>1, <1>8 DEF Queued, NoCodeYet
<1>10. \A b \in DOMAIN code' : Generated(b)' => b \in compiled'
  BY <1>1, <1>8 DEF Queued, Generated
<1>11. compiled' \subseteq DOMAIN stacks' /\ queue' \in Seq(compiled') /\ QueueIsSet'
  BY <1>1, <1>3 DEF Queued, QueueIsSet
<1>12. cur' # NoBlock => cur' \in compiled' /\ \A k \in DOMAIN queue' : queue'[k] # cur'
  BY <1>1, <1>3 DEF Queued
<1> QED BY <1>7, <1>9, <1>10, <1>11, <1>12 DEF Queued

LEMMA CloseStep == BlockInv /\ Close => BlockInv'
<1> SUFFICES ASSUME Queued, CodeIsItems, Close PROVE Queued' /\ CodeIsItems'
  BY DEF BlockInv, Close
<1> DEFINE item == Item("br", blocks[cur], stacks[cur])
<1>1. UNCHANGED <<queue, compiled, stacks>> /\ cur' = NoBlock
  BY DEF Close
<1>2. item.do # "op"
  BY DEF Item
<1>3. CodeIsItems' /\ \A x : Generated(x)' => Generated(x)
  <2>1. CASE UNCHANGED code
    BY <2>1 DEF CodeIsItems, Generated
  <2>2. CASE code' = [code EXCEPT ![cur] = Append(@, item)]
    <3> HIDE DEF item
    <3>1. /\ DOMAIN code' = DOMAIN code
          /\ \A x \in DOMAIN code :
                code'[x] = IF x = cur THEN Append(code[x], item) ELSE code[x]
      BY <2>2
    <3>2. AreItems(code)
      BY DEF CodeIsItems, AreItems
    <3>3. /\ AreItems(code')
          /\ \A x : HasCode(code', x) => HasCode(code, x) \/ (x = cur /\ item.do = "op")
      BY <3>1, <3>2, Adding
    <3>4. CodeIsItems'
      BY <3>3 DEF CodeIsItems, AreItems
    <3> QED BY <1>2, <3>3, <3>4, SameCode, SameCodeNext
  <2> QED BY <2>1, <2>2 DEF Close
<1>4. NoCodeYet'
  BY <1>1, <1>3 DEF Queued, NoCodeYet
<1>5. \A b \in DOMAIN code' : Generated(b)' => b \in compiled'
  BY <1>1, <1>3 DEF Queued, Generated
<1>6. compiled' \subseteq DOMAIN stacks' /\ queue' \in Seq(compiled') /\ QueueIsSet'
  BY <1>1 DEF Queued, QueueIsSet
<1> QED BY <1>1, <1>3, <1>4, <1>5, <1>6 DEF Queued

\* What has been compiled is not compiled again.
LEMMA RunStep == Start \/ Run => mode' # "compile"
<1>1. Start => mode' # "compile"
  BY DEF Start
<1>2. Run => mode' # "compile"
  <2> SUFFICES ASSUME Run PROVE mode' \in {"run", "returned", "thrown"}
    OBVIOUS
  <2>1. mode = "run"
    BY DEF Run
  <2>2. \A b : Goto(b) => mode' = mode
    BY DEF Goto
  <2>3. Continue => mode' = mode
    BY DEF Continue
  <2>4. \A how : Leave(how) => mode' = how
    BY DEF Leave
  <2>5. Fetch \/ Compute \/ Load \/ Store \/ Pop \/ Trap \/ EndTrap => Continue
    BY DEF Fetch, Compute, Load, Store, Pop, Trap, EndTrap
  <2>6. Jump => mode' = mode
    BY <2>2 DEF Jump
  <2>7. Throw => mode' \in {mode, "thrown"}
    BY <2>2, <2>4 DEF Throw
  <2>8. Ret => mode' = "returned"
    BY <2>4 DEF Ret
  <2> QED BY <2>1, <2>2, <2>3, <2>5, <2>6, <2>7, <2>8 DEF Run
<1> QED BY <1>1, <1>2

LEMMA InitBlocks == Init => BlockInv
<1> SUFFICES ASSUME Init PROVE Queued /\ CodeIsItems
  BY DEF BlockInv
<1> DEFINE b0 == chunk.from
<1>1. queue = <<b0>> /\ compiled = {b0} /\ cur = NoBlock
  BY DEF Init
<1>2. DOMAIN stacks = {b0}
  BY DEF Init
<1>3. \A b \in DOMAIN code : code[b] = <<>> \/ \E item : code[b] = <<item>> /\ item.do = "ret"
  BY DEF Init, Item
<1>4. CodeIsItems
  <2> SUFFICES ASSUME NEW b \in DOMAIN code PROVE IsSequence(code[b])
    BY DEF CodeIsItems
  <2>1. CASE code[b] = <<>>
    BY <2>1 DEF IsSequence
  <2>2. ASSUME NEW item, code[b] = <<item>> PROVE IsSequence(code[b])
    <3>1. code[b] \in Seq({item})
      BY <2>2
    <3> QED BY <3>1 DEF IsSequence
  <2> QED BY <1>3, <2>1, <2>2
<1>5. \A b : ~Generated(b)
  BY <1>3 DEF Generated
<1> HIDE DEF b0
<1> QED BY <1>1, <1>2, <1>4, <1>5 DEF Queued, QueueIsSet, NoCodeYet

LEMMA BlockInvHolds == Spec => []BlockInv
<1>1. BlockInv /\ [Next]_vars => BlockInv'
  <2>1. BlockInv /\ UNCHANGED vars => BlockInv'
    BY DEF BlockInv, Queued, QueueIsSet, NoCodeYet, CodeIsItems, Generated, vars
  <2>2. BlockInv /\ (Start \/ Run) => BlockInv'
    BY RunStep DEF BlockInv
  <2> QED BY <2>1, <2>2, DequeueStep, ReachStep, GenerateStep, CloseStep DEF Next
<1> QED BY <1>1, InitBlocks, PTL DEF Spec

-----------------------------------------------------------------------------
(* What the programs are like. *)

LEMMA Least == ASSUME NEW S, S \subseteq Nat, S # {} PROVE \E k \in S : \A j \in S : k <= j
<1>1. PICK x \in S : \A y \in S : ~(<<y, x>> \in OpToRel(<, Nat))
  BY NatLessThanWellFounded, WFMin
<1>2. \A y \in S : ~(y < x)
  BY <1>1 DEF OpToRel
<1>3. \A y \in S : x <= y
  <2> TAKE y \in S
  <2>1. x \in Nat /\ y \in Nat
    OBVIOUS
  <2> QED BY <1>2, <2>1
<1> QED BY <1>3

LEMMA MinIsLeast ==
    ASSUME NEW S, S \subseteq Nat, S # {} PROVE Min(S) \in S /\ \A y \in S : Min(S) <= y
BY Least DEF Min

find == CHOOSE f : \E e : Fits(prog, chunk, f) /\ Balanced(prog, chunk, f, e)
ends == CHOOSE e : Balanced(prog, chunk, find, e)
reached == DOMAIN find
limit == Limit(prog, chunk)
is == reached \ {limit}
catching == Catches(prog, is)

Form ==
    /\ prog \in Programs /\ chunk \in Chunks(prog)
    /\ Fits(prog, chunk, find) /\ Balanced(prog, chunk, find, ends)
    /\ blocks = Following(prog, chunk)

Same == UNCHANGED <<prog, chunk, blocks>>

LEMMA FormStep == Form /\ Same => Form' /\ find' = find /\ ends' = ends
BY DEF Form, Same, find, ends

LEMMA LimitIsLeast ==
    ASSUME Form PROVE limit \in Nat /\ limit <= Len(prog.code) /\ prog.code \in Seq(Instructions)
<1>1. prog.code \in Seq(Instructions)
  BY BlockAssumption DEF Form
<1>2. chunk.to \in Nat
  BY DEF Form, Fits
<1>3. {chunk.to, Len(prog.code)} \subseteq Nat
  BY <1>1, <1>2
<1>4. limit \in {chunk.to, Len(prog.code)} /\ limit <= Len(prog.code)
  BY <1>3, MinIsLeast DEF limit, Limit
<1> QED BY <1>1, <1>3, <1>4

LEMMA Addresses ==
    ASSUME Form
    PROVE  /\ DOMAIN blocks = Starts(prog, chunk) /\ DOMAIN blocks \subseteq Nat
           /\ reached \subseteq Nat /\ limit \in Nat /\ chunk.from \in Nat
           /\ \A b \in DOMAIN blocks \cup reached : chunk.from <= b /\ b <= limit
           /\ chunk.from \in DOMAIN blocks \cap reached
<1>1. DOMAIN blocks = Starts(prog, chunk)
  BY DEF Form, Following
<1>2. chunk.from \in Nat /\ limit \in Nat /\ Starts(prog, chunk) \cup reached \subseteq chunk.from..limit
      /\ chunk.from \in reached
  BY LimitIsLeast DEF Form, Fits, reached, limit
<1>3. chunk.from \in Starts(prog, chunk)
  BY DEF Starts
<1> QED BY <1>1, <1>2, <1>3

LEMMA Finds ==
    ASSUME Form, NEW i \in reached
    PROVE  /\ find[i] = [slots |-> find[i].slots, catch |-> find[i].catch]
           /\ find[i].slots \in Seq([at : Int, n : Int]) /\ find[i].catch \in Seq(Int)
<1>1. find[i] \in [slots : Seq([at : Int, n : Int]), catch : Seq(Int)]
  BY DEF Form, Fits, reached
<1> QED BY <1>1

\* The block that follows is the next one that starts.
LEMMA FollowingBlock ==
    ASSUME Form, NEW b \in DOMAIN blocks
    PROVE  \/ blocks[b] = ReturnBlock /\ \A s \in DOMAIN blocks : s <= b
           \/ /\ blocks[b] \in DOMAIN blocks /\ b < blocks[b] /\ blocks[b] # ReturnBlock
              /\ \A s \in DOMAIN blocks : s > b => blocks[b] <= s
<1> DEFINE later == {s \in Starts(prog, chunk) : s > b}
<1>1. DOMAIN blocks = Starts(prog, chunk) /\ DOMAIN blocks \subseteq Nat
  BY Addresses
<1>2. blocks[b] = IF later = {} THEN ReturnBlock ELSE Min(later)
  BY <1>1 DEF Form, Following
<1>3. CASE later = {}
  BY <1>1, <1>2, <1>3
<1>4. CASE later # {}
  <2>1. later \subseteq Nat
    BY <1>1
  <2>2. Min(later) \in later /\ \A y \in later : Min(later) <= y
    BY <1>4, <2>1, MinIsLeast
  <2> QED BY <1>1, <1>2, <1>4, <2>2 DEF ReturnBlock
<1> QED BY <1>3, <1>4

LEMMA BlockEnds ==
    ASSUME Form, NEW b \in DOMAIN blocks
    PROVE  /\ BlockEnd(b) \in Nat /\ b <= BlockEnd(b) /\ BlockEnd(b) <= limit
           /\ blocks[b] = ReturnBlock => BlockEnd(b) = limit
           /\ blocks[b] # ReturnBlock => BlockEnd(b) = blocks[b] /\ b < blocks[b] /\ blocks[b] \in DOMAIN blocks
<1>1. blocks[b] = ReturnBlock => BlockEnd(b) = limit
  BY DEF BlockEnd, limit, Limit
<1>2. blocks[b] # ReturnBlock => BlockEnd(b) = blocks[b]
  BY DEF BlockEnd
<1> QED BY <1>1, <1>2, FollowingBlock, Addresses

\* An address is in one block.
LEMMA OneBlock ==
    ASSUME Form, NEW b \in DOMAIN blocks, NEW c \in DOMAIN blocks, NEW i \in Nat,
           b <= i, i < BlockEnd(b), c <= i, i < BlockEnd(c)
    PROVE  b = c
<1>1. ASSUME NEW x \in DOMAIN blocks, NEW y \in DOMAIN blocks, i < BlockEnd(x), y <= i PROVE y <= x
  <2>1. x \in Nat /\ y \in Nat /\ BlockEnd(x) \in Nat
    BY BlockEnds, Addresses
  <2> QED BY <1>1, <2>1, FollowingBlock, BlockEnds
<1>2. b <= c /\ c <= b
  BY <1>1
<1> QED BY <1>2, Addresses

LEMMA TargetsStart ==
    ASSUME Form, NEW i \in Int, chunk.from <= i, i < limit
    PROVE  Targets(prog, i) \subseteq DOMAIN blocks
<1>1. i \in chunk.from..(limit - 1)
  BY Addresses
<1>2. i \in chunk.from..(Min({chunk.to, Len(prog.code)}) - 1)
  BY <1>1 DEF limit, Limit
<1> QED BY <1>2, Addresses DEF Starts

LEMMA Reached ==
    ASSUME Form, NEW i \in is
    PROVE  /\ i \in Nat /\ i \in reached /\ chunk.from <= i /\ i < limit
           /\ At(prog, i).arg \in Int
<1>1. i \in Nat /\ i \in reached /\ chunk.from <= i /\ i < limit
  BY Addresses DEF is
<1>2. prog.code \in Seq(Instructions) /\ i + 1 \in 1..Len(prog.code) /\ i # Len(prog.code)
  BY <1>1, LimitIsLeast
<1>3. At(prog, i) = prog.code[i + 1] /\ prog.code[i + 1] \in Instructions
  BY <1>2 DEF At
<1> QED BY <1>1, <1>3 DEF Instructions

\* Where an instruction of block b leads.
JumpsTo(b, i) ==
    LET op == At(prog, i).op
        arg == At(prog, i).arg
    IN  CASE op \in {"Jump", "Trap"} -> {arg}
          [] op \in {"JumpIf", "JumpIfNot"} -> {arg, blocks[b]}
          [] op = "JumpTable" -> {blocks[b]} \cup {At(prog, i + k).arg : k \in 1..arg}
          [] OTHER -> {}

LEMMA NextBlock ==
    ASSUME Form, NEW b \in DOMAIN blocks, NEW i \in is, b <= i, i < BlockEnd(b),
           NEW j \in DOMAIN blocks, i < j, \A k \in i + 1..j - 1 : k \notin DOMAIN blocks
    PROVE  blocks[b] = j
<1>1. i \in Nat /\ b \in Nat /\ j \in Nat /\ BlockEnd(b) \in Nat
  BY Reached, Addresses, BlockEnds
<1>2. blocks[b] # ReturnBlock /\ blocks[b] <= j /\ blocks[b] \in DOMAIN blocks /\ blocks[b] \in Nat
  BY <1>1, FollowingBlock, Addresses
<1>3. i < blocks[b]
  BY <1>2, BlockEnds
<1>4. ~(blocks[b] \in i + 1..j - 1)
  BY <1>2
<1> QED BY <1>1, <1>2, <1>3, <1>4

LEMMA BranchGoesOn ==
    ASSUME Form, NEW b \in DOMAIN blocks, NEW i \in is, b <= i, i < BlockEnd(b),
           At(prog, i).op \in {"JumpIf", "JumpIfNot"}
    PROVE  /\ At(prog, i).arg \in DOMAIN blocks
           /\ blocks[b] \in {i + 1, ReturnBlock}
<1>1. i \in Nat /\ chunk.from <= i /\ i < limit /\ limit <= Len(prog.code) /\ limit \in Nat
      /\ Len(prog.code) \in Nat
  BY Reached, LimitIsLeast
<1>2. Targets(prog, i) = {At(prog, i).arg} \cup ({i + 1} \ {Len(prog.code)})
  BY DEF Targets
<1>3. At(prog, i).arg \in DOMAIN blocks /\ (i + 1 # Len(prog.code) => i + 1 \in DOMAIN blocks)
  BY <1>1, <1>2, TargetsStart
<1>4. CASE i + 1 # Len(prog.code)
  BY <1>1, <1>3, <1>4, NextBlock
<1>5. CASE i + 1 = Len(prog.code) /\ blocks[b] # ReturnBlock
  <2>1. i < blocks[b] /\ blocks[b] \in Nat /\ blocks[b] <= limit
    BY <1>5, BlockEnds
  <2>2. ASSUME NEW m \in Nat, NEW n \in Nat, i < n, n <= limit, limit <= m, i + 1 = m PROVE n = i + 1
    BY <1>1, <2>2
  <2>3. blocks[b] = i + 1
    BY <1>1, <1>5, <2>1, <2>2
  <2> QED BY <1>3, <2>3
<1> QED BY <1>3, <1>4, <1>5

LEMMA TableGoesOn ==
    ASSUME Form, NEW b \in DOMAIN blocks, NEW i \in is, b <= i, i < BlockEnd(b),
           At(prog, i).op = "JumpTable"
    PROVE  LET arg == At(prog, i).arg
           IN  /\ arg \in Nat /\ blocks[b] = i + arg + 1 /\ BlockEnd(b) = i + arg + 1
               /\ \A k \in 1..arg : At(prog, i + k).arg \in DOMAIN blocks
<1> DEFINE arg == At(prog, i).arg
<1>1. i \in Nat /\ chunk.from <= i /\ i < limit /\ limit \in Nat /\ chunk.from \in Nat
  BY Reached, LimitIsLeast, Addresses
<1>2. /\ arg \in Nat
      /\ \A k \in 1..arg : At(prog, i + k).op = "Jump" /\ i + k \notin DOMAIN blocks
  BY Addresses DEF Form, Fits, reached, is, limit
<1>3. Targets(prog, i) = {i + arg + 1}
  BY DEF Targets, Jumps
<1>4. i + arg + 1 \in DOMAIN blocks
  BY <1>1, <1>3, TargetsStart
<1> HIDE DEF arg
<1>5. \A k \in i + 1..i + arg + 1 - 1 : k - i \in 1..arg /\ i + (k - i) = k
  BY <1>1, <1>2
<1>6. \A k \in i + 1..i + arg + 1 - 1 : k \notin DOMAIN blocks
  BY <1>2, <1>5
<1>7. blocks[b] = i + arg + 1
  BY <1>1, <1>2, <1>4, <1>6, NextBlock
<1>8. BlockEnd(b) = i + arg + 1
  BY <1>4, <1>7, BlockEnds, Addresses DEF ReturnBlock
<1>9. ASSUME NEW k \in 1..arg PROVE At(prog, i + k).arg \in DOMAIN blocks
  <2>1. i + k \in Int /\ chunk.from <= i + k /\ i + k < limit
    BY <1>1, <1>2, <1>4, Addresses
  <2>2. Targets(prog, i + k) = {At(prog, i + k).arg}
    BY <1>2, <1>9 DEF Targets, Jumps
  <2> QED BY <2>1, <2>2, TargetsStart
<1> QED BY <1>2, <1>7, <1>8, <1>9 DEF arg

\* Every block that an instruction leads to finds the instruction's stack.
LEMMA JumpsFind ==
    ASSUME Form, NEW b \in DOMAIN blocks, NEW i \in is, b <= i, i < BlockEnd(b),
           NEW j \in JumpsTo(b, i), j # ReturnBlock
    PROVE  /\ j \in DOMAIN blocks \cap reached /\ find[j] = find[i]
           /\ j \in catching => i \in Traps(prog, is) /\ At(prog, i).arg = j
<1> DEFINE op == At(prog, i).op
           arg == At(prog, i).arg
<1>0. i \in Nat /\ chunk.from <= i /\ i < limit
  BY Reached
<1>1. j \in DOMAIN blocks /\ j \in Leads(prog, i)
  <2>1. CASE op \in {"Jump", "Trap"}
    <3>1. j = arg /\ j \in Leads(prog, i)
      BY <2>1 DEF JumpsTo, Leads
    <3>2. Targets(prog, i) = {arg}
      BY <2>1 DEF Targets
    <3> QED BY <1>0, <3>1, <3>2, TargetsStart
  <2>2. CASE op \in {"JumpIf", "JumpIfNot"}
    <3>1. JumpsTo(b, i) = {arg, blocks[b]} /\ Leads(prog, i) = {arg, i + 1}
      BY <2>2 DEF JumpsTo, Leads
    <3>2. arg \in DOMAIN blocks /\ blocks[b] \in {i + 1, ReturnBlock}
      BY <2>2, BranchGoesOn
    <3>3. blocks[b] # ReturnBlock => blocks[b] \in DOMAIN blocks
      BY BlockEnds
    <3> HIDE DEF op, arg
    <3> QED BY <3>1, <3>2, <3>3
  <2>3. CASE op = "JumpTable"
    <3>1. /\ JumpsTo(b, i) = {blocks[b]} \cup {At(prog, i + k).arg : k \in 1..arg}
          /\ Leads(prog, i) = {i + arg + 1} \cup {At(prog, i + k).arg : k \in 1..arg}
      BY <2>3 DEF JumpsTo, Leads
    <3>2. blocks[b] = i + arg + 1 /\ \A k \in 1..arg : At(prog, i + k).arg \in DOMAIN blocks
      BY <2>3, TableGoesOn
    <3>3. blocks[b] # ReturnBlock => blocks[b] \in DOMAIN blocks
      BY BlockEnds
    <3> HIDE DEF op, arg
    <3> QED BY <3>1, <3>2, <3>3
  <2>4. CASE op \notin {"Jump", "Trap", "JumpIf", "JumpIfNot", "JumpTable"}
    BY <2>4 DEF JumpsTo
  <2> QED BY <2>1, <2>2, <2>3, <2>4
<1>2. j \in reached /\ find[j] = find[i]
  BY <1>1 DEF Form, Fits, reached, is, limit
<1>3. ASSUME j \in catching PROVE i \in Traps(prog, is)
  <2>1. \A x \in is \ Traps(prog, is) : Leads(prog, x) \cap catching = {}
    BY DEF Form, Fits, reached, is, limit, catching
  <2> QED BY <1>1, <1>3, <2>1
<1>4. i \in Traps(prog, is) => j = arg
  BY DEF Traps, JumpsTo
<1> QED BY <1>1, <1>2, <1>3, <1>4

StackRecords == [slots : Seq([at : Int, n : Int]), catch : Seq(Int)]

LEMMA FindsRecord == ASSUME Form, NEW i \in reached PROVE find[i] \in StackRecords
BY DEF Form, Fits, reached, StackRecords

LEMMA Shorter ==
    ASSUME NEW S, NEW v \in Seq(S), NEW m \in 0..Len(v)
    PROVE  /\ SubSeq(v, 1, m) \in Seq(S) /\ Len(SubSeq(v, 1, m)) = m
           /\ \A k \in 1..m : SubSeq(v, 1, m)[k] = v[k]
OBVIOUS

LEMMA PoppedIs ==
    ASSUME NEW S, NEW v \in Seq(S), NEW n \in 0..Len(v)
    PROVE  Popped(v, n) = SubSeq(v, 1, Len(v) - n)
<1>1. Len(v) \in Nat /\ n \in Nat /\ n <= Len(v)
  OBVIOUS
<1>2. {n, Len(v)} \subseteq Nat
  BY <1>1
<1>3. Min({n, Len(v)}) \in {n, Len(v)} /\ Min({n, Len(v)}) <= n
  BY <1>2, MinIsLeast
<1>4. Min({n, Len(v)}) = n
  BY <1>1, <1>3
<1> QED BY <1>4 DEF Popped

LEMMA NoVariables ==
    ASSUME NEW S, NEW v \in Seq(S), NEW i
    PROVE  v \o Variables(i, 0) = v
<1>1. Variables(i, 0) = <<>>
  BY DEF Variables
<1> QED BY <1>1

LEMMA AfterIsBehind ==
    ASSUME NEW s \in StackRecords, NEW i, NEW op, NEW arg, op # "Ret",
           Takes(op, arg) \in 0..Len(s.slots)
    PROVE  After(s, i, op, arg) = Behind(s, i, op, arg)
<1>1. PICK v, c : v = s.slots /\ c = s.catch
  OBVIOUS
<1>2. v \in Seq([at : Int, n : Int]) /\ c \in Seq(Int) /\ s = [slots |-> v, catch |-> c]
  BY <1>1 DEF StackRecords
<1>3. PICK n : n = Takes(op, arg)
  OBVIOUS
<1>4. PICK rest : rest = SubSeq(v, 1, Len(v) - n)
  OBVIOUS
<1>5. n \in 0..Len(v) /\ Popped(v, n) = rest /\ rest \in Seq([at : Int, n : Int])
  <2>1. n \in 0..Len(v)
    BY <1>1, <1>3
  <2>2. rest \in Seq([at : Int, n : Int])
    <3>1. PICK S : S = [at : Int, n : Int]
      OBVIOUS
    <3>2. v \in Seq(S) /\ Len(v) \in Nat
      BY <1>2, <3>1
    <3>3. PICK m : m = Len(v) - n
      OBVIOUS
    <3>4. m \in 0..Len(v)
      BY <2>1, <3>2, <3>3
    <3>5. SubSeq(v, 1, m) \in Seq(S)
      BY <3>2, <3>4, Shorter
    <3> QED BY <1>4, <3>1, <3>3, <3>5
  <2>3. Popped(v, n) = SubSeq(v, 1, Len(v) - n)
    BY <1>2, <2>1, PoppedIs
  <2> QED BY <1>4, <2>1, <2>2, <2>3
<1>6. rest \o Variables(i, 0) = rest
  BY <1>5, NoVariables
<1>7. n = 0 => rest = v
  BY <1>2, <1>4
<1>8. Behind(s, i, op, arg).slots = rest \o Variables(i, Makes(op))
      /\ Behind(s, i, op, arg) = [slots |-> rest \o Variables(i, Makes(op)),
                                 catch |-> Behind(s, i, op, arg).catch]
  BY <1>1, <1>3, <1>4 DEF Behind
<1>9. CASE op = "Push"
  <2>1. n = 0 /\ Makes(op) = 1 /\ Behind(s, i, op, arg).catch = c
    BY <1>1, <1>3, <1>9 DEF Takes, Erased, Binary, Makes, Behind
  <2>2. After(s, i, op, arg) = [slots |-> v \o Variables(i, 1), catch |-> c]
    BY <1>2, <1>9 DEF After
  <2> QED BY <1>7, <1>8, <2>1, <2>2
<1>10. CASE op = "Trap"
  <2>1. n = 0 /\ Makes(op) = TrapSize /\ Behind(s, i, op, arg).catch = <<arg>> \o c
    BY <1>1, <1>3, <1>10 DEF Takes, Erased, Binary, Makes, Behind
  <2>2. After(s, i, op, arg) = [slots |-> v \o Variables(i, TrapSize), catch |-> <<arg>> \o c]
    BY <1>1, <1>10 DEF After
  <2> QED BY <1>7, <1>8, <2>1, <2>2
<1>11. CASE op = "EndTrap"
  <2>1. n = TrapSize /\ Makes(op) = 0 /\ Behind(s, i, op, arg).catch = Tail(c)
    BY <1>1, <1>3, <1>11 DEF Takes, Makes, Behind
  <2>2. After(s, i, op, arg) = [slots |-> Popped(v, TrapSize), catch |-> Tail(c)]
    BY <1>1, <1>11 DEF After, TrapPop
  <2> QED BY <1>5, <1>6, <1>8, <2>1, <2>2
<1>12. CASE op \notin {"Push", "Trap", "EndTrap"}
  <2>1. Makes(op) = 0 /\ Behind(s, i, op, arg).catch = c
    BY <1>1, <1>12 DEF Makes, Behind
  <2>2. After(s, i, op, arg) = [s EXCEPT !.slots = Popped(@, n)]
    <3>1. CASE op = "TailCall"
      BY <1>3, <3>1 DEF After, Takes
    <3>2. CASE op # "TailCall"
      BY <1>3, <1>12, <3>2 DEF After, Takes
    <3> QED BY <3>1, <3>2
  <2>3. After(s, i, op, arg) = [slots |-> Popped(v, n), catch |-> c]
    BY <1>2, <2>2
  <2> QED BY <1>5, <1>6, <1>8, <2>1, <2>3
<1> QED BY <1>9, <1>10, <1>11, <1>12

LEMMA GoingOn ==
    ASSUME Form, NEW i \in is, GoesOn(prog, i)
    PROVE  /\ i + 1 \in reached /\ i + 1 \notin catching
           /\ Takes(At(prog, i).op, At(prog, i).arg) \in 0..Len(find[i].slots)
           /\ find[i + 1] = Behind(find[i], i, At(prog, i).op, At(prog, i).arg)
           /\ find[i + 1] = After(find[i], i, At(prog, i).op, At(prog, i).arg)
<1>1. /\ i + 1 \in reached /\ i + 1 \notin catching
      /\ Takes(At(prog, i).op, At(prog, i).arg) \in 0..Len(find[i].slots)
      /\ find[i + 1] = Behind(find[i], i, At(prog, i).op, At(prog, i).arg)
  BY DEF Form, Fits, reached, is, limit, catching
<1>2. PICK s, op, arg : s = find[i] /\ op = At(prog, i).op /\ arg = At(prog, i).arg
  OBVIOUS
<1>3. s \in StackRecords /\ op # "Ret" /\ Takes(op, arg) \in 0..Len(s.slots)
  BY <1>1, <1>2, FindsRecord DEF GoesOn, is
<1>4. After(s, i, op, arg) = Behind(s, i, op, arg)
  BY <1>3, AfterIsBehind
<1> QED BY <1>1, <1>2, <1>4

LEMMA Catching ==
    ASSUME Form
    PROVE  /\ catching \subseteq DOMAIN blocks \cap reached /\ chunk.from \notin catching
           /\ \A i, j \in Traps(prog, is) : At(prog, i).arg = At(prog, j).arg => i = j
           /\ \A i \in reached : find[i].catch # <<>> =>
                  /\ Head(find[i].catch) \in catching
                  /\ find[Head(find[i].catch)].catch = Tail(find[i].catch)
<1>1. ASSUME NEW i \in Traps(prog, is) PROVE At(prog, i).arg \in DOMAIN blocks \cap reached
  <2>1. i \in is /\ At(prog, i).op = "Trap"
    BY DEF Traps
  <2>2. i \in Nat /\ chunk.from <= i /\ i < limit
    BY <2>1, Reached
  <2>3. Targets(prog, i) = {At(prog, i).arg} /\ At(prog, i).arg \in Leads(prog, i)
    BY <2>1 DEF Targets, Leads
  <2>4. At(prog, i).arg \in DOMAIN blocks
    BY <2>2, <2>3, TargetsStart
  <2>5. At(prog, i).arg \in reached
    BY <2>1, <2>3 DEF Form, Fits, reached, is, limit
  <2> QED BY <2>4, <2>5
<1>2. catching \subseteq DOMAIN blocks \cap reached
  BY <1>1 DEF catching, Catches
<1> QED BY <1>2 DEF Form, Fits, reached, is, limit, catching

-----------------------------------------------------------------------------
(* The code of a block, as far as it has been made. *)

\* The address whose stack an item was made with.
Place(b, item) ==
    IF item.do = "op" THEN item.pc ELSE IF item.do = "br" THEN BlockEnd(b) ELSE b

Good(b, item) ==
    /\ item.do \in {"op", "br", "fetch"}
    /\ Place(b, item) \in reached
    /\ item.slots = find[Place(b, item)].slots /\ item.catch = find[Place(b, item)].catch
    /\ item.do = "op" => item.pc \in is /\ b <= item.pc /\ item.pc < BlockEnd(b)
    /\ item.do = "br" => item.pc = blocks[b] /\ item.pc \notin catching
    /\ item.do = "fetch" => item.pc = b

Opening(b, item) == Place(b, item) = b /\ (item.do = "fetch" <=> b \in catching)

Linked(b, item, next) ==
    /\ next.do # "fetch"
    /\ \/ item.do = "fetch" /\ Place(b, next) = b
       \/ item.do = "op" /\ GoesOn(prog, item.pc) /\ Place(b, next) = item.pc + 1

Made(b, items) ==
    /\ IsSequence(items)
    /\ \A k \in DOMAIN items : Good(b, items[k])
    /\ items # <<>> => Opening(b, items[1])
    /\ \A k \in DOMAIN items : k + 1 \in DOMAIN items => Linked(b, items[k], items[k + 1])

LEMMA AppendItem ==
    ASSUME NEW b, NEW items, Made(b, items), NEW item, Good(b, item),
           IF items = <<>> THEN Opening(b, item) ELSE Linked(b, items[Len(items)], item)
    PROVE  Made(b, Append(items, item))
<1> DEFINE new == Append(items, item)
<1>1. IsSequence(items)
  BY DEF Made
<1>2. PICK S : items \in Seq(S)
  BY <1>1 DEF IsSequence
<1>3. /\ Len(items) \in Nat /\ DOMAIN items = 1..Len(items) /\ DOMAIN new = 1..(Len(items) + 1)
      /\ \A k \in 1..Len(items) : new[k] = items[k]
      /\ new[Len(items) + 1] = item /\ IsSequence(new)
  <2>1. items \in Seq(S \cup {item})
    BY <1>2
  <2>2. new \in Seq(S \cup {item})
    BY <2>1
  <2> QED BY <2>1, <2>2 DEF IsSequence
<1> HIDE DEF new
<1>4. \A k \in DOMAIN new : Good(b, new[k])
  BY <1>3 DEF Made
<1>5. Opening(b, new[1])
  <2>1. CASE items = <<>>
    <3>1. Len(items) = 0
      BY <2>1
    <3> QED BY <1>3, <2>1, <3>1
  <2>2. CASE items # <<>>
    <3>1. 1 \in 1..Len(items)
      BY <1>2, <2>2
    <3> QED BY <1>3, <2>2, <3>1 DEF Made
  <2> QED BY <2>1, <2>2
<1>6. ASSUME NEW k \in DOMAIN new, k + 1 \in DOMAIN new PROVE Linked(b, new[k], new[k + 1])
  <2>1. k \in 1..Len(items)
    BY <1>3, <1>6
  <2>2. CASE k = Len(items)
    <3>1. items # <<>>
      BY <2>1
    <3> QED BY <1>3, <2>1, <2>2, <3>1
  <2>3. CASE k # Len(items)
    <3>1. k + 1 \in 1..Len(items)
      BY <1>3, <2>1, <2>3
    <3>2. Linked(b, items[k], items[k + 1])
      BY <1>3, <2>1, <3>1 DEF Made
    <3> QED BY <1>3, <2>1, <3>1, <3>2
  <2> QED BY <2>2, <2>3
<1> QED BY <1>3, <1>4, <1>5, <1>6 DEF Made, new

\* What is there stays there.
LEMMA AppendKeeps ==
    ASSUME NEW items, IsSequence(items), NEW item
    PROVE  /\ Append(items, item) # <<>> /\ Append(items, item)[Len(Append(items, item))] = item
           /\ \A k \in DOMAIN items : /\ k \in DOMAIN Append(items, item)
                                      /\ Append(items, item)[k] = items[k]
           /\ \E k \in DOMAIN Append(items, item) : Append(items, item)[k] = item
<1>1. PICK S : items \in Seq(S)
  BY DEF IsSequence
<1>2. items \in Seq(S \cup {item})
  BY <1>1
<1> QED BY <1>2

Exits == {"Ret", "Jump", "JumpIf", "JumpIfNot", "JumpTable"}

Whole(items) ==
    /\ items # <<>>
    /\ LET item == items[Len(items)]
       IN  item.do = "br" \/ (item.do = "op" /\ At(prog, item.pc).op \in Exits)

\* What follows an item of a whole block.
LEMMA Follows ==
    ASSUME NEW b, NEW items, Made(b, items), Whole(items), NEW k \in DOMAIN items,
           items[k].do # "br", items[k].do = "op" => At(prog, items[k].pc).op \notin Exits
    PROVE  k + 1 \in DOMAIN items /\ Linked(b, items[k], items[k + 1])
<1>1. PICK S : items \in Seq(S)
  BY DEF Made, IsSequence
<1>2. k \in 1..Len(items) /\ DOMAIN items = 1..Len(items) /\ Len(items) \in Nat
  BY <1>1
<1>3. k # Len(items)
  BY DEF Whole
<1>4. k + 1 \in DOMAIN items
  BY <1>2, <1>3
<1> QED BY <1>4 DEF Made

\* Blocks that are compiled, or are going to be.
Known == (compiled \cup {todo[k] : k \in DOMAIN todo}) \ {ReturnBlock}

Caught(s, K) == \A j \in DOMAIN s.catch : s.catch[j] \in K

\* All that the item leads to is in K.
Leading(b, item, K) ==
    /\ item.do = "op" => JumpsTo(b, item.pc) \subseteq K \cup {ReturnBlock}
    /\ item.do = "br" => item.pc \in K \cup {ReturnBlock}
    /\ Caught(item, K)

Entered(s) == \A k \in DOMAIN s : s[k] # ReturnBlock => s[k] \in DOMAIN blocks \cap reached

Visited ==
    /\ compiled = DOMAIN stacks /\ compiled \subseteq DOMAIN blocks \cap reached
    /\ chunk.from \in compiled
    /\ \A b \in compiled : ~Generated(b) => stacks[b] = find[b]
    /\ IsSequence(todo) /\ Entered(todo)
    /\ \A k \in DOMAIN todo : todo[k] # ReturnBlock => given = find[todo[k]]

Coded ==
    /\ DOMAIN code = DOMAIN blocks \cup {ReturnBlock}
    /\ code[ReturnBlock] = <<Item("ret", ReturnBlock, [slots |-> <<>>, catch |-> <<>>])>>
    /\ \A b \in DOMAIN blocks : Made(b, code[b])

LeadsToKnown ==
    /\ \A b \in DOMAIN blocks : \A k \in DOMAIN code[b] : Leading(b, code[b][k], Known)
    /\ \A b \in compiled : Caught(stacks[b], Known)
    /\ todo # <<>> => Caught(given, Known)

\* The trap of handler h has been compiled.
Trapped(f, h) ==
    \E b \in DOMAIN blocks : \E k \in DOMAIN f[b] :
        f[b][k].do = "op" /\ f[b][k].pc \in Traps(prog, is) /\ At(prog, f[b][k].pc).arg = h

Fetching ==
    \A h \in catching : /\ h \in Known => code[h] # <<>>
                        /\ code[h] # <<>> => Trapped(code, h)

OnlyFetches(items) == \A k \in DOMAIN items : items[k].do = "fetch"

\* Where the compiler stands, in block b.
Standing(b, a, items) ==
    /\ b <= a /\ a <= BlockEnd(b) /\ a \in reached
    /\ a # b => a \notin catching
    /\ \A k \in DOMAIN items : items[k].do = "op" => items[k].pc < a
    /\ IF items = <<>> THEN a = b
       ELSE LET item == items[Len(items)]
            IN  \/ item.do = "fetch" /\ a = b
                \/ item.do = "op" /\ GoesOn(prog, item.pc) /\ a = item.pc + 1
                \/ item.do = "op" /\ At(prog, item.pc).op = "JumpTable" /\ a = BlockEnd(b)

Stands ==
    mode = "compile" /\ cur # NoBlock =>
        cur \in compiled /\ stacks[cur] = find[at] /\ Standing(cur, at, code[cur])

InQueue(b) == \E k \in DOMAIN queue : queue[k] = b

Waiting == \A b \in DOMAIN blocks : b \notin compiled \/ InQueue(b) => OnlyFetches(code[b])

Finished ==
    /\ \A b \in compiled : Whole(code[b]) \/ InQueue(b) \/ (mode = "compile" /\ cur = b)
    /\ mode # "compile" => queue = <<>> /\ todo = <<>>

CodeInv == Form /\ Visited /\ Coded /\ LeadsToKnown /\ Fetching /\ Stands /\ Waiting /\ Finished

\* Nothing of a block's form depends on more than the program and the blocks.
LEMMA Still ==
    ASSUME Form, Same
    PROVE  /\ Form' /\ find' = find /\ ends' = ends /\ catching' = catching /\ is' = is /\ reached' = reached
           /\ \A b, items : Made(b, items)' <=> Made(b, items)
           /\ \A items : Whole(items)' <=> Whole(items)
           /\ \A b, item, K : Leading(b, item, K)' <=> Leading(b, item, K)
           /\ \A f, h : Trapped(f, h)' <=> Trapped(f, h)
           /\ \A b, a, items : Standing(b, a, items)' <=> Standing(b, a, items)
           /\ \A s : Entered(s)' <=> Entered(s)
<1>1. find' = find /\ ends' = ends /\ Form' /\ prog' = prog /\ chunk' = chunk /\ blocks' = blocks
  BY FormStep DEF Same
<1>2. reached' = reached /\ is' = is /\ catching' = catching
  BY <1>1 DEF reached, is, limit, catching
<1>3. \A b : BlockEnd(b)' = BlockEnd(b)
  BY <1>1 DEF BlockEnd
<1>4. \A b, item : Place(b, item)' = Place(b, item)
  BY <1>3 DEF Place
<1>5. \A b, item : Good(b, item)' <=> Good(b, item)
  BY <1>1, <1>2, <1>3, <1>4 DEF Good
<1>6. \A b, item : Opening(b, item)' <=> Opening(b, item)
  BY <1>2, <1>4 DEF Opening
<1>7. \A b, item, next : Linked(b, item, next)' <=> Linked(b, item, next)
  BY <1>1, <1>4 DEF Linked
<1>8. \A b, items : Made(b, items)' <=> Made(b, items)
  BY <1>5, <1>6, <1>7 DEF Made
<1>9. \A items : Whole(items)' <=> Whole(items)
  BY <1>1 DEF Whole
<1>10. \A b, i : JumpsTo(b, i)' = JumpsTo(b, i)
  BY <1>1 DEF JumpsTo
<1>11. \A b, item, K : Leading(b, item, K)' <=> Leading(b, item, K)
  BY <1>10 DEF Leading, Caught
<1>12. \A f, h : Trapped(f, h)' <=> Trapped(f, h)
  BY <1>1, <1>2 DEF Trapped
<1>13. \A s : Entered(s)' <=> Entered(s)
  BY <1>1, <1>2 DEF Entered
<1>14. \A b, a, items : Standing(b, a, items)' <=> Standing(b, a, items)
  BY <1>1, <1>2, <1>3 DEF Standing
<1> QED BY <1>1, <1>2, <1>8, <1>9, <1>11, <1>12, <1>13, <1>14

-----------------------------------------------------------------------------
(* Steps of the compiler, and the code they make. *)

LEMMA CompiledStays ==
    ASSUME Form, Same, UNCHANGED <<todo, given, compiled, stacks, code>>,
           Visited, Coded, LeadsToKnown, Fetching
    PROVE  Visited' /\ Coded' /\ LeadsToKnown' /\ Fetching'
<1>1. Known' = Known /\ chunk' = chunk /\ blocks' = blocks
  BY DEF Known, Same
<1>2. \A b : Generated(b)' <=> Generated(b)
  BY DEF Generated
<1>3. Visited'
  BY <1>1, <1>2, Still DEF Visited, Entered
<1>4. Coded'
  BY <1>1, Still DEF Coded
<1>5. LeadsToKnown'
  BY <1>1, Still DEF LeadsToKnown, Caught
<1>6. Fetching'
  BY <1>1, Still DEF Fetching
<1> QED BY <1>3, <1>4, <1>5, <1>6

LEMMA CodeSequence ==
    ASSUME Coded, NEW b \in DOMAIN blocks
    PROVE  /\ IsSequence(code[b]) /\ Len(code[b]) \in Nat /\ DOMAIN code[b] = 1..Len(code[b])
           /\ code[b] # <<>> => Len(code[b]) \in DOMAIN code[b] /\ 1 \in DOMAIN code[b]
<1>1. IsSequence(code[b])
  BY DEF Coded, Made
<1>2. PICK S : code[b] \in Seq(S)
  BY <1>1 DEF IsSequence
<1> QED BY <1>1, <1>2

LEMMA DequeueCode == ASSUME BlockInv, CodeInv, Dequeue PROVE CodeInv'
<1> DEFINE b == Head(queue)
<1>1. /\ mode = "compile" /\ cur = NoBlock /\ queue # <<>> /\ cur' = b /\ at' = b /\ queue' = Tail(queue)
      /\ mode' = mode /\ Same /\ UNCHANGED <<todo, given, compiled, stacks, code>>
  BY DEF Dequeue, Same
<1>2. Form /\ Visited /\ Coded /\ LeadsToKnown /\ Fetching
  BY DEF CodeInv
<1>3. Form' /\ Visited' /\ Coded' /\ LeadsToKnown' /\ Fetching'
  BY <1>1, <1>2, CompiledStays, Still
<1>4. queue \in Seq(compiled) /\ NoCodeYet
  BY <1>1 DEF BlockInv, Queued
<1>5. /\ 1 \in DOMAIN queue /\ b = queue[1] /\ b \in compiled
      /\ DOMAIN queue \subseteq Nat \ {0}
      /\ \A k \in DOMAIN queue' : k + 1 \in DOMAIN queue /\ queue'[k] = queue[k + 1]
      /\ \A k \in DOMAIN queue : k # 1 => k - 1 \in DOMAIN queue' /\ queue'[k - 1] = queue[k]
  BY <1>1, <1>4
<1>6. b \in DOMAIN blocks \cap reached /\ ~Generated(b) /\ stacks[b] = find[b] /\ OnlyFetches(code[b])
  BY <1>2, <1>4, <1>5 DEF NoCodeYet, Visited, CodeInv, Waiting, InQueue
<1> HIDE DEF b
<1>7. Stands'
  <2>2. b \in Nat /\ b <= BlockEnd(b)
    BY <1>2, <1>6, BlockEnds, Addresses
  <2>3. \A k \in DOMAIN code[b] : code[b][k].do = "fetch"
    BY <1>6 DEF OnlyFetches
  <2>4. code[b] # <<>> => code[b][Len(code[b])].do = "fetch"
    BY <1>2, <1>6, <2>3, CodeSequence
  <2>5. Standing(b, b, code[b])
    BY <1>1, <1>6, <2>2, <2>3, <2>4 DEF Standing
  <2>6. find' = find /\ \A x, a, items : Standing(x, a, items)' <=> Standing(x, a, items)
    BY <1>1, <1>2, Still
  <2> QED BY <1>1, <1>5, <1>6, <2>5, <2>6 DEF Stands
<1>8. Waiting'
  BY <1>1, <1>5 DEF CodeInv, Waiting, InQueue, OnlyFetches, Same
<1>9. Finished'
  <2>1. ASSUME NEW x \in compiled PROVE Whole(code[x]) \/ InQueue(x)' \/ x = b
    <3>1. NoBlock \notin compiled
      BY <1>2, Addresses DEF Visited, NoBlock
    <3>2. Whole(code[x]) \/ InQueue(x)
      BY <1>1, <3>1 DEF CodeInv, Finished
    <3>3. InQueue(x) => InQueue(x)' \/ x = b
      BY <1>5 DEF InQueue
    <3> QED BY <3>2, <3>3
  <2>2. \A items : Whole(items)' <=> Whole(items)
    BY <1>1, <1>2, Still
  <2> QED BY <1>1, <2>1, <2>2 DEF Finished
<1> QED BY <1>3, <1>7, <1>8, <1>9 DEF CodeInv

LEMMA ReachCode == ASSUME BlockInv, CodeInv, Reach PROVE CodeInv'
<1> DEFINE b == Head(todo)
<1>1. /\ mode = "compile" /\ todo # <<>> /\ todo' = Tail(todo) /\ mode' = mode
      /\ Same /\ UNCHANGED <<cur, at, given, code>>
  BY DEF Reach, Same
<1>2. Form /\ Visited /\ Coded /\ LeadsToKnown /\ Fetching /\ IsSequence(todo)
  BY DEF CodeInv, Visited
<1>3. /\ IsSequence(todo') /\ b = todo[1] /\ 1 \in DOMAIN todo
      /\ DOMAIN todo \subseteq Nat \ {0}
      /\ \A k \in DOMAIN todo' : k + 1 \in DOMAIN todo /\ todo'[k] = todo[k + 1]
      /\ \A k \in DOMAIN todo : k # 1 => k - 1 \in DOMAIN todo' /\ todo'[k - 1] = todo[k]
  <2>1. PICK S : todo \in Seq(S)
    BY <1>2 DEF IsSequence
  <2>2. todo' \in Seq(S)
    BY <1>1, <2>1
  <2> QED BY <1>1, <2>1, <2>2 DEF IsSequence
<1>4. \/ b = ReturnBlock /\ UNCHANGED <<queue, compiled, stacks>>
      \/ /\ b # ReturnBlock /\ queue' = Enqueue(b) /\ compiled' = compiled \cup {b}
         /\ stacks' = Given(b)
  BY DEF Reach
<1>5. b # ReturnBlock => b \in DOMAIN blocks \cap reached /\ given = find[b]
  BY <1>2, <1>3 DEF Visited, Entered
<1>6. queue \in Seq(compiled) /\ compiled = DOMAIN stacks /\ (cur # NoBlock => cur \in compiled)
  BY <1>1, <1>2 DEF BlockInv, Queued, Visited
<1> HIDE DEF b
<1>7. Known' = Known
  <2>1. {todo[k] : k \in DOMAIN todo} = {b} \cup {todo'[k] : k \in DOMAIN todo'}
    BY <1>3
  <2> QED BY <1>4, <2>1 DEF Known
<1>8. /\ compiled \subseteq compiled' /\ compiled' \subseteq compiled \cup ({b} \ {ReturnBlock})
      /\ compiled' = DOMAIN stacks'
      /\ \A x \in compiled : stacks'[x] = stacks[x]
      /\ \A x \in compiled' : x \notin compiled => x = b /\ b # ReturnBlock /\ stacks'[x] = given
  BY <1>4, <1>6 DEF Given
<1>9. \A x : InQueue(x)' <=> InQueue(x) \/ (x = b /\ b # ReturnBlock /\ x \notin compiled)
  <2>1. CASE queue' = queue /\ (b = ReturnBlock \/ b \in compiled)
    BY <2>1 DEF InQueue
  <2>2. CASE queue' = Append(queue, b) /\ b \notin compiled /\ b # ReturnBlock
    <3>1. queue \in Seq(compiled \cup {b})
      BY <1>6
    <3>2. /\ DOMAIN queue' = 1..(Len(queue) + 1) /\ DOMAIN queue = 1..Len(queue) /\ Len(queue) \in Nat
          /\ queue'[Len(queue) + 1] = b /\ \A k \in 1..Len(queue) : queue'[k] = queue[k]
      BY <2>2, <3>1
    <3> QED BY <2>2, <3>2 DEF InQueue
  <2> QED BY <1>4, <2>1, <2>2 DEF Enqueue
<1>10. \A x : Generated(x)' <=> Generated(x)
  BY <1>1 DEF Generated
<1>11. Form' /\ find' = find /\ reached' = reached /\ chunk' = chunk /\ blocks' = blocks
  BY <1>1, <1>2, Still DEF Same
<1>12. Visited'
  <2>1. Entered(todo')
    BY <1>2, <1>3 DEF Visited, Entered
  <2>2. Entered(todo)'
    BY <1>11, <2>1 DEF Entered
  <2>3. compiled' \subseteq DOMAIN blocks \cap reached /\ chunk.from \in compiled'
    BY <1>2, <1>5, <1>8 DEF Visited
  <2>4. ASSUME NEW x \in compiled', ~Generated(x) PROVE stacks'[x] = find[x]
    BY <1>2, <1>5, <1>8, <2>4 DEF Visited
  <2>5. ASSUME NEW k \in DOMAIN todo', todo'[k] # ReturnBlock PROVE given = find[todo'[k]]
    BY <1>2, <1>3, <2>5 DEF Visited
  <2> QED BY <1>1, <1>3, <1>8, <1>10, <1>11, <2>2, <2>3, <2>4, <2>5 DEF Visited
<1>13. Coded'
  BY <1>1, <1>2, <1>11, Still DEF Coded
<1>14. LeadsToKnown'
  <2>1. \A x \in compiled' : Caught(stacks'[x], Known)
    BY <1>1, <1>2, <1>8 DEF LeadsToKnown
  <2>2. todo' # <<>> => Caught(given, Known)
    BY <1>1, <1>2 DEF LeadsToKnown
  <2>3. \A x \in DOMAIN blocks : \A k \in DOMAIN code[x] : Leading(x, code[x][k], Known)
    BY <1>2 DEF LeadsToKnown
  <2> QED BY <1>1, <1>2, <1>7, <1>11, <2>1, <2>2, <2>3, Still DEF LeadsToKnown, Caught
<1>15. Fetching'
  BY <1>1, <1>2, <1>7, Still DEF Fetching
<1>16. Stands'
  <2>1. cur # NoBlock => cur \in compiled /\ stacks[cur] = find[at] /\ Standing(cur, at, code[cur])
    BY <1>1 DEF CodeInv, Stands
  <2>2. find' = find /\ \A x, a, items : Standing(x, a, items)' <=> Standing(x, a, items)
    BY <1>1, <1>2, Still
  <2>3. cur # NoBlock => cur \in compiled' /\ stacks'[cur] = stacks[cur]
    BY <1>6, <1>8
  <2> QED BY <1>1, <2>1, <2>2, <2>3 DEF Stands
<1>17. Waiting'
  BY <1>1, <1>8, <1>9 DEF CodeInv, Waiting, OnlyFetches, Same
<1>18. Finished'
  <2>1. \A items : Whole(items)' <=> Whole(items)
    BY <1>1, <1>2, Still
  <2>2. \A x \in compiled' : Whole(code[x]) \/ InQueue(x)' \/ cur = x
    BY <1>1, <1>8, <1>9 DEF CodeInv, Finished
  <2> QED BY <1>1, <2>1, <2>2 DEF Finished
<1> QED BY <1>11, <1>12, <1>13, <1>14, <1>15, <1>16, <1>17, <1>18 DEF CodeInv

\* The stacks that instructions leave.
CatchAfter(op, arg, catch) ==
    CASE op = "Trap" -> <<arg>> \o catch
      [] op = "EndTrap" -> Tail(catch)
      [] OTHER -> catch

LEMMA AfterCatch ==
    ASSUME NEW s \in StackRecords, NEW i, NEW op, NEW arg
    PROVE  After(s, i, op, arg).catch = CatchAfter(op, arg, s.catch)
<1>0. s = [slots |-> s.slots, catch |-> s.catch]
  BY DEF StackRecords
<1>1. CASE op = "Push"
  BY <1>0, <1>1 DEF After, CatchAfter
<1>2. CASE op = "Trap"
  BY <1>0, <1>2 DEF After, CatchAfter
<1>3. CASE op = "EndTrap"
  BY <1>0, <1>3 DEF After, TrapPop, CatchAfter
<1>4. CASE op = "TailCall"
  BY <1>0, <1>4 DEF After, CatchAfter
<1>5. CASE op \notin {"Push", "Trap", "EndTrap", "TailCall"}
  <2> DEFINE n == IF op = "Ret" THEN arg ELSE Erased(op, arg)
  <2>1. After(s, i, op, arg) = [s EXCEPT !.slots = Popped(@, n)]
    BY <1>5 DEF After
  <2> HIDE DEF n
  <2> QED BY <1>0, <1>5, <2>1 DEF CatchAfter
<1> QED BY <1>1, <1>2, <1>3, <1>4, <1>5

LEMMA OpensTraps ==
    ASSUME Form, NEW i \in is, At(prog, i).op = "EndTrap" PROVE find[i].catch # <<>>
BY DEF Form, Fits, reached, is, limit

LEMMA CatchesAfter ==
    ASSUME NEW catch \in Seq(Int), NEW K, \A j \in DOMAIN catch : catch[j] \in K,
           NEW op, NEW arg \in Int, op = "Trap" => arg \in K, op = "EndTrap" => catch # <<>>,
           NEW new,
           op = "Trap" => new = <<arg>> \o catch,
           op = "EndTrap" => new = Tail(catch),
           op \notin {"Trap", "EndTrap"} => new = catch
    PROVE  \A j \in DOMAIN new : new[j] \in K
<1>1. CASE op = "Trap"
  <2>1. \A j \in DOMAIN new : new[j] = arg \/ (j - 1 \in DOMAIN catch /\ new[j] = catch[j - 1])
    BY <1>1
  <2> QED BY <1>1, <2>1
<1>2. CASE op = "EndTrap"
  <2>1. \A j \in DOMAIN new : j + 1 \in DOMAIN catch /\ new[j] = catch[j + 1]
    BY <1>2
  <2> QED BY <2>1
<1> QED BY <1>1, <1>2

LEMMA CaughtAfter ==
    ASSUME Form, NEW i \in is, NEW K, Caught(find[i], K),
           At(prog, i).op = "Trap" => At(prog, i).arg \in K
    PROVE  Caught(After(find[i], i, At(prog, i).op, At(prog, i).arg), K)
<1>1. PICK s, op, arg : s = find[i] /\ op = At(prog, i).op /\ arg = At(prog, i).arg
  OBVIOUS
<1>2. s.catch \in Seq(Int) /\ s = [slots |-> s.slots, catch |-> s.catch] /\ arg \in Int
  BY <1>1, Finds, Reached
<1>3. (\A j \in DOMAIN s.catch : s.catch[j] \in K) /\ (op = "Trap" => arg \in K)
  BY <1>1 DEF Caught
<1>4. op = "EndTrap" => s.catch # <<>>
  BY <1>1, OpensTraps
<1>5. PICK after : after = After(s, i, op, arg)
  OBVIOUS
<1>6. /\ op = "Trap" => after.catch = <<arg>> \o s.catch
      /\ op = "EndTrap" => after.catch = Tail(s.catch)
      /\ op \notin {"Trap", "EndTrap"} => after.catch = s.catch
  <2>1. s \in StackRecords
    BY <1>1, FindsRecord DEF is
  <2>2. after.catch = CatchAfter(op, arg, s.catch)
    BY <1>5, <2>1, AfterCatch
  <2> QED BY <2>2 DEF CatchAfter
<1>7. \A j \in DOMAIN after.catch : after.catch[j] \in K
  <2>1. \A j \in DOMAIN s.catch : s.catch[j] \in K
    BY <1>3
  <2>2. s.catch \in Seq(Int) /\ arg \in Int
    BY <1>2
  <2> QED BY <1>3, <1>4, <1>6, <2>1, <2>2, CatchesAfter
<1> QED BY <1>1, <1>5, <1>7 DEF Caught

LEMMA AfterTable ==
    ASSUME Form, NEW i \in is, At(prog, i).op = "JumpTable"
    PROVE  After(find[i], i, "JumpTable", At(prog, i).arg) = find[i]
<1> DEFINE v == find[i].slots
<1>1. find[i] = [slots |-> v, catch |-> find[i].catch] /\ v \in Seq([at : Int, n : Int])
  BY Finds, Reached
<1>2. Erased("JumpTable", At(prog, i).arg) = 0
  BY DEF Erased, Binary
<1>3. After(find[i], i, "JumpTable", At(prog, i).arg) = [find[i] EXCEPT !.slots = Popped(@, 0)]
  BY <1>2 DEF After
<1>4. Popped(v, 0) = v
  <2> HIDE DEF v
  <2>1. Len(v) \in Nat
    BY <1>1
  <2>2. {0, Len(v)} \subseteq Nat
    BY <2>1
  <2>3. Min({0, Len(v)}) \in {0, Len(v)} /\ Min({0, Len(v)}) <= 0
    BY <2>2, MinIsLeast
  <2>4. Min({0, Len(v)}) = 0
    BY <2>1, <2>3
  <2>5. Popped(v, 0) = SubSeq(v, 1, Len(v) - 0)
    BY <2>4 DEF Popped
  <2> QED BY <1>1, <2>5
<1> HIDE DEF v
<1>5. [find[i] EXCEPT !.slots = Popped(@, 0)] = [find[i] EXCEPT !.slots = Popped(v, 0)]
  BY DEF v
<1> QED BY <1>1, <1>3, <1>4, <1>5

\* The instruction that is compiled next.
LEMMA AtInstruction ==
    ASSUME CodeInv, mode = "compile", cur # NoBlock, at < BlockEnd(cur)
    PROVE  /\ cur \in compiled /\ cur \in DOMAIN blocks \cap reached /\ at \in is /\ cur <= at
           /\ stacks[cur] = find[at]
           /\ \A b \in DOMAIN blocks : \A k \in DOMAIN code[b] :
                  code[b][k].do = "op" => code[b][k].pc # at
<1>1. Form /\ Visited /\ Coded /\ cur \in compiled /\ stacks[cur] = find[at] /\ Standing(cur, at, code[cur])
  BY DEF CodeInv, Stands
<1>2. cur \in DOMAIN blocks \cap reached
  BY <1>1 DEF Visited
<1>3. cur <= at /\ at \in reached /\ at \in Nat
  BY <1>1, Addresses DEF Standing
<1>4. BlockEnd(cur) \in Nat /\ BlockEnd(cur) <= limit /\ limit \in Nat
  BY <1>1, <1>2, BlockEnds, Addresses
<1>5. at \in is
  BY <1>3, <1>4 DEF is
<1>6. ASSUME NEW b \in DOMAIN blocks, NEW k \in DOMAIN code[b], code[b][k].do = "op", code[b][k].pc = at
      PROVE  FALSE
  <2>1. b <= at /\ at < BlockEnd(b)
    BY <1>1, <1>6 DEF Coded, Made, Good
  <2>2. b = cur
    BY <1>1, <1>2, <1>3, <2>1, OneBlock
  <2> QED BY <1>1, <1>3, <1>6, <2>2 DEF Standing
<1> QED BY <1>1, <1>2, <1>3, <1>5, <1>6

\* A trap's handler has not been thought of before.
LEMMA HandlerIsNew ==
    ASSUME CodeInv, mode = "compile", cur # NoBlock, at < BlockEnd(cur), At(prog, at).op = "Trap"
    PROVE  LET h == At(prog, at).arg
           IN  /\ h \in catching /\ h \in DOMAIN blocks \cap reached /\ h \notin Known /\ h # cur
               /\ code[h] = <<>> /\ find[h] = find[at] /\ h \notin compiled /\ h # ReturnBlock
<1> DEFINE h == At(prog, at).arg
<1>1. Form /\ Visited /\ Fetching /\ at \in is /\ cur \in compiled /\ cur \in DOMAIN blocks /\ cur <= at
  BY AtInstruction DEF CodeInv
<1>2. at \in Traps(prog, is) /\ h \in catching
  BY <1>1 DEF Traps, catching, Catches
<1>3. h \in DOMAIN blocks \cap reached /\ h # ReturnBlock
  BY <1>1, <1>2, Catching, Addresses DEF ReturnBlock
<1>4. code[h] = <<>>
  <2> SUFFICES ASSUME Trapped(code, h) PROVE FALSE
    BY <1>1, <1>2 DEF Fetching
  <2>1. PICK b \in DOMAIN blocks : \E k \in DOMAIN code[b] :
            /\ code[b][k].do = "op" /\ code[b][k].pc \in Traps(prog, is)
            /\ At(prog, code[b][k].pc).arg = h
    BY DEF Trapped
  <2>2. PICK k \in DOMAIN code[b] :
            /\ code[b][k].do = "op" /\ code[b][k].pc \in Traps(prog, is)
            /\ At(prog, code[b][k].pc).arg = h
    BY <2>1
  <2>3. code[b][k].pc = at
    BY <1>1, <1>2, <2>2, Catching
  <2> QED BY <2>2, <2>3, AtInstruction
<1>5. h \notin Known
  BY <1>1, <1>2, <1>4 DEF Fetching
<1>6. h \notin compiled
  BY <1>3, <1>5 DEF Known
<1>7. find[h] = find[at]
  <2>1. h \in JumpsTo(cur, at)
    BY <1>2 DEF JumpsTo, Traps
  <2> QED BY <1>1, <1>3, <2>1, JumpsFind
<1> QED BY <1>1, <1>2, <1>3, <1>4, <1>5, <1>6, <1>7

\* What Generate adds to the code, and where it leads.
AddsCode ==
    LET op == At(prog, at).op
        arg == At(prog, at).arg
    IN  /\ mode = "compile" /\ todo = <<>> /\ cur # NoBlock /\ at < BlockEnd(cur)
        /\ Same /\ UNCHANGED <<mode, queue, compiled>>
        /\ DOMAIN code' = DOMAIN code
        /\ code'[cur] = Append(code[cur], Item("op", at, find[at]))
        /\ op = "Trap" => code'[arg] = Append(code[arg], Item("fetch", arg, find[arg]))
        /\ \A b \in DOMAIN code : b # cur /\ ~(op = "Trap" /\ b = arg) => code'[b] = code[b]
        /\ IsSequence(todo') /\ {todo'[k] : k \in DOMAIN todo'} = JumpsTo(cur, at)
        /\ given' = find[at]
        /\ DOMAIN stacks' = DOMAIN stacks
        /\ stacks'[cur] = After(find[at], at, op, arg)
        /\ \A b \in DOMAIN stacks : b # cur => stacks'[b] = stacks[b]

LEMMA SuccessorsJump ==
    ASSUME NEW i, At(prog, i).op = "JumpTable" => At(prog, i).arg \in Nat
    PROVE  LET next == Successors(i, At(prog, i).op, At(prog, i).arg)
           IN  IsSequence(next) /\ {next[k] : k \in DOMAIN next} = JumpsTo(cur, i)
<1> DEFINE op == At(prog, i).op
           arg == At(prog, i).arg
           next == Successors(i, op, arg)
<1>1. CASE op \in {"Jump", "Trap"}
  <2>1. next = <<arg>> /\ JumpsTo(cur, i) = {arg}
    BY <1>1 DEF Successors, JumpsTo
  <2> HIDE DEF arg, next
  <2>2. next \in Seq({arg}) /\ DOMAIN next = {1} /\ next[1] = arg
    BY <2>1
  <2> QED BY <2>1, <2>2 DEF IsSequence, next, arg
<1>2. CASE op \in {"JumpIf", "JumpIfNot"}
  <2>1. next = <<arg, blocks[cur]>> /\ JumpsTo(cur, i) = {arg, blocks[cur]}
    BY <1>2 DEF Successors, JumpsTo
  <2> HIDE DEF arg, next
  <2>2. next \in Seq({arg, blocks[cur]}) /\ DOMAIN next = {1, 2} /\ next[1] = arg /\ next[2] = blocks[cur]
    BY <2>1
  <2> QED BY <2>1, <2>2 DEF IsSequence, next, arg
<1>3. CASE op = "JumpTable"
  <2> DEFINE table == [k \in 1..arg |-> At(prog, i + k).arg]
             T == {At(prog, i + k).arg : k \in 1..arg}
  <2>1. next = <<blocks[cur]>> \o table /\ JumpsTo(cur, i) = {blocks[cur]} \cup T
    BY <1>3 DEF Successors, JumpsTo
  <2>2. arg \in Nat /\ table \in Seq(T) /\ Len(table) = arg /\ \A k \in 1..arg : table[k] = At(prog, i + k).arg
    BY <1>3
  <2>3. PICK t : t = table
    OBVIOUS
  <2>4. PICK n : n = arg
    OBVIOUS
  <2>5. PICK U : U = T
    OBVIOUS
  <2>6. U = {t[k] : k \in 1..n}
    BY <2>2, <2>3, <2>4, <2>5
  <2> HIDE DEF arg, next, table, T
  <2>7. t \in Seq(U \cup {blocks[cur]}) /\ Len(t) = n /\ n \in Nat
    BY <2>2, <2>3, <2>4, <2>5
  <2>8. next = <<blocks[cur]>> \o t /\ JumpsTo(cur, i) = {blocks[cur]} \cup U
    BY <2>1, <2>3, <2>5
  <2>9. /\ next \in Seq(U \cup {blocks[cur]}) /\ DOMAIN next = 1..(n + 1) /\ next[1] = blocks[cur]
        /\ \A k \in 1..n : next[k + 1] = t[k]
    BY <2>7, <2>8
  <2>10. ASSUME NEW k \in DOMAIN next PROVE next[k] \in {blocks[cur]} \cup U
    <3>1. k \in 1..(n + 1)
      BY <2>9
    <3>2. k = 1 \/ (k - 1 \in 1..n /\ (k - 1) + 1 = k)
      BY <2>7, <3>1
    <3>3. k # 1 => next[k] = t[k - 1] /\ t[k - 1] \in U
      BY <2>6, <2>9, <3>2
    <3> QED BY <2>9, <3>2, <3>3
  <2>11. ASSUME NEW x \in {blocks[cur]} \cup U PROVE \E k \in DOMAIN next : next[k] = x
    <3>1. CASE x = blocks[cur]
      BY <2>7, <2>9, <3>1
    <3>2. CASE x \in U
      <4>1. PICK k \in 1..n : x = t[k]
        BY <2>6, <3>2
      <4>2. k + 1 \in DOMAIN next /\ next[k + 1] = x
        BY <2>7, <2>9, <4>1
      <4> QED BY <4>2
    <3> QED BY <2>11, <3>1, <3>2
  <2>12. {next[k] : k \in DOMAIN next} = {blocks[cur]} \cup U
    BY <2>10, <2>11
  <2> QED BY <2>8, <2>9, <2>12 DEF IsSequence, next, arg
<1>4. CASE op \notin {"Jump", "Trap", "JumpIf", "JumpIfNot", "JumpTable"}
  <2>1. next = <<>> /\ JumpsTo(cur, i) = {}
    BY <1>4 DEF Successors, JumpsTo
  <2> HIDE DEF arg, next
  <2>2. next \in Seq({}) /\ DOMAIN next = {}
    BY <2>1
  <2> QED BY <2>1, <2>2 DEF IsSequence, next, arg
<1> QED BY <1>1, <1>2, <1>3, <1>4

LEMMA GenerateAdds == ASSUME CodeInv, Generate PROVE AddsCode
<1> DEFINE op == At(prog, at).op
           arg == At(prog, at).arg
<1>1. /\ mode = "compile" /\ todo = <<>> /\ cur # NoBlock /\ at < BlockEnd(cur)
      /\ Same /\ UNCHANGED <<mode, queue, compiled>>
  BY DEF Generate, Same
<1>2. /\ Form /\ Visited /\ Coded /\ cur \in compiled /\ cur \in DOMAIN blocks /\ at \in is
      /\ stacks[cur] = find[at]
  BY <1>1, AtInstruction DEF CodeInv
<1>3. DOMAIN code = DOMAIN blocks \cup {ReturnBlock} /\ compiled = DOMAIN stacks
  BY <1>2 DEF Coded, Visited
<1>4. PICK caught :
          /\ caught = IF op = "Trap" THEN WithFetch(arg) ELSE code
          /\ code' = [caught EXCEPT ![cur] = Append(@, Item("op", at, find[at]))]
  BY <1>2 DEF Generate
<1>5. /\ DOMAIN caught = DOMAIN code /\ caught[cur] = code[cur]
      /\ op = "Trap" =>
             caught[arg] = Append(code[arg], Item("fetch", arg, find[arg])) /\ arg # cur
      /\ \A b \in DOMAIN code : ~(op = "Trap" /\ b = arg) => caught[b] = code[b]
  <2>1. CASE op # "Trap"
    BY <1>4, <2>1
  <2>2. CASE op = "Trap"
    <3>1. arg \in DOMAIN blocks /\ arg # cur /\ arg \notin compiled /\ find[arg] = find[at]
      BY <1>1, <2>2, HandlerIsNew
    <3>2. caught = [code EXCEPT ![arg] = Append(@, Item("fetch", arg, find[arg]))]
      BY <1>2, <1>3, <1>4, <2>2, <3>1 DEF WithFetch
    <3> HIDE DEF op, arg
    <3> QED BY <1>2, <1>3, <2>2, <3>1, <3>2
  <2> QED BY <2>1, <2>2
<1>6. /\ DOMAIN code' = DOMAIN code
      /\ code'[cur] = Append(code[cur], Item("op", at, find[at]))
      /\ \A b \in DOMAIN code : b # cur => code'[b] = caught[b]
  BY <1>2, <1>3, <1>4, <1>5
<1>7. op = "Trap" => code'[arg] = caught[arg]
  <2>1. op = "Trap" => arg \in DOMAIN blocks
    BY <1>1, HandlerIsNew
  <2> QED BY <1>3, <1>5, <1>6, <2>1
<1>8. todo' = Successors(at, op, arg) /\ given' = find[at]
  BY <1>2 DEF Generate
<1>9. op = "JumpTable" => arg \in Nat
  BY <1>1, <1>2, TableGoesOn, Addresses, AtInstruction
<1>10. IsSequence(todo') /\ {todo'[k] : k \in DOMAIN todo'} = JumpsTo(cur, at)
  BY <1>8, <1>9, SuccessorsJump
<1>11. stacks' = [stacks EXCEPT ![cur] = After(find[at], at, op, arg)]
  BY <1>2 DEF Generate
<1>12. /\ DOMAIN stacks' = DOMAIN stacks /\ stacks'[cur] = After(find[at], at, op, arg)
       /\ \A b \in DOMAIN stacks : b # cur => stacks'[b] = stacks[b]
  BY <1>2, <1>3, <1>11
<1> QED BY <1>1, <1>5, <1>6, <1>7, <1>8, <1>10, <1>12 DEF AddsCode

\* The block that is compiled, and the handler of its trap.
LEMMA AddsWhere ==
    ASSUME BlockInv, CodeInv, AddsCode
    PROVE  /\ Form /\ Visited /\ Coded /\ LeadsToKnown /\ Fetching /\ Same
           /\ cur \in compiled /\ cur \in DOMAIN blocks \cap reached /\ cur \in Known /\ cur \in DOMAIN code
           /\ at \in is /\ at \in reached /\ cur <= at /\ stacks[cur] = find[at] /\ ~InQueue(cur)
           /\ ReturnBlock \notin DOMAIN blocks /\ IsSequence(code[cur])
           /\ code'[cur] # <<>> /\ code'[cur][Len(code'[cur])] = Item("op", at, find[at])
           /\ \E k \in DOMAIN code'[cur] : code'[cur][k] = Item("op", at, find[at])
<1>1. mode = "compile" /\ cur # NoBlock /\ at < BlockEnd(cur) /\ Same
      /\ code'[cur] = Append(code[cur], Item("op", at, find[at]))
  BY DEF AddsCode
<1>2. /\ Form /\ Visited /\ Coded /\ LeadsToKnown /\ Fetching
      /\ cur \in compiled /\ cur \in DOMAIN blocks \cap reached /\ at \in is /\ cur <= at
      /\ stacks[cur] = find[at]
  BY <1>1, AtInstruction DEF CodeInv
<1>3. ReturnBlock \notin DOMAIN blocks
  BY <1>2, Addresses DEF ReturnBlock
<1>4. cur \in Known /\ cur \in DOMAIN code
  BY <1>2, <1>3 DEF Known, Coded
<1>5. ~InQueue(cur)
  BY <1>1 DEF BlockInv, Queued, InQueue
<1>6. IsSequence(code[cur])
  BY <1>2, CodeSequence
<1>7. /\ code'[cur] # <<>> /\ code'[cur][Len(code'[cur])] = Item("op", at, find[at])
      /\ \E k \in DOMAIN code'[cur] : code'[cur][k] = Item("op", at, find[at])
  BY <1>1, <1>6, AppendKeeps
<1>8. at \in reached
  BY <1>2 DEF is
<1> QED BY <1>1, <1>2, <1>3, <1>4, <1>5, <1>6, <1>7, <1>8

LEMMA AddsHandler ==
    ASSUME CodeInv, AddsCode, At(prog, at).op = "Trap"
    PROVE  LET h == At(prog, at).arg
           IN  /\ h \in catching /\ h \in DOMAIN blocks \cap reached /\ h \notin Known /\ h # cur
               /\ code[h] = <<>> /\ find[h] = find[at] /\ h \notin compiled /\ h # ReturnBlock
               /\ code'[h] = Append(code[h], Item("fetch", h, find[h]))
               /\ code'[h] # <<>>
               /\ \A k \in DOMAIN code'[h] : code'[h][k] = Item("fetch", h, find[h])
<1> DEFINE h == At(prog, at).arg
           item == Item("fetch", h, find[h])
<1>1. /\ h \in catching /\ h \in DOMAIN blocks \cap reached /\ h \notin Known /\ h # cur
      /\ code[h] = <<>> /\ find[h] = find[at] /\ h \notin compiled /\ h # ReturnBlock
  BY HandlerIsNew DEF AddsCode
<1>2. code'[h] = Append(code[h], item)
  BY DEF AddsCode
<1> HIDE DEF h, item
<1>3. code'[h] = <<item>>
  BY <1>1, <1>2
<1>4. code'[h] # <<>> /\ \A k \in DOMAIN code'[h] : code'[h][k] = item
  BY <1>3
<1> QED BY <1>1, <1>2, <1>4 DEF h, item

\* Nothing that has been made is lost.
LEMMA AddsKeeps ==
    ASSUME BlockInv, CodeInv, AddsCode, NEW b \in DOMAIN blocks
    PROVE  /\ b \in DOMAIN code /\ b \in DOMAIN code'
           /\ \A k \in DOMAIN code[b] : k \in DOMAIN code'[b] /\ code'[b][k] = code[b][k]
           /\ code[b] # <<>> => code'[b] # <<>>
           /\ \A k \in DOMAIN code'[b] :
                  \/ k \in DOMAIN code[b] /\ code'[b][k] = code[b][k]
                  \/ b = cur /\ code'[b][k] = Item("op", at, find[at])
                  \/ /\ At(prog, at).op = "Trap" /\ b = At(prog, at).arg
                     /\ code'[b][k] = Item("fetch", b, find[b])
<1>1. Form /\ Coded /\ DOMAIN code' = DOMAIN code
  BY AddsWhere DEF AddsCode
<1>2. b \in DOMAIN code /\ b \in DOMAIN code' /\ IsSequence(code[b])
  BY <1>1, CodeSequence DEF Coded
<1>3. CASE b = cur
  <2>1. code'[b] = Append(code[b], Item("op", at, find[at]))
    BY <1>3 DEF AddsCode
  <2>2. PICK item : item = Item("op", at, find[at])
    OBVIOUS
  <2>3. \A k \in DOMAIN code'[b] : (k \in DOMAIN code[b] /\ code'[b][k] = code[b][k]) \/ code'[b][k] = item
    BY <1>2, <2>1, <2>2, AppendAny
  <2>4. code'[b] # <<>> /\ \A k \in DOMAIN code[b] : k \in DOMAIN code'[b] /\ code'[b][k] = code[b][k]
    BY <1>2, <2>1, <2>2, AppendKeeps
  <2> QED BY <1>2, <1>3, <2>2, <2>3, <2>4
<1>4. CASE b # cur /\ At(prog, at).op = "Trap" /\ b = At(prog, at).arg
  <2>1. /\ code[b] = <<>> /\ code'[b] # <<>>
        /\ \A k \in DOMAIN code'[b] : code'[b][k] = Item("fetch", b, find[b])
    BY <1>4, AddsHandler
  <2> QED BY <1>2, <1>4, <2>1
<1>5. CASE b # cur /\ ~(At(prog, at).op = "Trap" /\ b = At(prog, at).arg)
  <2>1. code'[b] = code[b]
    BY <1>2, <1>5 DEF AddsCode
  <2> QED BY <1>2, <2>1
<1> QED BY <1>3, <1>4, <1>5

LEMMA AddsKnown ==
    ASSUME BlockInv, CodeInv, AddsCode
    PROVE  /\ Known' = Known \cup (JumpsTo(cur, at) \ {ReturnBlock})
           /\ At(prog, at).op = "Trap" => At(prog, at).arg \in Known'
<1>1. todo = <<>> /\ compiled' = compiled /\ {todo'[k] : k \in DOMAIN todo'} = JumpsTo(cur, at)
  BY DEF AddsCode
<1>2. Known = compiled \ {ReturnBlock}
  BY <1>1 DEF Known
<1>3. Known' = (compiled \cup JumpsTo(cur, at)) \ {ReturnBlock}
  BY <1>1 DEF Known
<1>4. At(prog, at).op = "Trap" => At(prog, at).arg \in JumpsTo(cur, at) /\ At(prog, at).arg # ReturnBlock
  BY AddsHandler DEF JumpsTo
<1> QED BY <1>2, <1>3, <1>4

LEMMA AddsMade == ASSUME BlockInv, CodeInv, AddsCode PROVE Coded'
<1>1. /\ Form /\ Coded /\ Fetching /\ Same /\ cur \in DOMAIN blocks \cap reached /\ cur \in Known
      /\ at \in is /\ at \in reached /\ cur <= at /\ at < BlockEnd(cur)
      /\ ReturnBlock \notin DOMAIN blocks
  BY AddsWhere DEF AddsCode
<1>2. ASSUME NEW b \in DOMAIN blocks PROVE Made(b, code'[b])
  <2>1. Made(b, code[b]) /\ b \in DOMAIN code
    BY <1>1 DEF Coded
  <2>2. CASE b = cur
    <3>1. PICK item : item = Item("op", at, find[at])
      OBVIOUS
    <3>2. item.do = "op" /\ item.pc = at /\ item.slots = find[at].slots /\ item.catch = find[at].catch
      BY <3>1 DEF Item
    <3>3. Place(b, item) = at
      BY <3>2 DEF Place
    <3>4. Good(b, item)
      BY <1>1, <2>2, <3>2, <3>3 DEF Good
    <3>5. Standing(cur, at, code[cur])
      BY DEF CodeInv, Stands, AddsCode
    <3>6. ASSUME code[b] = <<>> PROVE Opening(b, item)
      <4>1. at = cur
        BY <2>2, <3>5, <3>6 DEF Standing
      <4>2. cur \notin catching
        BY <1>1, <2>2, <3>6 DEF Fetching
      <4> QED BY <2>2, <3>2, <3>3, <4>1, <4>2 DEF Opening
    <3>7. ASSUME code[b] # <<>> PROVE Linked(b, code[b][Len(code[b])], item)
      <4>1. at # BlockEnd(cur)
        BY <1>1, Addresses, BlockEnds
      <4> QED BY <2>2, <3>2, <3>3, <3>5, <3>7, <4>1 DEF Standing, Linked
    <3>8. Made(b, Append(code[b], item))
      BY <2>1, <3>4, <3>6, <3>7, AppendItem
    <3> QED BY <2>2, <3>1, <3>8 DEF AddsCode
  <2>3. CASE b # cur /\ At(prog, at).op = "Trap" /\ b = At(prog, at).arg
    <3>1. PICK item : item = Item("fetch", b, find[b])
      OBVIOUS
    <3>2. item.do = "fetch" /\ item.pc = b /\ item.slots = find[b].slots /\ item.catch = find[b].catch
      BY <3>1 DEF Item
    <3>3. Place(b, item) = b
      BY <3>2 DEF Place
    <3>4. b \in catching /\ b \in reached /\ code[b] = <<>> /\ code'[b] = Append(code[b], item)
      BY <2>3, <3>1, AddsHandler
    <3>5. Good(b, item) /\ Opening(b, item)
      BY <3>2, <3>3, <3>4 DEF Good, Opening
    <3>6. Made(b, Append(code[b], item))
      BY <2>1, <3>4, <3>5, AppendItem
    <3> QED BY <3>4, <3>6
  <2>4. CASE b # cur /\ ~(At(prog, at).op = "Trap" /\ b = At(prog, at).arg)
    <3>1. code'[b] = code[b]
      BY <2>1, <2>4 DEF AddsCode
    <3> QED BY <2>1, <3>1
  <2> QED BY <2>2, <2>3, <2>4
<1>3. ReturnBlock \in DOMAIN code /\ ReturnBlock # cur
      /\ (At(prog, at).op = "Trap" => At(prog, at).arg # ReturnBlock)
  BY <1>1, AddsHandler DEF Coded
<1>4. code'[ReturnBlock] = code[ReturnBlock]
  BY <1>3 DEF AddsCode
<1>5. blocks' = blocks /\ DOMAIN code' = DOMAIN code
  BY DEF AddsCode, Same
<1>6. \A b \in DOMAIN blocks' : Made(b, code[b])'
  BY <1>1, <1>2, <1>5, Still
<1> QED BY <1>1, <1>4, <1>5, <1>6 DEF Coded

LEMMA AddsVisited == ASSUME BlockInv, CodeInv, AddsCode PROVE Visited'
<1>1. /\ Form /\ Visited /\ Same /\ cur \in DOMAIN blocks \cap reached /\ at \in is /\ cur <= at
      /\ at < BlockEnd(cur)
  BY AddsWhere DEF AddsCode
<1>2. /\ find' = find /\ reached' = reached /\ chunk' = chunk /\ blocks' = blocks
      /\ compiled' = compiled /\ DOMAIN stacks' = DOMAIN stacks
  BY <1>1, Still DEF AddsCode, Same
<1>3. ASSUME NEW b \in compiled, ~Generated(b)' PROVE stacks'[b] = find[b]
  <2>1. b \in DOMAIN blocks /\ b \in DOMAIN stacks
    BY <1>1 DEF Visited
  <2>2. ~Generated(b)
    BY <1>3, <2>1, AddsKeeps DEF Generated
  <2>3. b # cur
    <3>1. \E k \in DOMAIN code'[cur] : code'[cur][k] = Item("op", at, find[at])
      BY AddsWhere
    <3>2. Item("op", at, find[at]).do = "op"
      BY DEF Item
    <3>3. HasCode(code', cur)
      BY <1>1, <3>1, <3>2, AddsKeeps DEF HasCode
    <3> QED BY <1>3, <3>3, SameCodeNext
  <2>4. stacks'[b] = stacks[b]
    BY <2>1, <2>3 DEF AddsCode
  <2> QED BY <1>1, <2>2, <2>4 DEF Visited
<1>4. IsSequence(todo') /\ given' = find[at]
  BY DEF AddsCode
<1>5. ASSUME NEW k \in DOMAIN todo', todo'[k] # ReturnBlock
      PROVE  todo'[k] \in DOMAIN blocks \cap reached /\ find[todo'[k]] = find[at]
  <2>1. todo'[k] \in JumpsTo(cur, at)
    BY DEF AddsCode
  <2> QED BY <1>1, <1>5, <2>1, JumpsFind
<1>6. Entered(todo)'
  BY <1>2, <1>5 DEF Entered
<1> QED BY <1>1, <1>2, <1>3, <1>4, <1>5, <1>6 DEF Visited

LEMMA AddsLeads == ASSUME BlockInv, CodeInv, AddsCode PROVE LeadsToKnown'
<1>1. /\ Form /\ Visited /\ LeadsToKnown /\ Same /\ cur \in compiled /\ at \in is
      /\ stacks[cur] = find[at] /\ blocks' = blocks /\ compiled' = compiled
  BY AddsWhere DEF AddsCode, Same
<1>2. PICK K : K = Known'
  OBVIOUS
<1>3. Known \subseteq K /\ JumpsTo(cur, at) \subseteq K \cup {ReturnBlock}
      /\ (At(prog, at).op = "Trap" => At(prog, at).arg \in K)
  BY <1>2, AddsKnown
<1>4. Caught(find[at], K)
  BY <1>1, <1>3 DEF LeadsToKnown, Caught
<1>5. ASSUME NEW b \in DOMAIN blocks, NEW k \in DOMAIN code'[b] PROVE Leading(b, code'[b][k], K)
  <2>1. CASE k \in DOMAIN code[b] /\ code'[b][k] = code[b][k]
    <3>1. Leading(b, code[b][k], Known)
      BY <1>1, <2>1 DEF LeadsToKnown
    <3>2. Leading(b, code[b][k], K)
      BY <1>3, <3>1 DEF Leading, Caught
    <3> QED BY <2>1, <3>2
  <2>2. CASE b = cur /\ code'[b][k] = Item("op", at, find[at])
    <3>1. PICK item : item = Item("op", at, find[at])
      OBVIOUS
    <3>2. item.do = "op" /\ item.pc = at /\ item.catch = find[at].catch
      BY <3>1 DEF Item
    <3>3. Leading(b, item, K)
      BY <1>3, <1>4, <2>2, <3>2 DEF Leading, Caught
    <3> QED BY <2>2, <3>1, <3>3
  <2>3. CASE At(prog, at).op = "Trap" /\ b = At(prog, at).arg /\ code'[b][k] = Item("fetch", b, find[b])
    <3>1. PICK item : item = Item("fetch", b, find[b])
      OBVIOUS
    <3>2. find[b] = find[at]
      BY <2>3, AddsHandler
    <3>3. item.do = "fetch" /\ item.catch = find[at].catch
      BY <3>1, <3>2 DEF Item
    <3>4. Leading(b, item, K)
      BY <1>4, <3>3 DEF Leading, Caught
    <3> QED BY <2>3, <3>1, <3>4
  <2> QED BY <2>1, <2>2, <2>3, AddsKeeps
<1>6. ASSUME NEW b \in compiled PROVE Caught(stacks'[b], K)
  <2>1. b \in DOMAIN stacks
    BY <1>1 DEF Visited
  <2>2. CASE b = cur
    <3>1. Caught(After(find[at], at, At(prog, at).op, At(prog, at).arg), K)
      BY <1>1, <1>3, <1>4, CaughtAfter
    <3> QED BY <2>2, <3>1 DEF AddsCode
  <2>3. CASE b # cur
    <3>1. stacks'[b] = stacks[b] /\ Caught(stacks[b], Known)
      BY <1>1, <2>1, <2>3 DEF AddsCode, LeadsToKnown
    <3> QED BY <1>3, <3>1 DEF Caught
  <2> QED BY <2>2, <2>3
<1>7. Caught(given', K)
  BY <1>4 DEF AddsCode
<1>8. \A b \in DOMAIN blocks : \A k \in DOMAIN code'[b] : Leading(b, code[b][k], Known)'
  BY <1>1, <1>2, <1>5, Still
<1> QED BY <1>1, <1>2, <1>6, <1>7, <1>8 DEF LeadsToKnown, Caught

LEMMA AddsFetching == ASSUME BlockInv, CodeInv, AddsCode PROVE Fetching'
<1>1. /\ Form /\ Visited /\ Fetching /\ Same /\ cur \in DOMAIN blocks \cap reached /\ cur \in Known
      /\ at \in is /\ cur <= at /\ at < BlockEnd(cur) /\ cur # ReturnBlock
  BY AddsWhere DEF AddsCode
<1>2. catching' = catching /\ catching \subseteq DOMAIN blocks
      /\ \A f, h : Trapped(f, h)' <=> Trapped(f, h)
  BY <1>1, Still, Catching
<1>3. ASSUME NEW h \in catching, h \in Known' PROVE code'[h] # <<>>
  <2>1. CASE h \in Known
    BY <1>1, <1>2, <2>1, AddsKeeps DEF Fetching
  <2>2. CASE h \in JumpsTo(cur, at) /\ h # ReturnBlock
    <3>1. At(prog, at).op = "Trap" /\ At(prog, at).arg = h
      BY <1>1, <2>2, JumpsFind DEF Traps
    <3> QED BY <3>1, AddsHandler
  <2> QED BY <1>3, <2>1, <2>2, AddsKnown
<1>4. ASSUME NEW h \in catching, code'[h] # <<>> PROVE Trapped(code', h)
  <2>1. CASE code[h] # <<>>
    <3>1. PICK b \in DOMAIN blocks : \E k \in DOMAIN code[b] :
              code[b][k].do = "op" /\ code[b][k].pc \in Traps(prog, is) /\ At(prog, code[b][k].pc).arg = h
      BY <1>1, <2>1 DEF Fetching, Trapped
    <3>2. \E k \in DOMAIN code'[b] :
              code'[b][k].do = "op" /\ code'[b][k].pc \in Traps(prog, is) /\ At(prog, code'[b][k].pc).arg = h
      BY <3>1, AddsKeeps
    <3> QED BY <3>2 DEF Trapped
  <2>2. CASE code[h] = <<>>
    <3>1. h # cur
      BY <1>1, <2>2 DEF Fetching
    <3>2. At(prog, at).op = "Trap" /\ h = At(prog, at).arg
      BY <1>2, <1>4, <2>2, <3>1, AddsKeeps DEF AddsCode
    <3>3. at \in Traps(prog, is)
      BY <1>1, <3>2 DEF Traps
    <3>4. PICK k \in DOMAIN code'[cur] : code'[cur][k] = Item("op", at, find[at])
      BY AddsWhere
    <3>5. code'[cur][k].do = "op" /\ code'[cur][k].pc = at
      BY <3>4 DEF Item
    <3> QED BY <1>1, <3>2, <3>3, <3>5 DEF Trapped
  <2> QED BY <2>1, <2>2
<1> QED BY <1>2, <1>3, <1>4 DEF Fetching

LEMMA AddsStands == ASSUME BlockInv, CodeInv, Generate, AddsCode PROVE Stands'
<1> DEFINE op == At(prog, at).op
           arg == At(prog, at).arg
<1> SUFFICES ASSUME cur' # NoBlock PROVE (cur \in compiled /\ stacks[cur] = find[at] /\ Standing(cur, at, code[cur]))'
  BY DEF Stands
<1>1. /\ Form /\ Visited /\ Coded /\ Same /\ cur \in compiled /\ cur \in DOMAIN blocks \cap reached
      /\ at \in is /\ cur <= at /\ at < BlockEnd(cur) /\ compiled' = compiled
      /\ at \in reached /\ Standing(cur, at, code[cur]) /\ cur # NoBlock
  BY AddsWhere DEF AddsCode, CodeInv, Stands
<1>2. cur' = cur /\ op \notin {"Ret", "Jump"}
      /\ at' = IF op = "JumpTable" THEN BlockEnd(cur) ELSE at + 1
  BY DEF Generate, IgnoresRest
<1>3. stacks'[cur] = After(find[at], at, op, arg)
  BY DEF AddsCode
<1>4. at \in Nat /\ BlockEnd(cur) \in Nat /\ cur \in Nat
  BY <1>1, Addresses, BlockEnds
<1>5. at' \in reached /\ at' \notin catching /\ stacks'[cur] = find[at']
      /\ (op = "JumpTable" => at' = BlockEnd(cur))
      /\ (op # "JumpTable" => at' = at + 1 /\ GoesOn(prog, at))
  <2>1. CASE op = "JumpTable"
    <3>1. blocks[cur] = BlockEnd(cur)
      BY <1>1, <2>1, TableGoesOn
    <3>2. blocks[cur] \in JumpsTo(cur, at) /\ blocks[cur] # ReturnBlock
      BY <1>4, <2>1, <3>1 DEF JumpsTo, ReturnBlock
    <3>3. blocks[cur] \in reached /\ find[blocks[cur]] = find[at] /\ blocks[cur] \notin catching
      BY <1>1, <2>1, <3>2, JumpsFind DEF Traps
    <3>4. After(find[at], at, op, arg) = find[at]
      BY <1>1, <2>1, AfterTable
    <3> QED BY <1>2, <1>3, <2>1, <3>1, <3>3, <3>4
  <2>2. CASE op # "JumpTable"
    <3>1. GoesOn(prog, at)
      BY <1>2, <2>2 DEF GoesOn
    <3> QED BY <1>1, <1>2, <1>3, <2>2, <3>1, GoingOn
  <2> QED BY <2>1, <2>2
<1>6. at < at' /\ cur <= at' /\ at' <= BlockEnd(cur)
  BY <1>1, <1>4, <1>5
<1>7. PICK item : item = Item("op", at, find[at])
  OBVIOUS
<1>8. item.do = "op" /\ item.pc = at
  BY <1>7 DEF Item
<1>9. code'[cur] # <<>> /\ code'[cur][Len(code'[cur])] = item
  BY <1>7, AddsWhere
<1>10. ASSUME NEW k \in DOMAIN code'[cur], code'[cur][k].do = "op" PROVE code'[cur][k].pc < at'
  <2>1. CASE k \in DOMAIN code[cur] /\ code'[cur][k] = code[cur][k]
    <3>1. code[cur][k].pc < at
      BY <1>1, <1>10, <2>1 DEF Standing
    <3>2. code[cur][k].pc \in Nat
      <4>1. code[cur][k].pc \in is
        BY <1>1, <1>10, <2>1 DEF Coded, Made, Good
      <4> QED BY <1>1, <4>1, Reached
    <3>3. at' \in Nat
      BY <1>4, <1>5
    <3> QED BY <1>4, <1>6, <2>1, <3>1, <3>2, <3>3
  <2>2. CASE code'[cur][k] = item
    BY <1>6, <1>8, <2>2
  <2>3. cur # At(prog, at).arg \/ op # "Trap"
    BY AddsHandler
  <2> QED BY <1>1, <1>7, <2>1, <2>2, <2>3, AddsKeeps
<1>11. Standing(cur, at', code'[cur])
  BY <1>5, <1>6, <1>8, <1>9, <1>10 DEF Standing
<1>12. find' = find /\ \A b, a, items : Standing(b, a, items)' <=> Standing(b, a, items)
  BY <1>1, Still
<1> QED BY <1>1, <1>2, <1>5, <1>11, <1>12

LEMMA GenerateCode == ASSUME BlockInv, CodeInv, Generate PROVE CodeInv'
<1>1. AddsCode
  BY GenerateAdds
<1>2. Form' /\ \A items : Whole(items)' <=> Whole(items)
  BY <1>1, AddsWhere, Still
<1>3. /\ mode = "compile" /\ mode' = mode /\ queue' = queue /\ compiled' = compiled /\ blocks' = blocks
      /\ \A b : InQueue(b)' <=> InQueue(b)
  BY <1>1 DEF AddsCode, Same, InQueue
<1>4. /\ cur \in compiled /\ ~InQueue(cur) /\ Coded /\ Visited
      /\ compiled \subseteq DOMAIN blocks
  BY <1>1, AddsWhere DEF Visited
<1>5. Waiting'
  <2> SUFFICES ASSUME NEW b \in DOMAIN blocks, b \notin compiled \/ InQueue(b) PROVE OnlyFetches(code'[b])
    BY <1>3 DEF Waiting, OnlyFetches
  <2>1. b # cur /\ OnlyFetches(code[b])
    BY <1>4 DEF CodeInv, Waiting
  <2>2. Item("fetch", b, find[b]).do = "fetch"
    BY DEF Item
  <2> QED BY <1>1, <2>1, <2>2, AddsKeeps DEF OnlyFetches
<1>6. Finished'
  <2> SUFFICES ASSUME NEW b \in compiled, ~InQueue(b), cur' # b PROVE Whole(code'[b])
    BY <1>2, <1>3 DEF Finished
  <2>1. CASE b = cur
    <3>1. At(prog, at).op \in {"Ret", "Jump"}
      BY <2>1 DEF Generate, IgnoresRest
    <3>2. Item("op", at, find[at]).do = "op" /\ Item("op", at, find[at]).pc = at
      BY DEF Item
    <3>3. code'[b] # <<>> /\ code'[b][Len(code'[b])] = Item("op", at, find[at])
      BY <1>1, <2>1, AddsWhere
    <3> QED BY <3>1, <3>2, <3>3 DEF Whole, Exits
  <2>2. CASE b # cur
    <3>1. Whole(code[b])
      BY <1>3, <2>2 DEF CodeInv, Finished
    <3>2. code[b] # <<>>
      BY <3>1 DEF Whole
    <3>3. ~(At(prog, at).op = "Trap" /\ b = At(prog, at).arg)
      BY <1>1, <3>2, AddsHandler
    <3>4. b \in DOMAIN code
      BY <1>4 DEF Coded
    <3>5. code'[b] = code[b]
      BY <1>1, <2>2, <3>3, <3>4 DEF AddsCode
    <3> QED BY <3>1, <3>5
  <2> QED BY <2>1, <2>2
<1> QED BY <1>1, <1>2, <1>5, <1>6, AddsVisited, AddsMade, AddsLeads, AddsFetching, AddsStands DEF CodeInv

\* The end of a block.
LEMMA AtEnd ==
    ASSUME BlockInv, CodeInv, Close
    PROVE  /\ mode = "compile" /\ todo = <<>> /\ cur # NoBlock /\ mode' = mode /\ cur' = NoBlock
           /\ Same /\ UNCHANGED <<queue, compiled, stacks>>
           /\ Form /\ Visited /\ Coded /\ LeadsToKnown /\ Fetching
           /\ cur \in compiled /\ cur \in DOMAIN blocks \cap reached /\ cur \in Known /\ cur \in DOMAIN code
           /\ at = BlockEnd(cur) /\ at \in reached /\ stacks[cur] = find[at]
           /\ Standing(cur, at, code[cur]) /\ ~InQueue(cur)
           /\ ReturnBlock \notin DOMAIN blocks /\ IsSequence(code[cur])
<1>1. /\ mode = "compile" /\ todo = <<>> /\ cur # NoBlock /\ mode' = mode /\ cur' = NoBlock
      /\ Same /\ UNCHANGED <<queue, compiled, stacks>> /\ at >= BlockEnd(cur)
  BY DEF Close, Same
<1>2. /\ Form /\ Visited /\ Coded /\ LeadsToKnown /\ Fetching /\ cur \in compiled
      /\ stacks[cur] = find[at] /\ Standing(cur, at, code[cur])
  BY <1>1 DEF CodeInv, Stands
<1>3. cur \in DOMAIN blocks \cap reached /\ ReturnBlock \notin DOMAIN blocks
  BY <1>2, Addresses DEF Visited, ReturnBlock
<1>4. cur \in Known /\ cur \in DOMAIN code /\ IsSequence(code[cur])
  BY <1>2, <1>3, CodeSequence DEF Known, Coded
<1>5. at \in reached /\ at <= BlockEnd(cur)
  BY <1>2 DEF Standing
<1>6. at \in Nat /\ BlockEnd(cur) \in Nat
  BY <1>2, <1>3, <1>5, BlockEnds, Addresses
<1>7. at = BlockEnd(cur)
  BY <1>1, <1>5, <1>6
<1>8. ~InQueue(cur)
  BY <1>1 DEF BlockInv, Queued, InQueue
<1> QED BY <1>1, <1>2, <1>3, <1>4, <1>5, <1>7, <1>8

EndsInBranch ==
    code[cur] # <<>> /\ Last(code[cur]).do = "op" /\ At(prog, Last(code[cur]).pc).op \in Branches

LEMMA BranchClosed == ASSUME BlockInv, CodeInv, Close, EndsInBranch PROVE CodeInv'
<1>1. UNCHANGED <<todo, given, code>>
  BY DEF Close, EndsInBranch
<1>2. Visited' /\ Coded' /\ LeadsToKnown' /\ Fetching'
  BY <1>1, AtEnd, CompiledStays
<1>3. Form' /\ (\A items : Whole(items)' <=> Whole(items)) /\ blocks' = blocks
  BY AtEnd, Still DEF Same
<1>4. Stands'
  BY AtEnd DEF Stands
<1>5. compiled' = compiled /\ \A b : InQueue(b)' <=> InQueue(b)
  BY AtEnd DEF InQueue
<1>6. Waiting'
  BY <1>1, <1>3, <1>5 DEF CodeInv, Waiting, OnlyFetches
<1>7. Whole(code[cur])
  BY DEF EndsInBranch, Last, Branches, Whole, Exits
<1>8. Finished'
  BY <1>1, <1>3, <1>5, <1>7, AtEnd DEF CodeInv, Finished
<1> QED BY <1>2, <1>3, <1>4, <1>6, <1>8 DEF CodeInv

\* The jump to the next block.
LEMMA JumpAdded ==
    ASSUME BlockInv, CodeInv, Close, ~EndsInBranch
    PROVE  LET item == Item("br", blocks[cur], find[at])
           IN  /\ DOMAIN code' = DOMAIN code
               /\ code'[cur] = Append(code[cur], item)
               /\ \A b \in DOMAIN code : b # cur => code'[b] = code[b]
               /\ todo' = <<blocks[cur]>> /\ given' = find[at]
               /\ code'[cur] # <<>> /\ code'[cur][Len(code'[cur])] = item
               /\ \A b \in DOMAIN blocks :
                      /\ \A k \in DOMAIN code[b] : k \in DOMAIN code'[b] /\ code'[b][k] = code[b][k]
                      /\ \A k \in DOMAIN code'[b] : \/ k \in DOMAIN code[b] /\ code'[b][k] = code[b][k]
                                                    \/ b = cur /\ code'[b][k] = item
<1>1. PICK item : item = Item("br", blocks[cur], find[at])
  OBVIOUS
<1>2. /\ code' = [code EXCEPT ![cur] = Append(@, item)]
      /\ todo' = <<blocks[cur]>> /\ given' = find[at]
  BY <1>1, AtEnd DEF Close, EndsInBranch
<1>3. /\ DOMAIN code' = DOMAIN code /\ code'[cur] = Append(code[cur], item)
      /\ \A b \in DOMAIN code : b # cur => code'[b] = code[b]
  BY <1>2, AtEnd
<1>4. IsSequence(code[cur]) /\ DOMAIN blocks \subseteq DOMAIN code
  BY AtEnd DEF Coded
<1>5. /\ code'[cur] # <<>> /\ code'[cur][Len(code'[cur])] = item
      /\ \A k \in DOMAIN code[cur] : k \in DOMAIN code'[cur] /\ code'[cur][k] = code[cur][k]
  BY <1>3, <1>4, AppendKeeps
<1>6. \A k \in DOMAIN code'[cur] : (k \in DOMAIN code[cur] /\ code'[cur][k] = code[cur][k]) \/ code'[cur][k] = item
  BY <1>3, <1>4, AppendAny
<1>7. ASSUME NEW b \in DOMAIN blocks
      PROVE  /\ \A k \in DOMAIN code[b] : k \in DOMAIN code'[b] /\ code'[b][k] = code[b][k]
             /\ \A k \in DOMAIN code'[b] : \/ k \in DOMAIN code[b] /\ code'[b][k] = code[b][k]
                                           \/ b = cur /\ code'[b][k] = item
  <2>1. CASE b = cur
    BY <1>5, <1>6, <2>1
  <2>2. CASE b # cur
    BY <1>3, <1>4, <2>2
  <2> QED BY <2>1, <2>2
<1> QED BY <1>1, <1>2, <1>3, <1>5, <1>7

LEMMA NextKnown ==
    ASSUME BlockInv, CodeInv, Close, ~EndsInBranch
    PROVE  /\ Known' = Known \cup ({blocks[cur]} \ {ReturnBlock})
           /\ blocks[cur] # ReturnBlock =>
                  /\ blocks[cur] \in DOMAIN blocks \cap reached /\ blocks[cur] = at
           /\ blocks[cur] \notin catching
<1>1. todo = <<>> /\ todo' = <<blocks[cur]>> /\ compiled' = compiled
  BY AtEnd, JumpAdded
<1>2. Known = compiled \ {ReturnBlock} /\ Known' = (compiled \cup {blocks[cur]}) \ {ReturnBlock}
  <2>1. Known = compiled \ {ReturnBlock}
    BY <1>1 DEF Known
  <2>2. PICK n : n = blocks[cur]
    OBVIOUS
  <2>3. todo' = <<n>>
    BY <1>1, <2>2
  <2>4. {todo'[k] : k \in DOMAIN todo'} = {n}
    BY <2>3
  <2> QED BY <1>1, <2>1, <2>2, <2>4 DEF Known
<1>3. ASSUME blocks[cur] # ReturnBlock
      PROVE  blocks[cur] \in DOMAIN blocks \cap reached /\ blocks[cur] = at /\ at \notin catching
  <2>1. BlockEnd(cur) = blocks[cur] /\ cur < blocks[cur] /\ blocks[cur] \in DOMAIN blocks
    BY <1>3, AtEnd, BlockEnds
  <2>2. cur \in Nat /\ blocks[cur] \in Nat
    BY <2>1, AtEnd, Addresses
  <2>3. at = blocks[cur] /\ at # cur
    BY <2>1, <2>2, AtEnd
  <2> QED BY <2>1, <2>3, AtEnd DEF Standing
<1>4. ReturnBlock \notin catching
  BY AtEnd, Catching
<1> QED BY <1>2, <1>3, <1>4

LEMMA JumpMade == ASSUME BlockInv, CodeInv, Close, ~EndsInBranch PROVE Coded'
<1>1. PICK item : item = Item("br", blocks[cur], find[at])
  OBVIOUS
<1>2. /\ item.do = "br" /\ item.pc = blocks[cur] /\ item.slots = find[at].slots
      /\ item.catch = find[at].catch
  BY <1>1 DEF Item
<1>3. Place(cur, item) = at
  BY <1>2, AtEnd DEF Place
<1>4. Good(cur, item)
  BY <1>2, <1>3, AtEnd, NextKnown DEF Good
<1>5. ASSUME code[cur] = <<>> PROVE Opening(cur, item)
  BY <1>2, <1>3, <1>5, AtEnd DEF Opening, Standing, Fetching
<1>6. ASSUME code[cur] # <<>> PROVE Linked(cur, code[cur][Len(code[cur])], item)
  <2>1. PICK last : last = code[cur][Len(code[cur])]
    OBVIOUS
  <2>2. ~(last.do = "op" /\ At(prog, last.pc).op = "JumpTable")
    BY <1>6, <2>1 DEF EndsInBranch, Last, Branches
  <2>3. \/ last.do = "fetch" /\ at = cur
        \/ last.do = "op" /\ GoesOn(prog, last.pc) /\ at = last.pc + 1
    BY <1>6, <2>1, <2>2, AtEnd DEF Standing
  <2> QED BY <1>2, <1>3, <2>1, <2>3 DEF Linked
<1>7. Coded
  BY AtEnd
<1>8. Made(cur, Append(code[cur], item))
  <2>1. Made(cur, code[cur])
    BY <1>7, AtEnd DEF Coded
  <2> QED BY <1>4, <1>5, <1>6, <2>1, AppendItem
<1>9. ASSUME NEW b \in DOMAIN blocks PROVE Made(b, code'[b])
  <2>1. CASE b = cur
    BY <1>1, <1>8, <2>1, JumpAdded
  <2>2. CASE b # cur
    BY <1>7, <2>2, JumpAdded DEF Coded
  <2> QED BY <2>1, <2>2
<1>10. blocks' = blocks /\ DOMAIN code' = DOMAIN code
  BY AtEnd, JumpAdded DEF Same
<1>11. code'[ReturnBlock] = code[ReturnBlock]
  BY <1>7, AtEnd, JumpAdded DEF Coded
<1>12. \A b \in DOMAIN blocks' : Made(b, code[b])'
  BY <1>9, <1>10, AtEnd, Still
<1> QED BY <1>7, <1>10, <1>11, <1>12 DEF Coded

LEMMA JumpClosed == ASSUME BlockInv, CodeInv, Close, ~EndsInBranch PROVE CodeInv'
<1>1. PICK item : item = Item("br", blocks[cur], find[at])
  OBVIOUS
<1>2. item.do = "br" /\ item.pc = blocks[cur] /\ item.catch = find[at].catch
  BY <1>1 DEF Item
<1>3. /\ Form' /\ find' = find /\ reached' = reached /\ catching' = catching /\ chunk' = chunk
      /\ (\A items : Whole(items)' <=> Whole(items)) /\ blocks' = blocks
      /\ (\A f, h : Trapped(f, h)' <=> Trapped(f, h))
  BY AtEnd, Still DEF Same
<1>4. /\ Form /\ Visited /\ LeadsToKnown /\ Fetching /\ cur \in Known /\ cur \in compiled
      /\ cur \in DOMAIN blocks /\ compiled' = compiled /\ stacks' = stacks
      /\ stacks[cur] = find[at] /\ catching \subseteq DOMAIN blocks
  BY AtEnd, Catching
<1>5. DOMAIN code' = DOMAIN code /\ DOMAIN blocks \subseteq DOMAIN code
  BY AtEnd, JumpAdded DEF Coded
<1>6. Visited'
  <2>1. \A b \in compiled : ~Generated(b)' => ~Generated(b)
    BY <1>4, <1>5, JumpAdded DEF Generated, Visited
  <2>2. PICK n : n = blocks[cur]
    OBVIOUS
  <2>3. todo' = <<n>> /\ given' = find[at]
    BY <2>2, JumpAdded
  <2>4. todo' \in Seq({n}) /\ \A k \in DOMAIN todo' : todo'[k] = n
    BY <2>3
  <2>5. n # ReturnBlock => n \in DOMAIN blocks \cap reached /\ given' = find[n]
    BY <2>2, <2>3, NextKnown
  <2>6. Entered(todo)'
    BY <1>3, <2>4, <2>5 DEF Entered
  <2>7. IsSequence(todo')
    BY <2>4 DEF IsSequence
  <2>8. \A k \in DOMAIN todo' : todo'[k] # ReturnBlock => given' = find[todo'[k]]
    BY <2>4, <2>5
  <2> QED BY <1>3, <1>4, <2>1, <2>6, <2>7, <2>8 DEF Visited
<1>7. LeadsToKnown'
  <2>1. PICK K : K = Known'
    OBVIOUS
  <2>2. Known \subseteq K /\ blocks[cur] \in K \cup {ReturnBlock}
    BY <2>1, NextKnown
  <2>3. Caught(find[at], K) /\ \A b \in compiled : Caught(stacks[b], K)
    BY <1>4, <2>2 DEF LeadsToKnown, Caught
  <2>4. ASSUME NEW b \in DOMAIN blocks, NEW k \in DOMAIN code'[b] PROVE Leading(b, code'[b][k], K)
    <3>1. CASE k \in DOMAIN code[b] /\ code'[b][k] = code[b][k]
      <4>1. Leading(b, code[b][k], Known)
        BY <1>4, <3>1 DEF LeadsToKnown
      <4>2. Leading(b, code[b][k], K)
        BY <2>2, <4>1 DEF Leading, Caught
      <4> QED BY <3>1, <4>2
    <3>2. CASE code'[b][k] = item
      <4>1. Leading(b, item, K)
        BY <1>2, <2>2, <2>3 DEF Leading, Caught
      <4> QED BY <3>2, <4>1
    <3> QED BY <1>1, <3>1, <3>2, JumpAdded
  <2>5. Caught(given', K)
    BY <2>3, JumpAdded
  <2>6. \A b \in DOMAIN blocks : \A k \in DOMAIN code'[b] : Leading(b, code[b][k], Known)'
    BY <2>1, <2>4, AtEnd, Still
  <2> QED BY <1>3, <1>4, <2>1, <2>3, <2>5, <2>6 DEF LeadsToKnown, Caught
<1>8. Fetching'
  <2>1. ASSUME NEW h \in catching, h \in Known' PROVE code'[h] # <<>>
    <3>1. h \in Known
      BY <2>1, NextKnown
    <3>2. code[h] # <<>> /\ h \in DOMAIN code
      BY <1>4, <1>5, <2>1, <3>1 DEF Fetching
    <3> QED BY <3>2, JumpAdded
  <2>2. ASSUME NEW h \in catching, code'[h] # <<>> PROVE Trapped(code', h)
    <3>1. code[h] # <<>>
      <4>1. CASE h = cur
        BY <1>4, <4>1 DEF Fetching
      <4>2. CASE h # cur
        BY <1>4, <1>5, <2>2, <4>2, JumpAdded
      <4> QED BY <4>1, <4>2
    <3>2. PICK b \in DOMAIN blocks : \E k \in DOMAIN code[b] :
              code[b][k].do = "op" /\ code[b][k].pc \in Traps(prog, is) /\ At(prog, code[b][k].pc).arg = h
      BY <1>4, <3>1 DEF Fetching, Trapped
    <3>3. \E k \in DOMAIN code'[b] :
              code'[b][k].do = "op" /\ code'[b][k].pc \in Traps(prog, is) /\ At(prog, code'[b][k].pc).arg = h
      BY <3>2, JumpAdded
    <3> QED BY <3>3 DEF Trapped
  <2> QED BY <1>3, <2>1, <2>2 DEF Fetching
<1>9. Stands'
  BY AtEnd DEF Stands
<1>10. \A b : InQueue(b)' <=> InQueue(b)
  BY AtEnd DEF InQueue
<1>11. Waiting'
  <2> SUFFICES ASSUME NEW b \in DOMAIN blocks, b \notin compiled \/ InQueue(b) PROVE OnlyFetches(code'[b])
    BY <1>3, <1>4, <1>10 DEF Waiting, OnlyFetches
  <2>1. b # cur
    BY AtEnd
  <2>2. code'[b] = code[b]
    BY <1>5, <2>1, JumpAdded
  <2> QED BY <2>2 DEF CodeInv, Waiting
<1>12. Finished'
  <2> SUFFICES ASSUME NEW b \in compiled, ~InQueue(b) PROVE Whole(code'[b])
    BY <1>3, <1>4, <1>10, AtEnd DEF Finished
  <2>1. CASE b = cur
    BY <1>1, <1>2, <2>1, JumpAdded DEF Whole
  <2>2. CASE b # cur
    <3>1. Whole(code[b])
      BY <2>2 DEF CodeInv, Finished
    <3>2. b \in DOMAIN code
      BY <1>4, <1>5 DEF Visited
    <3> QED BY <2>2, <3>1, <3>2, JumpAdded
  <2> QED BY <2>1, <2>2
<1> QED BY <1>3, <1>6, <1>7, <1>8, <1>9, <1>11, <1>12, JumpMade DEF CodeInv

-----------------------------------------------------------------------------
(* The first state, and the code when it runs. *)

LEMMA InitCode == ASSUME Init, WellFormed(prog) PROVE CodeInv
<1>1. /\ chunk \in Chunks(prog) /\ prog \in Programs /\ blocks = Following(prog, chunk)
      /\ mode = "compile" /\ cur = NoBlock /\ todo = <<>>
      /\ queue = <<chunk.from>> /\ compiled = {chunk.from}
      /\ DOMAIN code = DOMAIN blocks \cup {ReturnBlock}
      /\ code[ReturnBlock] = <<Item("ret", ReturnBlock, [slots |-> <<>>, catch |-> <<>>])>>
      /\ \A b \in DOMAIN blocks : b # ReturnBlock => code[b] = <<>>
      /\ DOMAIN stacks = {chunk.from}
      /\ stacks[chunk.from] = [slots |-> Variables(-1, chunk.nargs), catch |-> <<>>]
  BY DEF Init
<1>2. Fits(prog, chunk, find) /\ Balanced(prog, chunk, find, ends)
  <2>1. \E f : \E e : Fits(prog, chunk, f) /\ Balanced(prog, chunk, f, e)
    BY <1>1 DEF WellFormed
  <2>2. \E e : Fits(prog, chunk, find) /\ Balanced(prog, chunk, find, e)
    BY <2>1 DEF find
  <2> QED BY <2>2 DEF ends
<1>3. Form
  BY <1>1, <1>2 DEF Form
<1>4. /\ \A b \in DOMAIN blocks : code[b] = <<>>
      /\ chunk.from \in DOMAIN blocks \cap reached /\ chunk.from # ReturnBlock
  BY <1>1, <1>3, Addresses DEF ReturnBlock
<1>5. stacks[chunk.from] = find[chunk.from]
  BY <1>1, <1>2 DEF Fits
<1>6. IsSequence(<<>>)
  <2>1. <<>> \in Seq({})
    OBVIOUS
  <2> QED BY <2>1 DEF IsSequence
<1>7. Visited
  BY <1>1, <1>4, <1>5, <1>6 DEF Visited, Entered
<1>8. Coded
  BY <1>1, <1>4, <1>6 DEF Coded, Made
<1>9. Known = {chunk.from}
  BY <1>1, <1>4 DEF Known
<1>10. LeadsToKnown
  BY <1>1, <1>4 DEF LeadsToKnown, Caught
<1>11. Fetching
  BY <1>3, <1>4, <1>9, Catching DEF Fetching
<1>12. Stands /\ Waiting
  BY <1>1, <1>4 DEF Stands, Waiting, OnlyFetches
<1>13. InQueue(chunk.from)
  <2>1. PICK b : b = chunk.from
    OBVIOUS
  <2>2. queue = <<b>>
    BY <1>1, <2>1
  <2>3. 1 \in DOMAIN queue /\ queue[1] = b
    BY <2>2
  <2> QED BY <2>1, <2>3 DEF InQueue
<1>14. Finished
  BY <1>1, <1>13 DEF Finished
<1> QED BY <1>3, <1>7, <1>8, <1>10, <1>11, <1>12, <1>14 DEF CodeInv

LEMMA RunKeepsCode == Run => UNCHANGED <<prog, chunk, compiler>>
<1>1. (\A b : Goto(b) => UNCHANGED <<prog, chunk, compiler>>) /\ (Continue => UNCHANGED <<prog, chunk, compiler>>)
      /\ (\A how : Leave(how) => UNCHANGED <<prog, chunk, compiler>>)
  BY DEF Goto, Continue, Leave
<1>2. Fetch \/ Compute \/ Load \/ Store \/ Pop \/ Trap \/ EndTrap => Continue
  BY DEF Fetch, Compute, Load, Store, Pop, Trap, EndTrap
<1>3. Jump \/ Throw \/ Ret => (\E b : Goto(b)) \/ (\E how : Leave(how))
  BY DEF Jump, Throw, Ret
<1> QED BY <1>1, <1>2, <1>3 DEF Run

\* The compiler is done.
LEMMA DoneCode ==
    ASSUME CodeInv, UNCHANGED <<prog, chunk, compiler>>, mode' # "compile",
           mode = "compile" => cur = NoBlock /\ queue = <<>> /\ todo = <<>>
    PROVE  CodeInv'
<1>1. Same /\ UNCHANGED <<queue, todo, given, compiled, stacks, code>> /\ blocks' = blocks
  BY DEF compiler, Same
<1>2. Form' /\ Visited' /\ Coded' /\ LeadsToKnown' /\ Fetching'
      /\ (\A items : Whole(items)' <=> Whole(items))
  BY <1>1, CompiledStays, Still DEF CodeInv
<1>3. Stands' /\ \A b : InQueue(b)' <=> InQueue(b)
  BY <1>1 DEF Stands, InQueue
<1>4. Waiting'
  BY <1>1, <1>3 DEF CodeInv, Waiting, OnlyFetches
<1>5. Finished'
  <2>1. NoBlock \notin compiled
    BY Addresses DEF CodeInv, Visited, NoBlock
  <2> QED BY <1>1, <1>2, <1>3, <2>1 DEF CodeInv, Finished
<1> QED BY <1>2, <1>3, <1>4, <1>5 DEF CodeInv

LEMMA CodeStep == ASSUME BlockInv, CodeInv, [Next]_vars PROVE CodeInv'
<1>1. CASE Close
  BY <1>1, BranchClosed, JumpClosed
<1>2. CASE Start
  BY <1>2, DoneCode, RunStep DEF Start
<1>3. CASE Run
  <2>1. mode # "compile"
    BY <1>3 DEF Run
  <2> QED BY <1>3, <2>1, DoneCode, RunStep, RunKeepsCode
<1>4. CASE UNCHANGED vars
  <2>1. Same /\ UNCHANGED <<queue, todo, given, compiled, stacks, code, mode, cur, at>> /\ blocks' = blocks
    BY <1>4 DEF vars, Same
  <2>2. Form' /\ Visited' /\ Coded' /\ LeadsToKnown' /\ Fetching' /\ find' = find
        /\ (\A items : Whole(items)' <=> Whole(items))
        /\ (\A b, a, items : Standing(b, a, items)' <=> Standing(b, a, items))
    BY <2>1, CompiledStays, Still DEF CodeInv
  <2>3. \A b : InQueue(b)' <=> InQueue(b)
    BY <2>1 DEF InQueue
  <2>4. Stands' /\ Waiting' /\ Finished'
    BY <2>1, <2>2, <2>3 DEF CodeInv, Stands, Waiting, OnlyFetches, Finished
  <2> QED BY <2>2, <2>4 DEF CodeInv
<1> QED BY <1>1, <1>2, <1>3, <1>4, DequeueCode, ReachCode, GenerateCode DEF Next

\* The names of the open handlers.
Naming(open, names) ==
    /\ IsSequence(open) /\ names \in Seq(Int) /\ DOMAIN open = DOMAIN names
    /\ \A k \in DOMAIN names : open[k].handler = names[k]

\* Handlers that are open where an item starts.
OpenAt(b, item) == IF item.do = "fetch" THEN <<b>> \o item.catch ELSE item.catch

RunsWell ==
    /\ mode = "compile" => handlers = <<>>
    /\ mode = "run" =>
           /\ cur \in compiled \cup {ReturnBlock} /\ at \in DOMAIN code[cur]
           /\ cur # ReturnBlock => Naming(handlers, OpenAt(cur, Here))

LEMMA NamingPush ==
    ASSUME NEW open, NEW names, Naming(open, names), NEW t, t.handler \in Int
    PROVE  Naming(<<t>> \o open, <<t.handler>> \o names)
<1>1. PICK S : open \in Seq(S)
  BY DEF Naming, IsSequence
<1>2. PICK h : h = t.handler
  OBVIOUS
<1>3. open \in Seq(S \cup {t}) /\ names \in Seq(Int) /\ h \in Int
      /\ DOMAIN open = 1..Len(open) /\ DOMAIN names = 1..Len(names) /\ Len(open) = Len(names) /\ Len(open) \in Nat
  BY <1>1, <1>2 DEF Naming
<1>4. /\ <<t>> \o open \in Seq(S \cup {t}) /\ DOMAIN (<<t>> \o open) = 1..(Len(open) + 1)
      /\ (<<t>> \o open)[1] = t /\ \A k \in 1..Len(open) : (<<t>> \o open)[k + 1] = open[k]
  BY <1>3
<1>5. /\ <<h>> \o names \in Seq(Int) /\ DOMAIN (<<h>> \o names) = 1..(Len(open) + 1)
      /\ (<<h>> \o names)[1] = h /\ \A k \in 1..Len(open) : (<<h>> \o names)[k + 1] = names[k]
  BY <1>3
<1>6. ASSUME NEW k \in 1..(Len(open) + 1) PROVE (<<t>> \o open)[k].handler = (<<h>> \o names)[k]
  <2>1. CASE k = 1
    BY <1>2, <1>4, <1>5, <2>1
  <2>2. CASE k # 1
    <3>1. k - 1 \in 1..Len(open) /\ (k - 1) + 1 = k
      BY <1>3, <2>2
    <3>2. open[k - 1].handler = names[k - 1]
      BY <1>3, <3>1 DEF Naming
    <3> QED BY <1>4, <1>5, <3>1, <3>2
  <2> QED BY <2>1, <2>2
<1>7. IsSequence(<<t>> \o open)
  BY <1>4 DEF IsSequence
<1> QED BY <1>2, <1>4, <1>5, <1>6, <1>7 DEF Naming

LEMMA NamingPop ==
    ASSUME NEW open, NEW names, Naming(open, names), names # <<>>
    PROVE  Naming(Tail(open), Tail(names))
<1>1. PICK S : open \in Seq(S)
  BY DEF Naming, IsSequence
<1>2. /\ names \in Seq(Int) /\ DOMAIN open = 1..Len(open) /\ DOMAIN names = 1..Len(names)
      /\ Len(open) = Len(names) /\ Len(open) \in Nat
  BY <1>1 DEF Naming
<1>3. Len(names) # 0 /\ open # <<>>
  BY <1>2
<1>4. /\ Tail(open) \in Seq(S) /\ Tail(names) \in Seq(Int)
      /\ DOMAIN Tail(open) = 1..(Len(open) - 1) /\ DOMAIN Tail(names) = 1..(Len(names) - 1)
  BY <1>1, <1>2, <1>3
<1>5. ASSUME NEW k \in DOMAIN Tail(names)
      PROVE  Tail(open)[k] = open[k + 1] /\ Tail(names)[k] = names[k + 1] /\ k + 1 \in DOMAIN names
  BY <1>1, <1>2, <1>3, <1>4
<1>6. \A k \in DOMAIN Tail(names) : Tail(open)[k].handler = Tail(names)[k]
  BY <1>5 DEF Naming
<1> QED BY <1>2, <1>4, <1>6 DEF Naming, IsSequence

\* The item that runs.
LEMMA RunningItem ==
    ASSUME CodeInv, RunsWell, mode = "run", cur # ReturnBlock
    PROVE  /\ Form /\ \A b \in compiled : Whole(code[b]) /\ Made(b, code[b]) /\ b \in DOMAIN blocks \cap reached
           /\ cur \in compiled /\ cur \in DOMAIN blocks \cap reached /\ at \in DOMAIN code[cur]
           /\ Here = code[cur][at] /\ Made(cur, code[cur]) /\ Whole(code[cur])
           /\ Good(cur, Here) /\ Here.catch \in Seq(Int) /\ Leading(cur, Here, compiled)
           /\ Naming(handlers, OpenAt(cur, Here))
           /\ Place(cur, Here) \in reached /\ Here.catch = find[Place(cur, Here)].catch
           /\ Here.do = "op" => Here.pc \in is /\ Here.catch = find[Here.pc].catch
<1>1. /\ Form /\ Visited /\ Coded /\ LeadsToKnown /\ queue = <<>> /\ todo = <<>>
      /\ cur \in compiled /\ at \in DOMAIN code[cur] /\ Naming(handlers, OpenAt(cur, Here))
  BY DEF CodeInv, Finished, RunsWell
<1>2. \A b : ~InQueue(b)
  BY <1>1 DEF InQueue
<1>3. \A b \in compiled : Whole(code[b]) /\ Made(b, code[b]) /\ b \in DOMAIN blocks \cap reached
  BY <1>1, <1>2 DEF CodeInv, Finished, Visited, Coded
<1>4. Here = code[cur][at]
  BY DEF Here
<1>5. Good(cur, Here) /\ Leading(cur, Here, Known)
  BY <1>1, <1>3, <1>4 DEF Made, LeadsToKnown
<1>6. Known \subseteq compiled
  BY <1>1 DEF Known
<1>7. Leading(cur, Here, compiled)
  BY <1>5, <1>6 DEF Leading, Caught
<1>8. Place(cur, Here) \in reached /\ Here.catch = find[Place(cur, Here)].catch
  BY <1>5 DEF Good
<1>9. Here.catch \in Seq(Int)
  BY <1>1, <1>8, Finds
<1>10. Here.do = "op" => Here.pc \in is /\ Here.catch = find[Here.pc].catch
  BY <1>5 DEF Good, Place
<1> QED BY <1>1, <1>3, <1>4, <1>5, <1>7, <1>8, <1>9, <1>10

\* A block starts with the code that fetches the exception, or with an
\* instruction that finds the block's stack.
HandlersOf(b) == IF b \in catching THEN <<b>> \o find[b].catch ELSE find[b].catch

LEMMA Enters ==
    ASSUME Form, NEW b, NEW items, Made(b, items), Whole(items)
    PROVE  1 \in DOMAIN items /\ OpenAt(b, items[1]) = HandlersOf(b)
<1>1. PICK S : items \in Seq(S)
  BY DEF Made, IsSequence
<1>2. items # <<>> /\ 1 \in DOMAIN items
  BY <1>1 DEF Whole
<1>3. Opening(b, items[1]) /\ Good(b, items[1])
  BY <1>2 DEF Made
<1>4. items[1].catch = find[b].catch
  BY <1>3 DEF Opening, Good
<1> QED BY <1>2, <1>3, <1>4 DEF Opening, OpenAt, HandlersOf

LEMMA GoesTo ==
    ASSUME CodeInv, RunsWell, mode = "run", cur # ReturnBlock, NEW j, Goto(j),
           j # ReturnBlock => j \in compiled /\ Naming(handlers, HandlersOf(j))
    PROVE  RunsWell'
<1>1. /\ cur' = j /\ at' = 1 /\ mode' = "run" /\ handlers' = handlers /\ code' = code
      /\ compiled' = compiled
  BY DEF Goto, compiler, running
<1>2. CASE j = ReturnBlock
  <2>1. code[j] = <<Item("ret", ReturnBlock, [slots |-> <<>>, catch |-> <<>>])>>
    BY <1>2 DEF CodeInv, Coded
  <2>2. 1 \in DOMAIN code[j]
    BY <2>1
  <2> QED BY <1>1, <1>2, <2>2 DEF RunsWell
<1>3. CASE j # ReturnBlock
  <2>1. Form /\ Made(j, code[j]) /\ Whole(code[j])
    BY <1>3, RunningItem
  <2>2. 1 \in DOMAIN code[j] /\ OpenAt(j, code[j][1]) = HandlersOf(j)
    BY <2>1, Enters
  <2>3. Here' = code[j][1]
    BY <1>1 DEF Here
  <2>4. OpenAt(cur, Here)' = OpenAt(j, code[j][1])
    BY <1>1, <2>3 DEF OpenAt
  <2>5. Naming(handlers', OpenAt(cur, Here)')
    BY <1>1, <1>3, <2>2, <2>4
  <2> QED BY <1>1, <1>3, <2>2, <2>5 DEF RunsWell, Naming
<1> QED BY <1>2, <1>3

LEMMA GoesNext ==
    ASSUME CodeInv, RunsWell, mode = "run", cur # ReturnBlock, Continue,
           Here.do = "fetch" \/ (Here.do = "op" /\ Op \notin Exits),
           NEW names, Naming(handlers', names),
           Here.do = "fetch" => names = find[cur].catch,
           Here.do = "op" => names = After(find[Here.pc], Here.pc, Op, Arg).catch
    PROVE  RunsWell'
<1>1. /\ cur' = cur /\ at' = at + 1 /\ mode' = "run" /\ code' = code /\ compiled' = compiled
  BY DEF Continue, compiler
<1>2. PICK next : next = code[cur][at + 1]
  OBVIOUS
<1>3. at + 1 \in DOMAIN code[cur] /\ Linked(cur, Here, next)
  <2>1. at + 1 \in DOMAIN code[cur] /\ Linked(cur, code[cur][at], code[cur][at + 1])
    BY RunningItem, Follows DEF Op
  <2> QED BY <1>2, <2>1, RunningItem
<1>4. Good(cur, next) /\ Form
  BY <1>2, <1>3, RunningItem DEF Made
<1>5. next.catch = names
  <2>1. next.catch = find[Place(cur, next)].catch
    BY <1>4 DEF Good
  <2>2. CASE Here.do = "fetch"
    BY <1>3, <2>1, <2>2 DEF Linked
  <2>3. CASE Here.do = "op"
    <3>1. GoesOn(prog, Here.pc) /\ Place(cur, next) = Here.pc + 1 /\ Here.pc \in is
      BY <1>3, <2>3, RunningItem DEF Linked
    <3>2. find[Here.pc + 1] = After(find[Here.pc], Here.pc, Op, Arg)
      BY <1>4, <3>1, GoingOn DEF Op, Arg
    <3> QED BY <2>1, <2>3, <3>1, <3>2
  <2> QED BY <2>2, <2>3
<1>6. Here' = next
  BY <1>1, <1>2 DEF Here
<1>7. OpenAt(cur, Here)' = names
  BY <1>3, <1>5, <1>6 DEF OpenAt, Linked
<1> QED BY <1>1, <1>3, <1>7, RunningItem DEF RunsWell, Naming

\* Instructions that leave the handlers as they are.
LEMMA LeavesHandlers ==
    ASSUME CodeInv, RunsWell, mode = "run", cur # ReturnBlock, Continue, handlers' = handlers,
           Here.do = "op", Op \notin Exits \cup {"Trap", "EndTrap"}
    PROVE  RunsWell'
<1>1. Here.pc \in is /\ Form /\ Here.pc \in reached /\ Here.catch = find[Here.pc].catch
  BY RunningItem DEF is
<1>2. PICK i, op, arg : i = Here.pc /\ op = Op /\ arg = Arg
  OBVIOUS
<1>3. After(find[i], i, op, arg).catch = Here.catch
  <2>1. PICK s : s = find[i]
    OBVIOUS
  <2>2. s \in StackRecords
    BY <1>1, <1>2, <2>1, FindsRecord
  <2>3. After(s, i, op, arg).catch = CatchAfter(op, arg, s.catch)
    BY <2>2, AfterCatch
  <2>4. CatchAfter(op, arg, s.catch) = s.catch
    BY <1>2 DEF CatchAfter
  <2> QED BY <1>1, <1>2, <2>1, <2>3, <2>4
<1>4. Naming(handlers', Here.catch)
  BY RunningItem DEF OpenAt
<1> QED BY <1>2, <1>3, <1>4, GoesNext

LEMMA PlainGoesOn == ASSUME NEW op, op \in Plain \cup {"TailCall", "Push", "SetStack"}
                     PROVE  op \notin Exits \cup {"Trap", "EndTrap"}
BY DEF Plain, Binary, PopsParameter, Exits

LEMMA RunCode ==
    ASSUME CodeInv, RunsWell, Run PROVE RunsWell'
<1>1. mode = "run"
  BY DEF Run
<1>2. \A how : Leave(how) /\ how \in {"returned", "thrown"} => RunsWell'
  BY DEF Leave, RunsWell
<1>3. CASE cur = ReturnBlock
  <2>1. code[cur] = <<Item("ret", ReturnBlock, [slots |-> <<>>, catch |-> <<>>])>>
    BY <1>3 DEF CodeInv, Coded
  <2>2. at \in DOMAIN code[cur]
    BY <1>1 DEF RunsWell
  <2>3. Here = Item("ret", ReturnBlock, [slots |-> <<>>, catch |-> <<>>])
    BY <2>1, <2>2 DEF Here
  <2>4. Here.do = "ret"
    BY <2>3 DEF Item
  <2>5. Ret
    BY <2>4 DEF Run
  <2> QED BY <1>2, <2>5 DEF Ret
<1>4. CASE cur # ReturnBlock
  <2>1. /\ Form /\ cur \in DOMAIN blocks \cap reached /\ Good(cur, Here) /\ Leading(cur, Here, compiled)
        /\ Here.catch \in Seq(Int) /\ Naming(handlers, OpenAt(cur, Here))
        /\ Here.do = "op" => Here.pc \in is /\ Here.pc \in reached /\ Here.catch = find[Here.pc].catch
    BY <1>1, <1>4, RunningItem DEF is
  <2>2. ASSUME Here.do = "br", Goto(Here.pc) PROVE RunsWell'
    <3>1. Here.pc = blocks[cur] /\ Here.pc \notin catching /\ Here.pc \in compiled \cup {ReturnBlock}
          /\ Here.catch = find[BlockEnd(cur)].catch
      BY <2>1, <2>2 DEF Good, Leading, Place
    <3>2. Here.pc # ReturnBlock => BlockEnd(cur) = Here.pc
      BY <2>1, <3>1, BlockEnds
    <3>3. Here.pc # ReturnBlock => Naming(handlers, HandlersOf(Here.pc))
      BY <2>1, <2>2, <3>1, <3>2 DEF OpenAt, HandlersOf
    <3> QED BY <1>1, <1>4, <2>2, <3>1, <3>3, GoesTo
  <2>3. ASSUME Here.do = "fetch", Fetch PROVE RunsWell'
    <3>1. Naming(handlers, <<cur>> \o Here.catch) /\ Here.catch = find[cur].catch
      BY <2>1, <2>3 DEF OpenAt, Good, Place
    <3>2. cur \in Int /\ <<cur>> \o Here.catch # <<>> /\ Tail(<<cur>> \o Here.catch) = Here.catch
      <4>1. cur \in Int
        BY <2>1, Addresses
      <4> QED BY <2>1, <4>1
    <3>3. handlers' = Tail(handlers) /\ Continue
      BY <2>3 DEF Fetch
    <3>4. Naming(handlers', Here.catch)
      BY <3>1, <3>2, <3>3, NamingPop
    <3> QED BY <1>1, <1>4, <2>3, <3>1, <3>3, <3>4, GoesNext
  <2>4. ASSUME Here.do = "op", Compute \/ Load \/ Store \/ Pop PROVE RunsWell'
    <3>1. Continue /\ handlers' = handlers
      BY <2>4 DEF Compute, Load, Store, Pop, running
    <3>2. Op \in Plain \cup {"TailCall", "Push", "SetStack"}
      BY <2>4 DEF Compute, Load, Store, Pop, Loads, Plain, PopsParameter
    <3>3. Op \notin Exits \cup {"Trap", "EndTrap"}
      BY <3>2, PlainGoesOn
    <3> QED BY <1>1, <1>4, <2>4, <3>1, <3>3, LeavesHandlers
  <2>5. ASSUME Here.do = "op", Jump PROVE RunsWell'
    <3>1. PICK j \in JumpsTo(cur, Here.pc) : Goto(j) /\ Op # "Trap"
      <4>1. PICK j : /\ Goto(j) /\ Op \in {"Jump", "JumpIf", "JumpIfNot", "JumpTable"}
                     /\ \/ Op # "JumpTable" /\ j = Arg
                        \/ Op # "Jump" /\ j = blocks[cur]
                        \/ Op = "JumpTable" /\ \E k \in 1..Arg : j = At(prog, Here.pc + k).arg
        BY <2>5 DEF Jump
      <4>2. j \in JumpsTo(cur, Here.pc)
        BY <4>1 DEF JumpsTo, Op, Arg
      <4> QED BY <4>1, <4>2
    <3>2. j \in compiled \cup {ReturnBlock}
      BY <2>1, <2>5 DEF Leading
    <3>3. j # ReturnBlock => find[j] = find[Here.pc] /\ j \notin catching
      <4>1. cur <= Here.pc /\ Here.pc < BlockEnd(cur) /\ Here.pc \in is
        BY <2>1, <2>5 DEF Good
      <4> QED BY <2>1, <3>1, <4>1, JumpsFind DEF Traps, Op
    <3>4. j # ReturnBlock => Naming(handlers, HandlersOf(j))
      BY <2>1, <2>5, <3>3 DEF OpenAt, HandlersOf
    <3> QED BY <1>1, <1>4, <3>1, <3>2, <3>4, GoesTo
  <2>6. ASSUME Here.do = "op", Trap PROVE RunsWell'
    <3>1. PICK t : t = [handler |-> Arg, below |-> Len(Here.slots)]
      OBVIOUS
    <3>2. Op = "Trap" /\ handlers' = <<t>> \o handlers /\ Continue
      BY <2>6, <3>1 DEF Trap
    <3>3. t.handler = Arg /\ Arg \in Int
      BY <2>1, <2>6, <3>1, Reached DEF Arg
    <3>4. Naming(handlers, Here.catch)
      BY <2>1, <2>6 DEF OpenAt
    <3>5. Naming(handlers', <<Arg>> \o Here.catch)
      BY <3>2, <3>3, <3>4, NamingPush
    <3>6. After(find[Here.pc], Here.pc, Op, Arg).catch = <<Arg>> \o Here.catch
      <4>1. PICK i, arg, s : i = Here.pc /\ arg = Arg /\ s = find[i]
        OBVIOUS
      <4>2. s \in StackRecords
        BY <2>1, <2>6, <4>1, FindsRecord
      <4>3. After(s, i, "Trap", arg).catch = CatchAfter("Trap", arg, s.catch)
        BY <4>2, AfterCatch
      <4>4. CatchAfter("Trap", arg, s.catch) = <<arg>> \o s.catch
        BY DEF CatchAfter
      <4> QED BY <2>1, <2>6, <3>2, <4>1, <4>3, <4>4
    <3> QED BY <1>1, <1>4, <2>6, <3>2, <3>5, <3>6, GoesNext DEF Exits
  <2>7. ASSUME Here.do = "op", EndTrap PROVE RunsWell'
    <3>1. Op = "EndTrap" /\ handlers' = Tail(handlers) /\ Continue
      BY <2>7 DEF EndTrap
    <3>2. Naming(handlers, Here.catch) /\ Here.catch # <<>>
      BY <2>1, <2>7, <3>1, OpensTraps DEF OpenAt, Op
    <3>3. Naming(handlers', Tail(Here.catch))
      BY <3>1, <3>2, NamingPop
    <3>4. After(find[Here.pc], Here.pc, Op, Arg).catch = Tail(Here.catch)
      <4>1. PICK i, arg, s : i = Here.pc /\ arg = Arg /\ s = find[i]
        OBVIOUS
      <4>2. s \in StackRecords
        BY <2>1, <2>7, <4>1, FindsRecord
      <4>3. After(s, i, "EndTrap", arg).catch = CatchAfter("EndTrap", arg, s.catch)
        BY <4>2, AfterCatch
      <4>4. CatchAfter("EndTrap", arg, s.catch) = Tail(s.catch)
        BY DEF CatchAfter
      <4> QED BY <2>1, <2>7, <3>1, <4>1, <4>3, <4>4
    <3> QED BY <1>1, <1>4, <2>7, <3>1, <3>3, <3>4, GoesNext DEF Exits
  <2>8. ASSUME Here.do = "op", Throw PROVE RunsWell'
    <3>1. CASE Here.catch = <<>>
      BY <1>2, <2>8, <3>1 DEF Throw
    <3>2. CASE Here.catch # <<>>
      <4>1. PICK h : h = Head(Here.catch)
        OBVIOUS
      <4>2. Goto(h)
        BY <2>8, <3>2, <4>1 DEF Throw
      <4>3. h \in catching /\ find[h].catch = Tail(Here.catch)
        BY <2>1, <2>8, <3>2, <4>1, Catching
      <4>4. h \in compiled
        <5>1. 1 \in DOMAIN Here.catch /\ h = Here.catch[1]
          BY <2>1, <3>2, <4>1
        <5> QED BY <2>1, <5>1 DEF Leading, Caught
      <4>5. <<h>> \o Tail(Here.catch) = Here.catch
        BY <2>1, <3>2, <4>1
      <4>6. Naming(handlers, HandlersOf(h))
        BY <2>1, <2>8, <4>3, <4>5 DEF OpenAt, HandlersOf
      <4> QED BY <1>1, <1>4, <4>2, <4>4, <4>6, GoesTo
    <3> QED BY <3>1, <3>2
  <2>9. ASSUME Ret PROVE RunsWell'
    BY <1>2, <2>9 DEF Ret
  <2> QED BY <2>2, <2>3, <2>4, <2>5, <2>6, <2>7, <2>8, <2>9 DEF Run
<1> QED BY <1>3, <1>4

\* The code of a function starts with the code of its first instruction.
LEMMA FirstItem ==
    ASSUME CodeInv, RunsWell, Start
    PROVE  LET b == chunk.from
           IN  /\ Form /\ b \in compiled /\ b \in DOMAIN blocks /\ b \notin catching
               /\ find[b] = [slots |-> Variables(-1, chunk.nargs), catch |-> <<>>]
               /\ Made(b, code[b]) /\ Whole(code[b]) /\ Opening(b, code[b][1])
               /\ cur' = b /\ Here' = code[b][1]
<1>1. /\ mode = "compile" /\ todo = <<>> /\ cur = NoBlock /\ queue = <<>>
      /\ mode' = "run" /\ cur' = chunk.from /\ at' = 1 /\ code' = code
  BY DEF Start, compiler
<1>2. PICK b : b = chunk.from
  OBVIOUS
<1>3. Form /\ b \in compiled /\ b \in DOMAIN blocks /\ b \notin catching
  BY <1>2, Catching DEF CodeInv, Visited
<1>4. find[b] = [slots |-> Variables(-1, chunk.nargs), catch |-> <<>>]
  BY <1>2, <1>3 DEF Form, Fits
<1>5. Made(b, code[b]) /\ Whole(code[b])
  <2>1. NoBlock \notin compiled /\ ~InQueue(b)
    BY <1>1, <1>3, Addresses DEF CodeInv, Visited, NoBlock, InQueue
  <2> QED BY <1>1, <1>3, <2>1 DEF CodeInv, Coded, Finished
<1>6. Opening(b, code[b][1])
  BY <1>5 DEF Made, Whole
<1>7. Here' = code[b][1]
  BY <1>1, <1>2 DEF Here
<1> QED BY <1>1, <1>2, <1>3, <1>4, <1>5, <1>6, <1>7

LEMMA StartCode == ASSUME CodeInv, RunsWell, Start PROVE RunsWell'
<1>1. /\ mode = "compile" /\ handlers = <<>> /\ mode' = "run" /\ at' = 1 /\ code' = code
      /\ handlers' = <<>> /\ compiled' = compiled
  BY DEF Start, compiler, running, RunsWell
<1>2. PICK b : b = chunk.from
  OBVIOUS
<1>3. /\ Form /\ b \in compiled /\ b \in DOMAIN blocks /\ b \notin catching
      /\ find[b] = [slots |-> Variables(-1, chunk.nargs), catch |-> <<>>]
      /\ Made(b, code[b]) /\ Whole(code[b]) /\ cur' = b /\ Here' = code[b][1]
  BY <1>2, FirstItem
<1>4. find[b].catch = <<>>
  BY <1>3
<1>5. 1 \in DOMAIN code[b] /\ OpenAt(b, code[b][1]) = <<>>
  BY <1>3, <1>4, Enters DEF HandlersOf
<1>6. OpenAt(cur, Here)' = <<>>
  BY <1>3, <1>5 DEF OpenAt
<1>7. Naming(<<>>, <<>>)
  <2>1. <<>> \in Seq(Int) /\ DOMAIN <<>> = {}
    OBVIOUS
  <2> QED BY <2>1 DEF Naming, IsSequence
<1> QED BY <1>1, <1>3, <1>5, <1>6, <1>7 DEF RunsWell, Naming

RunInv == BlockInv /\ CodeInv /\ RunsWell

LEMMA RunStepSound == ASSUME BlockInv, CodeInv, RunsWell, [Next]_vars PROVE RunsWell'
<1>1. CASE Dequeue \/ Generate \/ Reach \/ Close
  <2>1. mode = "compile" /\ mode' = "compile" /\ handlers' = handlers
    BY <1>1 DEF Dequeue, Generate, Reach, Close, running
  <2> QED BY <2>1 DEF RunsWell
<1>2. CASE Start
  BY <1>2, StartCode
<1>3. CASE Run
  BY <1>3, RunCode
<1>4. CASE UNCHANGED vars
  <2>1. UNCHANGED <<mode, cur, at, code, compiled, handlers>>
    BY <1>4 DEF vars
  <2>2. OpenAt(cur, Here)' = OpenAt(cur, Here)
    BY <2>1 DEF OpenAt, Here
  <2> QED BY <2>1, <2>2 DEF RunsWell, Naming
<1> QED BY <1>1, <1>2, <1>3, <1>4 DEF Next

\* Programs whose functions, however they are run through, find one stack
\* at each instruction.
WellFormedPrograms == \A p \in Programs : WellFormed(p)

LEMMA RunInvHolds == ASSUME WellFormedPrograms PROVE Spec => []RunInv
<1>1. Init => RunInv
  <2> SUFFICES ASSUME Init PROVE RunInv
    OBVIOUS
  <2>1. WellFormed(prog)
    BY DEF Init, WellFormedPrograms
  <2>2. RunsWell
    BY DEF Init, RunsWell
  <2> QED BY <2>1, <2>2, InitBlocks, InitCode DEF RunInv
<1>2. RunInv /\ BlockInv' /\ [Next]_vars => RunInv'
  BY CodeStep, RunStepSound DEF RunInv
<1> QED BY <1>1, <1>2, BlockInvHolds, PTL DEF Spec

\* checkAndCopyStack and the assertion that is commented out in
\* copyOrCheckStack (blocks.h:52): all jumps that lead to a block bring the
\* stack that it was first given, whatever order the blocks are compiled in.
THEOREM StacksAlwaysAgree == ASSUME WellFormedPrograms PROVE Spec => []StacksAgree
<1>1. RunInv => StacksAgree
  <2> SUFFICES ASSUME RunInv, NEW b \in {todo[k] : k \in DOMAIN todo} \cap DOMAIN stacks
               PROVE  EntryStack(b) = given
    BY DEF StacksAgree
  <2>1. Form /\ Visited /\ Coded
    BY DEF RunInv, CodeInv
  <2>2. b \in DOMAIN blocks \cap reached /\ b \in compiled /\ b # ReturnBlock
    BY <2>1, Addresses DEF Visited, ReturnBlock
  <2>3. given = find[b]
    BY <2>1, <2>2 DEF Visited
  <2>4. CASE code[b] = <<>>
    <3>1. ~Generated(b)
      BY <2>4 DEF Generated
    <3> QED BY <2>1, <2>2, <2>3, <2>4, <3>1 DEF Visited, EntryStack
  <2>5. CASE code[b] # <<>>
    <3>1. Made(b, code[b]) /\ 1 \in DOMAIN code[b]
      BY <2>1, <2>2, <2>5, CodeSequence DEF Coded
    <3>2. Opening(b, code[b][1]) /\ Good(b, code[b][1])
      BY <2>5, <3>1 DEF Made
    <3>3. code[b][1].slots = find[b].slots /\ code[b][1].catch = find[b].catch
      BY <3>2 DEF Opening, Good
    <3>4. find[b] = [slots |-> find[b].slots, catch |-> find[b].catch]
      BY <2>1, <2>2, Finds
    <3>5. EntryStack(b) = [slots |-> code[b][1].slots, catch |-> code[b][1].catch]
      BY <2>5 DEF EntryStack
    <3> QED BY <2>3, <3>3, <3>4, <3>5
  <2> QED BY <2>4, <2>5
<1> QED BY <1>1, RunInvHolds, PTL

\* callPrimitive (llvm_instr_helper.cpp) binds the innermost catch block of the
\* compile-time stack into each call: when the call is made, that block's trap
\* is the innermost one that is set up, on every path that leads there.
THEOREM HandlersAreAlwaysOpen == ASSUME WellFormedPrograms PROVE Spec => []HandlersAreOpen
<1>1. RunInv => HandlersAreOpen
  <2> SUFFICES ASSUME RunInv, mode = "run", Here.do = "op"
               PROVE  Here.catch = [k \in DOMAIN handlers |-> handlers[k].handler]
    BY DEF HandlersAreOpen
  <2>1. CodeInv /\ RunsWell /\ Coded
    BY DEF RunInv, CodeInv
  <2>2. cur # ReturnBlock
    <3> SUFFICES ASSUME cur = ReturnBlock PROVE FALSE
      OBVIOUS
    <3>1. code[cur] = <<Item("ret", ReturnBlock, [slots |-> <<>>, catch |-> <<>>])>>
      BY <2>1 DEF Coded
    <3>2. Here = Item("ret", ReturnBlock, [slots |-> <<>>, catch |-> <<>>])
      BY <2>1, <3>1 DEF RunsWell, Here
    <3> QED BY <3>2 DEF Item
  <2>3. Naming(handlers, Here.catch)
    BY <2>1, <2>2, RunningItem DEF OpenAt
  <2> QED BY <2>3 DEF Naming
<1> QED BY <1>1, RunInvHolds, PTL

-----------------------------------------------------------------------------
(* Values read through slots. *)

\* What the variables of s hold in memory f.
Reads(f, s) == [k \in DOMAIN s |-> IF s[k] \in DOMAIN f THEN f[s[k]] ELSE Unset]

Apart(s) == \A j, k \in DOMAIN s : s[j] = s[k] => j = k

LEMMA ReadsSequence ==
    ASSUME NEW f, NEW S, NEW s \in Seq(S)
    PROVE  /\ IsSequence(Reads(f, s)) /\ Len(Reads(f, s)) = Len(s)
           /\ DOMAIN Reads(f, s) = 1..Len(s) /\ Len(s) \in Nat
           /\ \A k \in 1..Len(s) : Reads(f, s)[k] = IF s[k] \in DOMAIN f THEN f[s[k]] ELSE Unset
<1> DEFINE r == Reads(f, s)
           V == {r[k] : k \in 1..Len(s)}
<1>1. DOMAIN r = 1..Len(s) /\ Len(s) \in Nat
  BY DEF Reads
<1>2. r \in [1..Len(s) -> V]
  BY <1>1 DEF Reads
<1>3. r \in Seq(V) /\ Len(r) = Len(s)
  BY <1>1, <1>2
<1> QED BY <1>1, <1>3 DEF IsSequence, Reads

LEMMA ReadsShorter ==
    ASSUME NEW f, NEW S, NEW s \in Seq(S), NEW m \in 0..Len(s)
    PROVE  Reads(f, SubSeq(s, 1, m)) = SubSeq(Reads(f, s), 1, m)
<1>1. PICK r : r = Reads(f, s)
  OBVIOUS
<1>2. PICK V : r \in Seq(V)
  BY <1>1, ReadsSequence DEF IsSequence
<1>3. Len(r) = Len(s) /\ \A k \in 1..Len(s) : r[k] = IF s[k] \in DOMAIN f THEN f[s[k]] ELSE Unset
  BY <1>1, ReadsSequence
<1>4. DOMAIN SubSeq(s, 1, m) = 1..m /\ \A k \in 1..m : SubSeq(s, 1, m)[k] = s[k]
  OBVIOUS
<1>5. /\ SubSeq(r, 1, m) = [k \in 1..m |-> r[k]]
  BY <1>2, <1>3
<1>6. Reads(f, SubSeq(s, 1, m)) = [k \in 1..m |-> r[k]]
  BY <1>3, <1>4 DEF Reads
<1> QED BY <1>1, <1>5, <1>6

\* A store into one variable.
LEMMA ReadsStore ==
    ASSUME NEW S, NEW s \in Seq(S), Apart(s), NEW j \in DOMAIN s, NEW a
    PROVE  Reads(Stored({s[j]}, a), s) = [Reads(mem, s) EXCEPT ![j] = a]
<1>1. PICK f, g : f = mem /\ g = Stored({s[j]}, a)
  OBVIOUS
<1>2. DOMAIN g = DOMAIN f \cup {s[j]} /\ g[s[j]] = a /\ \A v \in DOMAIN f : v # s[j] => g[v] = f[v]
  BY <1>1 DEF Stored
<1>3. \A k \in DOMAIN s : k # j => s[k] # s[j]
  BY DEF Apart
<1>4. \A k \in DOMAIN s : Reads(g, s)[k] = IF k = j THEN a ELSE Reads(f, s)[k]
  BY <1>2, <1>3 DEF Reads
<1>5. DOMAIN Reads(g, s) = DOMAIN s /\ DOMAIN Reads(f, s) = DOMAIN s
  BY DEF Reads
<1>6. PICK p, q : p = Reads(f, s) /\ q = Reads(g, s)
  OBVIOUS
<1>7. p = [k \in DOMAIN s |-> p[k]] /\ q = [k \in DOMAIN s |-> IF k = j THEN a ELSE p[k]]
  BY <1>4, <1>6 DEF Reads
<1>8. [p EXCEPT ![j] = a] = [k \in DOMAIN s |-> IF k = j THEN a ELSE p[k]]
  BY <1>7
<1> QED BY <1>1, <1>6, <1>7, <1>8

LEMMA Joined ==
    ASSUME NEW S, NEW s \in Seq(S), NEW t \in Seq(S)
    PROVE  /\ s \o t \in Seq(S) /\ Len(s \o t) = Len(s) + Len(t) /\ Len(s) \in Nat /\ Len(t) \in Nat
           /\ DOMAIN s = 1..Len(s) /\ DOMAIN t = 1..Len(t) /\ DOMAIN (s \o t) = 1..(Len(s) + Len(t))
           /\ \A k \in 1..Len(s) : (s \o t)[k] = s[k]
           /\ \A k \in 1..Len(t) : (s \o t)[Len(s) + k] = t[k]
OBVIOUS

LEMMA Between ==
    ASSUME NEW m \in Nat, NEW n \in Nat, NEW k \in 1..(m + n)
    PROVE  k \in 1..m \/ \E j \in 1..n : k = m + j
<1>1. ASSUME k \notin 1..m PROVE \E j \in 1..n : k = m + j
  <2>1. k - m \in 1..n /\ k = m + (k - m)
    BY <1>1
  <2> QED BY <2>1
<1> QED BY <1>1

\* New variables behind those that are there.
Others(s, new) == \A k \in DOMAIN s : \A j \in DOMAIN new : s[k] # new[j]

Wrote(f, g, new, a) ==
    /\ DOMAIN g = DOMAIN f \cup {new[j] : j \in DOMAIN new}
    /\ \A j \in DOMAIN new : g[new[j]] = a
    /\ \A v \in DOMAIN f : (\A j \in DOMAIN new : v # new[j]) => g[v] = f[v]

Alike(s, new) == \E S : s \in Seq(S) /\ new \in Seq(S)

Copies(n, a) == [j \in 1..n |-> a]

LEMMA ReadsMore ==
    ASSUME NEW f, NEW s, NEW new, Alike(s, new), Others(s, new), NEW g, NEW a, Wrote(f, g, new, a)
    PROVE  Reads(g, s \o new) = Reads(f, s) \o Copies(Len(new), a)
<1>13. PICK S : s \in Seq(S) /\ new \in Seq(S)
  BY DEF Alike
<1>0. PICK n \in Nat : n = Len(new)
  BY <1>13
<1>1. PICK r : r = Reads(f, s)
  OBVIOUS
<1>2. PICK V : r \in Seq(V)
  BY <1>1, <1>13, ReadsSequence DEF IsSequence
<1>3. PICK m \in Nat : m = Len(s) /\ m = Len(r) /\ DOMAIN s = 1..m
  BY <1>1, <1>13, ReadsSequence
<1>4. \A k \in 1..m : r[k] = IF s[k] \in DOMAIN f THEN f[s[k]] ELSE Unset
  BY <1>1, <1>3, <1>13, ReadsSequence
<1>5. /\ DOMAIN (s \o new) = 1..(m + n)
      /\ \A k \in 1..m : (s \o new)[k] = s[k]
      /\ \A k \in 1..n : (s \o new)[m + k] = new[k]
  <2>1. /\ DOMAIN (s \o new) = 1..(Len(s) + Len(new))
        /\ \A k \in 1..Len(s) : (s \o new)[k] = s[k]
        /\ \A k \in 1..Len(new) : (s \o new)[Len(s) + k] = new[k]
    BY <1>13
  <2> QED BY <1>0, <1>3, <2>1
<1>6. PICK t : t = [j \in 1..n |-> a] /\ t = Copies(Len(new), a)
  BY <1>0 DEF Copies
<1>7. t \in Seq({a}) /\ Len(t) = n /\ \A j \in 1..n : t[j] = a
  BY <1>6
<1>8. r \in Seq(V \cup {a}) /\ t \in Seq(V \cup {a})
  BY <1>2, <1>7
<1>9. /\ DOMAIN (r \o t) = 1..(m + n) /\ r \o t \in Seq(V \cup {a})
      /\ \A k \in 1..m : (r \o t)[k] = r[k]
      /\ \A k \in 1..n : (r \o t)[m + k] = a
  <2>1. /\ r \o t \in Seq(V \cup {a}) /\ DOMAIN (r \o t) = 1..(Len(r) + Len(t))
        /\ \A k \in 1..Len(r) : (r \o t)[k] = r[k]
        /\ \A k \in 1..Len(t) : (r \o t)[Len(r) + k] = t[k]
    BY <1>8, Joined
  <2> QED BY <1>3, <1>7, <2>1
<1>10. ASSUME NEW k \in 1..(m + n) PROVE Reads(g, s \o new)[k] = (r \o t)[k]
  <2>1. Reads(g, s \o new)[k] = IF (s \o new)[k] \in DOMAIN g THEN g[(s \o new)[k]] ELSE Unset
    BY <1>5 DEF Reads
  <2>2. CASE k \in 1..m
    <3>1. (s \o new)[k] = s[k] /\ k \in DOMAIN s /\ (r \o t)[k] = r[k]
      BY <1>3, <1>5, <1>9, <2>2
    <3>2. s[k] \in DOMAIN g <=> s[k] \in DOMAIN f
      BY <3>1 DEF Others, Wrote
    <3>3. s[k] \in DOMAIN f => g[s[k]] = f[s[k]]
      BY <3>1 DEF Others, Wrote
    <3> QED BY <1>4, <2>1, <2>2, <3>1, <3>2, <3>3
  <2>3. CASE \E j \in 1..n : k = m + j
    <3>1. PICK j \in 1..n : k = m + j
      BY <2>3
    <3>2. (s \o new)[k] = new[j] /\ (r \o t)[k] = a
      BY <1>5, <1>9, <3>1
    <3>3. new[j] \in DOMAIN g /\ g[new[j]] = a
      BY <1>0, <3>1 DEF Wrote
    <3> QED BY <2>1, <3>2, <3>3
  <2> QED BY <1>3, <2>2, <2>3, Between
<1>11. DOMAIN Reads(g, s \o new) = 1..(m + n)
  BY <1>5 DEF Reads
<1>12. Reads(g, s \o new) = r \o t
  <2>1. Reads(g, s \o new) = [k \in 1..(m + n) |-> Reads(g, s \o new)[k]]
    BY <1>5 DEF Reads
  <2>2. PICK q : q = r \o t
    OBVIOUS
  <2>3. q \in Seq(V \cup {a}) /\ DOMAIN q = 1..(m + n)
    BY <1>9, <2>2
  <2>4. q = [k \in 1..(m + n) |-> q[k]]
    BY <2>3
  <2> QED BY <1>10, <2>1, <2>2, <2>4
<1> QED BY <1>0, <1>1, <1>6, <1>12

-----------------------------------------------------------------------------
(* Where the code is, and what the interpreter has there. *)

Spot == IF cur = ReturnBlock THEN limit ELSE Place(cur, Here)

\* The instructions behind a tail call do nothing but return.
Returning == cur # ReturnBlock => Here.do # "fetch" /\ Spot \in ends

\* What is below a trap is what its handler finds.
Level(open) == \A k \in DOMAIN open : open[k].below = Len(find[open[k].handler].slots)

RunsTrue ==
    /\ mode = "compile" =>
           /\ acc = Entry /\ tailcalled = FALSE
           /\ mem = [v \in {Variable(-1, i) : i \in 1..chunk.nargs} |-> Argument(v.n)]
    /\ mode = "run" =>
           /\ Level(handlers)
           /\ cur = ReturnBlock => handlers = <<>> /\ limit \in reached
           /\ tailcalled \in BOOLEAN
           /\ tailcalled => Returning

LEMMA LimitFinds ==
    ASSUME Form, limit \in reached
    PROVE  /\ limit = Len(prog.code) /\ At(prog, limit).op = "Last"
           /\ find[limit].slots = <<>> /\ find[limit].catch = <<>>
<1>1. limit = Len(prog.code) /\ find[limit] = [slots |-> <<>>, catch |-> <<>>]
  BY DEF Form, Balanced, reached, limit
<1>2. At(prog, limit) = [op |-> "Last", arg |-> 0]
  BY <1>1 DEF At
<1> QED BY <1>1, <1>2

LEMMA Balance ==
    ASSUME Form, NEW i \in is
    PROVE  LET op == At(prog, i).op
               arg == At(prog, i).arg
               depth == Len(find[i].slots)
           IN  /\ op \in Loads \cup {"SetStack"} => Slot(op, arg) \in 0..(depth - 1)
               /\ op \in {"Ret", "TailCall"} => find[i].catch = <<>>
               /\ op = "TailCall" => i + 1 \in ends
               /\ i \in ends =>
                      \/ op = "Ret"
                      \/ op = "Jump" /\ arg \in ends
                      \/ op = "Pop" /\ i + 1 \in ends
               /\ op = "EndTrap" => Len(find[Head(find[i].catch)].slots) + TrapSize = depth
               /\ find[i].catch # <<>> => IsPrefix(find[Head(find[i].catch)].slots, find[i].slots)
BY DEF Form, Balanced, reached, is, limit

LEMMA View ==
    ASSUME CodeInv, RunsWell, RunsTrue, mode = "run", tailcalled = FALSE
    PROVE  /\ Form /\ Mode = "run" /\ Address = Spot /\ Spot \in reached
           /\ Data = Reads(mem, find[Spot].slots)
           /\ Acc = IF AtFetch THEN Exception ELSE acc
           /\ Open = IF AtFetch THEN Tail(handlers) ELSE handlers
           /\ AtFetch <=> Here.do = "fetch"
<1>1. ~Ended /\ Mode = "run"
  BY DEF Ended, Mode
<1>2. /\ Acc = IF AtFetch THEN Exception ELSE acc
      /\ Open = IF AtFetch THEN Tail(handlers) ELSE handlers
      /\ AtFetch <=> Here.do = "fetch"
  BY <1>1 DEF Acc, Open, AtFetch
<1>3. /\ Data = Reads(mem, Here.slots)
      /\ Address = IF Here.pc = ReturnBlock THEN limit ELSE Here.pc
  BY <1>1 DEF Data, Reads, Read, Address, limit, Limit
<1>4. CASE cur = ReturnBlock
  <2>1. Form /\ code[cur] = <<Item("ret", ReturnBlock, [slots |-> <<>>, catch |-> <<>>])>>
    BY <1>4 DEF CodeInv, Coded
  <2>2. at \in DOMAIN code[cur] /\ limit \in reached
    BY <1>4 DEF RunsWell, RunsTrue
  <2>3. Here = Item("ret", ReturnBlock, [slots |-> <<>>, catch |-> <<>>])
    BY <2>1, <2>2 DEF Here
  <2>4. Here.pc = ReturnBlock /\ Here.slots = <<>>
    BY <2>3 DEF Item
  <2>5. Spot = limit /\ find[limit].slots = <<>>
    BY <1>4, <2>1, <2>2, LimitFinds DEF Spot
  <2> QED BY <1>1, <1>2, <1>3, <2>1, <2>2, <2>4, <2>5
<1>5. CASE cur # ReturnBlock
  <2>1. Form /\ cur \in DOMAIN blocks /\ Good(cur, Here) /\ Place(cur, Here) \in reached
    BY <1>5, RunningItem
  <2>2. Spot = Place(cur, Here) /\ Here.slots = find[Spot].slots
    BY <1>5, <2>1 DEF Spot, Good
  <2>3. Address = Spot
    <3>1. CASE Here.do = "op"
      <4>1. Here.pc \in is /\ Spot = Here.pc
        BY <2>1, <2>2, <3>1 DEF Good, Place
      <4>2. Here.pc # ReturnBlock
        BY <2>1, <4>1, Reached DEF ReturnBlock
      <4> QED BY <1>3, <4>1, <4>2
    <3>2. CASE Here.do = "br"
      <4>1. Here.pc = blocks[cur] /\ Spot = BlockEnd(cur)
        BY <2>1, <2>2, <3>2 DEF Good, Place
      <4> QED BY <1>3, <2>1, <4>1, BlockEnds
    <3>3. CASE Here.do = "fetch"
      <4>1. Spot = cur
        BY <2>2, <3>3 DEF Place
      <4>2. Here.pc = cur
        BY <2>1, <3>3 DEF Good
      <4> QED BY <1>3, <1>5, <4>1, <4>2
    <3> QED BY <2>1, <3>1, <3>2, <3>3 DEF Good
  <2> QED BY <1>1, <1>2, <1>3, <2>1, <2>2, <2>3
<1> QED BY <1>4, <1>5

-----------------------------------------------------------------------------
(* Variables are new: no instruction finds one that it makes itself. *)

MadeAt(i) == \E b \in DOMAIN blocks : \E k \in DOMAIN code[b] : code[b][k].do = "op" /\ code[b][k].pc = i

\* The slots of s are apart, and made by instructions in D, or arguments.
MadeIn(s, D) == Apart(s) /\ \A k \in DOMAIN s : s[k].at = -1 \/ s[k].at \in D

Instructed == {i \in is : MadeAt(i)}

NewItem(item) ==
    /\ Apart(item.slots)
    /\ item.do = "op" => \A j \in DOMAIN item.slots : item.slots[j].at # item.pc

NewSlots ==
    /\ \A b \in Known : MadeIn(find[b].slots, Instructed)
    /\ mode = "compile" /\ cur # NoBlock => MadeIn(find[at].slots, Instructed)
    /\ \A b \in DOMAIN blocks : \A k \in DOMAIN code[b] : NewItem(code[b][k])

LEMMA MadeInMore ==
    ASSUME NEW s, NEW D, NEW E, D \subseteq E, MadeIn(s, D)
    PROVE  MadeIn(s, E)
BY DEF MadeIn

LEMMA ApartVariables ==
    ASSUME NEW i \in Int, NEW n \in Nat
    PROVE  /\ Variables(i, n) \in Seq([at : Int, n : Int]) /\ Len(Variables(i, n)) = n
           /\ DOMAIN Variables(i, n) = 1..n
           /\ \A k \in 1..n : Variables(i, n)[k] = Variable(i, k) /\ Variable(i, k).at = i
           /\ Apart(Variables(i, n))
<1>1. \A k \in 1..n : Variable(i, k) \in [at : Int, n : Int] /\ Variable(i, k).at = i /\ Variable(i, k).n = k
  BY DEF Variable
<1>2. PICK S : S = [at : Int, n : Int]
  OBVIOUS
<1>3. PICK v : v = Variables(i, n)
  OBVIOUS
<1>4. v = [k \in 1..n |-> Variable(i, k)]
  BY <1>3 DEF Variables
<1>5. v \in Seq(S) /\ Len(v) = n /\ DOMAIN v = 1..n /\ \A k \in 1..n : v[k] = Variable(i, k)
  BY <1>1, <1>2, <1>4
<1>6. Apart(v)
  BY <1>1, <1>5 DEF Apart
<1> QED BY <1>1, <1>2, <1>3, <1>5, <1>6

\* The stack behind an instruction.
MadeBy(v, i) == Apart(v) /\ \A k \in DOMAIN v : v[k].at = i

LEMMA MadeInJoined ==
    ASSUME NEW S, NEW t \in Seq(S), NEW v \in Seq(S), NEW D, NEW i \in Nat, i \notin D,
           MadeIn(t, D), MadeBy(v, i)
    PROVE  MadeIn(t \o v, D \cup {i})
<1>1. PICK m, n, w : m = Len(t) /\ n = Len(v) /\ w = t \o v
  OBVIOUS
<1>2. /\ DOMAIN w = 1..(m + n) /\ m \in Nat /\ n \in Nat /\ DOMAIN t = 1..m /\ DOMAIN v = 1..n
      /\ \A k \in 1..m : w[k] = t[k]
      /\ \A k \in 1..n : w[m + k] = v[k]
  <2>1. /\ Len(t) \in Nat /\ Len(v) \in Nat /\ DOMAIN t = 1..Len(t) /\ DOMAIN v = 1..Len(v)
        /\ DOMAIN (t \o v) = 1..(Len(t) + Len(v))
    BY Joined
  <2>2. \A k \in 1..Len(t) : (t \o v)[k] = t[k]
    BY Joined
  <2>3. \A k \in 1..Len(v) : (t \o v)[Len(t) + k] = v[k]
    BY Joined
  <2> QED BY <1>1, <2>1, <2>2, <2>3
<1>3. ASSUME NEW k \in DOMAIN w
      PROVE  \/ k \in 1..m /\ w[k] = t[k] /\ w[k].at # i
             \/ \E j \in 1..n : k = m + j /\ w[k] = v[j] /\ w[k].at = i
  <2>1. ASSUME k \in 1..m PROVE w[k] = t[k] /\ w[k].at # i
    <3>1. w[k] = t[k] /\ k \in DOMAIN t
      BY <1>2, <2>1
    <3>2. t[k].at = -1 \/ t[k].at \in D
      BY <3>1 DEF MadeIn
    <3> QED BY <3>1, <3>2
  <2>2. ASSUME NEW j \in 1..n, k = m + j PROVE w[k] = v[j] /\ w[k].at = i
    <3>1. w[k] = v[j] /\ j \in DOMAIN v
      BY <1>2, <2>2
    <3> QED BY <3>1 DEF MadeBy
  <2>3. k \in 1..(m + n) /\ m \in Nat /\ n \in Nat
    BY <1>2
  <2>4. k \in 1..m \/ \E j \in 1..n : k = m + j
    BY <2>3, Between
  <2> QED BY <2>1, <2>2, <2>4
<1>4. ASSUME NEW j \in DOMAIN w, NEW k \in DOMAIN w, w[j] = w[k] PROVE j = k
  <2>1. CASE w[j].at = i
    <3>1. PICK x \in 1..n : j = m + x /\ w[j] = v[x]
      BY <1>3, <2>1
    <3>2. PICK y \in 1..n : k = m + y /\ w[k] = v[y]
      BY <1>3, <1>4, <2>1
    <3>3. x = y
      <4>1. x \in DOMAIN v /\ y \in DOMAIN v /\ v[x] = v[y]
        BY <1>2, <1>4, <3>1, <3>2
      <4> QED BY <4>1 DEF MadeBy, Apart
    <3> QED BY <3>1, <3>2, <3>3
  <2>2. CASE w[j].at # i
    <3>1. j \in 1..m /\ w[j] = t[j] /\ k \in 1..m /\ w[k] = t[k]
      BY <1>3, <1>4, <2>2
    <3>2. Apart(t) /\ j \in DOMAIN t /\ k \in DOMAIN t /\ t[j] = t[k]
      BY <1>2, <1>4, <3>1 DEF MadeIn
    <3> QED BY <3>2 DEF Apart
  <2> QED BY <2>1, <2>2
<1>5. ASSUME NEW k \in DOMAIN w PROVE w[k].at = -1 \/ w[k].at \in D \cup {i}
  <2>1. CASE k \in 1..m /\ w[k] = t[k]
    <3>1. k \in DOMAIN t
      BY <1>2, <2>1
    <3> QED BY <2>1, <3>1 DEF MadeIn
  <2>2. CASE w[k].at = i
    BY <2>2
  <2> QED BY <1>3, <2>1, <2>2
<1>6. MadeIn(w, D \cup {i})
  BY <1>4, <1>5 DEF MadeIn, Apart
<1> QED BY <1>1, <1>6

LEMMA MadeInBehind ==
    ASSUME Form, NEW i \in is, GoesOn(prog, i), NEW D, i \notin D, MadeIn(find[i].slots, D)
    PROVE  MadeIn(find[i + 1].slots, D \cup {i})
<1>1. PICK S : S = [at : Int, n : Int]
  OBVIOUS
<1>2. PICK s, m, n : /\ s = find[i].slots /\ n = Makes(At(prog, i).op)
                     /\ m = Len(find[i].slots) - Takes(At(prog, i).op, At(prog, i).arg)
  OBVIOUS
<1>3. i \in Nat /\ i \in reached /\ s \in Seq(S) /\ Len(s) \in Nat /\ n \in Nat
  <2>1. i \in Nat /\ i \in reached
    BY Reached
  <2>2. s \in Seq(S)
    BY <1>1, <1>2, <2>1, Finds
  <2>3. n \in Nat
    BY <1>2, BlockAssumption DEF Makes
  <2> QED BY <2>1, <2>2, <2>3
<1>4. m \in 0..Len(s)
  <2>1. PICK x : x = Takes(At(prog, i).op, At(prog, i).arg)
    OBVIOUS
  <2>2. x \in 0..Len(s)
    BY <1>2, <2>1, GoingOn
  <2>3. m = Len(s) - x
    BY <1>2, <2>1
  <2> QED BY <1>3, <2>2, <2>3
<1>5. PICK t, v : t = SubSeq(s, 1, m) /\ v = Variables(i, n)
  OBVIOUS
<1>6. find[i + 1].slots = t \o v
  <2>1. PICK f, op, arg : f = find[i] /\ op = At(prog, i).op /\ arg = At(prog, i).arg
    OBVIOUS
  <2>2. find[i + 1] = Behind(f, i, op, arg)
    BY <2>1, GoingOn
  <2>3. Behind(f, i, op, arg).slots = SubSeq(f.slots, 1, Len(f.slots) - Takes(op, arg)) \o Variables(i, Makes(op))
    BY DEF Behind
  <2>4. f.slots = s /\ n = Makes(op) /\ m = Len(f.slots) - Takes(op, arg)
    BY <1>2, <2>1
  <2> QED BY <1>5, <2>2, <2>3, <2>4
<1>7. t \in Seq(S) /\ Len(t) = m /\ \A k \in 1..m : t[k] = s[k]
  <2>1. s \in Seq(S) /\ m \in 0..Len(s)
    BY <1>3, <1>4
  <2> QED BY <1>5, <2>1, Shorter
<1>8. MadeIn(t, D)
  <2>1. DOMAIN t = 1..m /\ 1..m \subseteq DOMAIN s
    BY <1>3, <1>4, <1>7
  <2>2. MadeIn(s, D)
    BY <1>2
  <2>3. \A k \in DOMAIN t : k \in DOMAIN s /\ t[k] = s[k]
    BY <1>7, <2>1
  <2> QED BY <2>2, <2>3 DEF MadeIn, Apart
<1>9. v \in Seq(S) /\ MadeBy(v, i)
  <2>1. i \in Int /\ n \in Nat
    BY <1>3
  <2>2. v \in Seq(S) /\ Apart(v)
    BY <1>1, <1>5, <2>1, ApartVariables
  <2>3. DOMAIN v = 1..n /\ \A k \in 1..n : v[k] = Variable(i, k) /\ Variable(i, k).at = i
    BY <1>5, <2>1, ApartVariables
  <2> QED BY <2>2, <2>3 DEF MadeBy
<1>10. MadeIn(t \o v, D \cup {i})
  BY <1>3, <1>7, <1>8, <1>9, MadeInJoined
<1> QED BY <1>6, <1>10

LEMMA InstructedStays ==
    ASSUME Form, Same, UNCHANGED code
    PROVE  Instructed' = Instructed /\ blocks' = blocks
BY Still DEF Instructed, MadeAt, Same

LEMMA AddsNew == ASSUME BlockInv, CodeInv, NewSlots, Generate PROVE NewSlots'
<1>1. AddsCode
  BY GenerateAdds
<1>2. /\ Form /\ Coded /\ Same /\ cur \in Known /\ cur \in DOMAIN blocks \cap reached /\ at \in is /\ cur <= at
      /\ at < BlockEnd(cur) /\ mode = "compile" /\ cur # NoBlock /\ at \in Nat
  BY <1>1, AddsWhere, Reached DEF AddsCode
<1>3. find' = find /\ is' = is /\ blocks' = blocks /\ mode' = mode
  BY <1>1, <1>2, Still DEF Same, AddsCode
<1>4. MadeIn(find[at].slots, Instructed)
  BY <1>2 DEF NewSlots
<1>5. at \notin Instructed
  <2>1. \A b \in DOMAIN blocks : \A k \in DOMAIN code[b] : code[b][k].do = "op" => code[b][k].pc # at
    BY <1>2, AtInstruction
  <2> QED BY <2>1 DEF Instructed, MadeAt
<1>6. PICK D, E : D = Instructed /\ E = Instructed'
  OBVIOUS
<1>7. D \subseteq E /\ at \in E
  <2>1. ASSUME NEW i \in is, MadeAt(i) PROVE MadeAt(i)'
    <3>1. PICK b \in DOMAIN blocks : \E k \in DOMAIN code[b] : code[b][k].do = "op" /\ code[b][k].pc = i
      BY <2>1 DEF MadeAt
    <3>2. PICK k \in DOMAIN code[b] : code[b][k].do = "op" /\ code[b][k].pc = i
      BY <3>1
    <3>3. k \in DOMAIN code'[b] /\ code'[b][k] = code[b][k]
      BY <1>1, AddsKeeps
    <3> QED BY <1>3, <3>2, <3>3 DEF MadeAt
  <2>3. E = {i \in is : MadeAt(i)'}
    BY <1>3, <1>6 DEF Instructed
  <2>4. D \subseteq E
    BY <1>6, <2>1, <2>3 DEF Instructed
  <2>5. at \in E
    <3>1. PICK k \in DOMAIN code'[cur] : code'[cur][k] = Item("op", at, find[at])
      BY <1>1, AddsWhere
    <3>2. code'[cur][k].do = "op" /\ code'[cur][k].pc = at
      BY <3>1 DEF Item
    <3>3. \E b \in DOMAIN blocks' : \E j \in DOMAIN code'[b] : code'[b][j].do = "op" /\ code'[b][j].pc = at
      BY <1>2, <1>3, <3>2
    <3> QED BY <1>2, <1>3, <1>6, <3>3 DEF Instructed, MadeAt
  <2> QED BY <2>4, <2>5
<1>8. ASSUME NEW b \in Known' PROVE MadeIn(find[b].slots, E)
  <2>1. CASE b \in Known
    <3>1. MadeIn(find[b].slots, D)
      BY <1>6, <2>1 DEF NewSlots
    <3> QED BY <1>7, <3>1, MadeInMore
  <2>2. CASE b \in JumpsTo(cur, at) /\ b # ReturnBlock
    <3>1. find[b] = find[at]
      BY <1>2, <2>2, JumpsFind
    <3> QED BY <1>4, <1>6, <1>7, <3>1, MadeInMore
  <2> QED BY <1>1, <2>1, <2>2, AddsKnown
<1>9. ASSUME cur' # NoBlock PROVE MadeIn(find[at'].slots, E)
  <2> DEFINE op == At(prog, at).op
  <2>1. op \notin {"Ret", "Jump"} /\ at' = IF op = "JumpTable" THEN BlockEnd(cur) ELSE at + 1
    BY <1>9 DEF Generate, IgnoresRest
  <2>2. CASE op = "JumpTable"
    <3>1. blocks[cur] = at' /\ at' # ReturnBlock
      <4>1. /\ At(prog, at).arg \in Nat /\ blocks[cur] = at + At(prog, at).arg + 1
            /\ BlockEnd(cur) = at + At(prog, at).arg + 1
        BY <1>2, <2>2, TableGoesOn
      <4> HIDE DEF op
      <4> QED BY <1>2, <2>1, <2>2, <4>1 DEF ReturnBlock
    <3>2. at' \in JumpsTo(cur, at)
      BY <2>2, <3>1 DEF JumpsTo
    <3>3. find[at'] = find[at]
      BY <1>2, <3>1, <3>2, JumpsFind
    <3> QED BY <1>4, <1>6, <1>7, <3>3, MadeInMore
  <2>3. CASE op # "JumpTable"
    <3>1. GoesOn(prog, at) /\ at' = at + 1
      BY <2>1, <2>3 DEF GoesOn
    <3>2. MadeIn(find[at + 1].slots, D \cup {at})
      BY <1>2, <1>4, <1>5, <1>6, <3>1, MadeInBehind
    <3>3. D \cup {at} \subseteq E
      BY <1>7
    <3> QED BY <3>1, <3>2, <3>3, MadeInMore
  <2> QED BY <2>2, <2>3
<1>10. ASSUME NEW b \in DOMAIN blocks, NEW k \in DOMAIN code'[b] PROVE NewItem(code'[b][k])
  <2>1. CASE k \in DOMAIN code[b] /\ code'[b][k] = code[b][k]
    BY <2>1 DEF NewSlots
  <2>2. CASE code'[b][k] = Item("op", at, find[at])
    <3>1. PICK item : item = code'[b][k]
      OBVIOUS
    <3>2. item.do = "op" /\ item.pc = at /\ item.slots = find[at].slots
      BY <2>2, <3>1 DEF Item
    <3>3. Apart(item.slots) /\ \A j \in DOMAIN item.slots : item.slots[j].at # at
      BY <1>2, <1>4, <1>5, <3>2 DEF MadeIn
    <3> QED BY <3>1, <3>2, <3>3 DEF NewItem
  <2>3. CASE At(prog, at).op = "Trap" /\ b = At(prog, at).arg /\ code'[b][k] = Item("fetch", b, find[b])
    <3>1. find[b] = find[at]
      BY <1>1, <2>3, AddsHandler
    <3>2. Apart(find[b].slots)
      BY <1>4, <3>1 DEF MadeIn
    <3> QED BY <2>3, <3>2 DEF NewItem, Item
  <2> QED BY <1>1, <2>1, <2>2, <2>3, AddsKeeps
<1> QED BY <1>3, <1>6, <1>8, <1>9, <1>10 DEF NewSlots

LEMMA CloseNew == ASSUME BlockInv, CodeInv, NewSlots, Close PROVE NewSlots'
<1>1. /\ Form /\ Same /\ cur' = NoBlock /\ mode = "compile" /\ cur # NoBlock /\ cur \in DOMAIN blocks
      /\ UNCHANGED <<queue, compiled, stacks>>
  BY AtEnd
<1>2. find' = find /\ is' = is /\ blocks' = blocks
  BY <1>1, Still DEF Same
<1>3. MadeIn(find[at].slots, Instructed)
  BY <1>1 DEF NewSlots
<1>4. CASE EndsInBranch
  <2>1. UNCHANGED <<todo, given, code>>
    BY <1>4 DEF Close, EndsInBranch
  <2>2. Known' = Known /\ Instructed' = Instructed
    BY <1>1, <2>1, InstructedStays DEF Known
  <2> QED BY <1>1, <1>2, <2>1, <2>2 DEF NewSlots
<1>5. CASE ~EndsInBranch
  <2>1. PICK D, E : D = Instructed /\ E = Instructed'
    OBVIOUS
  <2>2. D \subseteq E
    <3>1. ASSUME NEW i \in is, MadeAt(i) PROVE MadeAt(i)'
      <4>1. PICK b \in DOMAIN blocks : \E k \in DOMAIN code[b] : code[b][k].do = "op" /\ code[b][k].pc = i
        BY <3>1 DEF MadeAt
      <4>2. PICK k \in DOMAIN code[b] : code[b][k].do = "op" /\ code[b][k].pc = i
        BY <4>1
      <4>3. k \in DOMAIN code'[b] /\ code'[b][k] = code[b][k]
        BY <1>5, JumpAdded
      <4> QED BY <1>2, <4>2, <4>3 DEF MadeAt
    <3>2. E = {i \in is : MadeAt(i)'}
      BY <1>2, <2>1 DEF Instructed
    <3> QED BY <2>1, <3>1, <3>2 DEF Instructed
  <2>3. ASSUME NEW b \in Known' PROVE MadeIn(find[b].slots, E)
    <3>1. CASE b \in Known
      <4>1. MadeIn(find[b].slots, D)
        BY <2>1, <3>1 DEF NewSlots
      <4> QED BY <2>2, <4>1, MadeInMore
    <3>2. CASE b = blocks[cur] /\ b # ReturnBlock
      <4>1. b = at
        BY <1>5, <3>2, NextKnown
      <4> QED BY <1>3, <2>1, <2>2, <4>1, MadeInMore
    <3> QED BY <1>5, <3>1, <3>2, NextKnown
  <2>4. ASSUME NEW b \in DOMAIN blocks, NEW k \in DOMAIN code'[b] PROVE NewItem(code'[b][k])
    <3>1. CASE k \in DOMAIN code[b] /\ code'[b][k] = code[b][k]
      BY <3>1 DEF NewSlots
    <3>2. CASE code'[b][k] = Item("br", blocks[cur], find[at])
      <4>1. Apart(find[at].slots)
        BY <1>3 DEF MadeIn
      <4> QED BY <3>2, <4>1 DEF NewItem, Item
    <3> QED BY <1>5, <3>1, <3>2, JumpAdded
  <2> QED BY <1>1, <1>2, <2>1, <2>3, <2>4 DEF NewSlots
<1> QED BY <1>4, <1>5

\* The code does not change, and what is known does not.
LEMMA StaysNew ==
    ASSUME Form, NewSlots, Same, UNCHANGED code, Known' = Known,
           mode' = "compile" /\ cur' # NoBlock =>
               \/ mode = "compile" /\ cur # NoBlock /\ at' = at
               \/ at' \in Known
    PROVE  NewSlots'
<1>1. find' = find /\ Instructed' = Instructed /\ blocks' = blocks
  BY Still, InstructedStays
<1>2. PICK a : a = at'
  OBVIOUS
<1>3. mode' = "compile" /\ cur' # NoBlock => MadeIn(find[a].slots, Instructed)
  BY <1>2 DEF NewSlots
<1> QED BY <1>1, <1>2, <1>3 DEF NewSlots

LEMMA InitNew == ASSUME Init, CodeInv PROVE NewSlots
<1>1. /\ cur = NoBlock /\ todo = <<>> /\ compiled = {chunk.from}
      /\ \A b \in DOMAIN code : b # ReturnBlock => code[b] = <<>>
      /\ DOMAIN code = DOMAIN blocks \cup {ReturnBlock}
  BY DEF Init
<1>2. ReturnBlock \notin DOMAIN blocks
  BY Addresses DEF CodeInv, ReturnBlock
<1>3. \A b \in DOMAIN blocks : \A k \in DOMAIN code[b] : NewItem(code[b][k])
  BY <1>1, <1>2
<1>4. Known \subseteq {chunk.from}
  BY <1>1 DEF Known
<1>5. find[chunk.from].slots = Variables(-1, chunk.nargs)
  BY DEF CodeInv, Form, Fits
<1>6. MadeIn(Variables(-1, chunk.nargs), Instructed)
  BY DEF MadeIn, Apart, Variables, Variable
<1> QED BY <1>1, <1>3, <1>4, <1>5, <1>6 DEF NewSlots

LEMMA ReachKnown == ASSUME CodeInv, Reach PROVE Known' = Known
<1>1. PICK b : b = Head(todo)
  OBVIOUS
<1>2. todo # <<>> /\ todo' = Tail(todo) /\ IsSequence(todo)
  BY DEF Reach, CodeInv, Visited
<1>3. {todo[k] : k \in DOMAIN todo} = {b} \cup {todo'[k] : k \in DOMAIN todo'}
  <2>1. PICK S : todo \in Seq(S)
    BY <1>2 DEF IsSequence
  <2>2. /\ b = todo[1] /\ 1 \in DOMAIN todo /\ DOMAIN todo \subseteq Nat \ {0}
        /\ \A k \in DOMAIN todo' : k + 1 \in DOMAIN todo /\ todo'[k] = todo[k + 1]
        /\ \A k \in DOMAIN todo : k # 1 => k - 1 \in DOMAIN todo' /\ todo'[k - 1] = todo[k]
    BY <1>1, <1>2, <2>1
  <2> QED BY <2>2
<1>4. \/ b = ReturnBlock /\ compiled' = compiled
      \/ compiled' = compiled \cup {b}
  BY <1>1 DEF Reach
<1> QED BY <1>3, <1>4 DEF Known

LEMMA NewStep == ASSUME BlockInv, CodeInv, NewSlots, [Next]_vars PROVE NewSlots'
<1>0. Form
  BY DEF CodeInv
<1>1. CASE Dequeue
  <2>1. Same /\ UNCHANGED <<code, todo, compiled>> /\ at' = Head(queue) /\ mode = "compile" /\ queue # <<>>
    BY <1>1 DEF Dequeue, Same
  <2>2. queue \in Seq(compiled)
    BY <2>1 DEF BlockInv, Queued
  <2>3. at' \in compiled
    BY <2>1, <2>2
  <2>4. compiled \subseteq Known /\ Known' = Known
    <3>1. ReturnBlock \notin compiled
      BY Addresses DEF CodeInv, Visited, ReturnBlock
    <3> QED BY <2>1, <3>1 DEF Known
  <2> QED BY <1>0, <2>1, <2>3, <2>4, StaysNew
<1>2. CASE Reach
  <2>1. Same /\ UNCHANGED <<code, mode, cur, at>>
    BY <1>2 DEF Reach, Same
  <2>2. Known' = Known
    BY <1>2, ReachKnown
  <2> QED BY <1>0, <2>1, <2>2, StaysNew
<1>3. CASE Start \/ Run
  <2>1. mode' # "compile" /\ UNCHANGED <<prog, chunk, compiler>>
    BY <1>3, RunKeepsCode, RunStep DEF Start
  <2>2. Same /\ UNCHANGED <<code, todo, compiled>>
    BY <2>1 DEF compiler, Same
  <2>3. Known' = Known
    BY <2>2 DEF Known
  <2> QED BY <1>0, <2>1, <2>2, <2>3, StaysNew
<1>4. CASE UNCHANGED vars
  <2>1. Same /\ UNCHANGED <<code, mode, cur, at, todo, compiled>>
    BY <1>4 DEF vars, Same
  <2>2. Known' = Known
    BY <2>1 DEF Known
  <2> QED BY <1>0, <2>1, <2>2, StaysNew
<1> QED BY <1>1, <1>2, <1>3, <1>4, AddsNew, CloseNew DEF Next

-----------------------------------------------------------------------------
(* Where a step of the code leads. *)

\* To the next item.
LEMMA Onward ==
    ASSUME CodeInv, RunsWell, mode = "run", cur # ReturnBlock, Continue,
           Here.do = "fetch" \/ (Here.do = "op" /\ Op \notin Exits)
    PROVE  /\ Form /\ cur' = cur /\ mode' = "run" /\ find' = find /\ ends' = ends /\ limit' = limit
           /\ reached' = reached
           /\ Here'.do # "fetch"
           /\ Here.do = "fetch" => Spot = cur /\ Spot' = cur
           /\ Here.do = "op" => /\ Here.pc \in is /\ GoesOn(prog, Here.pc)
                                /\ Spot = Here.pc /\ Spot' = Here.pc + 1
<1>1. /\ cur' = cur /\ at' = at + 1 /\ mode' = "run" /\ code' = code /\ Same /\ blocks' = blocks
      /\ chunk' = chunk /\ prog' = prog
  BY DEF Continue, compiler, Same
<1>2. PICK next : next = code[cur][at + 1]
  OBVIOUS
<1>3. Linked(cur, Here, next)
  <2>1. Linked(cur, code[cur][at], code[cur][at + 1])
    BY RunningItem, Follows DEF Op
  <2> QED BY <1>2, <2>1, RunningItem
<1>4. Form /\ (Here.do = "op" => Here.pc \in is)
  BY RunningItem
<1>5. find' = find /\ ends' = ends /\ reached' = reached /\ limit' = limit
  BY <1>1, <1>4, Still DEF limit
<1>6. Here' = next
  BY <1>1, <1>2 DEF Here
<1>7. Place(cur, Here)' = Place(cur, next)
  BY <1>1, <1>6 DEF Place, BlockEnd
<1>8. Spot' = Place(cur, next) /\ Spot = Place(cur, Here)
  BY <1>1, <1>7 DEF Spot
<1>9. Here.do = "fetch" => Spot = cur /\ Spot' = cur
  BY <1>3, <1>8 DEF Linked, Place
<1>10. Here.do = "op" => GoesOn(prog, Here.pc) /\ Spot = Here.pc /\ Spot' = Here.pc + 1
  BY <1>3, <1>8 DEF Linked, Place
<1> QED BY <1>1, <1>3, <1>4, <1>5, <1>6, <1>9, <1>10 DEF Linked

\* To a block.
LEMMA Lands ==
    ASSUME CodeInv, RunsWell, mode = "run", cur # ReturnBlock, NEW j, Goto(j),
           j # ReturnBlock => j \in compiled
    PROVE  /\ Form /\ cur' = j /\ mode' = "run" /\ find' = find /\ ends' = ends /\ limit' = limit
           /\ reached' = reached
           /\ j = ReturnBlock => Spot' = limit /\ Here'.do = "ret"
           /\ j # ReturnBlock => Spot' = j /\ (Here'.do = "fetch" <=> j \in catching)
<1>1. /\ cur' = j /\ at' = 1 /\ mode' = "run" /\ code' = code /\ Same /\ blocks' = blocks
      /\ chunk' = chunk /\ prog' = prog
  BY DEF Goto, compiler, Same
<1>2. Form /\ \A b \in compiled : Whole(code[b]) /\ Made(b, code[b])
  BY RunningItem
<1>3. find' = find /\ ends' = ends /\ reached' = reached /\ limit' = limit
  BY <1>1, <1>2, Still DEF limit
<1>4. CASE j = ReturnBlock
  <2>1. code[j] = <<Item("ret", ReturnBlock, [slots |-> <<>>, catch |-> <<>>])>>
    BY <1>4 DEF CodeInv, Coded
  <2>2. Here' = Item("ret", ReturnBlock, [slots |-> <<>>, catch |-> <<>>])
    BY <1>1, <2>1 DEF Here
  <2>3. Here'.do = "ret"
    BY <2>2 DEF Item
  <2>4. Spot' = limit
    BY <1>1, <1>3, <1>4 DEF Spot
  <2> QED BY <1>1, <1>2, <1>3, <1>4, <2>3, <2>4
<1>5. CASE j # ReturnBlock
  <2>1. PICK item : item = code[j][1]
    OBVIOUS
  <2>2. Opening(j, item)
    <3>1. Made(j, code[j]) /\ Whole(code[j])
      BY <1>2, <1>5
    <3> QED BY <2>1, <3>1 DEF Made, Whole
  <2>3. Here' = item
    BY <1>1, <2>1 DEF Here
  <2>4. Place(cur, Here)' = Place(j, item)
    BY <1>1, <2>3 DEF Place, BlockEnd
  <2>5. Spot' = j
    BY <1>1, <1>5, <2>2, <2>4 DEF Spot, Opening
  <2> QED BY <1>1, <1>2, <1>3, <1>5, <2>2, <2>3, <2>5 DEF Opening
<1> QED BY <1>4, <1>5

\* A branch, or the end of a block, leads to the block that returns only where
\* the function ends.
LEMMA LeadsToEnd ==
    ASSUME Form, NEW b \in DOMAIN blocks, NEW i \in is, b <= i, i < BlockEnd(b),
           ReturnBlock \in JumpsTo(b, i)
    PROVE  i + 1 = limit /\ limit \in reached /\ find[i] = find[limit]
<1>1. i \in Nat /\ i < limit /\ limit <= Len(prog.code) /\ limit \in Nat /\ Len(prog.code) \in Nat
  BY Reached, LimitIsLeast
<1>2. ReturnBlock \notin DOMAIN blocks
  BY Addresses DEF ReturnBlock
<1>3. At(prog, i).op \notin {"Jump", "Trap"}
  <2> SUFFICES ASSUME At(prog, i).op \in {"Jump", "Trap"} PROVE FALSE
    OBVIOUS
  <2>1. Targets(prog, i) = {At(prog, i).arg} /\ JumpsTo(b, i) = {At(prog, i).arg}
    BY DEF Targets, JumpsTo
  <2>2. chunk.from <= i
    BY Reached
  <2>3. Targets(prog, i) \subseteq DOMAIN blocks
    BY <1>1, <2>2, TargetsStart
  <2> QED BY <1>2, <2>1, <2>3
<1>4. At(prog, i).op # "JumpTable"
  <2> SUFFICES ASSUME At(prog, i).op = "JumpTable" PROVE FALSE
    OBVIOUS
  <2>1. PICK arg : arg = At(prog, i).arg
    OBVIOUS
  <2>2. arg \in Nat /\ blocks[b] = i + arg + 1 /\ \A k \in 1..arg : At(prog, i + k).arg \in DOMAIN blocks
    BY <2>1, TableGoesOn
  <2>3. JumpsTo(b, i) = {blocks[b]} \cup {At(prog, i + k).arg : k \in 1..arg}
    BY <2>1 DEF JumpsTo
  <2>4. blocks[b] # ReturnBlock
    BY <1>1, <2>2 DEF ReturnBlock
  <2> QED BY <1>2, <2>2, <2>3, <2>4
<1>5. At(prog, i).op \in {"JumpIf", "JumpIfNot"}
  BY <1>3, <1>4 DEF JumpsTo
<1>6. At(prog, i).arg \in DOMAIN blocks
  BY <1>5, BranchGoesOn
<1>7. blocks[b] = ReturnBlock
  BY <1>2, <1>5, <1>6 DEF JumpsTo
<1>8. i + 1 = Len(prog.code)
  <2> SUFFICES ASSUME i + 1 # Len(prog.code) PROVE FALSE
    OBVIOUS
  <2>1. Targets(prog, i) = {At(prog, i).arg} \cup ({i + 1} \ {Len(prog.code)})
    BY <1>5 DEF Targets
  <2>2. i + 1 \in DOMAIN blocks
    <3>1. chunk.from <= i
      BY Reached
    <3> QED BY <1>1, <2>1, <3>1, TargetsStart
  <2>3. blocks[b] = i + 1
    BY <1>1, <2>2, NextBlock
  <2> QED BY <1>1, <1>7, <2>3 DEF ReturnBlock
<1>9. i + 1 = limit
  BY <1>1, <1>8
<1>10. i + 1 \in Leads(prog, i)
  BY <1>5 DEF Leads
<1>11. i + 1 \in reached /\ find[i + 1] = find[i]
  BY <1>10 DEF Form, Fits, reached, is, limit
<1> QED BY <1>9, <1>11

-----------------------------------------------------------------------------
(* Steps of the code. *)

LEMMA NoneOpen == ASSUME NEW open, Naming(open, <<>>) PROVE open = <<>>
<1>1. PICK S : open \in Seq(S)
  BY DEF Naming, IsSequence
<1>2. DOMAIN open = {}
  BY DEF Naming
<1>3. Len(open) = 0
  BY <1>1, <1>2
<1> QED BY <1>1, <1>3

LEMMA LevelPush ==
    ASSUME NEW open, IsSequence(open), Level(open), NEW t, t.below = Len(find[t.handler].slots)
    PROVE  Level(<<t>> \o open)
<1>1. PICK S : open \in Seq(S)
  BY DEF IsSequence
<1>2. open \in Seq(S \cup {t})
  BY <1>1
<1>3. /\ (<<t>> \o open)[1] = t
      /\ \A k \in DOMAIN (<<t>> \o open) : k = 1 \/ (k - 1 \in DOMAIN open /\ (<<t>> \o open)[k] = open[k - 1])
  BY <1>2
<1> QED BY <1>3 DEF Level

LEMMA LevelPop ==
    ASSUME NEW open, IsSequence(open), open # <<>>, Level(open)
    PROVE  Level(Tail(open))
<1>1. PICK S : open \in Seq(S)
  BY DEF IsSequence
<1>2. \A k \in DOMAIN Tail(open) : k + 1 \in DOMAIN open /\ Tail(open)[k] = open[k + 1]
  BY <1>1
<1> QED BY <1>2 DEF Level

\* The instruction that runs.
LEMMA AtOp ==
    ASSUME CodeInv, RunsWell, mode = "run", cur # ReturnBlock, Here.do = "op"
    PROVE  /\ Form /\ Here.pc \in is /\ Here.pc \in reached /\ Spot = Here.pc
           /\ cur \in DOMAIN blocks /\ cur <= Here.pc /\ Here.pc < BlockEnd(cur)
           /\ Here.slots = find[Here.pc].slots /\ Here.catch = find[Here.pc].catch
           /\ Here.catch \in Seq(Int) /\ IsSequence(handlers)
           /\ Naming(handlers, Here.catch)
           /\ Here.catch = <<>> => handlers = <<>>
           /\ JumpsTo(cur, Here.pc) \subseteq compiled \cup {ReturnBlock}
<1>1. /\ Form /\ Here.pc \in is /\ Good(cur, Here) /\ Leading(cur, Here, compiled) /\ cur \in DOMAIN blocks
      /\ Here.catch \in Seq(Int) /\ Naming(handlers, OpenAt(cur, Here))
  BY RunningItem
<1>2. Naming(handlers, Here.catch)
  BY <1>1 DEF OpenAt
<1>3. Spot = Here.pc /\ Place(cur, Here) = Here.pc
  BY DEF Spot, Place
<1>4. Here.catch = <<>> => handlers = <<>>
  BY <1>2, NoneOpen
<1> QED BY <1>1, <1>2, <1>3, <1>4 DEF Good, Leading, is, Naming

LEMMA JumpGoes ==
    ASSUME CodeInv, RunsWell, mode = "run", cur # ReturnBlock, Here.do = "op", Jump
    PROVE  /\ Op \in {"Jump", "JumpIf", "JumpIfNot", "JumpTable"}
           /\ \E j \in JumpsTo(cur, Here.pc) :
                  /\ Goto(j)
                  /\ Op = "Jump" => j = Arg
                  /\ j = ReturnBlock => handlers = <<>> /\ limit \in reached /\ Here.pc + 1 = limit
                                        /\ find[limit] = find[Here.pc]
                  /\ j # ReturnBlock => j \in compiled /\ j \notin catching /\ find[j] = find[Here.pc]
<1>1. PICK j : /\ Goto(j) /\ Op \in {"Jump", "JumpIf", "JumpIfNot", "JumpTable"}
               /\ \/ Op # "JumpTable" /\ j = Arg
                  \/ Op # "Jump" /\ j = blocks[cur]
                  \/ Op = "JumpTable" /\ \E k \in 1..Arg : j = At(prog, Here.pc + k).arg
               /\ Op = "Jump" => j = Arg
  BY DEF Jump
<1>2. j \in JumpsTo(cur, Here.pc)
  BY <1>1 DEF JumpsTo, Op, Arg
<1>3. /\ Form /\ Here.pc \in is /\ cur \in DOMAIN blocks /\ cur <= Here.pc /\ Here.pc < BlockEnd(cur)
      /\ Here.catch = find[Here.pc].catch
      /\ (Here.catch = <<>> => handlers = <<>>)
      /\ JumpsTo(cur, Here.pc) \subseteq compiled \cup {ReturnBlock}
  BY AtOp
<1>4. ASSUME j = ReturnBlock
      PROVE  /\ handlers = <<>> /\ limit \in reached /\ Here.pc + 1 = limit
             /\ find[limit] = find[Here.pc]
  <2>1. limit \in reached /\ Here.pc + 1 = limit /\ find[limit] = find[Here.pc]
    BY <1>2, <1>3, <1>4, LeadsToEnd
  <2>2. find[limit].catch = <<>>
    BY <1>3, <2>1, LimitFinds
  <2> QED BY <1>3, <2>1, <2>2
<1>5. ASSUME j # ReturnBlock PROVE j \in compiled /\ j \notin catching /\ find[j] = find[Here.pc]
  <2>1. j \in compiled
    BY <1>2, <1>3, <1>5
  <2>2. find[j] = find[Here.pc] /\ (j \in catching => Here.pc \in Traps(prog, is))
    BY <1>2, <1>3, <1>5, JumpsFind
  <2> QED BY <1>1, <2>1, <2>2 DEF Traps, Op
<1> QED BY <1>1, <1>2, <1>4, <1>5

LEMMA ThrowGoes ==
    ASSUME CodeInv, RunsWell, mode = "run", cur # ReturnBlock, Here.do = "op", Throw, Here.catch # <<>>
    PROVE  LET h == Head(Here.catch)
           IN  Goto(h) /\ h \in catching /\ h \in compiled /\ h # ReturnBlock
<1>1. PICK h : h = Head(Here.catch)
  OBVIOUS
<1>2. Goto(h)
  BY <1>1 DEF Throw
<1>3. Form /\ Here.pc \in reached /\ Here.catch = find[Here.pc].catch /\ Here.catch \in Seq(Int)
  BY AtOp
<1>4. h \in catching
  BY <1>1, <1>3, Catching
<1>5. h \in compiled
  <2>1. 1 \in DOMAIN Here.catch /\ h = Here.catch[1]
    BY <1>1, <1>3
  <2>2. Leading(cur, Here, compiled)
    BY RunningItem
  <2> QED BY <2>1, <2>2 DEF Leading, Caught
<1>6. h # ReturnBlock
  BY <1>3, <1>4, Catching, Addresses DEF ReturnBlock
<1> QED BY <1>1, <1>2, <1>4, <1>5, <1>6

LEMMA OnTrue ==
    ASSUME CodeInv, RunsWell, mode = "run", cur # ReturnBlock, Continue,
           Here.do = "fetch" \/ (Here.do = "op" /\ Op \notin Exits),
           Level(handlers'), tailcalled' \in BOOLEAN,
           tailcalled' => Here.do = "op" /\ Here.pc + 1 \in ends
    PROVE  RunsTrue'
<1>1. /\ cur' = cur /\ mode' = "run" /\ find' = find /\ ends' = ends /\ Here'.do # "fetch"
      /\ Here.do = "op" => Spot' = Here.pc + 1
  BY Onward
<1>2. Level(handlers)'
  BY <1>1 DEF Level
<1>3. tailcalled' => Returning'
  BY <1>1 DEF Returning
<1> QED BY <1>1, <1>2, <1>3 DEF RunsTrue

LEMMA LandsTrue ==
    ASSUME CodeInv, RunsWell, RunsTrue, mode = "run", cur # ReturnBlock, NEW j, Goto(j),
           j # ReturnBlock => j \in compiled,
           j = ReturnBlock => handlers = <<>> /\ limit \in reached,
           tailcalled /\ j # ReturnBlock => j \notin catching /\ j \in ends
    PROVE  RunsTrue'
<1>1. /\ cur' = j /\ mode' = "run" /\ find' = find /\ ends' = ends /\ limit' = limit /\ reached' = reached
      /\ j # ReturnBlock => Spot' = j /\ (Here'.do = "fetch" <=> j \in catching)
  BY Lands
<1>2. handlers' = handlers /\ tailcalled' = tailcalled
  BY DEF Goto, running
<1>3. Level(handlers)'
  BY <1>1, <1>2 DEF Level, RunsTrue
<1>4. tailcalled' => Returning'
  BY <1>1, <1>2 DEF Returning
<1> QED BY <1>1, <1>2, <1>3, <1>4 DEF RunsTrue

\* The instructions behind a tail call.
LEMMA BehindTail ==
    ASSUME CodeInv, RunsWell, RunsTrue, mode = "run", cur # ReturnBlock, tailcalled, Here.do = "op"
    PROVE  \/ Op = "Ret"
           \/ Op = "Jump" /\ Arg \in ends
           \/ Op = "Pop" /\ Here.pc + 1 \in ends
<1>1. Form /\ Here.pc \in is /\ Spot = Here.pc
  BY AtOp
<1>2. Here.pc \in ends
  BY <1>1 DEF RunsTrue, Returning
<1> QED BY <1>1, <1>2, Balance DEF Op, Arg

LEMMA RunTrue ==
    ASSUME CodeInv, RunsWell, RunsTrue, Run PROVE RunsTrue'
<1>1. mode = "run" /\ tailcalled \in BOOLEAN /\ Level(handlers)
  BY DEF Run, RunsTrue
<1>2. \A how : Leave(how) /\ how \in {"returned", "thrown"} => RunsTrue'
  BY DEF Leave, RunsTrue
<1>3. CASE Ret
  BY <1>2, <1>3 DEF Ret
<1>4. CASE cur = ReturnBlock /\ ~Ret
  <2>1. code[cur] = <<Item("ret", ReturnBlock, [slots |-> <<>>, catch |-> <<>>])>>
    BY <1>4 DEF CodeInv, Coded
  <2>2. at \in DOMAIN code[cur]
    BY <1>1 DEF RunsWell
  <2>3. Here = Item("ret", ReturnBlock, [slots |-> <<>>, catch |-> <<>>])
    BY <2>1, <2>2 DEF Here
  <2>4. Here.do = "ret"
    BY <2>3 DEF Item
  <2> QED BY <1>4, <2>4 DEF Run
<1>5. CASE cur # ReturnBlock /\ ~Ret
  <2>1. ASSUME Here.do = "br", Goto(Here.pc) PROVE RunsTrue'
    <3>1. /\ Form /\ cur \in DOMAIN blocks /\ Here.pc = blocks[cur] /\ Here.pc \notin catching
          /\ Here.pc \in compiled \cup {ReturnBlock}
          /\ Place(cur, Here) = BlockEnd(cur) /\ BlockEnd(cur) \in reached
          /\ Here.catch = find[BlockEnd(cur)].catch /\ Naming(handlers, Here.catch)
      BY <1>1, <1>5, <2>1, RunningItem DEF Good, Leading, Place, OpenAt
    <3>2. Here.pc # ReturnBlock => BlockEnd(cur) = Here.pc
      BY <3>1, BlockEnds
    <3>3. ASSUME Here.pc = ReturnBlock PROVE handlers = <<>> /\ limit \in reached
      <4>1. BlockEnd(cur) = limit
        BY <3>1, <3>3, BlockEnds
      <4>2. Here.catch = <<>>
        BY <3>1, <4>1, LimitFinds
      <4> QED BY <3>1, <4>1, <4>2, NoneOpen
    <3>4. tailcalled => BlockEnd(cur) \in ends
      BY <1>1, <1>5, <3>1 DEF RunsTrue, Returning, Spot
    <3> QED BY <1>1, <1>5, <2>1, <3>1, <3>2, <3>3, <3>4, LandsTrue
  <2>2. ASSUME Here.do = "fetch", Fetch PROVE RunsTrue'
    <3>1. ~tailcalled
      BY <1>1, <1>5, <2>2 DEF RunsTrue, Returning
    <3>2. Continue /\ handlers' = Tail(handlers) /\ tailcalled' = tailcalled
      BY <2>2 DEF Fetch
    <3>3. IsSequence(handlers) /\ handlers # <<>>
      <4>1. Naming(handlers, <<cur>> \o Here.catch) /\ Here.catch \in Seq(Int) /\ cur \in DOMAIN blocks /\ Form
        BY <1>1, <1>5, <2>2, RunningItem DEF OpenAt
      <4>2. cur \in Int
        BY <4>1, Addresses
      <4>3. 1 \in DOMAIN (<<cur>> \o Here.catch)
        BY <4>1, <4>2
      <4>4. 1 \in DOMAIN handlers
        BY <4>1, <4>3 DEF Naming
      <4> QED BY <4>1, <4>4 DEF Naming
    <3>4. Level(handlers')
      BY <1>1, <3>2, <3>3, LevelPop
    <3> QED BY <1>1, <1>5, <2>2, <3>1, <3>2, <3>4, OnTrue
  <2>3. ASSUME Here.do = "op", Compute \/ Load \/ Store \/ Pop PROVE RunsTrue'
    <3>1. Continue /\ handlers' = handlers
      BY <2>3 DEF Compute, Load, Store, Pop, running
    <3>2. Op \in Plain \cup {"TailCall", "Push", "SetStack"}
      BY <2>3 DEF Compute, Load, Store, Pop, Loads, Plain, PopsParameter
    <3>3. Op \notin Exits
      BY <3>2, PlainGoesOn
    <3>4. tailcalled' = tailcalled \/ (Op = "TailCall" /\ tailcalled' = TRUE)
      BY <1>1, <2>3 DEF Compute, Load, Store, Pop, running
    <3>5. ASSUME Op = "TailCall" PROVE Here.pc + 1 \in ends
      <4>1. Form /\ Here.pc \in is
        BY <1>1, <1>5, <2>3, AtOp
      <4> QED BY <3>5, <4>1, Balance DEF Op
    <3>6. ASSUME tailcalled PROVE Here.pc + 1 \in ends
      BY <1>1, <1>5, <2>3, <3>3, <3>6, BehindTail DEF Exits
    <3>7. Level(handlers') /\ tailcalled' \in BOOLEAN
      BY <1>1, <3>1, <3>4
    <3>8. tailcalled' => Here.pc + 1 \in ends
      BY <3>4, <3>5, <3>6
    <3> QED BY <1>1, <1>5, <2>3, <3>1, <3>3, <3>7, <3>8, OnTrue
  <2>4. ASSUME Here.do = "op", Jump PROVE RunsTrue'
    <3>1. PICK j \in JumpsTo(cur, Here.pc) :
              /\ Goto(j)
              /\ Op = "Jump" => j = Arg
              /\ j = ReturnBlock => handlers = <<>> /\ limit \in reached
              /\ j # ReturnBlock => j \in compiled /\ j \notin catching
      BY <1>1, <1>5, <2>4, JumpGoes
    <3>2. Op \in {"Jump", "JumpIf", "JumpIfNot", "JumpTable"}
      BY <1>1, <1>5, <2>4, JumpGoes
    <3>3. tailcalled => j \in ends
      BY <1>1, <1>5, <2>4, <3>1, <3>2, BehindTail
    <3> QED BY <1>1, <1>5, <3>1, <3>3, LandsTrue
  <2>5. ASSUME Here.do = "op", Trap PROVE RunsTrue'
    <3>1. PICK t : t = [handler |-> Arg, below |-> Len(Here.slots)]
      OBVIOUS
    <3>2. Op = "Trap" /\ handlers' = <<t>> \o handlers /\ Continue /\ tailcalled' = tailcalled
      BY <2>5, <3>1 DEF Trap
    <3>3. Form /\ Here.pc \in is /\ Here.slots = find[Here.pc].slots /\ IsSequence(handlers)
      BY <1>1, <1>5, <2>5, AtOp
    <3>4. find[Arg] = find[Here.pc]
      <4>1. Arg \in Leads(prog, Here.pc)
        BY <3>2 DEF Leads, Op, Arg
      <4> QED BY <3>3, <4>1 DEF Form, Fits, reached, is, limit
    <3>5. t.below = Len(find[t.handler].slots)
      BY <3>1, <3>3, <3>4
    <3>6. Level(handlers')
      BY <1>1, <3>2, <3>3, <3>5, LevelPush
    <3>7. ~tailcalled
      BY <1>1, <1>5, <2>5, <3>2, BehindTail
    <3>8. Op \notin Exits
      BY <3>2 DEF Exits
    <3> QED BY <1>1, <1>5, <2>5, <3>2, <3>6, <3>7, <3>8, OnTrue
  <2>6. ASSUME Here.do = "op", EndTrap PROVE RunsTrue'
    <3>1. Op = "EndTrap" /\ handlers' = Tail(handlers) /\ Continue /\ tailcalled' = tailcalled
      BY <2>6 DEF EndTrap
    <3>2. /\ Form /\ Here.pc \in is /\ Here.catch = find[Here.pc].catch /\ IsSequence(handlers)
          /\ Naming(handlers, Here.catch) /\ Here.catch \in Seq(Int)
      BY <1>1, <1>5, <2>6, AtOp
    <3>3. Here.catch # <<>>
      BY <3>1, <3>2, OpensTraps DEF Op
    <3>4. handlers # <<>>
      <4>1. 1 \in DOMAIN Here.catch
        BY <3>2, <3>3
      <4> QED BY <3>2, <4>1 DEF Naming
    <3>5. Level(handlers')
      BY <1>1, <3>1, <3>2, <3>4, LevelPop
    <3>6. ~tailcalled
      BY <1>1, <1>5, <2>6, <3>1, BehindTail
    <3>7. Op \notin Exits
      BY <3>1 DEF Exits
    <3> QED BY <1>1, <1>5, <2>6, <3>1, <3>5, <3>6, <3>7, OnTrue
  <2>7. ASSUME Here.do = "op", Throw PROVE RunsTrue'
    <3>1. CASE Here.catch = <<>>
      BY <1>2, <2>7, <3>1 DEF Throw
    <3>2. CASE Here.catch # <<>>
      <4>1. PICK h : h = Head(Here.catch)
        OBVIOUS
      <4>2. Goto(h) /\ h \in compiled /\ h # ReturnBlock
        BY <1>1, <1>5, <2>7, <3>2, <4>1, ThrowGoes
      <4>3. Op \notin {"Ret", "Jump", "Pop"}
        BY <2>7 DEF Throw, Plain, Binary, PopsParameter
      <4>4. ~tailcalled
        BY <1>1, <1>5, <2>7, <4>3, BehindTail
      <4> QED BY <1>1, <1>5, <4>2, <4>4, LandsTrue
    <3> QED BY <3>1, <3>2
  <2> QED BY <1>5, <2>1, <2>2, <2>3, <2>4, <2>5, <2>6, <2>7 DEF Run
<1> QED BY <1>3, <1>4, <1>5

LEMMA TrueStep == ASSUME BlockInv, CodeInv, RunsWell, RunsTrue, [Next]_vars PROVE RunsTrue'
<1>1. CASE Dequeue \/ Generate \/ Reach \/ Close
  <2>1. mode = "compile" /\ mode' = "compile" /\ UNCHANGED <<acc, tailcalled, mem, chunk>>
    BY <1>1 DEF Dequeue, Generate, Reach, Close, running
  <2> QED BY <2>1 DEF RunsTrue
<1>2. CASE Start
  <2>1. /\ mode = "compile" /\ handlers = <<>> /\ handlers' = handlers /\ cur' = chunk.from
        /\ tailcalled' = tailcalled /\ tailcalled = FALSE
    BY <1>2 DEF Start, running, RunsWell, RunsTrue
  <2>2. chunk.from # ReturnBlock
    BY Addresses DEF CodeInv, ReturnBlock
  <2>3. mode' = "run"
    BY <1>2 DEF Start
  <2>4. Level(handlers)'
    BY <2>1 DEF Level
  <2> QED BY <2>1, <2>2, <2>3, <2>4 DEF RunsTrue
<1>3. CASE Run
  BY <1>3, RunTrue
<1>4. CASE UNCHANGED vars
  <2>1. Same /\ UNCHANGED <<mode, cur, at, code, acc, mem, handlers, tailcalled, chunk, prog, blocks>>
    BY <1>4 DEF vars, Same
  <2>2. find' = find /\ ends' = ends /\ limit' = limit /\ reached' = reached
    BY <2>1, Still DEF CodeInv, limit
  <2>3. Here' = Here /\ Spot' = Spot
    BY <2>1, <2>2 DEF Here, Spot, Place, BlockEnd
  <2>4. Returning' <=> Returning
    BY <2>1, <2>2, <2>3 DEF Returning
  <2> QED BY <2>1, <2>2, <2>4 DEF RunsTrue, Level
<1> QED BY <1>1, <1>2, <1>3, <1>4 DEF Next

-----------------------------------------------------------------------------
(* What the interpreter has before and after a step. *)

Seen ==
    /\ Mode = "run" /\ Address = Spot /\ Spot \in reached
    /\ Data = Reads(mem, find[Spot].slots)
    /\ Acc = IF Here.do = "fetch" THEN Exception ELSE acc
    /\ Open = IF Here.do = "fetch" THEN Tail(handlers) ELSE handlers

TrueInv == CodeInv /\ RunsWell /\ RunsTrue /\ NewSlots

Runs == TrueInv /\ mode = "run" /\ tailcalled = FALSE

LEMMA SeenHolds == Runs => Seen
BY View DEF Runs, TrueInv, Seen

LEMMA SeenPrimed == Runs' => Seen'
BY SeenHolds, PTL

LEMMA SeenNext == ASSUME TrueInv', mode' = "run", tailcalled' = FALSE PROVE Seen'
BY SeenPrimed DEF Runs

LEMMA OnView ==
    ASSUME TrueInv, TrueInv', mode = "run", cur # ReturnBlock, Continue,
           Here.do = "fetch" \/ (Here.do = "op" /\ Op \notin Exits),
           tailcalled = FALSE, tailcalled' = FALSE
    PROVE  /\ Mode = "run" /\ Mode' = "run" /\ prog' = prog /\ Acc' = acc' /\ Open' = handlers'
           /\ Here.do = "fetch" =>
                  /\ Acc = Exception /\ Open = Tail(handlers)
                  /\ Address' = Address /\ Address = cur
                  /\ Data = Reads(mem, find[cur].slots) /\ Data' = Reads(mem', find[cur].slots)
           /\ Here.do = "op" =>
                  /\ Acc = acc /\ Open = handlers
                  /\ Address = Here.pc /\ Address' = Here.pc + 1
                  /\ Data = Reads(mem, find[Here.pc].slots)
                  /\ Data' = Reads(mem', find[Here.pc + 1].slots)
<1>1. /\ mode' = "run" /\ find' = find /\ Here'.do # "fetch"
      /\ Here.do = "fetch" => Spot = cur /\ Spot' = cur
      /\ Here.do = "op" => Spot = Here.pc /\ Spot' = Here.pc + 1
  BY Onward DEF TrueInv
<1>2. Seen
  BY SeenHolds DEF Runs
<1>3. Seen'
  BY <1>1, SeenNext
<1>4. prog' = prog
  BY DEF Continue
<1>5. /\ Mode' = "run" /\ Address' = Spot' /\ Data' = Reads(mem', find[Spot'].slots)
      /\ Acc' = acc' /\ Open' = handlers'
  BY <1>1, <1>3 DEF Seen, Reads
<1> QED BY <1>1, <1>2, <1>4, <1>5 DEF Seen

LEMMA LandsView ==
    ASSUME TrueInv, TrueInv', mode = "run", cur # ReturnBlock, NEW j, Goto(j),
           j # ReturnBlock => j \in compiled, tailcalled = FALSE
    PROVE  /\ Mode = "run" /\ Mode' = "run" /\ prog' = prog
           /\ Address = Spot /\ Data = Reads(mem, find[Spot].slots)
           /\ Here.do # "fetch" => Acc = acc /\ Open = handlers
           /\ j = ReturnBlock => /\ Address' = limit /\ Data' = Reads(mem, find[limit].slots)
                                 /\ Acc' = acc /\ Open' = handlers
           /\ j # ReturnBlock =>
                  /\ Address' = j /\ Data' = Reads(mem, find[j].slots)
                  /\ Acc' = IF j \in catching THEN Exception ELSE acc
                  /\ Open' = IF j \in catching THEN Tail(handlers) ELSE handlers
<1>1. /\ mode' = "run" /\ find' = find
      /\ j = ReturnBlock => Spot' = limit /\ Here'.do = "ret"
      /\ j # ReturnBlock => Spot' = j /\ (Here'.do = "fetch" <=> j \in catching)
  BY Lands DEF TrueInv
<1>2. Seen
  BY SeenHolds DEF Runs
<1>3. UNCHANGED <<prog, mem, acc, handlers, tailcalled>>
  BY DEF Goto, running
<1>4. Seen'
  BY <1>1, <1>3, SeenNext
<1>5. /\ Mode' = "run" /\ Address' = Spot' /\ Data' = Reads(mem, find[Spot'].slots)
      /\ Acc' = IF Here'.do = "fetch" THEN Exception ELSE acc
      /\ Open' = IF Here'.do = "fetch" THEN Tail(handlers) ELSE handlers
  BY <1>1, <1>3, <1>4 DEF Seen, Reads
<1> QED BY <1>1, <1>2, <1>3, <1>5 DEF Seen

LEMMA LeaveView ==
    ASSUME NEW how \in {"returned", "thrown"}, Leave(how)
    PROVE  /\ Mode' = how /\ prog' = prog /\ Address' = -1 /\ Data' = <<>> /\ Open' = <<>>
           /\ Acc' = IF how = "thrown" THEN Exception ELSE acc
<1>1. mode' = how /\ UNCHANGED <<prog, acc>>
  BY DEF Leave, running
<1>2. Ended'
  BY <1>1 DEF Ended
<1>3. Mode' = how /\ Acc' = IF how = "thrown" THEN Exception ELSE acc
  BY <1>1 DEF Mode, Acc, AtFetch
<1> QED BY <1>1, <1>2, <1>3 DEF Address, Data, Open

-----------------------------------------------------------------------------
(* Each step is one of the interpreter. *)

\* The names of Opcodes mean the same there.
LEMMA SamePlain == Interpreter!Plain = Plain /\ Interpreter!Loads = Loads /\ Interpreter!Stores = Stores
BY DEF Plain, Binary, PopsParameter, Loads, Stores,
       Interpreter!Plain, Interpreter!Binary, Interpreter!PopsParameter, Interpreter!Loads, Interpreter!Stores

LEMMA SameErased == \A op, arg : Interpreter!Erased(op, arg) = Erased(op, arg)
BY DEF Erased, Binary, Interpreter!Erased, Interpreter!Binary

LEMMA SameAt == \A p, i : Interpreter!At(p, i) = At(p, i)
BY DEF At, Interpreter!At

LEMMA SameSlot == \A op, arg : Interpreter!Slot(op, arg) = Slot(op, arg)
BY DEF Slot, Interpreter!Slot

LEMMA SameOp == Interpreter!Op = At(prog, Address).op /\ Interpreter!Arg = At(prog, Address).arg
BY SameAt DEF Interpreter!Op, Interpreter!Arg

\* The stack behind an instruction that makes no slots.
LEMMA DropView ==
    ASSUME Form, NEW i \in is, GoesOn(prog, i), Makes(At(prog, i).op) = 0, NEW f
    PROVE  LET r == Reads(f, find[i].slots)
           IN  Reads(f, find[i + 1].slots) = SubSeq(r, 1, Len(r) - Takes(At(prog, i).op, At(prog, i).arg))
<1>1. PICK S : S = [at : Int, n : Int]
  OBVIOUS
<1>2. PICK s, r, n : /\ s = find[i].slots /\ r = Reads(f, s)
                     /\ n = Takes(At(prog, i).op, At(prog, i).arg)
  OBVIOUS
<1>3. s \in Seq(S) /\ Len(s) \in Nat /\ Len(r) = Len(s)
  <2>1. i \in reached
    BY Reached
  <2>2. s \in Seq(S)
    BY <1>1, <1>2, <2>1, Finds
  <2> QED BY <1>2, <2>2, ReadsSequence
<1>4. n \in 0..Len(s)
  BY <1>2, GoingOn
<1>5. PICK m : m = Len(s) - n
  OBVIOUS
<1>6. m \in 0..Len(s)
  BY <1>3, <1>4, <1>5
<1>7. find[i + 1].slots = SubSeq(s, 1, m)
  <2>1. PICK x, op, arg : x = find[i] /\ op = At(prog, i).op /\ arg = At(prog, i).arg
    OBVIOUS
  <2>2. find[i + 1] = Behind(x, i, op, arg)
    BY <2>1, GoingOn
  <2>3. Behind(x, i, op, arg).slots = SubSeq(x.slots, 1, Len(x.slots) - Takes(op, arg)) \o Variables(i, Makes(op))
    BY DEF Behind
  <2>4. x.slots = s /\ Makes(op) = 0 /\ m = Len(x.slots) - Takes(op, arg)
    BY <1>2, <1>5, <2>1
  <2>5. find[i + 1].slots = SubSeq(s, 1, m) \o Variables(i, 0)
    BY <2>2, <2>3, <2>4
  <2>6. SubSeq(s, 1, m) \in Seq(S)
    BY <1>3, <1>6, Shorter
  <2> QED BY <2>5, <2>6, NoVariables
<1>8. Reads(f, SubSeq(s, 1, m)) = SubSeq(r, 1, m)
  BY <1>2, <1>3, <1>6, ReadsShorter
<1>9. m = Len(r) - n
  BY <1>3, <1>5
<1> QED BY <1>2, <1>7, <1>8, <1>9

LEMMA PlainTakes ==
    ASSUME NEW op, NEW arg, op \in Plain \cup {"SetStack"}
    PROVE  Takes(op, arg) = Erased(op, arg) /\ Makes(op) = 0 /\ op \notin {"TailCall", "EndTrap"}
BY DEF Takes, Makes, Plain, Binary, PopsParameter

\* The instruction that runs, and the one behind it.
LEMMA StepView ==
    ASSUME TrueInv, TrueInv', mode = "run", cur # ReturnBlock, Continue, tailcalled = FALSE,
           tailcalled' = FALSE, Here.do = "op", Op \in Plain \cup {"SetStack"}
    PROVE  /\ Mode = "run" /\ Mode' = "run" /\ prog' = prog /\ Acc = acc /\ Acc' = acc'
           /\ Open = handlers /\ Open' = handlers'
           /\ Interpreter!Op = Op /\ Interpreter!Arg = Arg /\ Address = Here.pc /\ Address' = Address + 1
           /\ Data = Reads(mem, find[Here.pc].slots)
           /\ Data' = Reads(mem', find[Here.pc + 1].slots)
           /\ mem' = mem => Data' = SubSeq(Data, 1, Len(Data) - Erased(Op, Arg))
<1>1. Op \notin Exits \cup {"Trap", "EndTrap"}
  BY PlainGoesOn
<1>2. /\ Mode = "run" /\ Mode' = "run" /\ prog' = prog /\ Acc' = acc' /\ Open' = handlers'
      /\ Acc = acc /\ Open = handlers
      /\ Address = Here.pc /\ Address' = Here.pc + 1
      /\ Data = Reads(mem, find[Here.pc].slots)
      /\ Data' = Reads(mem', find[Here.pc + 1].slots)
  BY <1>1, OnView
<1>3. Form /\ Here.pc \in is /\ GoesOn(prog, Here.pc)
  BY <1>1, Onward DEF TrueInv
<1>4. Op = At(prog, Here.pc).op /\ Arg = At(prog, Here.pc).arg
  BY DEF Op, Arg
<1>5. Interpreter!Op = Op /\ Interpreter!Arg = Arg
  BY <1>2, <1>4, SameOp
<1>6. Takes(Op, Arg) = Erased(Op, Arg) /\ Makes(Op) = 0
  BY PlainTakes
<1>7. ASSUME mem' = mem PROVE Data' = SubSeq(Data, 1, Len(Data) - Erased(Op, Arg))
  <2>1. LET r == Reads(mem, find[Here.pc].slots)
        IN  Reads(mem, find[Here.pc + 1].slots) = SubSeq(r, 1, Len(r) - Takes(Op, Arg))
    BY <1>3, <1>4, <1>6, DropView
  <2> QED BY <1>2, <1>6, <1>7, <2>1
<1> QED BY <1>2, <1>5, <1>7

LEMMA ComputeStep ==
    ASSUME TrueInv, TrueInv', mode = "run", cur # ReturnBlock, tailcalled = FALSE,
           Here.do = "op", Compute, Op # "TailCall"
    PROVE  Interpreter!Compute
<1>1. /\ Op \in Plain \ (Loads \cup {"Pop"}) /\ Continue /\ tailcalled' = FALSE /\ mem' = mem
      /\ handlers' = handlers /\ acc' = IF Op \in Stores THEN acc ELSE Here.pc
  BY DEF Compute
<1>2. /\ Mode' = Mode /\ prog' = prog /\ Acc = acc /\ Acc' = acc' /\ Open' = Open
      /\ Interpreter!Op = Op /\ Interpreter!Arg = Arg /\ Address = Here.pc /\ Address' = Address + 1
      /\ Data' = SubSeq(Data, 1, Len(Data) - Erased(Op, Arg))
  BY <1>1, StepView
<1>3. Interpreter!Op \in Interpreter!Plain \ (Interpreter!Loads \cup {"Pop"})
  BY <1>1, <1>2, SamePlain
<1>4. Acc' = IF Interpreter!Op \in Interpreter!Stores THEN Acc ELSE Address
  BY <1>1, <1>2, SamePlain
<1>5. Data' = Interpreter!Drop(Data, Interpreter!Erased(Interpreter!Op, Interpreter!Arg))
  BY <1>2, SameErased DEF Interpreter!Drop
<1> QED BY <1>2, <1>3, <1>4, <1>5 DEF Interpreter!Compute, Interpreter!Continue

LEMMA PopStep ==
    ASSUME TrueInv, TrueInv', mode = "run", cur # ReturnBlock, tailcalled = FALSE,
           Here.do = "op", Pop
    PROVE  Interpreter!Pop
<1>1. Op = "Pop" /\ Continue /\ tailcalled' = FALSE /\ mem' = mem /\ handlers' = handlers /\ acc' = acc
  BY DEF Pop, running
<1>2. Op \in Plain /\ Erased(Op, Arg) = Arg
  BY <1>1 DEF Plain, PopsParameter, Erased, Binary
<1>3. /\ Mode' = Mode /\ prog' = prog /\ Acc = acc /\ Acc' = acc' /\ Open' = Open
      /\ Interpreter!Op = Op /\ Interpreter!Arg = Arg /\ Address' = Address + 1
      /\ Data' = SubSeq(Data, 1, Len(Data) - Erased(Op, Arg))
  BY <1>1, <1>2, StepView
<1>4. Data' = Interpreter!Drop(Data, Interpreter!Arg)
  BY <1>2, <1>3 DEF Interpreter!Drop
<1> QED BY <1>1, <1>3, <1>4 DEF Interpreter!Pop, Interpreter!Continue

\* A slot that an instruction names.
LEMMA SlotView ==
    ASSUME TrueInv, mode = "run", cur # ReturnBlock, Here.do = "op",
           Op \in Loads \cup {"SetStack"}
    PROVE  LET n == Slot(Op, Arg)
               s == find[Here.pc].slots
               r == Reads(mem, s)
           IN  \E k \in DOMAIN s :
                   /\ s \in Seq([at : Int, n : Int]) /\ k = Len(s) - n /\ k = Len(r) - n
                   /\ IsSequence(r) /\ k \in DOMAIN r
                   /\ SlotVar(n) = s[k] /\ Read(s[k]) = r[k]
<1>1. PICK S : S = [at : Int, n : Int]
  OBVIOUS
<1>2. PICK n, s, r : n = Slot(Op, Arg) /\ s = find[Here.pc].slots /\ r = Reads(mem, s)
  OBVIOUS
<1>3. Form /\ Here.pc \in is /\ Here.pc \in reached /\ Here.slots = s
  BY <1>2, AtOp DEF TrueInv
<1>4. s \in Seq(S) /\ Len(s) \in Nat
  <2>1. s \in Seq(S)
    BY <1>1, <1>2, <1>3, Finds
  <2> QED BY <2>1
<1>5. IsSequence(r) /\ Len(r) = Len(s) /\ DOMAIN r = 1..Len(s)
      /\ \A k \in 1..Len(s) : r[k] = IF s[k] \in DOMAIN mem THEN mem[s[k]] ELSE Unset
  BY <1>2, <1>4, ReadsSequence
<1>6. n \in 0..(Len(s) - 1)
  BY <1>2, <1>3, Balance DEF Op, Arg
<1>7. PICK k : k = Len(s) - n
  OBVIOUS
<1>8. k \in 1..Len(s) /\ k \in DOMAIN s
  BY <1>4, <1>6, <1>7
<1>9. SlotVar(n) = s[k]
  BY <1>3, <1>7 DEF SlotVar
<1>10. Read(s[k]) = r[k]
  BY <1>5, <1>8 DEF Read
<1>11. k = Len(r) - n /\ k \in DOMAIN r
  BY <1>5, <1>7, <1>8
<1> QED BY <1>1, <1>2, <1>4, <1>5, <1>7, <1>8, <1>9, <1>10, <1>11

LEMMA WholeSequence == ASSUME NEW r, IsSequence(r) PROVE SubSeq(r, 1, Len(r) - 0) = r
<1>1. PICK S : r \in Seq(S)
  BY DEF IsSequence
<1> QED BY <1>1

LEMMA LoadStep ==
    ASSUME TrueInv, TrueInv', mode = "run", cur # ReturnBlock, tailcalled = FALSE,
           Here.do = "op", Load
    PROVE  Interpreter!Load
<1>1. /\ Op \in Loads /\ Continue /\ tailcalled' = FALSE /\ mem' = mem
      /\ handlers' = handlers /\ acc' = Read(SlotVar(Slot(Op, Arg)))
  BY DEF Load
<1>2. Op \in Plain /\ Erased(Op, Arg) = 0
  BY <1>1 DEF Plain, Loads, Erased, Binary
<1>3. /\ Mode' = Mode /\ prog' = prog /\ Acc = acc /\ Acc' = acc' /\ Open' = Open
      /\ Interpreter!Op = Op /\ Interpreter!Arg = Arg /\ Address' = Address + 1
      /\ Data = Reads(mem, find[Here.pc].slots)
      /\ Data' = SubSeq(Data, 1, Len(Data) - Erased(Op, Arg))
  BY <1>1, <1>2, StepView
<1>4. PICK k : /\ k = Len(Data) - Slot(Op, Arg) /\ IsSequence(Data)
               /\ Read(SlotVar(Slot(Op, Arg))) = Data[k]
  BY <1>1, <1>3, SlotView
<1>5. Data' = Data
  BY <1>2, <1>3, <1>4, WholeSequence
<1>6. Acc' = Data[Len(Data) - Interpreter!Slot(Interpreter!Op, Interpreter!Arg)]
  BY <1>1, <1>3, <1>4, SameSlot
<1>7. Interpreter!Op \in Interpreter!Loads
  BY <1>1, <1>3, SamePlain
<1> QED BY <1>3, <1>5, <1>6, <1>7 DEF Interpreter!Load, Interpreter!Continue

LEMMA SetStackStep ==
    ASSUME TrueInv, TrueInv', mode = "run", cur # ReturnBlock, tailcalled = FALSE,
           Here.do = "op", Store, Op = "SetStack"
    PROVE  Interpreter!SetStack
<1>1. /\ Continue /\ tailcalled' = FALSE /\ handlers' = handlers /\ acc' = acc
      /\ mem' = Stored({SlotVar(Arg)}, acc)
  BY DEF Store
<1>2. Slot(Op, Arg) = Arg /\ Takes(Op, Arg) = 0 /\ Makes(Op) = 0 /\ Op \notin Exits
  BY DEF Slot, Takes, Makes, Erased, Binary, Exits
<1>3. /\ Mode' = Mode /\ prog' = prog /\ Acc = acc /\ Acc' = acc' /\ Open' = Open
      /\ Interpreter!Op = Op /\ Interpreter!Arg = Arg /\ Address' = Address + 1
      /\ Data = Reads(mem, find[Here.pc].slots)
      /\ Data' = Reads(mem', find[Here.pc + 1].slots)
  BY <1>1, StepView
<1>4. PICK s : s = find[Here.pc].slots
  OBVIOUS
<1>5. PICK k \in DOMAIN s :
          /\ s \in Seq([at : Int, n : Int]) /\ k = Len(Data) - Arg /\ SlotVar(Arg) = s[k]
  <2>1. \E k \in DOMAIN find[Here.pc].slots :
            /\ find[Here.pc].slots \in Seq([at : Int, n : Int]) /\ k = Len(Data) - Slot(Op, Arg)
            /\ SlotVar(Slot(Op, Arg)) = find[Here.pc].slots[k]
    BY <1>3, SlotView
  <2> QED BY <1>2, <1>4, <2>1
<1>6. find[Here.pc + 1].slots = s
  <2>1. Form /\ Here.pc \in is /\ GoesOn(prog, Here.pc)
    BY <1>1, <1>2, Onward DEF TrueInv
  <2>2. PICK i, op, arg : i = Here.pc /\ op = Op /\ arg = Arg /\ op = At(prog, i).op /\ arg = At(prog, i).arg
    BY DEF Op, Arg
  <2>3. find[i + 1] = Behind(find[i], i, op, arg)
    BY <2>1, <2>2, GoingOn
  <2>4. find[i + 1].slots = SubSeq(s, 1, Len(s) - 0) \o Variables(i, 0)
    <3>1. PICK x : x = find[i]
      OBVIOUS
    <3>2. Behind(x, i, op, arg).slots = SubSeq(x.slots, 1, Len(x.slots) - Takes(op, arg)) \o Variables(i, Makes(op))
      BY DEF Behind
    <3> QED BY <1>2, <1>4, <2>2, <2>3, <3>1, <3>2
  <2>5. SubSeq(s, 1, Len(s) - 0) = s
    BY <1>5, WholeSequence DEF IsSequence
  <2>6. s \o Variables(i, 0) = s
    BY <1>5, NoVariables
  <2> QED BY <2>2, <2>4, <2>5, <2>6
<1>7. Apart(s)
  <2>1. NewItem(Here) /\ Here.slots = s
    <3>1. cur \in DOMAIN blocks /\ at \in DOMAIN code[cur] /\ Here = code[cur][at]
      BY RunningItem DEF TrueInv
    <3>2. Here.slots = s
      BY <1>4, AtOp DEF TrueInv
    <3> QED BY <3>1, <3>2 DEF TrueInv, NewSlots
  <2> QED BY <2>1 DEF NewItem
<1>8. Reads(Stored({s[k]}, acc), s) = [Reads(mem, s) EXCEPT ![k] = acc]
  BY <1>5, <1>7, ReadsStore
<1>9. Data' = [Data EXCEPT ![Len(Data) - Interpreter!Arg] = Acc]
  BY <1>1, <1>3, <1>4, <1>5, <1>6, <1>8
<1> QED BY <1>1, <1>3, <1>9 DEF Interpreter!SetStack, Interpreter!Continue

LEMMA StoresNew ==
    ASSUME NEW i, NEW n, NEW a
    PROVE  Wrote(mem, Stored({Variable(i, j) : j \in 1..n}, a), Variables(i, n), a)
<1>1. PICK f, g, v : f = mem /\ g = Stored({Variable(i, j) : j \in 1..n}, a) /\ v = Variables(i, n)
  OBVIOUS
<1>2. /\ DOMAIN v = 1..n /\ \A j \in 1..n : v[j] = Variable(i, j)
  BY <1>1 DEF Variables
<1>3. {v[j] : j \in DOMAIN v} = {Variable(i, j) : j \in 1..n}
  BY <1>2
<1>4. g = [x \in DOMAIN f \cup {v[j] : j \in DOMAIN v} |-> IF x \in {v[j] : j \in DOMAIN v} THEN a ELSE f[x]]
  BY <1>1, <1>3 DEF Stored
<1>5. Wrote(f, g, v, a)
  BY <1>4 DEF Wrote
<1> QED BY <1>1, <1>5

\* Push and Trap make slots.
Fresh(i, n) == {Variable(i, j) : j \in 1..n}

\* What the item that runs does to the slots, and what that is for Activation.
MakesSlots(n, a) ==
    /\ Continue /\ tailcalled' = FALSE /\ Here.do = "op"
    /\ Op \in {"Push", "Trap"} /\ n \in Nat /\ n = Makes(Op)
    /\ mem' = Stored(Fresh(Here.pc, n), a)

Grows(n, a) ==
    /\ Mode = "run" /\ Mode' = "run" /\ prog' = prog /\ Acc = acc /\ Acc' = acc'
    /\ Open = handlers /\ Open' = handlers'
    /\ Interpreter!Op = Op /\ Interpreter!Arg = Arg /\ Address' = Address + 1
    /\ IsSequence(Data) /\ Len(Data) = Len(Here.slots)
    /\ Data' = Data \o Copies(n, a)

LEMMA NewView ==
    ASSUME TrueInv, TrueInv', mode = "run", cur # ReturnBlock, tailcalled = FALSE,
           NEW n, NEW a, MakesSlots(n, a)
    PROVE  Grows(n, a)
<1> USE DEF MakesSlots
<1>1. Op \notin Exits
  BY DEF Exits
<1>2. /\ Mode = "run" /\ Mode' = "run" /\ prog' = prog /\ Acc' = acc' /\ Open' = handlers'
      /\ Acc = acc /\ Open = handlers
      /\ Address = Here.pc /\ Address' = Here.pc + 1
      /\ Data = Reads(mem, find[Here.pc].slots)
      /\ Data' = Reads(mem', find[Here.pc + 1].slots)
  BY <1>1, OnView
<1>3. /\ Form /\ Here.pc \in is /\ GoesOn(prog, Here.pc) /\ Here.pc \in reached
      /\ Here.slots = find[Here.pc].slots
  BY <1>1, Onward, AtOp DEF TrueInv
<1>4. Interpreter!Op = Op /\ Interpreter!Arg = Arg
  BY <1>2, SameOp DEF Op, Arg
<1>5. PICK S : S = [at : Int, n : Int]
  OBVIOUS
<1>6. PICK i, s, new : i = Here.pc /\ s = find[i].slots /\ new = Variables(i, n)
  OBVIOUS
<1>7. i \in Int /\ s \in Seq(S)
  <2>1. i \in Int
    BY <1>3, <1>6, Reached
  <2>2. s \in Seq(S)
    BY <1>3, <1>5, <1>6, Finds
  <2> QED BY <2>1, <2>2
<1>8. /\ new \in Seq(S) /\ Len(new) = n /\ DOMAIN new = 1..n
      /\ \A k \in 1..n : new[k] = Variable(i, k) /\ Variable(i, k).at = i
  <2>1. new \in Seq(S) /\ Len(new) = n /\ DOMAIN new = 1..n
    BY <1>5, <1>6, <1>7, ApartVariables
  <2>2. \A k \in 1..n : new[k] = Variable(i, k) /\ Variable(i, k).at = i
    BY <1>6, <1>7, ApartVariables
  <2> QED BY <2>1, <2>2
<1>9. find[i + 1].slots = s \o new
  <2>1. PICK x, op, arg : x = find[i] /\ op = At(prog, i).op /\ arg = At(prog, i).arg
    OBVIOUS
  <2>2. op \in {"Push", "Trap"} /\ n = Makes(op)
    BY <1>6, <2>1 DEF Op
  <2>3. Takes(op, arg) = 0
    BY <2>2 DEF Takes, Erased, Binary
  <2>4. find[i + 1] = Behind(x, i, op, arg)
    BY <1>3, <1>6, <2>1, GoingOn
  <2>5. Behind(x, i, op, arg).slots = SubSeq(x.slots, 1, Len(x.slots) - Takes(op, arg)) \o Variables(i, Makes(op))
    BY DEF Behind
  <2>6. find[i + 1].slots = SubSeq(s, 1, Len(s) - 0) \o new
    BY <1>6, <2>1, <2>2, <2>3, <2>4, <2>5
  <2>7. SubSeq(s, 1, Len(s) - 0) = s
    BY <1>7, WholeSequence DEF IsSequence
  <2> QED BY <2>6, <2>7
<1>10. Others(s, new)
  <2>1. cur \in DOMAIN blocks /\ at \in DOMAIN code[cur] /\ Here = code[cur][at]
    BY RunningItem DEF TrueInv
  <2>2. NewItem(Here)
    BY <2>1 DEF TrueInv, NewSlots
  <2>3. \A j \in DOMAIN s : s[j].at # i
    BY <1>3, <1>6, <2>2 DEF NewItem
  <2> QED BY <1>8, <2>3 DEF Others
<1>11. Wrote(mem, mem', new, a)
  BY <1>6, StoresNew DEF Fresh
<1>12. PICK f, g : f = mem /\ g = mem'
  OBVIOUS
<1>13. Reads(g, s \o new) = Reads(f, s) \o Copies(n, a)
  <2>1. Wrote(f, g, new, a) /\ s \in Seq(S) /\ new \in Seq(S)
    BY <1>7, <1>8, <1>11, <1>12
  <2>2. Alike(s, new)
    BY <2>1 DEF Alike
  <2>3. Reads(g, s \o new) = Reads(f, s) \o Copies(Len(new), a)
    BY <1>10, <2>1, <2>2, ReadsMore
  <2> QED BY <1>8, <2>3
<1>14. Data' = Data \o Copies(n, a)
  BY <1>2, <1>6, <1>9, <1>12, <1>13
<1>15. IsSequence(Data) /\ Len(Data) = Len(Here.slots)
  BY <1>2, <1>3, <1>6, <1>7, ReadsSequence
<1> QED BY <1>2, <1>4, <1>14, <1>15 DEF Grows

LEMMA AppendOne == ASSUME NEW r, IsSequence(r), NEW a PROVE r \o Copies(1, a) = Append(r, a)
<1>1. PICK S : r \in Seq(S)
  BY DEF IsSequence
<1>2. PICK T : T = S \cup {a}
  OBVIOUS
<1>3. r \in Seq(T) /\ a \in T
  BY <1>1, <1>2
<1>4. PICK t : t = Copies(1, a)
  OBVIOUS
<1>5. t \in Seq(T) /\ Len(t) = 1 /\ t[1] = a
  <2>1. t = <<a>>
    BY <1>4 DEF Copies
  <2> QED BY <1>3, <2>1
<1>6. PICK p : p = Append(r, a)
  OBVIOUS
<1>7. PICK q : q = r \o t
  OBVIOUS
<1>8. PICK n \in Nat : n = Len(r)
  BY <1>3
<1>9. p \in Seq(T) /\ Len(p) = n + 1 /\ p[n + 1] = a /\ \A k \in 1..n : p[k] = r[k]
  BY <1>3, <1>6, <1>8
<1>10. q \in Seq(T) /\ Len(q) = n + 1 /\ q[n + 1] = a /\ \A k \in 1..n : q[k] = r[k]
  <2>1. r \in Seq(T) /\ t \in Seq(T)
    BY <1>3, <1>5
  <2>2. /\ r \o t \in Seq(T) /\ Len(r \o t) = Len(r) + Len(t)
        /\ \A k \in 1..Len(r) : (r \o t)[k] = r[k]
        /\ \A k \in 1..Len(t) : (r \o t)[Len(r) + k] = t[k]
    BY <2>1, Joined
  <2>3. 1 \in 1..Len(t)
    BY <1>5
  <2> QED BY <1>5, <1>7, <1>8, <2>2, <2>3
<1>11. \A k \in 1..(n + 1) : p[k] = q[k]
  <2>1. ASSUME NEW k \in 1..(n + 1) PROVE p[k] = q[k]
    <3>1. k \in 1..n \/ k = n + 1
      OBVIOUS
    <3> QED BY <1>9, <1>10, <3>1
  <2> QED BY <2>1
<1>12. p = [k \in 1..(n + 1) |-> p[k]] /\ q = [k \in 1..(n + 1) |-> q[k]]
  BY <1>9, <1>10
<1> QED BY <1>4, <1>6, <1>7, <1>11, <1>12

LEMMA PushStep ==
    ASSUME TrueInv, TrueInv', mode = "run", cur # ReturnBlock, tailcalled = FALSE,
           Here.do = "op", Store, Op = "Push"
    PROVE  Interpreter!Push
<1>1. /\ Continue /\ tailcalled' = FALSE /\ handlers' = handlers /\ acc' = acc
      /\ mem' = Stored({Variable(Here.pc, 1)}, acc)
  BY DEF Store
<1>2. Makes(Op) = 1
  BY DEF Makes
<1>3. Fresh(Here.pc, 1) = {Variable(Here.pc, 1)}
  BY DEF Fresh
<1>4. /\ Mode' = Mode /\ prog' = prog /\ Acc = acc /\ Acc' = acc' /\ Open' = Open
      /\ Interpreter!Op = Op /\ Address' = Address + 1
      /\ IsSequence(Data) /\ Data' = Data \o Copies(1, acc)
  <2>1. MakesSlots(1, acc)
    BY <1>1, <1>2, <1>3 DEF MakesSlots
  <2>2. Grows(1, acc)
    BY <2>1, NewView
  <2> QED BY <1>1, <2>2 DEF Grows
<1>5. Data' = Append(Data, Acc)
  BY <1>4, AppendOne
<1> QED BY <1>1, <1>4, <1>5 DEF Interpreter!Push, Interpreter!Continue

LEMMA TrapStep ==
    ASSUME TrueInv, TrueInv', mode = "run", cur # ReturnBlock, tailcalled = FALSE,
           Here.do = "op", Trap
    PROVE  Interpreter!Trap
<1>1. /\ Op = "Trap" /\ Continue /\ tailcalled' = FALSE /\ acc' = acc
      /\ handlers' = <<[handler |-> Arg, below |-> Len(Here.slots)]>> \o handlers
      /\ mem' = Stored(Range(Variables(Here.pc, TrapSize)), TrapSlot)
  BY DEF Trap
<1>2. Makes(Op) = TrapSize /\ TrapSize \in Nat
  BY <1>1, BlockAssumption DEF Makes
<1>3. Range(Variables(Here.pc, TrapSize)) = Fresh(Here.pc, TrapSize)
  BY DEF Range, Variables, Fresh
<1>4. /\ Mode' = Mode /\ prog' = prog /\ Acc = acc /\ Acc' = acc' /\ Open = handlers /\ Open' = handlers'
      /\ Interpreter!Op = Op /\ Interpreter!Arg = Arg /\ Address' = Address + 1
      /\ Len(Data) = Len(Here.slots) /\ Data' = Data \o Copies(TrapSize, TrapSlot)
  <2>1. MakesSlots(TrapSize, TrapSlot)
    BY <1>1, <1>2, <1>3 DEF MakesSlots
  <2>2. Grows(TrapSize, TrapSlot)
    BY <2>1, NewView
  <2> QED BY <1>1, <2>2 DEF Grows
<1>5. Open' = <<[handler |-> Interpreter!Arg, below |-> Len(Data)]>> \o Open
  BY <1>1, <1>4
<1>6. Data' = Data \o [j \in 1..TrapSize |-> Interpreter!TrapSlot]
  BY <1>4 DEF Copies, TrapSlot, Interpreter!TrapSlot
<1> QED BY <1>1, <1>4, <1>5, <1>6 DEF Interpreter!Trap

\* The trap that is open innermost.
LEMMA Innermost ==
    ASSUME TrueInv, mode = "run", cur # ReturnBlock, Here.do = "op", Here.catch # <<>>
    PROVE  /\ handlers # <<>> /\ IsSequence(handlers)
           /\ Head(handlers).handler = Head(Here.catch)
           /\ Head(handlers).below = Len(find[Head(Here.catch)].slots)
<1>1. Here.catch \in Seq(Int) /\ IsSequence(handlers) /\ Naming(handlers, Here.catch)
  BY AtOp DEF TrueInv
<1>2. 1 \in DOMAIN Here.catch /\ Head(Here.catch) = Here.catch[1]
  BY <1>1
<1>3. 1 \in DOMAIN handlers /\ handlers[1].handler = Here.catch[1]
  BY <1>1, <1>2 DEF Naming
<1>4. handlers # <<>> /\ Head(handlers) = handlers[1]
  <2>1. PICK S : handlers \in Seq(S)
    BY <1>1 DEF IsSequence
  <2> QED BY <1>3, <2>1
<1>5. handlers[1].below = Len(find[handlers[1].handler].slots)
  BY <1>3 DEF TrueInv, RunsTrue, Level
<1> QED BY <1>1, <1>2, <1>3, <1>4, <1>5

LEMMA EndTrapStep ==
    ASSUME TrueInv, TrueInv', mode = "run", cur # ReturnBlock, tailcalled = FALSE,
           Here.do = "op", EndTrap
    PROVE  Interpreter!EndTrap
<1>1. /\ Op = "EndTrap" /\ Continue /\ tailcalled' = FALSE /\ mem' = mem /\ acc' = acc
      /\ handlers' = Tail(handlers)
  BY DEF EndTrap
<1>2. Op \notin Exits /\ Takes(Op, Arg) = TrapSize /\ Makes(Op) = 0
  BY <1>1 DEF Exits, Takes, Makes
<1>3. /\ Mode' = Mode /\ prog' = prog /\ Acc = acc /\ Acc' = acc' /\ Open = handlers /\ Open' = handlers'
      /\ Address = Here.pc /\ Address' = Here.pc + 1
      /\ Data = Reads(mem, find[Here.pc].slots)
      /\ Data' = Reads(mem', find[Here.pc + 1].slots)
  BY <1>1, <1>2, OnView
<1>4. Form /\ Here.pc \in is /\ Here.pc \in reached /\ GoesOn(prog, Here.pc)
      /\ Here.catch = find[Here.pc].catch
  BY <1>1, <1>2, Onward, AtOp DEF TrueInv
<1>5. Op = At(prog, Here.pc).op /\ Arg = At(prog, Here.pc).arg
  BY DEF Op, Arg
<1>6. Interpreter!Op = "EndTrap"
  BY <1>1, <1>3, <1>5, SameOp
<1>7. Here.catch # <<>>
  BY <1>1, <1>4, <1>5, OpensTraps
<1>8. handlers # <<>> /\ Head(handlers).below + TrapSize = Len(find[Here.pc].slots)
  <2>1. handlers # <<>> /\ Head(handlers).below = Len(find[Head(Here.catch)].slots)
    BY <1>7, Innermost
  <2>2. Len(find[Head(find[Here.pc].catch)].slots) + TrapSize = Len(find[Here.pc].slots)
    BY <1>1, <1>4, <1>5, Balance
  <2> QED BY <1>4, <2>1, <2>2
<1>9. Len(Data) = Len(find[Here.pc].slots)
  <2>1. find[Here.pc].slots \in Seq([at : Int, n : Int])
    BY <1>4, Finds
  <2> QED BY <1>3, <2>1, ReadsSequence
<1>10. Data' = SubSeq(Data, 1, Len(Data) - TrapSize)
  <2>1. LET r == Reads(mem, find[Here.pc].slots)
        IN  Reads(mem, find[Here.pc + 1].slots) = SubSeq(r, 1, Len(r) - Takes(Op, Arg))
    BY <1>2, <1>4, <1>5, DropView
  <2> QED BY <1>1, <1>2, <1>3, <2>1
<1> QED BY <1>1, <1>3, <1>6, <1>8, <1>9, <1>10 DEF Interpreter!EndTrap, Interpreter!Drop

\* Blocks that an instruction leads to, as addresses.
LEMMA JumpAddress ==
    ASSUME Form, NEW b \in DOMAIN blocks, NEW i \in is, b <= i, i < BlockEnd(b), NEW j \in JumpsTo(b, i)
    PROVE  LET op == At(prog, i).op
               arg == At(prog, i).arg
           IN  /\ op = "Jump" => j = arg /\ j # ReturnBlock
               /\ op \in {"JumpIf", "JumpIfNot"} =>
                      (j = arg /\ j # ReturnBlock) \/ j = i + 1 \/ j = ReturnBlock
               /\ op = "JumpTable" =>
                      /\ j # ReturnBlock
                      /\ j = i + arg + 1 \/ \E k \in 1..arg : j = At(prog, i + k).arg
<1> DEFINE op == At(prog, i).op
           arg == At(prog, i).arg
<1>1. ReturnBlock \notin DOMAIN blocks
  BY Addresses DEF ReturnBlock
<1>2. i \in Nat /\ chunk.from <= i /\ i < limit
  BY Reached
<1>3. ASSUME op = "Jump" PROVE j = arg /\ j # ReturnBlock
  <2>1. JumpsTo(b, i) = {arg} /\ Targets(prog, i) = {arg}
    BY <1>3 DEF JumpsTo, Targets
  <2>2. Targets(prog, i) \subseteq DOMAIN blocks
    BY <1>2, TargetsStart
  <2> QED BY <1>1, <2>1, <2>2
<1>4. ASSUME op \in {"JumpIf", "JumpIfNot"}
      PROVE  (j = arg /\ j # ReturnBlock) \/ j = i + 1 \/ j = ReturnBlock
  <2>1. JumpsTo(b, i) = {arg, blocks[b]}
    BY <1>4 DEF JumpsTo
  <2>2. arg \in DOMAIN blocks /\ blocks[b] \in {i + 1, ReturnBlock}
    BY <1>4, BranchGoesOn
  <2> HIDE DEF arg
  <2> QED BY <1>1, <2>1, <2>2
<1>5. ASSUME op = "JumpTable"
      PROVE  /\ j # ReturnBlock
             /\ j = i + arg + 1 \/ \E k \in 1..arg : j = At(prog, i + k).arg
  <2>1. JumpsTo(b, i) = {blocks[b]} \cup {At(prog, i + k).arg : k \in 1..arg}
    BY <1>5 DEF JumpsTo
  <2>2. /\ arg \in Nat /\ blocks[b] = i + arg + 1
        /\ \A k \in 1..arg : At(prog, i + k).arg \in DOMAIN blocks
    BY <1>5, TableGoesOn
  <2> HIDE DEF arg
  <2>3. blocks[b] # ReturnBlock
    BY <1>2, <2>2 DEF ReturnBlock
  <2> QED BY <1>1, <2>1, <2>2, <2>3
<1> QED BY <1>3, <1>4, <1>5

LEMMA JumpStep ==
    ASSUME TrueInv, TrueInv', mode = "run", cur # ReturnBlock, tailcalled = FALSE,
           Here.do = "op", Jump
    PROVE  Interpreter!Jump
<1>1. /\ Form /\ Here.pc \in is /\ Spot = Here.pc /\ cur \in DOMAIN blocks
      /\ cur <= Here.pc /\ Here.pc < BlockEnd(cur)
  BY AtOp DEF TrueInv
<1>2. PICK i : i = Here.pc
  OBVIOUS
<1>3. Op = At(prog, i).op /\ Arg = At(prog, i).arg
  BY <1>2 DEF Op, Arg
<1>4. Op \in {"Jump", "JumpIf", "JumpIfNot", "JumpTable"}
  BY JumpGoes DEF TrueInv
<1>5. PICK j \in JumpsTo(cur, i) :
          /\ Goto(j)
          /\ j = ReturnBlock => i + 1 = limit /\ find[limit] = find[i]
          /\ j # ReturnBlock => j \in compiled /\ j \notin catching /\ find[j] = find[i]
  BY <1>2, JumpGoes DEF TrueInv
<1>6. /\ Mode' = Mode /\ prog' = prog /\ Address = i /\ Data = Reads(mem, find[i].slots)
      /\ Acc = acc /\ Open = handlers
      /\ Acc' = acc /\ Open' = handlers /\ Data' = Reads(mem, find[i].slots)
      /\ Address' = IF j = ReturnBlock THEN i + 1 ELSE j
  <2>1. /\ Mode = "run" /\ Mode' = "run" /\ prog' = prog
        /\ Address = Spot /\ Data = Reads(mem, find[Spot].slots)
        /\ Here.do # "fetch" => Acc = acc /\ Open = handlers
        /\ j = ReturnBlock => /\ Address' = limit /\ Data' = Reads(mem, find[limit].slots)
                              /\ Acc' = acc /\ Open' = handlers
        /\ j # ReturnBlock =>
               /\ Address' = j /\ Data' = Reads(mem, find[j].slots)
               /\ Acc' = IF j \in catching THEN Exception ELSE acc
               /\ Open' = IF j \in catching THEN Tail(handlers) ELSE handlers
    BY <1>5, LandsView
  <2> QED BY <1>1, <1>2, <1>5, <2>1
<1>7. Interpreter!Op = Op /\ Interpreter!Arg = Arg
  BY <1>3, <1>6, SameOp
<1>8. /\ Op = "Jump" => j = Arg /\ j # ReturnBlock
      /\ Op \in {"JumpIf", "JumpIfNot"} => (j = Arg /\ j # ReturnBlock) \/ j = i + 1 \/ j = ReturnBlock
      /\ Op = "JumpTable" =>
             /\ j # ReturnBlock
             /\ j = i + Arg + 1 \/ \E k \in 1..Arg : j = At(prog, i + k).arg
  BY <1>1, <1>2, <1>3, JumpAddress
<1>9. \/ Op \in {"Jump", "JumpIf", "JumpIfNot"} /\ Address' = Arg
      \/ Op \in {"JumpIf", "JumpIfNot"} /\ Address' = i + 1
      \/ Op = "JumpTable" /\ \/ \E k \in 1..Arg : Address' = At(prog, i + k).arg
                             \/ Address' = i + Arg + 1
  BY <1>4, <1>6, <1>8
<1>10. \A k : Interpreter!At(prog, Address + k) = At(prog, i + k)
  BY <1>6, SameAt
<1> QED BY <1>6, <1>7, <1>9, <1>10 DEF Interpreter!Jump

\* A handler finds what was there at its trap.
LEMMA UnwoundView ==
    ASSUME Form, NEW i \in is, find[i].catch # <<>>, NEW f
    PROVE  LET h == Head(find[i].catch)
               m == Len(find[h].slots)
           IN  Reads(f, find[h].slots) = SubSeq(Reads(f, find[i].slots), 1, m)
<1>1. PICK h, s, t : h = Head(find[i].catch) /\ s = find[h].slots /\ t = find[i].slots
  OBVIOUS
<1>2. PICK S : S = [at : Int, n : Int]
  OBVIOUS
<1>3. i \in reached /\ h \in reached
  BY <1>1, Reached, Catching
<1>4. s \in Seq(S) /\ t \in Seq(S)
  BY <1>1, <1>2, <1>3, Finds
<1>5. PICK m \in Nat : m = Len(s)
  BY <1>4
<1>6. IsPrefix(s, t)
  BY <1>1, Balance
<1>7. m \in 0..Len(t) /\ SubSeq(s, 1, m) = SubSeq(t, 1, m)
  BY <1>4, <1>5, <1>6 DEF IsPrefix
<1>8. SubSeq(s, 1, m) = s
  BY <1>4, <1>5
<1>9. Reads(f, SubSeq(t, 1, m)) = SubSeq(Reads(f, t), 1, m)
  BY <1>4, <1>7, ReadsShorter
<1> QED BY <1>1, <1>5, <1>7, <1>8, <1>9

LEMMA ThrowStep ==
    ASSUME TrueInv, TrueInv', mode = "run", cur # ReturnBlock, tailcalled = FALSE,
           Here.do = "op", Throw
    PROVE  Interpreter!Throw \/ Interpreter!TailCall
<1>1. Op \in Plain \cup {"TailCall", "Trap"}
  BY DEF Throw
<1>2. /\ Form /\ Here.pc \in is /\ Spot = Here.pc /\ Here.catch = find[Here.pc].catch
      /\ Here.catch \in Seq(Int) /\ (Here.catch = <<>> => handlers = <<>>)
  BY AtOp DEF TrueInv
<1>3. Seen
  BY SeenHolds DEF Runs
<1>4. /\ Mode = "run" /\ Address = Here.pc /\ Data = Reads(mem, find[Here.pc].slots)
      /\ Acc = acc /\ Open = handlers
  BY <1>2, <1>3 DEF Seen
<1>5. Op = At(prog, Here.pc).op
  BY DEF Op
<1>6. Interpreter!Op = Op
  BY <1>4, <1>5, SameOp
<1>7. Interpreter!Op \in Interpreter!Plain \cup {"Push", "Trap"} \/ Interpreter!Op = "TailCall"
  BY <1>1, <1>6, SamePlain
<1>8. CASE Here.catch = <<>>
  <2>1. Leave("thrown")
    BY <1>8 DEF Throw
  <2>2. /\ Mode' = "thrown" /\ prog' = prog /\ Address' = -1 /\ Data' = <<>> /\ Open' = <<>>
        /\ Acc' = Exception
    BY <2>1, LeaveView
  <2>3. Interpreter!Leave("thrown", Interpreter!Exception)
    BY <2>2 DEF Interpreter!Leave, Exception, Interpreter!Exception
  <2>4. Open = <<>>
    BY <1>2, <1>4, <1>8
  <2> QED BY <1>7, <2>3, <2>4 DEF Interpreter!Throw, Interpreter!TailCall
<1>9. CASE Here.catch # <<>>
  <2>1. PICK h : h = Head(Here.catch)
    OBVIOUS
  <2>2. Goto(h) /\ h \in catching /\ h \in compiled /\ h # ReturnBlock
    BY <1>9, <2>1, ThrowGoes DEF TrueInv
  <2>3. Op # "TailCall"
    BY <1>2, <1>5, <1>9, Balance
  <2>4. /\ Mode' = Mode /\ prog' = prog /\ Address' = h /\ Data' = Reads(mem, find[h].slots)
        /\ Acc' = Exception /\ Open' = Tail(handlers)
    BY <1>4, <2>2, LandsView
  <2>5. /\ handlers # <<>> /\ Head(handlers).handler = h
        /\ Head(handlers).below = Len(find[h].slots)
    BY <1>9, <2>1, Innermost
  <2>6. Data' = SubSeq(Data, 1, Head(Open).below)
    <3>1. find[Here.pc].catch # <<>> /\ h = Head(find[Here.pc].catch)
      BY <1>2, <1>9, <2>1
    <3>2. Reads(mem, find[h].slots) = SubSeq(Reads(mem, find[Here.pc].slots), 1, Len(find[h].slots))
      BY <1>2, <3>1, UnwoundView
    <3> QED BY <1>4, <2>4, <2>5, <3>2
  <2>7. Interpreter!Op \in Interpreter!Plain \cup {"Push", "Trap"}
    BY <1>6, <1>7, <2>3
  <2> QED BY <1>4, <2>4, <2>5, <2>6, <2>7 DEF Interpreter!Throw, Exception, Interpreter!Exception
<1> QED BY <1>8, <1>9

LEMMA LastItem ==
    ASSUME CodeInv, RunsWell, RunsTrue, mode = "run", cur = ReturnBlock
    PROVE  /\ Form /\ Here.do = "ret" /\ handlers = <<>> /\ Spot = limit
           /\ At(prog, limit).op = "Last"
<1>1. Form /\ code[cur] = <<Item("ret", ReturnBlock, [slots |-> <<>>, catch |-> <<>>])>>
  BY DEF CodeInv, Coded
<1>2. at \in DOMAIN code[cur] /\ limit \in reached /\ handlers = <<>>
  BY DEF RunsWell, RunsTrue
<1>3. Here = Item("ret", ReturnBlock, [slots |-> <<>>, catch |-> <<>>])
  BY <1>1, <1>2 DEF Here
<1>4. Here.do = "ret"
  BY <1>3 DEF Item
<1> QED BY <1>1, <1>2, <1>4, LimitFinds DEF Spot

LEMMA RetStep ==
    ASSUME TrueInv, mode = "run", tailcalled = FALSE,
           cur = ReturnBlock \/ (cur # ReturnBlock /\ Here.do = "op" /\ Op = "Ret"), Ret
    PROVE  Interpreter!Ret
<1>1. Seen
  BY SeenHolds DEF Runs
<1>2. At(prog, Spot).op \in {"Ret", "Last"} /\ handlers = <<>> /\ Here.do # "fetch"
  <2>1. CASE cur = ReturnBlock
    BY <2>1, LastItem DEF TrueInv
  <2>2. CASE cur # ReturnBlock /\ Here.do = "op" /\ Op = "Ret"
    <3>1. /\ Form /\ Here.pc \in is /\ Spot = Here.pc /\ Here.catch = find[Here.pc].catch
          /\ (Here.catch = <<>> => handlers = <<>>)
      BY <2>2, AtOp DEF TrueInv
    <3>2. At(prog, Here.pc).op = "Ret"
      BY <2>2 DEF Op
    <3>3. find[Here.pc].catch = <<>>
      BY <3>1, <3>2, Balance
    <3> QED BY <2>2, <3>1, <3>2, <3>3
  <2> QED BY <2>1, <2>2
<1>3. Mode = "run" /\ Address = Spot /\ Acc = acc /\ Open = <<>>
  BY <1>1, <1>2 DEF Seen
<1>4. Interpreter!Op \in {"Ret", "Last"}
  BY <1>2, <1>3, SameOp
<1>5. /\ Mode' = "returned" /\ prog' = prog /\ Address' = -1 /\ Data' = <<>> /\ Open' = <<>>
      /\ Acc' = acc
  BY LeaveView DEF Ret
<1> QED BY <1>3, <1>4, <1>5 DEF Interpreter!Ret, Interpreter!Leave

-----------------------------------------------------------------------------
(* Steps that the interpreter does not make. *)

\* After a tail call, for the interpreter the function has returned.
Tailed == CodeInv /\ RunsWell /\ RunsTrue /\ mode = "run" /\ tailcalled

Left == Mode = "returned" /\ Address = -1 /\ Data = <<>> /\ Open = <<>> /\ Acc = acc

LEMMA TailedLeft == Tailed => Left
<1> SUFFICES ASSUME Tailed PROVE Left
  OBVIOUS
<1>1. Ended /\ Mode = "returned"
  BY DEF Tailed, Ended, Mode
<1>2. Here.do # "fetch"
  <2>1. CASE cur = ReturnBlock
    BY <2>1, LastItem DEF Tailed
  <2>2. CASE cur # ReturnBlock
    BY <2>2 DEF Tailed, RunsTrue, Returning
  <2> QED BY <2>1, <2>2
<1>3. Acc = acc
  BY <1>2 DEF Tailed, Acc, AtFetch
<1> QED BY <1>1, <1>3 DEF Left, Address, Data, Open

LEMMA TailedLeftNext == Tailed' => Left'
BY TailedLeft, PTL

LEMMA TailCallStep ==
    ASSUME TrueInv, TrueInv', mode = "run", cur # ReturnBlock, tailcalled = FALSE,
           Here.do = "op", Compute, Op = "TailCall"
    PROVE  Interpreter!TailCall
<1>1. /\ acc' = Here.pc /\ tailcalled' = TRUE /\ Continue
  BY DEF Compute, Stores
<1>2. /\ Form /\ Here.pc \in is /\ Spot = Here.pc /\ Here.catch = find[Here.pc].catch
      /\ (Here.catch = <<>> => handlers = <<>>)
  BY AtOp DEF TrueInv
<1>3. At(prog, Here.pc).op = "TailCall"
  BY DEF Op
<1>4. find[Here.pc].catch = <<>>
  BY <1>2, <1>3, Balance
<1>5. Seen
  BY SeenHolds DEF Runs
<1>6. Address = Here.pc /\ Open = <<>>
  BY <1>2, <1>4, <1>5 DEF Seen
<1>7. Interpreter!Op = "TailCall"
  BY <1>3, <1>6, SameOp
<1>8. mode' = "run" /\ prog' = prog
  BY <1>1 DEF Continue
<1>9. Left'
  BY <1>1, <1>8, TailedLeftNext DEF Tailed, TrueInv
<1>10. Interpreter!Leave("returned", Address)
  BY <1>1, <1>6, <1>8, <1>9 DEF Left, Interpreter!Leave
<1> QED BY <1>6, <1>7, <1>10 DEF Interpreter!TailCall

Stays == UNCHANGED <<prog, Mode, Address, Acc, Data, Open>>

LEMMA TailedStep ==
    ASSUME TrueInv, TrueInv', mode = "run", tailcalled = TRUE, Run
    PROVE  Stays
<1>1. Left
  BY TailedLeft DEF Tailed, TrueInv
<1>2. ASSUME Leave("returned") PROVE Stays
  BY <1>1, <1>2, LeaveView DEF Stays, Left
<1>3. ASSUME mode' = "run", tailcalled' = TRUE, acc' = acc, prog' = prog PROVE Stays
  <2>1. Left'
    BY <1>3, TailedLeftNext DEF Tailed, TrueInv
  <2> QED BY <1>1, <1>3, <2>1 DEF Stays, Left
<1>4. \A b : Goto(b) => Stays
  BY <1>3 DEF Goto, running
<1>5. CASE Ret
  BY <1>2, <1>5 DEF Ret
<1>6. CASE Here.do = "br" /\ Goto(Here.pc)
  BY <1>4, <1>6
<1>7. CASE Here.do = "fetch"
  <2>1. CASE cur = ReturnBlock
    BY <1>7, <2>1, LastItem DEF TrueInv
  <2>2. CASE cur # ReturnBlock
    BY <1>7, <2>2 DEF TrueInv, RunsTrue, Returning
  <2> QED BY <2>1, <2>2
<1>8. CASE Here.do = "op"
  <2>1. cur # ReturnBlock
    BY <1>8, LastItem DEF TrueInv
  <2>2. Op \in {"Ret", "Jump", "Pop"}
    BY <1>8, <2>1, BehindTail DEF TrueInv
  <2>3. ~Compute /\ ~Load /\ ~Store /\ ~Trap /\ ~EndTrap /\ ~Throw
    BY <2>2 DEF Compute, Load, Store, Trap, EndTrap, Throw, Plain, Binary, PopsParameter, Loads
  <2>4. Jump => Stays
    BY <1>4 DEF Jump
  <2>5. Pop => Stays
    BY <1>3 DEF Pop, Continue, running
  <2> QED BY <1>5, <1>8, <2>3, <2>4, <2>5 DEF Run
<1> QED BY <1>5, <1>6, <1>7, <1>8 DEF Run

LEMMA FetchStays ==
    ASSUME TrueInv, TrueInv', mode = "run", cur # ReturnBlock, tailcalled = FALSE,
           Here.do = "fetch", Fetch
    PROVE  Stays
<1>1. /\ Continue /\ tailcalled' = FALSE /\ mem' = mem /\ acc' = Exception /\ handlers' = Tail(handlers)
  BY DEF Fetch
<1>2. /\ Mode = "run" /\ Mode' = "run" /\ prog' = prog /\ Acc' = acc' /\ Open' = handlers'
      /\ Acc = Exception /\ Open = Tail(handlers)
      /\ Address' = Address
      /\ Data = Reads(mem, find[cur].slots) /\ Data' = Reads(mem', find[cur].slots)
  BY <1>1, OnView
<1> QED BY <1>1, <1>2 DEF Stays

LEMMA BranchStays ==
    ASSUME TrueInv, TrueInv', mode = "run", cur # ReturnBlock, tailcalled = FALSE,
           Here.do = "br", Goto(Here.pc)
    PROVE  Stays
<1>1. /\ Form /\ cur \in DOMAIN blocks /\ Good(cur, Here) /\ Leading(cur, Here, compiled)
  BY RunningItem DEF TrueInv
<1>2. PICK j : j = Here.pc
  OBVIOUS
<1>3. j = blocks[cur] /\ j \notin catching /\ j \in compiled \cup {ReturnBlock}
      /\ Spot = BlockEnd(cur)
  BY <1>1, <1>2 DEF Good, Leading, Spot, Place
<1>4. BlockEnd(cur) = IF j = ReturnBlock THEN limit ELSE j
  BY <1>1, <1>3, BlockEnds
<1>5. /\ Mode = "run" /\ Mode' = "run" /\ prog' = prog
      /\ Address = Spot /\ Data = Reads(mem, find[Spot].slots)
      /\ Here.do # "fetch" => Acc = acc /\ Open = handlers
      /\ j = ReturnBlock => /\ Address' = limit /\ Data' = Reads(mem, find[limit].slots)
                            /\ Acc' = acc /\ Open' = handlers
      /\ j # ReturnBlock =>
             /\ Address' = j /\ Data' = Reads(mem, find[j].slots)
             /\ Acc' = IF j \in catching THEN Exception ELSE acc
             /\ Open' = IF j \in catching THEN Tail(handlers) ELSE handlers
  BY <1>2, <1>3, LandsView
<1> QED BY <1>3, <1>4, <1>5 DEF Stays

\* Before the code runs.
LEMMA WaitsView ==
    ASSUME mode = "compile", tailcalled = FALSE
    PROVE  /\ Mode = "run" /\ Acc = acc /\ Open = handlers
           /\ Address = IF chunk.to = End(prog) THEN 0 ELSE chunk.from
           /\ Data = [i \in 1..chunk.nargs |-> Argument(i)]
<1>1. ~Ended /\ ~AtFetch
  BY DEF Ended, AtFetch
<1> QED BY <1>1 DEF Mode, Acc, Open, Address, Data

LEMMA CompileStays ==
    ASSUME mode = "compile", tailcalled = FALSE, Dequeue \/ Generate \/ Reach \/ Close
    PROVE  Stays
<1>1. mode' = "compile" /\ UNCHANGED <<prog, chunk, acc, handlers, tailcalled>>
  BY DEF Dequeue, Generate, Reach, Close, running
<1>2. ~Ended /\ ~AtFetch /\ ~Ended' /\ ~AtFetch'
  BY <1>1 DEF Ended, AtFetch
<1>3. Mode' = Mode
  BY <1>1 DEF Mode
<1>4. Acc' = Acc /\ Open' = Open
  BY <1>1, <1>2 DEF Acc, Open
<1>5. Address' = Address /\ Data' = Data
  BY <1>1, <1>2 DEF Address, Data
<1> QED BY <1>1, <1>3, <1>4, <1>5 DEF Stays

\* The arguments.
LEMMA ArgumentsView ==
    ASSUME NEW n
    PROVE  Reads([v \in {Variable(-1, i) : i \in 1..n} |-> Argument(v.n)], Variables(-1, n))
               = [i \in 1..n |-> Argument(i)]
<1>1. PICK f, s : f = [v \in {Variable(-1, i) : i \in 1..n} |-> Argument(v.n)] /\ s = Variables(-1, n)
  OBVIOUS
<1>2. DOMAIN s = 1..n /\ \A i \in 1..n : s[i] = Variable(-1, i)
  BY <1>1 DEF Variables
<1>3. ASSUME NEW i \in 1..n PROVE s[i] \in DOMAIN f /\ f[s[i]] = Argument(i)
  <2>1. s[i] \in {Variable(-1, j) : j \in 1..n} /\ DOMAIN f = {Variable(-1, j) : j \in 1..n}
    BY <1>1, <1>2
  <2>2. f[s[i]] = Argument(s[i].n)
    BY <1>1, <2>1
  <2>3. s[i].n = i
    BY <1>2 DEF Variable
  <2> QED BY <2>1, <2>2, <2>3
<1>4. Reads(f, s) = [i \in 1..n |-> Argument(i)]
  BY <1>2, <1>3 DEF Reads
<1> QED BY <1>1, <1>4

LEMMA StartStep ==
    ASSUME TrueInv, TrueInv', Start
    PROVE  Stays \/ Interpreter!Jump
<1>1. /\ mode = "compile" /\ tailcalled = FALSE /\ handlers = <<>> /\ acc = Entry
      /\ mem = [v \in {Variable(-1, i) : i \in 1..chunk.nargs} |-> Argument(v.n)]
  BY DEF Start, TrueInv, RunsTrue, RunsWell
<1>2. mode' = "run" /\ UNCHANGED <<prog, chunk, blocks, mem, acc, handlers, tailcalled>>
  BY DEF Start, compiler, running
<1>3. PICK b : b = chunk.from
  OBVIOUS
<1>4. /\ Form /\ b \in DOMAIN blocks /\ b \notin catching
      /\ find[b] = [slots |-> Variables(-1, chunk.nargs), catch |-> <<>>]
      /\ Opening(b, code[b][1]) /\ cur' = b /\ Here' = code[b][1]
  BY <1>3, FirstItem DEF TrueInv
<1>5. Here'.do # "fetch"
  BY <1>4 DEF Opening
<1>6. find' = find
  BY <1>2, <1>4, Still DEF Same
<1>7. Spot' = b
  <2>1. Place(cur, Here)' = Place(b, Here')
    BY <1>2, <1>4 DEF Place, BlockEnd
  <2>2. b # ReturnBlock
    BY <1>4, Addresses DEF ReturnBlock
  <2> QED BY <1>4, <2>1, <2>2 DEF Spot, Opening
<1>8. Seen'
  BY <1>1, <1>2, SeenNext
<1>9. /\ Mode' = "run" /\ Address' = b /\ Data' = Reads(mem, find[b].slots)
      /\ Acc' = acc /\ Open' = handlers
  BY <1>2, <1>5, <1>6, <1>7, <1>8 DEF Seen, Reads
<1>10. Data' = [i \in 1..chunk.nargs |-> Argument(i)]
  BY <1>1, <1>4, <1>9, ArgumentsView
<1>11. /\ Mode = "run" /\ Acc = acc /\ Open = handlers
       /\ Address = IF chunk.to = End(prog) THEN 0 ELSE chunk.from
       /\ Data = [i \in 1..chunk.nargs |-> Argument(i)]
  BY <1>1, WaitsView
<1>12. CASE Address = b
  BY <1>2, <1>9, <1>10, <1>11, <1>12 DEF Stays
<1>13. CASE Address # b
  <2>1. Address = 0 /\ chunk.to = End(prog) /\ chunk.from # 0
    BY <1>3, <1>11, <1>13
  <2>2. At(prog, 0).op = "Jump" /\ At(prog, 0).arg = b
    BY <1>3, <1>4, <2>1 DEF Form, Balanced
  <2>3. Interpreter!Op = "Jump" /\ Interpreter!Arg = b
    BY <2>1, <2>2, SameOp
  <2> QED BY <1>2, <1>9, <1>10, <1>11, <2>3 DEF Interpreter!Jump
<1> QED BY <1>12, <1>13

-----------------------------------------------------------------------------
(* The refinement. *)

LEMMA InitTrue == ASSUME Init, CodeInv PROVE RunsTrue
BY DEF Init, RunsTrue

LEMMA InitView == ASSUME Init, CodeInv PROVE Interpreter!Init
<1>1. mode = "compile" /\ tailcalled = FALSE /\ handlers = <<>> /\ acc = Entry /\ chunk \in Chunks(prog)
  BY DEF Init
<1>2. /\ Mode = "run" /\ Acc = Interpreter!Entry /\ Open = <<>>
      /\ Address = IF chunk.to = End(prog) THEN 0 ELSE chunk.from
      /\ Data = [i \in 1..chunk.nargs |-> Argument(i)]
  BY <1>1, WaitsView DEF Entry, Interpreter!Entry
<1>3. CASE chunk.to = End(prog)
  <2>1. chunk.nargs = 0
    BY <1>3 DEF CodeInv, Form, Balanced
  <2>2. Data = <<>>
    BY <1>2, <2>1
  <2> QED BY <1>2, <1>3, <2>2 DEF Interpreter!Init
<1>4. CASE chunk.to # End(prog)
  <2>1. \/ \E j \in DOMAIN prog.functions : \E to :
               chunk = [from |-> prog.functions[j].at, to |-> to, nargs |-> prog.functions[j].nargs]
        \/ \E from : chunk = [from |-> from, to |-> End(prog), nargs |-> 0]
    BY <1>1 DEF Chunks
  <2>2. PICK j \in DOMAIN prog.functions :
            chunk.from = prog.functions[j].at /\ chunk.nargs = prog.functions[j].nargs
    BY <1>4, <2>1
  <2>3. Data = [i \in 1..prog.functions[j].nargs |-> Interpreter!Argument(i)]
    BY <1>2, <2>2 DEF Argument, Interpreter!Argument
  <2> QED BY <1>2, <1>4, <2>2, <2>3 DEF Interpreter!Init
<1> QED BY <1>3, <1>4

LEMMA RunView ==
    ASSUME TrueInv, TrueInv', Run, tailcalled = FALSE
    PROVE  Stays \/ Interpreter!Next
<1>1. mode = "run"
  BY DEF Run
<1>2. Mode = "run"
  BY <1>1 DEF Mode
<1>3. CASE cur = ReturnBlock
  <2>1. Ret
    BY <1>1, <1>3, LastItem DEF Run, TrueInv
  <2>2. Interpreter!Ret
    BY <1>1, <1>3, <2>1, RetStep
  <2> QED BY <1>2, <2>2 DEF Interpreter!Next
<1>4. CASE cur # ReturnBlock
  <2>1. Here.do \in {"op", "br", "fetch"}
    BY <1>1, <1>4, RunningItem DEF TrueInv, Good
  <2>2. CASE Here.do = "br"
    BY <1>1, <1>4, <2>2, BranchStays DEF Run
  <2>3. CASE Here.do = "fetch"
    BY <1>1, <1>4, <2>3, FetchStays DEF Run
  <2>4. CASE Here.do = "op"
    <3>1. ASSUME Compute PROVE Interpreter!Compute \/ Interpreter!TailCall
      BY <1>1, <1>4, <2>4, <3>1, ComputeStep, TailCallStep
    <3>2. ASSUME Load PROVE Interpreter!Load
      BY <1>1, <1>4, <2>4, <3>2, LoadStep
    <3>3. ASSUME Store PROVE Interpreter!SetStack \/ Interpreter!Push
      <4>1. Op \in {"SetStack", "Push"}
        BY <3>3 DEF Store
      <4> QED BY <1>1, <1>4, <2>4, <3>3, <4>1, SetStackStep, PushStep
    <3>4. ASSUME Pop PROVE Interpreter!Pop
      BY <1>1, <1>4, <2>4, <3>4, PopStep
    <3>5. ASSUME Jump PROVE Interpreter!Jump
      BY <1>1, <1>4, <2>4, <3>5, JumpStep
    <3>6. ASSUME Trap PROVE Interpreter!Trap
      BY <1>1, <1>4, <2>4, <3>6, TrapStep
    <3>7. ASSUME EndTrap PROVE Interpreter!EndTrap
      BY <1>1, <1>4, <2>4, <3>7, EndTrapStep
    <3>8. ASSUME Throw PROVE Interpreter!Throw \/ Interpreter!TailCall
      BY <1>1, <1>4, <2>4, <3>8, ThrowStep
    <3>9. ASSUME Op = "Ret", Ret PROVE Interpreter!Ret
      BY <1>1, <1>4, <2>4, <3>9, RetStep
    <3>10. \/ Compute \/ Load \/ Store \/ Pop \/ Jump \/ Trap \/ EndTrap \/ Throw
           \/ Op = "Ret" /\ Ret
      BY <2>4 DEF Run
    <3> QED BY <1>2, <3>1, <3>2, <3>3, <3>4, <3>5, <3>6, <3>7, <3>8, <3>9, <3>10 DEF Interpreter!Next
  <2> QED BY <2>1, <2>2, <2>3, <2>4
<1> QED BY <1>3, <1>4

\* The inductive invariant of the refinement.
RefinementInv == BlockInv /\ TrueInv

LEMMA RefinementInvHolds == ASSUME WellFormedPrograms PROVE Spec => []RefinementInv
<1>1. Init => RefinementInv
  <2> SUFFICES ASSUME Init PROVE RefinementInv
    OBVIOUS
  <2>1. CodeInv
    <3>1. WellFormed(prog)
      BY DEF Init, WellFormedPrograms
    <3> QED BY <3>1, InitCode
  <2>2. RunsWell
    BY DEF Init, RunsWell
  <2> QED BY <2>1, <2>2, InitBlocks, InitTrue, InitNew DEF RefinementInv, TrueInv
<1>2. RefinementInv /\ BlockInv' /\ [Next]_vars => RefinementInv'
  <2> SUFFICES ASSUME RefinementInv, BlockInv', [Next]_vars PROVE RefinementInv'
    OBVIOUS
  <2>1. BlockInv /\ CodeInv /\ RunsWell /\ RunsTrue /\ NewSlots
    BY DEF RefinementInv, TrueInv
  <2>2. CodeInv'
    BY <2>1, CodeStep
  <2>3. RunsWell'
    BY <2>1, RunStepSound
  <2>4. RunsTrue'
    BY <2>1, TrueStep
  <2>5. NewSlots'
    BY <2>1, NewStep
  <2> QED BY <2>2, <2>3, <2>4, <2>5 DEF RefinementInv, TrueInv
<1> QED BY <1>1, <1>2, BlockInvHolds, PTL DEF Spec

LEMMA StepRefines ==
    ASSUME TrueInv, TrueInv', [Next]_vars PROVE [Interpreter!Next]_(Interpreter!vars)
<1>1. CASE Dequeue \/ Generate \/ Reach \/ Close
  <2>1. mode = "compile" /\ tailcalled = FALSE
    BY <1>1 DEF Dequeue, Generate, Reach, Close, TrueInv, RunsTrue
  <2> QED BY <1>1, <2>1, CompileStays DEF Stays, Interpreter!vars
<1>2. CASE Start
  <2>1. Mode = "run"
    BY <1>2 DEF Start, Mode
  <2> QED BY <1>2, <2>1, StartStep DEF Stays, Interpreter!vars, Interpreter!Next
<1>3. CASE Run
  <2>1. mode = "run" /\ tailcalled \in BOOLEAN
    BY <1>3 DEF Run, TrueInv, RunsTrue
  <2>2. CASE tailcalled = TRUE
    BY <1>3, <2>1, <2>2, TailedStep DEF Stays, Interpreter!vars
  <2>3. CASE tailcalled = FALSE
    BY <1>3, <2>3, RunView DEF Stays, Interpreter!vars
  <2> QED BY <2>1, <2>2, <2>3
<1>4. CASE UNCHANGED vars
  <2>1. Stays
    BY <1>4 DEF vars, Stays, Ended, AtFetch, Mode, Address, Acc, Data, Open, Here, Read
  <2> QED BY <2>1 DEF Stays, Interpreter!vars
<1> QED BY <1>1, <1>2, <1>3, <1>4 DEF Next

\* What vm/llvm makes of a function does what the interpreter does with it:
\* the variables behind the slots that an instruction was compiled with hold
\* what the interpreter has on its stack there, and an exception lands in the
\* handler whose trap is open innermost.
THEOREM CodeImplementsInterpreter == ASSUME WellFormedPrograms PROVE Spec => ImplementsInterpreter
<1>1. Init /\ RefinementInv => Interpreter!Init
  BY InitView DEF RefinementInv, TrueInv
<1>2. RefinementInv /\ RefinementInv' /\ [Next]_vars => [Interpreter!Next]_(Interpreter!vars)
  BY StepRefines DEF RefinementInv
<1>3. Spec => []RefinementInv
  BY RefinementInvHolds
<1>4. Spec => Interpreter!Spec
  BY <1>1, <1>2, <1>3, PTL DEF Spec, Interpreter!Spec
<1> QED BY <1>4 DEF ImplementsInterpreter

-----------------------------------------------------------------------------

\* makeFunction (llvm_code_generation.cpp:118-142) and Blocks (blocks.cpp): a
\* block taken from the queue has a stack, and no block is compiled twice.
THEOREM BlocksAreAlwaysReady == Spec => []BlocksAreReady
<1>1. BlockInv => BlocksAreReady
  <2> SUFFICES ASSUME Queued PROVE BlocksAreReady
    BY DEF BlockInv, BlocksAreReady
  <2>1. \A k \in DOMAIN queue : queue[k] \in compiled
    BY DEF Queued
  <2> QED BY <2>1 DEF Queued, QueueIsSet, NoCodeYet, BlocksAreReady
<1> QED BY <1>1, BlockInvHolds, PTL
=============================================================================
