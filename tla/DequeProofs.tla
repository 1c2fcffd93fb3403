---------------------------- MODULE DequeProofs ----------------------------
(***************************************************************************)
(* The pointers and the wakeups of the deque, and that it is a queue, for  *)
(* any number of threads, messages and cells.                              *)
(*                                                                         *)
(* EndsAgree is not inductive: popping the first cell keeps it only if no  *)
(* other cell of the queue points at the cell that becomes first, and      *)
(* pushing and adding keep that only if cells are distinct.  ListInv adds  *)
(* that links stay among live cells, that no two cells share a successor   *)
(* and that no cell points back at the first one.                          *)
(*                                                                         *)
(* The refinement needs more: following the links from q->first visits     *)
(* every cell in use once and ends at q->last (ChainInv).  Nth, which the  *)
(* mapping to the queue is made of, is a recursive function; that it       *)
(* exists, and what an operation does to the cells at each place, is shown *)
(* by induction on the place, with a least element where an induction      *)
(* theorem would be used.                                                  *)
(***************************************************************************)
EXTENDS Deque, FiniteSetTheorems, WellFoundedInduction, SequenceTheorems, TLAPS

ListInv ==
    /\ EndsAgree
    /\ \A c \in live : next[c] \in live \cup {Nil}
    /\ \A c, d \in live : next[c] = next[d] /\ next[c] # Nil => c = d
    /\ \A c \in live : next[c] # first \/ first = Nil

USE NilAssumption DEF list

-----------------------------------------------------------------------------
(* Wakeups. *)

\* A signal changes nothing but one waiting thread, and wakes one if any waits.
LEMMA SignalledState ==
    ASSUME NEW st \in [Threads -> {"run", "wait", "woken"}], NEW s \in Signalled(st)
    PROVE  /\ s \in [Threads -> {"run", "wait", "woken"}]
           /\ (\E t \in Threads : s[t] = "wait") => \E t \in Threads : s[t] = "woken"
<1>1. CASE Waiting(st) = {}
  BY <1>1 DEF Signalled, Waiting
<1>2. CASE Waiting(st) # {}
  <2>1. PICK w \in Waiting(st) : s = [st EXCEPT ![w] = "woken"]
    BY <1>2 DEF Signalled
  <2>2. w \in Threads
    BY DEF Waiting
  <2> QED BY <2>1, <2>2
<1> QED BY <1>1, <1>2

LEMMA Typing == TypeOK /\ [Next]_vars => TypeOK'
<1> SUFFICES ASSUME TypeOK, [Next]_vars PROVE TypeOK'
  OBVIOUS
<1> USE DEF TypeOK
<1>1. ASSUME NEW t \in Threads, NEW m \in Messages, NEW c \in Cells, Add(t, m, c)
      PROVE  TypeOK'
  BY <1>1, SignalledState DEF Add, AddSignal, Store
<1>2. ASSUME NEW t \in Threads, NEW m \in Messages, NEW c \in Cells, Push(t, m, c)
      PROVE  TypeOK'
  BY <1>2, SignalledState DEF Push, TailAfterPush, Store
<1>3. ASSUME NEW t \in Threads, Take(t) PROVE TypeOK'
  <2>1. [state EXCEPT ![t] = "run"] \in [Threads -> {"run", "wait", "woken"}]
    OBVIOUS
  <2>2. state' \in [Threads -> {"run", "wait", "woken"}]
    BY <1>3, <2>1, SignalledState DEF Take, PopSignal
  <2> QED BY <1>3, <2>2 DEF Take, TailAfterPop
<1>4. ASSUME NEW t \in Threads, Wait(t) PROVE TypeOK'
  BY <1>4 DEF Wait
<1>5. ASSUME NEW t \in Threads, NEW block \in BOOLEAN, Pop(t, block) PROVE TypeOK'
  BY <1>3, <1>4, <1>5 DEF Pop
<1>6. ASSUME NEW t \in Threads, Resume(t) \/ SpuriousWakeup(t) PROVE TypeOK'
  BY <1>3, <1>4, <1>6 DEF Resume, SpuriousWakeup
<1>7. CASE UNCHANGED vars
  BY <1>7 DEF vars
<1> QED BY <1>1, <1>2, <1>5, <1>6, <1>7 DEF Next

LEMMA WakeupStep == TypeOK /\ NoLostWakeup /\ [Next]_vars => NoLostWakeup'
<1> SUFFICES ASSUME TypeOK, NoLostWakeup, [Next]_vars PROVE NoLostWakeup'
  OBVIOUS
<1> USE DEF TypeOK
<1>1. ASSUME NEW t \in Threads, NEW m \in Messages, NEW c \in Cells,
             Add(t, m, c) \/ Push(t, m, c)
      PROVE  NoLostWakeup'
  BY <1>1, SignalledState DEF Add, Push, AddSignal, NoLostWakeup
<1>2. ASSUME NEW t \in Threads, Take(t) PROVE NoLostWakeup'
  <2>1. [state EXCEPT ![t] = "run"] \in [Threads -> {"run", "wait", "woken"}]
    OBVIOUS
  <2>2. CASE next[first] = Nil
    BY <1>2, <2>2 DEF Take, NoLostWakeup
  <2>3. CASE next[first] # Nil
    BY <1>2, <2>1, <2>3, SignalledState DEF Take, PopSignal, NoLostWakeup
  <2> QED BY <2>2, <2>3
<1>3. ASSUME NEW t \in Threads, Wait(t) PROVE NoLostWakeup'
  BY <1>3 DEF Wait, NoLostWakeup
<1>4. ASSUME NEW t \in Threads, NEW block \in BOOLEAN, Pop(t, block) PROVE NoLostWakeup'
  BY <1>2, <1>3, <1>4 DEF Pop, NoLostWakeup
<1>5. ASSUME NEW t \in Threads, Resume(t) \/ SpuriousWakeup(t) PROVE NoLostWakeup'
  BY <1>2, <1>3, <1>5 DEF Resume, SpuriousWakeup, NoLostWakeup
<1>6. CASE UNCHANGED vars
  BY <1>6 DEF vars, NoLostWakeup
<1> QED BY <1>1, <1>4, <1>5, <1>6 DEF Next

-----------------------------------------------------------------------------
(* Pointers. *)

LEMMA AddKeepsList ==
    ASSUME TypeOK, ListInv, NEW t \in Threads, NEW m \in Messages, NEW c \in Cells, Add(t, m, c)
    PROVE  ListInv'
<1>1. /\ c \notin live /\ c # Nil /\ last' = c /\ live' = live \cup {c}
      /\ first' = IF last = Nil THEN c ELSE first
      /\ next' = [d \in Cells |-> IF d = c THEN Nil ELSE IF d = last THEN c ELSE next[d]]
  BY DEF Add
<1>2. live \subseteq Cells /\ Nil \notin live
  BY DEF TypeOK
<1>3. next'[c] = Nil /\ \A d \in live : next'[d] = IF d = last THEN c ELSE next[d]
  BY <1>1, <1>2
<1>4. \A d \in live : next[d] # c
  BY <1>1 DEF ListInv
<1>5. EndsAgree'
  BY <1>1, <1>3, <1>4 DEF ListInv, EndsAgree
<1>6. \A d \in live' : next'[d] \in live' \cup {Nil}
  BY <1>1, <1>3 DEF ListInv
<1>7. \A d, e \in live' : next'[d] = next'[e] /\ next'[d] # Nil => d = e
  BY <1>1, <1>3, <1>4 DEF ListInv
<1>8. \A d \in live' : next'[d] # first' \/ first' = Nil
  <2>1. CASE last = Nil
    BY <1>1, <1>2, <1>3, <1>4, <2>1
  <2>2. CASE last # Nil
    BY <1>1, <1>2, <1>3, <1>4, <2>2 DEF ListInv, EndsAgree
  <2> QED BY <2>1, <2>2
<1> QED BY <1>5, <1>6, <1>7, <1>8 DEF ListInv

LEMMA PushKeepsList ==
    ASSUME TypeOK, ListInv, NEW t \in Threads, NEW m \in Messages, NEW c \in Cells, Push(t, m, c)
    PROVE  ListInv'
<1>1. /\ c \notin live /\ c # Nil /\ first' = c /\ live' = live \cup {c}
      /\ last' = IF last = Nil THEN c ELSE last
      /\ next' = [next EXCEPT ![c] = first]
  BY DEF Push, TailAfterPush
<1>2. live \subseteq Cells /\ Nil \notin live /\ next \in [Cells -> Cells \cup {Nil}]
  BY DEF TypeOK
<1>3. next'[c] = first /\ \A d \in live : next'[d] = next[d]
  BY <1>1, <1>2
<1>4. \A d \in live : next[d] # c
  BY <1>1 DEF ListInv
<1>5. first \in live \cup {Nil} /\ (first = Nil => live = {} \/ \A d \in live : next[d] # Nil)
  BY <1>2 DEF ListInv, EndsAgree
<1>6. EndsAgree'
  BY <1>1, <1>3, <1>5 DEF ListInv, EndsAgree
<1>7. \A d \in live' : next'[d] \in live' \cup {Nil}
  BY <1>1, <1>3, <1>5 DEF ListInv
<1>8. \A d, e \in live' : next'[d] = next'[e] /\ next'[d] # Nil => d = e
  BY <1>1, <1>3 DEF ListInv
<1>9. \A d \in live' : next'[d] # first' \/ first' = Nil
  BY <1>1, <1>3, <1>4, <1>5 DEF ListInv, EndsAgree
<1> QED BY <1>6, <1>7, <1>8, <1>9 DEF ListInv

LEMMA TakeKeepsList ==
    ASSUME TypeOK, ListInv, NEW t \in Threads, Take(t)
    PROVE  ListInv'
<1>1. /\ first # Nil /\ first' = next[first] /\ live' = live \ {first} /\ next' = next
      /\ last' = IF next[first] = Nil THEN Nil ELSE last
  BY DEF Take, TailAfterPop
<1>2. /\ first \in live /\ last \in live /\ next[first] \in live \cup {Nil}
      /\ Nil \notin live
  BY <1>1 DEF ListInv, EndsAgree, TypeOK
<1>3. next[first] # first
  BY <1>1, <1>2 DEF ListInv
<1>4. EndsAgree'
  BY <1>1, <1>2, <1>3 DEF ListInv, EndsAgree
<1>5. \A d \in live' : next'[d] \in live' \cup {Nil}
  BY <1>1, <1>2 DEF ListInv
<1>6. \A d, e \in live' : next'[d] = next'[e] /\ next'[d] # Nil => d = e
  BY <1>1 DEF ListInv
<1>7. \A d \in live' : next'[d] # first' \/ first' = Nil
  BY <1>1, <1>2 DEF ListInv
<1> QED BY <1>4, <1>5, <1>6, <1>7 DEF ListInv

LEMMA ListStep == TypeOK /\ ListInv /\ [Next]_vars => ListInv'
<1> SUFFICES ASSUME TypeOK, ListInv, [Next]_vars PROVE ListInv'
  OBVIOUS
<1>1. ASSUME UNCHANGED list PROVE ListInv'
  BY <1>1 DEF ListInv, EndsAgree
<1>2. ASSUME NEW t \in Threads, NEW block \in BOOLEAN, Pop(t, block) PROVE ListInv'
  BY <1>1, <1>2, TakeKeepsList DEF Pop, Wait
<1>3. ASSUME NEW t \in Threads, Resume(t) \/ SpuriousWakeup(t) PROVE ListInv'
  BY <1>1, <1>3, TakeKeepsList DEF Resume, Wait, SpuriousWakeup
<1>4. CASE UNCHANGED vars
  BY <1>1, <1>4 DEF vars
<1> QED BY <1>2, <1>3, <1>4, AddKeepsList, PushKeepsList DEF Next

-----------------------------------------------------------------------------
\* With any number of threads, no signal is lost: a message in the queue and a
\* waiting reader mean that some woken thread has yet to look at the queue.
THEOREM WakeupsAreKept == Spec => [](TypeOK /\ NoLostWakeup)
<1>1. Init => TypeOK /\ NoLostWakeup
  BY DEF Init, TypeOK, NoLostWakeup
<1> QED BY <1>1, Typing, WakeupStep, PTL DEF Spec

\* The end pointers agree and q->last is the list's only end, for every queue.
THEOREM EndsAlwaysAgree == Spec => []EndsAgree
<1>1. Init => TypeOK /\ ListInv
  BY DEF Init, TypeOK, ListInv, EndsAgree
<1>2. ListInv => EndsAgree
  BY DEF ListInv
<1> QED BY <1>1, <1>2, Typing, ListStep, PTL DEF Spec

-----------------------------------------------------------------------------
(* Induction over the naturals, for a set of them. *)

LEMMA Least == ASSUME NEW S, S \subseteq Nat, S # {} PROVE \E k \in S : \A j \in S : k <= j
<1>1. PICK x \in S : \A y \in S : ~(<<y, x>> \in OpToRel(<, Nat))
  BY NatLessThanWellFounded, WFMin
<1>2. \A y \in S : ~(y < x)
  BY <1>1 DEF OpToRel
<1>3. \A y \in S : x <= y
  <2> TAKE y \in S
  <2>1. x \in Nat /\ y \in Nat
    OBVIOUS
  <2> QED BY <1>2, <2>1
<1> QED BY <1>3

LEMMA Induction ==
    ASSUME NEW S, 0 \in S, \A n \in Nat : n \in S => n + 1 \in S PROVE Nat \subseteq S
<1> SUFFICES ASSUME Nat \ S # {} PROVE FALSE
  OBVIOUS
<1>1. PICK k \in Nat \ S : \A j \in Nat \ S : k <= j
  <2>1. Nat \ S \subseteq Nat
    OBVIOUS
  <2> HIDE DEF Induction
  <2> QED BY <2>1, Least
<1>2. PICK j \in Nat : k = j + 1
  BY <1>1
<1>3. j \in S
  BY <1>1, <1>2
<1> QED BY <1>1, <1>2, <1>3

-----------------------------------------------------------------------------
(* The cells of the list in their order. *)

\* The cell at place i, when f has the cells before it.
Follow(f, fst, nx, i) ==
    IF i = 0 THEN fst ELSE IF f[i - 1] = Nil THEN Nil ELSE nx[f[i - 1]]

Follows(f, fst, nx) == f = [i \in Nat |-> Follow(f, fst, nx, i)]

\* A list can be followed to any place, so that the recursive Nth exists.
LEMMA FollowsExists == ASSUME NEW fst, NEW nx PROVE \E f : Follows(f, fst, nx)
<1> DEFINE Upto(f, n) == \A i \in Nat : i <= n => f[i] = Follow(f, fst, nx, i)
           S == {n \in Nat : \E f : Upto(f, n)}
           T == {n \in Nat : \A f, h : Upto(f, n) /\ Upto(h, n) => f[n] = h[n]}
<1>1. 0 \in S
  <2> DEFINE f == [i \in Nat |-> fst]
  <2>1. Upto(f, 0)
    BY DEF Follow
  <2> HIDE DEF f
  <2> QED BY <2>1
<1>2. ASSUME NEW n \in Nat, n \in S PROVE n + 1 \in S
  <2>1. PICK f : Upto(f, n)
    BY <1>2
  <2> DEFINE g == [i \in Nat |-> Follow(f, fst, nx, i)]
  <2>2. \A i \in Nat : g[i] = Follow(f, fst, nx, i)
    OBVIOUS
  <2> HIDE DEF g
  <2>3. \A i \in Nat : i <= n => g[i] = f[i]
    BY <2>1, <2>2
  <2>4. ASSUME NEW i \in Nat, i <= n + 1 PROVE g[i] = Follow(g, fst, nx, i)
    <3>1. CASE i = 0
      BY <2>2, <3>1 DEF Follow
    <3>2. CASE i # 0
      <4>1. i - 1 \in Nat /\ i - 1 <= n
        BY <2>4, <3>2
      <4> QED BY <2>2, <2>3, <3>2, <4>1 DEF Follow
    <3> QED BY <3>1, <3>2
  <2>5. Upto(g, n + 1)
    BY <2>4
  <2> QED BY <2>5
<1>3. 0 \in T
  BY DEF Follow
<1>4. ASSUME NEW n \in Nat, n \in T PROVE n + 1 \in T
  <2> SUFFICES ASSUME NEW f, NEW h, Upto(f, n + 1), Upto(h, n + 1) PROVE f[n + 1] = h[n + 1]
    OBVIOUS
  <2>1. Upto(f, n) /\ Upto(h, n)
    OBVIOUS
  <2>2. f[n] = h[n]
    BY <1>4, <2>1
  <2>3. f[n + 1] = Follow(f, fst, nx, n + 1) /\ h[n + 1] = Follow(h, fst, nx, n + 1)
    OBVIOUS
  <2>4. (n + 1) - 1 = n /\ n + 1 # 0
    OBVIOUS
  <2> QED BY <2>2, <2>3, <2>4 DEF Follow
<1> HIDE DEF S, T
<1>5. Nat \subseteq S
  BY <1>1, <1>2, Induction
<1>6. Nat \subseteq T
  BY <1>3, <1>4, Induction
<1> DEFINE F(n) == CHOOSE f : Upto(f, n)
           g == [i \in Nat |-> F(i)[i]]
<1>7. \A n \in Nat : Upto(F(n), n)
  <2> TAKE n \in Nat
  <2>1. \E f : Upto(f, n)
    BY <1>5 DEF S
  <2> HIDE DEF Upto
  <2> QED BY <2>1
<1>8. \A i \in Nat : g[i] = F(i)[i]
  OBVIOUS
<1>9. g = [i \in Nat |-> g[i]]
  OBVIOUS
<1> HIDE DEF F, g
<1>10. ASSUME NEW i \in Nat PROVE g[i] = Follow(g, fst, nx, i)
  <2>1. F(i)[i] = Follow(F(i), fst, nx, i)
    BY <1>7
  <2>2. CASE i = 0
    BY <1>8, <2>1, <2>2 DEF Follow
  <2>3. CASE i # 0
    <3>1. i - 1 \in Nat /\ i - 1 <= i
      BY <2>3
    <3>2. Upto(F(i), i - 1) /\ Upto(F(i - 1), i - 1)
      BY <1>7, <3>1
    <3> HIDE DEF Upto
    <3>3. F(i)[i - 1] = F(i - 1)[i - 1]
      BY <1>6, <3>1, <3>2 DEF T
    <3>4. g[i - 1] = F(i)[i - 1]
      BY <1>8, <3>1, <3>3
    <3> QED BY <1>8, <2>1, <2>3, <3>4 DEF Follow
  <2> QED BY <2>2, <2>3
<1>11. Follows(g, fst, nx)
  BY <1>9, <1>10 DEF Follows
<1> QED BY <1>11

LEMMA NthFollows == Follows(Nth, first, next)
<1> DEFINE f == CHOOSE f : f = [i \in Nat |-> Follow(f, first, next, i)]
<1>1. Nth = f
  BY DEF Nth, Follow
<1>2. Follows(f, first, next)
  BY FollowsExists DEF Follows
<1> QED BY <1>1, <1>2

NthIs == \A i \in Nat :
            /\ Nth[0] = first
            /\ Nth[i + 1] = IF Nth[i] = Nil THEN Nil ELSE next[Nth[i]]

LEMMA NthSteps == NthIs
<1>1. \A i \in Nat : Nth[i] = Follow(Nth, first, next, i)
  BY NthFollows DEF Follows
<1>2. Nth[0] = first
  BY <1>1 DEF Follow
<1>3. ASSUME NEW i \in Nat
      PROVE  Nth[i + 1] = IF Nth[i] = Nil THEN Nil ELSE next[Nth[i]]
  <2>1. i + 1 \in Nat /\ (i + 1) - 1 = i /\ i + 1 # 0
    OBVIOUS
  <2> QED BY <1>1, <2>1 DEF Follow
<1> QED BY <1>2, <1>3 DEF NthIs

-----------------------------------------------------------------------------
(* The list is what the abstract queue holds. *)

\* f lists n cells of the queue, each once, and the last of them is lst.
Lists(f, n, cs, lst) ==
    /\ n \in Nat
    /\ \A i \in Nat : i < n => f[i] \in cs
    /\ \A i, j \in Nat : i < n /\ j < n /\ f[i] = f[j] => i = j
    /\ f[n] = Nil
    /\ \A i \in Nat : n = i + 1 => f[i] = lst

\* The next-pointers from q->first lead through as many cells as are in use.
ChainInv == IsFiniteSet(live) /\ Lists(Nth, Cardinality(live), live, last)

QueueInv == TypeOK /\ ListInv /\ ChainInv

\* What each operation does to the places of the cells.
Appended(f, g, n, c) == (\A i \in Nat : i < n => g[i] = f[i]) /\ g[n] = c /\ g[n + 1] = Nil
Prepended(f, g, c) == g[0] = c /\ \A i \in Nat : g[i + 1] = f[i]
Shifted(f, g) == \A i \in Nat : g[i] = f[i + 1]

LEMMA EmptyAgrees == QueueInv => (first = Nil <=> Cardinality(live) = 0)
<1> SUFFICES ASSUME QueueInv PROVE first = Nil <=> Cardinality(live) = 0
  OBVIOUS
<1> DEFINE n == Cardinality(live)
<1>1. Nth[0] = first /\ Nil \notin live
  BY NthSteps DEF NthIs, QueueInv, TypeOK
<1>2. Lists(Nth, n, live, last)
  BY DEF QueueInv, ChainInv
<1> HIDE DEF n
<1>3. n = 0 => first = Nil
  BY <1>1, <1>2 DEF Lists
<1>4. ASSUME n # 0 PROVE first # Nil
  <2>1. 0 \in Nat /\ 0 < n
    BY <1>2, <1>4 DEF Lists
  <2> QED BY <1>1, <1>2, <1>4, <2>1 DEF Lists
<1> QED BY <1>3, <1>4 DEF n

LEMMA AddAppends ==
    ASSUME QueueInv, NthIs, NthIs', NEW t \in Threads, NEW m \in Messages, NEW c \in Cells,
           Add(t, m, c)
    PROVE  Appended(Nth, Nth', Cardinality(live), c)
<1> DEFINE n == Cardinality(live)
           g == Nth'
<1>1. /\ c \notin live /\ c # Nil /\ first' = IF last = Nil THEN c ELSE first
      /\ next' = [d \in Cells |-> IF d = c THEN Nil ELSE IF d = last THEN c ELSE next[d]]
  BY DEF Add
<1>2. Lists(Nth, n, live, last) /\ live \subseteq Cells /\ Nil \notin live
  BY DEF QueueInv, ChainInv, TypeOK
<1>3. next'[c] = Nil /\ \A d \in live : next'[d] = IF d = last THEN c ELSE next[d]
  BY <1>1, <1>2
<1>4. g[0] = first' /\ \A i \in Nat : g[i + 1] = IF g[i] = Nil THEN Nil ELSE next'[g[i]]
  BY DEF NthIs
<1>5. first = Nil <=> n = 0
  BY EmptyAgrees
<1>6. first = Nil <=> last = Nil
  BY DEF QueueInv, ListInv, EndsAgree
<1> HIDE DEF n, g
<1> DEFINE S == {i \in Nat : i < n => g[i] = Nth[i]}
<1>7. 0 \in S
  <2>1. n # 0 => g[0] = Nth[0]
    BY <1>1, <1>4, <1>5, <1>6 DEF NthIs
  <2> QED BY <1>2, <2>1 DEF Lists
<1>8. ASSUME NEW i \in Nat, i \in S PROVE i + 1 \in S
  <2> SUFFICES ASSUME i + 1 < n PROVE g[i + 1] = Nth[i + 1]
    OBVIOUS
  <2>1. i < n /\ n \in Nat
    BY <1>2 DEF Lists
  <2>2. g[i] = Nth[i]
    BY <1>8, <2>1
  <2>3. Nth[i] \in live /\ Nth[i + 1] \in live
    BY <1>2, <2>1 DEF Lists
  <2>4. Nth[i] # last
    <3>1. PICK j \in Nat : n = j + 1
      BY <2>1
    <3>2. j < n /\ i # j /\ Nth[j] = last
      BY <1>2, <3>1 DEF Lists
    <3> QED BY <1>2, <2>1, <3>2 DEF Lists
  <2>5. Nth[i + 1] = next[Nth[i]]
    BY <1>2, <2>3 DEF NthIs
  <2> QED BY <1>2, <1>3, <1>4, <2>2, <2>3, <2>4, <2>5
<1>9. Nat \subseteq S
  <2> HIDE DEF S
  <2> QED BY <1>7, <1>8, Induction
<1>10. g[n] = c
  <2>1. CASE n = 0
    BY <1>1, <1>4, <1>5, <1>6, <2>1
  <2>2. CASE n # 0
    <3>1. PICK j \in Nat : n = j + 1
      BY <1>2, <2>2 DEF Lists
    <3>2. j < n /\ Nth[j] = last /\ Nth[j] \in live
      BY <1>2, <3>1 DEF Lists
    <3>3. g[j] = last /\ last \in live
      BY <1>9, <3>2
    <3> QED BY <1>2, <1>3, <1>4, <3>1, <3>3
  <2> QED BY <2>1, <2>2
<1>11. g[n + 1] = Nil
  BY <1>1, <1>2, <1>3, <1>4, <1>10 DEF Lists
<1> QED BY <1>9, <1>10, <1>11 DEF Appended, n, g

LEMMA PushPrepends ==
    ASSUME QueueInv, NthIs, NthIs', NEW t \in Threads, NEW m \in Messages, NEW c \in Cells,
           Push(t, m, c)
    PROVE  Prepended(Nth, Nth', c)
<1> DEFINE n == Cardinality(live)
           g == Nth'
<1>1. c \notin live /\ c # Nil /\ first' = c /\ next' = [next EXCEPT ![c] = first]
  BY DEF Push
<1>2. Lists(Nth, n, live, last) /\ live \subseteq Cells /\ Nil \notin live
  BY DEF QueueInv, ChainInv, TypeOK
<1>3. next'[c] = first /\ \A d \in live : next'[d] = next[d]
  BY <1>1, <1>2 DEF QueueInv, TypeOK
<1>4. g[0] = first' /\ \A i \in Nat : g[i + 1] = IF g[i] = Nil THEN Nil ELSE next'[g[i]]
  BY DEF NthIs
<1>5. \A d \in live : next[d] \in live \cup {Nil}
  BY DEF QueueInv, ListInv
<1>6. first \in live \cup {Nil}
  BY DEF QueueInv, ListInv, EndsAgree
<1> HIDE DEF n, g
<1> DEFINE S == {i \in Nat : g[i + 1] = Nth[i] /\ Nth[i] \in live \cup {Nil}}
<1>7. 0 \in S
  <2>1. g[0 + 1] = first
    BY <1>1, <1>3, <1>4
  <2> QED BY <1>6, <2>1 DEF NthIs
<1>8. ASSUME NEW i \in Nat, i \in S PROVE i + 1 \in S
  <2>1. i + 1 \in Nat /\ g[i + 1] = Nth[i] /\ Nth[i] \in live \cup {Nil}
    BY <1>8
  <2>2. g[(i + 1) + 1] = IF Nth[i] = Nil THEN Nil ELSE next'[Nth[i]]
    BY <1>4, <2>1
  <2>3. Nth[i + 1] = IF Nth[i] = Nil THEN Nil ELSE next[Nth[i]]
    BY DEF NthIs
  <2> QED BY <1>3, <1>5, <2>1, <2>2, <2>3
<1>9. Nat \subseteq S
  <2> HIDE DEF S
  <2> QED BY <1>7, <1>8, Induction
<1> QED BY <1>1, <1>4, <1>9 DEF Prepended, g

LEMMA TakeShifts ==
    ASSUME QueueInv, NthIs, NthIs', NEW t \in Threads, Take(t)
    PROVE  Shifted(Nth, Nth')
<1> DEFINE g == Nth'
<1>1. first # Nil /\ first' = next[first] /\ next' = next
  BY DEF Take
<1>2. g[0] = first' /\ \A i \in Nat : g[i + 1] = IF g[i] = Nil THEN Nil ELSE next'[g[i]]
  BY DEF NthIs
<1>3. Nth[0] = first /\ \A i \in Nat : Nth[i + 1] = IF Nth[i] = Nil THEN Nil ELSE next[Nth[i]]
  BY DEF NthIs
<1> HIDE DEF g
<1> DEFINE S == {i \in Nat : g[i] = Nth[i + 1]}
<1>4. 0 \in S
  BY <1>1, <1>2, <1>3
<1>5. ASSUME NEW i \in Nat, i \in S PROVE i + 1 \in S
  <2>1. i + 1 \in Nat /\ g[i] = Nth[i + 1]
    BY <1>5
  <2> QED BY <1>1, <1>2, <1>3, <2>1
<1>6. Nat \subseteq S
  <2> HIDE DEF S
  <2> QED BY <1>4, <1>5, Induction
<1> QED BY <1>6 DEF Shifted, g

LEMMA AddKeepsChain ==
    ASSUME QueueInv, NthIs, NthIs', NEW t \in Threads, NEW m \in Messages, NEW c \in Cells,
           Add(t, m, c)
    PROVE  ChainInv' /\ Cardinality(live') = Cardinality(live) + 1
<1> DEFINE n == Cardinality(live)
           g == Nth'
<1>1. c \notin live /\ last' = c /\ live' = live \cup {c}
  BY DEF Add
<1>2. Lists(Nth, n, live, last) /\ IsFiniteSet(live)
  BY DEF QueueInv, ChainInv
<1>3. Appended(Nth, g, n, c)
  BY AddAppends
<1>4. IsFiniteSet(live') /\ Cardinality(live') = n + 1
  BY <1>1, <1>2, FS_AddElement
<1> HIDE DEF n, g
<1>5. Lists(g, n + 1, live', last')
  <2>1. n + 1 \in Nat /\ g[n] = c /\ g[n + 1] = Nil
    BY <1>2, <1>3 DEF Lists, Appended
  <2>2. ASSUME NEW i \in Nat, i < n + 1 PROVE i = n \/ (i < n /\ g[i] = Nth[i] /\ Nth[i] \in live)
    BY <1>2, <1>3, <2>2 DEF Lists, Appended
  <2>3. \A i \in Nat : i < n + 1 => g[i] \in live'
    BY <1>1, <2>1, <2>2
  <2>4. \A i, j \in Nat : i < n + 1 /\ j < n + 1 /\ g[i] = g[j] => i = j
    BY <1>1, <1>2, <2>1, <2>2 DEF Lists
  <2>5. \A i \in Nat : n + 1 = i + 1 => g[i] = last'
    BY <1>1, <1>2, <2>1 DEF Lists
  <2> QED BY <2>1, <2>3, <2>4, <2>5 DEF Lists
<1> QED BY <1>4, <1>5 DEF ChainInv, n, g

LEMMA PushKeepsChain ==
    ASSUME QueueInv, NthIs, NthIs', NEW t \in Threads, NEW m \in Messages, NEW c \in Cells,
           Push(t, m, c)
    PROVE  ChainInv' /\ Cardinality(live') = Cardinality(live) + 1
<1> DEFINE n == Cardinality(live)
           g == Nth'
<1>1. c \notin live /\ last' = (IF last = Nil THEN c ELSE last) /\ live' = live \cup {c}
  BY DEF Push, TailAfterPush
<1>2. Lists(Nth, n, live, last) /\ IsFiniteSet(live)
  BY DEF QueueInv, ChainInv
<1>3. Prepended(Nth, g, c)
  BY PushPrepends
<1>4. IsFiniteSet(live') /\ Cardinality(live') = n + 1
  BY <1>1, <1>2, FS_AddElement
<1>5. last = Nil <=> n = 0
  BY EmptyAgrees DEF QueueInv, ListInv, EndsAgree
<1> HIDE DEF n, g
<1>6. Lists(g, n + 1, live', last')
  <2>1. n \in Nat /\ n + 1 \in Nat /\ g[n + 1] = Nil /\ g[0] = c
    BY <1>2, <1>3 DEF Lists, Prepended
  <2>2. ASSUME NEW i \in Nat, i < n + 1, i # 0
        PROVE  \E j \in Nat : i = j + 1 /\ j < n /\ g[i] = Nth[j] /\ Nth[j] \in live
    <3>1. PICK j \in Nat : i = j + 1
      BY <2>2
    <3>2. j < n
      BY <2>1, <2>2, <3>1
    <3> QED BY <1>2, <1>3, <3>1, <3>2 DEF Lists, Prepended
  <2>3. \A i \in Nat : i < n + 1 => g[i] \in live'
    BY <1>1, <2>1, <2>2
  <2>4. \A i, j \in Nat : i < n + 1 /\ j < n + 1 /\ g[i] = g[j] => i = j
    BY <1>1, <1>2, <2>1, <2>2 DEF Lists
  <2>5. ASSUME NEW i \in Nat, n + 1 = i + 1 PROVE g[i] = last'
    <3>1. i = n
      BY <2>1, <2>5
    <3>2. CASE n = 0
      BY <1>1, <1>5, <2>1, <3>1, <3>2
    <3>3. CASE n # 0
      <4>1. PICK j \in Nat : n = j + 1
        BY <2>1, <3>3
      <4> QED BY <1>1, <1>2, <1>3, <1>5, <3>1, <3>3, <4>1 DEF Lists, Prepended
    <3> QED BY <3>2, <3>3
  <2> QED BY <2>1, <2>3, <2>4, <2>5 DEF Lists
<1> QED BY <1>4, <1>6 DEF ChainInv, n, g

LEMMA TakeKeepsChain ==
    ASSUME QueueInv, NthIs, NthIs', NEW t \in Threads, Take(t)
    PROVE  ChainInv' /\ Cardinality(live) = Cardinality(live') + 1 /\ Cardinality(live') \in Nat
<1> DEFINE n == Cardinality(live)
           k == Cardinality(live')
           g == Nth'
<1>1. /\ first # Nil /\ live' = live \ {first}
      /\ last' = IF next[first] = Nil THEN Nil ELSE last
  BY DEF Take, TailAfterPop
<1>2. Lists(Nth, n, live, last) /\ IsFiniteSet(live)
  BY DEF QueueInv, ChainInv
<1>3. Shifted(Nth, g)
  BY TakeShifts
<1>4. first \in live
  BY <1>1 DEF QueueInv, ListInv, EndsAgree
<1>5. IsFiniteSet(live') /\ k = n - 1
  BY <1>1, <1>2, <1>4, FS_RemoveElement
<1>6. n # 0
  BY <1>1, EmptyAgrees
<1> HIDE DEF n, k, g
<1>7. k \in Nat /\ n = k + 1
  BY <1>2, <1>5, <1>6 DEF Lists
<1>8. Lists(g, k, live', last')
  <2>1. g[k] = Nil /\ Nth[0] = first /\ Nth[0 + 1] = next[first]
    BY <1>1, <1>2, <1>3, <1>7 DEF Lists, Shifted, NthIs
  <2>2. ASSUME NEW i \in Nat, i < k
        PROVE  g[i] = Nth[i + 1] /\ i + 1 \in Nat /\ i + 1 < n /\ Nth[i + 1] \in live /\ Nth[i + 1] # first
    <3>1. i + 1 \in Nat /\ i + 1 < n /\ 0 < n /\ i + 1 # 0
      BY <1>7, <2>2
    <3> QED BY <1>2, <1>3, <2>1, <3>1 DEF Lists, Shifted
  <2>3. \A i \in Nat : i < k => g[i] \in live'
    BY <1>1, <2>2
  <2>4. ASSUME NEW i \in Nat, NEW j \in Nat, i < k, j < k, g[i] = g[j] PROVE i = j
    <3>1. i + 1 = j + 1
      BY <1>2, <2>2, <2>4 DEF Lists
    <3> QED BY <3>1
  <2>5. ASSUME NEW i \in Nat, k = i + 1 PROVE g[i] = last'
    <3>1. n = (i + 1) + 1 /\ 0 + 1 < n /\ i < k /\ i + 1 \in Nat
      BY <1>7, <2>5
    <3>2. g[i] = last
      BY <1>2, <2>2, <3>1 DEF Lists
    <3>3. next[first] # Nil
      <4>1. Nth[0 + 1] \in live
        BY <1>2, <3>1 DEF Lists
      <4> QED BY <2>1, <4>1 DEF QueueInv, TypeOK
    <3> QED BY <1>1, <3>2, <3>3
  <2> QED BY <1>7, <2>1, <2>3, <2>4, <2>5 DEF Lists
<1> QED BY <1>5, <1>7, <1>8 DEF ChainInv, n, k, g

LEMMA NthKept == NthIs /\ NthIs' /\ UNCHANGED list => \A i \in Nat : Nth'[i] = Nth[i]
<1> SUFFICES ASSUME NthIs, NthIs', UNCHANGED list PROVE \A i \in Nat : Nth'[i] = Nth[i]
  OBVIOUS
<1> DEFINE g == Nth'
<1>1. g[0] = first /\ \A i \in Nat : g[i + 1] = IF g[i] = Nil THEN Nil ELSE next[g[i]]
  BY DEF NthIs
<1>2. Nth[0] = first /\ \A i \in Nat : Nth[i + 1] = IF Nth[i] = Nil THEN Nil ELSE next[Nth[i]]
  BY DEF NthIs
<1> HIDE DEF g
<1> DEFINE S == {i \in Nat : g[i] = Nth[i]}
<1>3. 0 \in S
  BY <1>1, <1>2
<1>4. \A i \in Nat : i \in S => i + 1 \in S
  BY <1>1, <1>2
<1>5. Nat \subseteq S
  <2> HIDE DEF S
  <2> QED BY <1>3, <1>4, Induction
<1> QED BY <1>5 DEF g

LEMMA ChainKept == ASSUME QueueInv, NthIs, NthIs', UNCHANGED list PROVE ChainInv'
<1> DEFINE g == Nth'
<1>1. \A i \in Nat : g[i] = Nth[i]
  BY NthKept
<1> HIDE DEF g
<1>2. Lists(g, Cardinality(live), live, last)
  BY <1>1 DEF QueueInv, ChainInv, Lists
<1> QED BY <1>2 DEF QueueInv, ChainInv, g

LEMMA ChainStep ==
    ASSUME QueueInv, NthIs, NthIs', [Next]_vars PROVE ChainInv'
<1>1. ASSUME NEW t \in Threads, NEW block \in BOOLEAN, Pop(t, block) PROVE ChainInv'
  BY <1>1, ChainKept, TakeKeepsChain DEF Pop, Wait
<1>2. ASSUME NEW t \in Threads, Resume(t) \/ SpuriousWakeup(t) PROVE ChainInv'
  BY <1>2, ChainKept, TakeKeepsChain DEF Resume, Wait, SpuriousWakeup
<1>3. CASE UNCHANGED vars
  BY <1>3, ChainKept DEF vars
<1> QED BY <1>1, <1>2, <1>3, AddKeepsChain, PushKeepsChain DEF Next

\* The items of the queue: what the cells hold, in the order of the list.
ItemsKnown ==
    /\ Items \in Seq(Messages) /\ Len(Items) = Cardinality(live)
    /\ \A i \in Nat : i < Cardinality(live) => Items[i + 1] = msg[Nth[i]]

LEMMA ItemsAre == QueueInv => ItemsKnown
<1> SUFFICES ASSUME QueueInv PROVE ItemsKnown
  OBVIOUS
<1> DEFINE n == Cardinality(live)
<1>1. Lists(Nth, n, live, last) /\ Nil \notin live /\ \A c \in live : msg[c] \in Messages
  BY DEF QueueInv, ChainInv, TypeOK
<1>2. Items = [i \in 1..n |-> IF Nth[i - 1] = Nil THEN Null ELSE msg[Nth[i - 1]]]
  BY DEF Items
<1> HIDE DEF n
<1>3. ASSUME NEW i \in 1..n PROVE Nth[i - 1] \in live
  <2>1. i - 1 \in Nat /\ i - 1 < n
    BY <1>1, <1>3 DEF Lists
  <2> QED BY <1>1, <2>1 DEF Lists
<1>4. \A i \in 1..n : Items[i] = msg[Nth[i - 1]] /\ Items[i] \in Messages
  BY <1>1, <1>2, <1>3
<1>5. n \in Nat
  BY <1>1 DEF Lists
<1>6. Items \in Seq(Messages) /\ Len(Items) = n
  BY <1>2, <1>4, <1>5
<1>7. ASSUME NEW i \in Nat, i < n PROVE Items[i + 1] = msg[Nth[i]]
  <2>1. i + 1 \in 1..n /\ (i + 1) - 1 = i
    BY <1>5, <1>7
  <2> QED BY <1>4, <2>1
<1> QED BY <1>6, <1>7 DEF ItemsKnown, n

LEMMA ItemsPrimed == QueueInv' => ItemsKnown'
BY ItemsAre, PTL

-----------------------------------------------------------------------------
(* Every step of the list is a step of the queue. *)

Popping == {t \in Threads : state[t] # "run"}

LEMMA SignalKeepsPopping ==
    ASSUME NEW st \in [Threads -> {"run", "wait", "woken"}], NEW s \in Signalled(st)
    PROVE  \A t \in Threads : s[t] # "run" <=> st[t] # "run"
<1>1. CASE Waiting(st) = {}
  BY <1>1 DEF Signalled
<1>2. CASE Waiting(st) # {}
  <2>1. PICK w \in Waiting(st) : s = [st EXCEPT ![w] = "woken"]
    BY <1>2 DEF Signalled
  <2>2. w \in Threads /\ st[w] = "wait"
    BY DEF Waiting
  <2> QED BY <2>1, <2>2
<1> QED BY <1>1, <1>2

LEMMA AddIsAppend ==
    ASSUME QueueInv, QueueInv', NthIs, NthIs',
           NEW t \in Threads, NEW m \in Messages, NEW c \in Cells, Add(t, m, c)
    PROVE  Abstract!Add(t, m)
<1> DEFINE n == Cardinality(live)
           s == Items
           u == Items'
           g == Nth'
<1>1. state[t] = "run" /\ c \notin live /\ msg' = [msg EXCEPT ![c] = m] /\ result' = result
  BY DEF Add, Store
<1>2. /\ state \in [Threads -> {"run", "wait", "woken"}] /\ state' \in Signalled(state)
      /\ msg \in [Cells -> Messages \cup {Null}] /\ live \subseteq Cells
  BY DEF QueueInv, TypeOK, Add, AddSignal
<1>3. Popping' = Popping /\ t \notin Popping
  BY <1>1, <1>2, SignalKeepsPopping DEF Popping
<1>4. msg'[c] = m /\ \A d \in live : msg'[d] = msg[d]
  BY <1>1, <1>2
<1>5. s \in Seq(Messages) /\ Len(s) = n /\ \A i \in Nat : i < n => s[i + 1] = msg[Nth[i]]
  BY ItemsAre DEF ItemsKnown
<1>6. u \in Seq(Messages) /\ Len(u) = n + 1 /\ \A i \in Nat : i < n + 1 => u[i + 1] = msg'[g[i]]
  BY ItemsPrimed, AddKeepsChain DEF ItemsKnown
<1>7. Appended(Nth, g, n, c) /\ Lists(Nth, n, live, last)
  BY AddAppends DEF QueueInv, ChainInv
<1> HIDE DEF n, s, u, g
<1>8. n \in Nat
  BY <1>7 DEF Lists
<1>9. ASSUME NEW i \in Nat, i < n PROVE u[i + 1] = s[i + 1]
  <2>1. g[i] = Nth[i] /\ Nth[i] \in live /\ i < n + 1
    BY <1>7, <1>8, <1>9 DEF Appended, Lists
  <2> QED BY <1>4, <1>5, <1>6, <1>9, <2>1
<1>10. u[n + 1] = m
  BY <1>4, <1>6, <1>7, <1>8 DEF Appended
<1>11. u = Append(s, m)
  <2>1. Append(s, m) \in Seq(Messages) /\ Len(Append(s, m)) = n + 1
    BY <1>5, AppendProperties
  <2>2. ASSUME NEW j \in 1..n + 1 PROVE u[j] = Append(s, m)[j]
    <3>1. CASE j = n + 1
      BY <1>5, <1>10, <3>1, AppendProperties
    <3>2. CASE j # n + 1
      <4>1. PICK i \in Nat : j = i + 1
        BY <1>8, <2>2
      <4>2. i < n /\ j \in 1..n
        BY <1>8, <2>2, <3>2, <4>1
      <4>3. Append(s, m)[j] = s[j]
        BY <1>5, <4>2, AppendProperties
      <4> QED BY <1>9, <4>1, <4>2, <4>3
    <3> QED BY <3>1, <3>2
  <2> QED BY <1>6, <2>1, <2>2, SeqEqual
<1> QED BY <1>1, <1>3, <1>11 DEF Abstract!Add, Popping, s, u

LEMMA PushIsPush ==
    ASSUME QueueInv, QueueInv', NthIs, NthIs',
           NEW t \in Threads, NEW m \in Messages, NEW c \in Cells, Push(t, m, c)
    PROVE  Abstract!Push(t, m)
<1> DEFINE n == Cardinality(live)
           s == Items
           u == Items'
           g == Nth'
<1>1. state[t] = "run" /\ c \notin live /\ msg' = [msg EXCEPT ![c] = m] /\ result' = result
  BY DEF Push, Store
<1>2. /\ state \in [Threads -> {"run", "wait", "woken"}] /\ state' \in Signalled(state)
      /\ msg \in [Cells -> Messages \cup {Null}] /\ live \subseteq Cells
  BY DEF QueueInv, TypeOK, Push
<1>3. Popping' = Popping /\ t \notin Popping
  BY <1>1, <1>2, SignalKeepsPopping DEF Popping
<1>4. msg'[c] = m /\ \A d \in live : msg'[d] = msg[d]
  BY <1>1, <1>2
<1>5. s \in Seq(Messages) /\ Len(s) = n /\ \A i \in Nat : i < n => s[i + 1] = msg[Nth[i]]
  BY ItemsAre DEF ItemsKnown
<1>6. u \in Seq(Messages) /\ Len(u) = n + 1 /\ \A i \in Nat : i < n + 1 => u[i + 1] = msg'[g[i]]
  BY ItemsPrimed, PushKeepsChain DEF ItemsKnown
<1>7. Prepended(Nth, g, c) /\ Lists(Nth, n, live, last)
  BY PushPrepends DEF QueueInv, ChainInv
<1> HIDE DEF n, s, u, g
<1>8. n \in Nat
  BY <1>7 DEF Lists
<1>9. ASSUME NEW i \in Nat, i < n PROVE u[(i + 1) + 1] = s[i + 1]
  <2>1. g[i + 1] = Nth[i] /\ Nth[i] \in live /\ i + 1 < n + 1
    BY <1>7, <1>8, <1>9 DEF Prepended, Lists
  <2> QED BY <1>4, <1>5, <1>6, <1>9, <2>1
<1>10. u[1] = m
  <2>1. 0 < n + 1 /\ 0 + 1 = 1
    BY <1>8
  <2> QED BY <1>4, <1>6, <1>7, <2>1 DEF Prepended
<1>11. u = <<m>> \o s
  <2>1. /\ <<m>> \o s \in Seq(Messages) /\ Len(<<m>> \o s) = n + 1
        /\ \A j \in 1..n + 1 : (<<m>> \o s)[j] = IF j <= 1 THEN m ELSE s[j - 1]
    <3>1. <<m>> \in Seq(Messages) /\ Len(<<m>>) = 1 /\ <<m>>[1] = m
      OBVIOUS
    <3>2. 1 + n = n + 1
      BY <1>8
    <3>3. /\ <<m>> \o s \in Seq(Messages) /\ Len(<<m>> \o s) = 1 + n
          /\ \A j \in 1..1 + n : (<<m>> \o s)[j] = IF j <= 1 THEN <<m>>[j] ELSE s[j - 1]
      BY <1>5, <3>1, ConcatProperties
    <3> QED BY <3>1, <3>2, <3>3
  <2>2. ASSUME NEW j \in 1..n + 1 PROVE u[j] = (<<m>> \o s)[j]
    <3>1. CASE j = 1
      BY <1>10, <2>1, <3>1
    <3>2. CASE j # 1
      <4>1. PICK i \in Nat : j = (i + 1) + 1
        BY <1>8, <2>2, <3>2
      <4>2. i < n /\ j - 1 = i + 1 /\ ~(j <= 1)
        BY <1>8, <2>2, <4>1
      <4> QED BY <1>9, <2>1, <4>1, <4>2
    <3> QED BY <3>1, <3>2
  <2> QED BY <1>6, <2>1, <2>2, SeqEqual
<1> QED BY <1>1, <1>3, <1>11 DEF Abstract!Push, Popping, s, u

LEMMA TakeIsTake ==
    ASSUME QueueInv, QueueInv', NthIs, NthIs', NEW t \in Threads, Take(t)
    PROVE  Abstract!Take(t)
<1> DEFINE n == Cardinality(live)
           k == Cardinality(live')
           s == Items
           u == Items'
           g == Nth'
           st == [state EXCEPT ![t] = "run"]
<1>1. first # Nil /\ msg' = msg /\ result' = [result EXCEPT ![t] = msg[first]]
      /\ state' \in PopSignal(st)
  BY DEF Take
<1>2. state \in [Threads -> {"run", "wait", "woken"}]
  BY DEF QueueInv, TypeOK
<1>3. st \in [Threads -> {"run", "wait", "woken"}]
      /\ \A r \in Threads : st[r] # "run" <=> state[r] # "run" /\ r # t
  BY <1>2
<1>4. \A r \in Threads : state'[r] # "run" <=> st[r] # "run"
  <2> HIDE DEF st
  <2>1. state' = st \/ state' \in Signalled(st)
    BY <1>1 DEF PopSignal
  <2> QED BY <1>3, <2>1, SignalKeepsPopping
<1>5. Popping' = Popping \ {t}
  <2> HIDE DEF st
  <2> QED BY <1>3, <1>4 DEF Popping
<1>6. s \in Seq(Messages) /\ Len(s) = n /\ \A i \in Nat : i < n => s[i + 1] = msg[Nth[i]]
  BY ItemsAre DEF ItemsKnown
<1>7. /\ u \in Seq(Messages) /\ Len(u) = k /\ \A i \in Nat : i < k => u[i + 1] = msg'[g[i]]
      /\ n = k + 1 /\ k \in Nat
  BY ItemsPrimed, TakeKeepsChain DEF ItemsKnown
<1>8. Shifted(Nth, g) /\ Nth[0] = first
  BY TakeShifts DEF NthIs
<1> HIDE DEF n, k, s, u, g, st
<1>9. s # <<>> /\ Head(s) = msg[first]
  <2>1. 0 < n /\ 0 + 1 = 1
    BY <1>7
  <2>2. s[1] = msg[first]
    BY <1>6, <1>8, <2>1
  <2>3. s # <<>>
    BY <1>6, <2>1
  <2> QED BY <1>6, <2>2, <2>3
<1>10. u = Tail(s)
  <2>1. Tail(s) \in Seq(Messages) /\ Len(Tail(s)) = k
        /\ \A j \in 1..k : Tail(s)[j] = s[j + 1]
    <3>1. n - 1 = k
      BY <1>7
    <3> QED BY <1>6, <1>9, <3>1, HeadTailProperties
  <2>2. ASSUME NEW j \in 1..k PROVE u[j] = Tail(s)[j]
    <3>1. PICK i \in Nat : j = i + 1
      BY <1>7, <2>2
    <3>2. i < k /\ i + 1 \in Nat /\ i + 1 < n
      BY <1>7, <2>2, <3>1
    <3>3. u[i + 1] = msg[Nth[i + 1]] /\ s[(i + 1) + 1] = msg[Nth[i + 1]]
      BY <1>1, <1>6, <1>7, <1>8, <3>2 DEF Shifted
    <3>4. Tail(s)[j] = s[(i + 1) + 1]
      BY <2>1, <2>2, <3>1
    <3> QED BY <3>1, <3>3, <3>4
  <2> QED BY <1>7, <2>1, <2>2, SeqEqual
<1> QED BY <1>1, <1>5, <1>9, <1>10 DEF Abstract!Take, Popping, s, u

LEMMA ItemsKept ==
    ASSUME QueueInv, QueueInv', NthIs, NthIs', UNCHANGED list PROVE UNCHANGED Items
<1> DEFINE s == Items
           u == Items'
           g == Nth'
           n == Cardinality(live)
<1>1. s \in Seq(Messages) /\ Len(s) = n /\ \A i \in Nat : i < n => s[i + 1] = msg[Nth[i]]
  BY ItemsAre DEF ItemsKnown
<1>2. u \in Seq(Messages) /\ Len(u) = n /\ \A i \in Nat : i < n => u[i + 1] = msg[g[i]]
  BY ItemsPrimed DEF ItemsKnown
<1>3. \A i \in Nat : g[i] = Nth[i]
  BY NthKept
<1>4. n \in Nat
  BY DEF QueueInv, ChainInv, Lists
<1> HIDE DEF s, u, g, n
<1>5. ASSUME NEW j \in 1..n PROVE u[j] = s[j]
  <2>1. PICK i \in Nat : j = i + 1
    BY <1>4
  <2>2. i < n
    BY <1>4, <2>1
  <2> QED BY <1>1, <1>2, <1>3, <2>1, <2>2
<1>6. u = s
  BY <1>1, <1>2, <1>5, SeqEqual
<1> QED BY <1>6 DEF s, u

LEMMA StepRefines ==
    ASSUME QueueInv, QueueInv', NthIs, NthIs', [Next]_vars PROVE [Abstract!Next]_(Abstract!vars)
<1>1. state \in [Threads -> {"run", "wait", "woken"}]
  BY DEF QueueInv, TypeOK
<1>2. Items = <<>> <=> first = Nil
  BY ItemsAre, EmptyAgrees DEF ItemsKnown
<1> USE DEF Abstract!vars
<1>3. ASSUME NEW t \in Threads, NEW m \in Messages, NEW c \in Cells, Add(t, m, c) \/ Push(t, m, c)
      PROVE  Abstract!Next
  BY <1>3, AddIsAppend, PushIsPush DEF Abstract!Next
<1>4. ASSUME NEW t \in Threads, Take(t) PROVE Abstract!Next
  BY <1>4, TakeIsTake DEF Abstract!Next
<1>5. ASSUME NEW t \in Threads, state[t] = "run", Wait(t) PROVE Abstract!Next
  <2>1. Popping' = Popping \cup {t} /\ t \notin Popping
    BY <1>1, <1>5 DEF Wait, Popping
  <2>2. UNCHANGED Items
    BY <1>5, ItemsKept DEF Wait
  <2>3. first = Nil /\ result' = result
    BY <1>5 DEF Wait
  <2>4. Abstract!Block(t)
    BY <1>2, <2>1, <2>2, <2>3 DEF Abstract!Block, Popping
  <2> QED BY <2>4 DEF Abstract!Next
<1>6. ASSUME NEW t \in Threads, state[t] = "run", first = Nil, UNCHANGED <<list, state>>,
             result' = [result EXCEPT ![t] = Null]
      PROVE  Abstract!Next
  <2>1. Popping' = Popping /\ t \notin Popping
    BY <1>1, <1>6 DEF Popping
  <2>2. UNCHANGED Items
    BY <1>6, ItemsKept
  <2>3. Abstract!TryPop(t)
    BY <1>2, <1>6, <2>1, <2>2 DEF Abstract!TryPop, Popping
  <2> QED BY <2>3 DEF Abstract!Next
<1>7. ASSUME NEW t \in Threads, NEW block \in BOOLEAN, Pop(t, block) PROVE Abstract!Next
  BY <1>4, <1>5, <1>6, <1>7 DEF Pop
<1>8. ASSUME NEW t \in Threads, state[t] = "woken", Wait(t) PROVE UNCHANGED Abstract!vars
  <2>1. Popping' = Popping
    BY <1>1, <1>8 DEF Wait, Popping
  <2>2. UNCHANGED Items /\ result' = result
    BY <1>8, ItemsKept DEF Wait
  <2> QED BY <2>1, <2>2 DEF Popping
<1>9. ASSUME NEW t \in Threads, SpuriousWakeup(t) PROVE UNCHANGED Abstract!vars
  <2>1. Popping' = Popping
    BY <1>1, <1>9 DEF SpuriousWakeup, Popping
  <2>2. UNCHANGED Items /\ result' = result
    BY <1>9, ItemsKept DEF SpuriousWakeup
  <2> QED BY <2>1, <2>2 DEF Popping
<1>10. ASSUME NEW t \in Threads, Resume(t) PROVE [Abstract!Next]_(Abstract!vars)
  BY <1>4, <1>8, <1>10 DEF Resume
<1>11. ASSUME UNCHANGED vars PROVE UNCHANGED Abstract!vars
  <2>1. Popping' = Popping /\ result' = result
    BY <1>11 DEF vars, Popping
  <2>2. UNCHANGED Items
    BY <1>11, ItemsKept DEF vars
  <2> QED BY <2>1, <2>2 DEF Popping
<1> QED BY <1>3, <1>7, <1>9, <1>10, <1>11 DEF Next

LEMMA QueueInit == Init => QueueInv /\ Abstract!Init
<1> SUFFICES ASSUME Init PROVE QueueInv /\ Abstract!Init
  OBVIOUS
<1>1. TypeOK /\ ListInv /\ live = {}
  BY DEF Init, TypeOK, ListInv, EndsAgree
<1>2. IsFiniteSet(live) /\ Cardinality(live) = 0
  BY <1>1, FS_EmptySet
<1>3. Nth[0] = Nil
  BY NthSteps DEF NthIs, Init
<1>4. Lists(Nth, 0, live, last)
  BY <1>3 DEF Lists
<1>5. QueueInv
  BY <1>1, <1>2, <1>4 DEF QueueInv, ChainInv
<1>6. Items = <<>>
  BY <1>2, <1>5, ItemsAre DEF ItemsKnown
<1>7. Popping = {} /\ result = [t \in Threads |-> Null]
  BY DEF Init, Popping
<1> QED BY <1>5, <1>6, <1>7 DEF Abstract!Init, Popping

-----------------------------------------------------------------------------
\* The linked list is a queue: for any number of threads and messages, with
\* every mixture of adds, pushes, pops, signals and spurious wakeups, each step
\* of the list is one operation of the abstract queue or none, so that no
\* message is lost, copied, overtaken or given to two threads.
THEOREM ListImplementsQueue == Spec => ImplementsQueue
<1>1. QueueInv /\ [Next]_vars => QueueInv'
  <2>1. NthIs'
    BY NthSteps, PTL
  <2> QED BY <2>1, NthSteps, Typing, ListStep, ChainStep DEF QueueInv
<1>2. QueueInv /\ QueueInv' /\ [Next]_vars => [Abstract!Next]_(Abstract!vars)
  <2>1. NthIs'
    BY NthSteps, PTL
  <2> QED BY <2>1, NthSteps, StepRefines
<1> QED BY <1>1, <1>2, QueueInit, PTL DEF Spec, ImplementsQueue, Abstract!Spec
=============================================================================
