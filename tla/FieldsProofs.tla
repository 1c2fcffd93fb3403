---------------------------- MODULE FieldsProofs ----------------------------
(***************************************************************************)
(* Field names and objects, for any number of threads, names and values    *)
(* and any hash.                                                           *)
(*                                                                         *)
(* The binary search answers rightly for every ordered table.  Its         *)
(* recursive function exists, and what it answers is shown, by induction   *)
(* on the length of what is left to search, with a least element in place  *)
(* of an induction theorem.  From this follows what each operation of      *)
(* Otable does to the set of a table's cells.                              *)
(*                                                                         *)
(* Table: the array of the shared table is as long as the count, but for   *)
(* the moment between the two stores of the thread that holds the lock,    *)
(* when it is one longer; so it never gets shorter.  NamesInv: its cells   *)
(* are in order, each is that of a name, and a thread about to publish     *)
(* has made the table with one more.  ObjectsInv: an object's cells are    *)
(* those of its fields, whose names are registered and so have ids of      *)
(* their own.  LateInv: until an insertion overlaps a lookup, none is      *)
(* between its two stores, and the lookup has read the table's count.      *)
(***************************************************************************)
EXTENDS Fields, WellFoundedInduction, TLAPS

IsSequence(s) == \E S : s \in Seq(S)

-----------------------------------------------------------------------------
(* Induction over the naturals, for a set of them. *)

LEMMA Least == ASSUME NEW S, S \subseteq Nat, S # {} PROVE \E k \in S : \A j \in S : k <= j
<1>1. PICK x \in S : \A y \in S : ~(<<y, x>> \in OpToRel(<, Nat))
  BY NatLessThanWellFounded, WFMin
<1>2. \A y \in S : ~(y < x)
  BY <1>1 DEF OpToRel
<1>3. \A y \in S : x <= y
  <2> TAKE y \in S
  <2>1. x \in Nat /\ y \in Nat
    OBVIOUS
  <2> QED BY <1>2, <2>1
<1> QED BY <1>3

LEMMA Induction ==
    ASSUME NEW S, 0 \in S, \A n \in Nat : n \in S => n + 1 \in S PROVE Nat \subseteq S
<1> SUFFICES ASSUME Nat \ S # {} PROVE FALSE
  OBVIOUS
<1>1. PICK k \in Nat \ S : \A j \in Nat \ S : k <= j
  <2>1. Nat \ S \subseteq Nat
    OBVIOUS
  <2> HIDE DEF Induction
  <2> QED BY <2>1, Least
<1>2. PICK j \in Nat : k = j + 1
  BY <1>1
<1>3. j \in S
  BY <1>1, <1>2
<1> QED BY <1>1, <1>2, <1>3

-----------------------------------------------------------------------------
(* The binary search. *)

Ranges(top) == (0..top) \X (0..top)

\* What the loop does with what is left.
Bisect(f, cs, id, r) ==
    LET mid == (r[1] + r[2]) \div 2
    IN  IF r[1] >= r[2] THEN [found |-> FALSE, at |-> mid]
        ELSE IF cs[mid + 1].id < id THEN f[<<mid + 1, r[2]>>]
        ELSE IF cs[mid + 1].id > id THEN f[<<r[1], mid>>]
        ELSE [found |-> TRUE, at |-> mid]

Bisects(f, cs, top, id) == f = [r \in Ranges(top) |-> Bisect(f, cs, id, r)]

LEMMA Middle ==
    ASSUME NEW lo \in Nat, NEW hi \in Nat, lo < hi
    PROVE  (lo + hi) \div 2 \in Nat /\ lo <= (lo + hi) \div 2 /\ (lo + hi) \div 2 < hi
OBVIOUS

\* The loop ends, so that the function it computes exists.
LEMMA BisectExists ==
    ASSUME NEW cs, NEW id, NEW top \in Nat PROVE \E f : Bisects(f, cs, top, id)
<1> DEFINE Upto(f, n) ==
              /\ f = [r \in Ranges(top) |-> f[r]]
              /\ \A lo, hi \in 0..top : hi <= lo + n => f[<<lo, hi>>] = Bisect(f, cs, id, <<lo, hi>>)
           S == {n \in Nat : \E f : Upto(f, n)}
<1>1. 0 \in S
  <2> DEFINE f == [r \in Ranges(top) |-> [found |-> FALSE, at |-> (r[1] + r[2]) \div 2]]
  <2>1. f = [r \in Ranges(top) |-> f[r]]
    OBVIOUS
  <2>2. ASSUME NEW lo \in 0..top, NEW hi \in 0..top, hi <= lo + 0
        PROVE  f[<<lo, hi>>] = Bisect(f, cs, id, <<lo, hi>>)
    <3>1. lo >= hi /\ <<lo, hi>> \in Ranges(top)
      BY <2>2 DEF Ranges
    <3> QED BY <3>1 DEF Bisect
  <2> HIDE DEF f
  <2>3. Upto(f, 0)
    BY <2>1, <2>2
  <2> QED BY <2>3
<1>2. ASSUME NEW n \in Nat, n \in S PROVE n + 1 \in S
  <2>1. PICK f : Upto(f, n)
    BY <1>2
  <2> DEFINE g == [r \in Ranges(top) |-> Bisect(f, cs, id, r)]
  <2>2. g = [r \in Ranges(top) |-> g[r]]
    OBVIOUS
  <2>3. \A lo, hi \in 0..top : g[<<lo, hi>>] = Bisect(f, cs, id, <<lo, hi>>)
    BY DEF Ranges
  <2> HIDE DEF g
  <2>4. \A lo, hi \in 0..top : hi <= lo + n => g[<<lo, hi>>] = f[<<lo, hi>>]
    BY <2>1, <2>3
  <2>5. ASSUME NEW lo \in 0..top, NEW hi \in 0..top, hi <= lo + (n + 1)
        PROVE  g[<<lo, hi>>] = Bisect(g, cs, id, <<lo, hi>>)
    <3>1. CASE lo >= hi
      BY <2>3, <3>1 DEF Bisect
    <3>2. CASE lo < hi
      <4> DEFINE mid == (lo + hi) \div 2
      <4>1. mid \in Nat /\ lo <= mid /\ mid < hi
        BY <3>2, Middle
      <4> HIDE DEF mid
      <4>2. mid + 1 \in 0..top /\ hi <= (mid + 1) + n /\ mid \in 0..top /\ mid <= lo + n
        BY <2>5, <4>1
      <4>3. g[<<mid + 1, hi>>] = f[<<mid + 1, hi>>] /\ g[<<lo, mid>>] = f[<<lo, mid>>]
        BY <2>4, <4>2
      <4> QED BY <2>3, <4>3 DEF Bisect, mid
    <3> QED BY <3>1, <3>2
  <2>6. Upto(g, n + 1)
    BY <2>2, <2>5
  <2> QED BY <2>6
<1> HIDE DEF S
<1>3. top \in S
  BY <1>1, <1>2, Induction
<1>4. PICK f : Upto(f, top)
  BY <1>3 DEF S
<1>5. ASSUME NEW r \in Ranges(top) PROVE f[r] = Bisect(f, cs, id, r)
  <2>1. PICK lo \in 0..top, hi \in 0..top : r = <<lo, hi>>
    BY DEF Ranges
  <2>2. hi <= lo + top
    OBVIOUS
  <2> QED BY <1>4, <2>1, <2>2
<1> QED BY <1>4, <1>5 DEF Bisects

LEMMA SearchBisects ==
    ASSUME NEW cs, NEW id, NEW top \in Nat
    PROVE  \E f : Bisects(f, cs, top, id) /\ Search(cs, top, id) = f[<<0, top>>]
<1> DEFINE f == CHOOSE f : f = [r \in Ranges(top) |-> Bisect(f, cs, id, r)]
<1>1. Search(cs, top, id) = f[<<0, top>>]
  BY DEF Search, Bisect, Ranges
<1>2. Bisects(f, cs, top, id)
  BY BisectExists DEF Bisects
<1> QED BY <1>1, <1>2

Ordered(cs, n) ==
    /\ \A i \in 1..n : cs[i].id \in Nat
    /\ \A i, j \in 1..n : i < j => cs[i].id < cs[j].id

\* The place for a new id.
Gap(at, cs, n, id) == \A i \in 1..n : IF i <= at THEN cs[i].id < id ELSE cs[i].id > id

\* What a search should answer.
Answers(s, cs, n, id) ==
    /\ s.found \in BOOLEAN /\ s.at \in 0..n
    /\ IF s.found THEN s.at < n /\ cs[s.at + 1].id = id
       ELSE Gap(s.at, cs, n, id)

\* The loop all operations of objtable.c begin with: in an ordered table it
\* finds the id's cell, or the one place where it can be inserted.
THEOREM SearchAnswers ==
    ASSUME NEW cs, NEW top \in Nat, NEW id \in Nat, Ordered(cs, top)
    PROVE  Answers(Search(cs, top, id), cs, top, id)
<1>1. PICK f : Bisects(f, cs, top, id) /\ Search(cs, top, id) = f[<<0, top>>]
  BY SearchBisects
<1>2. \A lo, hi \in 0..top : f[<<lo, hi>>] = Bisect(f, cs, id, <<lo, hi>>)
  BY <1>1 DEF Bisects, Ranges
<1> DEFINE Left(lo) == \A i \in 1..top : i <= lo => cs[i].id < id
           Right(hi) == \A i \in 1..top : i > hi => cs[i].id > id
           S == {n \in Nat : \A lo, hi \in 0..top :
                    lo <= hi /\ hi <= lo + n /\ Left(lo) /\ Right(hi) =>
                        Answers(f[<<lo, hi>>], cs, top, id)}
<1>3. ASSUME NEW lo \in 0..top, Left(lo), Right(lo) PROVE Answers(f[<<lo, lo>>], cs, top, id)
  <2>1. f[<<lo, lo>>] = [found |-> FALSE, at |-> (lo + lo) \div 2]
    <3>1. f[<<lo, lo>>] = Bisect(f, cs, id, <<lo, lo>>)
      BY <1>2
    <3>2. lo >= lo /\ <<lo, lo>>[1] = lo /\ <<lo, lo>>[2] = lo
      OBVIOUS
    <3> HIDE DEF Left, Right, S
    <3> QED BY <3>1, <3>2, Zenon DEF Bisect
  <2>2. (lo + lo) \div 2 = lo
    OBVIOUS
  <2>3. \A i \in 1..top : i > lo <=> ~(i <= lo)
    OBVIOUS
  <2> QED BY <1>3, <2>1, <2>2, <2>3 DEF Answers, Gap
<1>4. 0 \in S
  <2>1. ASSUME NEW lo \in 0..top, NEW hi \in 0..top, lo <= hi, hi <= lo + 0 PROVE lo = hi
    BY <2>1
  <2> QED BY <1>3, <2>1
<1>5. ASSUME NEW n \in Nat, n \in S PROVE n + 1 \in S
  <2> SUFFICES ASSUME NEW lo \in 0..top, NEW hi \in 0..top, lo <= hi, hi <= lo + (n + 1),
                      Left(lo), Right(hi)
               PROVE  Answers(f[<<lo, hi>>], cs, top, id)
    OBVIOUS
  <2>1. CASE lo = hi
    BY <1>3, <2>1
  <2>2. CASE lo < hi
    <3> DEFINE mid == (lo + hi) \div 2
    <3>1. mid \in Nat /\ lo <= mid /\ mid < hi
      BY <2>2, Middle
    <3>2. f[<<lo, hi>>] = IF cs[mid + 1].id < id THEN f[<<mid + 1, hi>>]
                          ELSE IF cs[mid + 1].id > id THEN f[<<lo, mid>>]
                          ELSE [found |-> TRUE, at |-> mid]
      <4>1. ~(lo >= hi)
        BY <2>2
      <4> QED BY <1>2, <4>1 DEF Bisect
    <3> HIDE DEF mid
    <3>3. /\ mid + 1 \in 1..top /\ mid + 1 <= hi /\ hi <= (mid + 1) + n
          /\ mid \in 0..top /\ mid <= lo + n /\ mid + 1 \in 0..top
      BY <3>1
    <3>4. cs[mid + 1].id \in Nat
      BY <3>3 DEF Ordered
    <3>5. CASE cs[mid + 1].id < id
      <4>1. ASSUME NEW i \in 1..top, i <= mid + 1 PROVE cs[i].id < id
        <5>1. i = mid + 1 \/ cs[i].id < cs[mid + 1].id
          BY <3>3, <4>1 DEF Ordered
        <5>2. cs[i].id \in Nat
          BY DEF Ordered
        <5> QED BY <3>4, <3>5, <5>1, <5>2
      <4>2. Left(mid + 1)
        BY <4>1
      <4>3. Answers(f[<<mid + 1, hi>>], cs, top, id)
        BY <1>5, <3>3, <4>2
      <4> QED BY <3>2, <3>5, <4>3
    <3>6. CASE cs[mid + 1].id > id
      <4>1. ASSUME NEW i \in 1..top, i > mid PROVE cs[i].id > id
        <5>1. i = mid + 1 \/ cs[mid + 1].id < cs[i].id
          BY <3>1, <3>3, <4>1 DEF Ordered
        <5>2. cs[i].id \in Nat
          BY DEF Ordered
        <5> QED BY <3>4, <3>6, <5>1, <5>2
      <4>2. Right(mid)
        BY <4>1
      <4>3. Answers(f[<<lo, mid>>], cs, top, id)
        BY <1>5, <3>1, <3>3, <4>2
      <4>4. ~(cs[mid + 1].id < id)
        BY <3>4, <3>6
      <4> QED BY <3>2, <3>6, <4>3, <4>4
    <3>7. CASE ~(cs[mid + 1].id < id) /\ ~(cs[mid + 1].id > id)
      <4>1. f[<<lo, hi>>] = [found |-> TRUE, at |-> mid] /\ cs[mid + 1].id = id
        BY <3>2, <3>4, <3>7
      <4>2. mid < top
        BY <3>1
      <4> QED BY <3>3, <4>1, <4>2 DEF Answers, Gap
    <3> QED BY <3>5, <3>6, <3>7
  <2> QED BY <2>1, <2>2
<1> HIDE DEF S
<1>6. top \in S
  BY <1>4, <1>5, Induction
<1>7. 0 \in 0..top /\ top \in 0..top /\ 0 <= top /\ top <= 0 + top
  OBVIOUS
<1>8. Left(0) /\ Right(top)
  OBVIOUS
<1> QED BY <1>1, <1>6, <1>7, <1>8 DEF S

-----------------------------------------------------------------------------
(* Tables: each operation on the cells does what it should to the set of them. *)

CellsIn(cs, n) == {cs[i] : i \in 1..n}
Content(t) == CellsIn(t.cells, t.count)

IsTable(t) ==
    /\ t = [count |-> t.count, cells |-> t.cells]
    /\ t.count \in Nat /\ IsSequence(t.cells) /\ t.count <= Len(t.cells)
    /\ Ordered(t.cells, t.count)
    /\ \A i \in DOMAIN t.cells : t.cells[i] = Cell(t.cells[i].id, t.cells[i].v)

LEMMA FunctionIsSequence ==
    ASSUME NEW n \in Nat, NEW f, f = [i \in 1..n |-> f[i]]
    PROVE  IsSequence(f) /\ Len(f) = n
<1> DEFINE S == {f[i] : i \in 1..n}
<1>1. f \in [1..n -> S]
  OBVIOUS
<1> HIDE DEF S
<1>2. f \in Seq(S)
  BY <1>1
<1>3. Len(f) = n
  BY <1>1, <1>2
<1> QED BY <1>2, <1>3 DEF IsSequence

LEMMA SequenceIsFunction ==
    ASSUME NEW s, IsSequence(s)
    PROVE  Len(s) \in Nat /\ DOMAIN s = 1..Len(s) /\ s = [i \in 1..Len(s) |-> s[i]]
BY DEF IsSequence

\* Cells with one id are one.
LEMMA OrderedOnce ==
    ASSUME NEW cs, NEW n \in Nat, Ordered(cs, n), NEW i \in 1..n, NEW j \in 1..n,
           cs[i].id = cs[j].id
    PROVE  i = j
<1>1. cs[i].id \in Nat /\ (i < j => cs[i].id < cs[j].id) /\ (j < i => cs[j].id < cs[i].id)
  BY DEF Ordered
<1> QED BY <1>1

LEMMA GetFinds ==
    ASSUME NEW t, t.count \in Nat, Ordered(t.cells, t.count), NEW id \in Nat
    PROVE  IF \E c \in Content(t) : c.id = id
           THEN \E c \in Content(t) : c.id = id /\ otable_get(t, id) = c.v
           ELSE otable_get(t, id) = None
<1> DEFINE s == Search(t.cells, t.count, id)
<1>1. Answers(s, t.cells, t.count, id)
  BY SearchAnswers
<1>2. otable_get(t, id) = IF s.found THEN t.cells[s.at + 1].v ELSE None
  BY DEF otable_get
<1> HIDE DEF s
<1>3. CASE s.found
  <2>1. s.at + 1 \in 1..t.count /\ t.cells[s.at + 1].id = id
    BY <1>1, <1>3 DEF Answers, Gap
  <2>2. t.cells[s.at + 1] \in Content(t)
    BY <2>1 DEF Content, CellsIn
  <2> QED BY <1>2, <1>3, <2>1, <2>2
<1>4. CASE ~s.found
  <2>1. \A i \in 1..t.count : t.cells[i].id # id
    <3> TAKE i \in 1..t.count
    <3>1. t.cells[i].id \in Nat
      BY DEF Ordered
    <3>2. t.cells[i].id < id \/ t.cells[i].id > id
      BY <1>1, <1>4 DEF Answers, Gap
    <3> QED BY <3>1, <3>2
  <2> QED BY <1>2, <1>4, <2>1 DEF Content, CellsIn
<1> QED BY <1>3, <1>4

\* The id's cell, if there is one, is the one a lookup finds.
LEMMA GetCell ==
    ASSUME NEW t, t.count \in Nat, Ordered(t.cells, t.count), NEW c \in Content(t), c.id \in Nat
    PROVE  otable_get(t, c.id) = c.v
<1>1. PICK i \in 1..t.count : c = t.cells[i]
  BY DEF Content, CellsIn
<1>2. PICK d \in Content(t) : d.id = c.id /\ otable_get(t, c.id) = d.v
  BY GetFinds
<1>3. PICK j \in 1..t.count : d = t.cells[j]
  BY DEF Content, CellsIn
<1>4. i = j
  BY <1>1, <1>2, <1>3, OrderedOnce
<1> QED BY <1>1, <1>2, <1>3, <1>4

\* A cell that is inserted where the search ended keeps the order.
LEMMA InsertedCells ==
    ASSUME NEW t, t.count \in Nat, Ordered(t.cells, t.count), NEW id \in Nat, NEW v,
           NEW at \in 0..t.count, Gap(at, t.cells, t.count, id)
    PROVE  LET e == Inserted(t, at, Cell(id, v))
           IN  /\ Ordered(e, t.count + 1)
               /\ CellsIn(e, t.count + 1) = Content(t) \cup {Cell(id, v)}
<1> DEFINE n == t.count
           e == Inserted(t, at, Cell(id, v))
<1>1. at \in 0..n /\ \A i \in 1..n : IF i <= at THEN t.cells[i].id < id ELSE t.cells[i].id > id
  BY DEF Gap
<1>2. /\ \A i \in 1..n : i <= at => e[i] = t.cells[i]
      /\ e[at + 1] = Cell(id, v)
      /\ \A i \in 1..n : i > at => e[i + 1] = t.cells[i]
  <2>1. \A i \in 1..(n + 1) :
            e[i] = IF i <= at THEN t.cells[i] ELSE IF i = at + 1 THEN Cell(id, v) ELSE t.cells[i - 1]
    BY DEF Inserted
  <2> HIDE DEF e
  <2>2. \A i \in 1..n : i <= at => e[i] = t.cells[i]
    BY <1>1, <2>1
  <2>3. e[at + 1] = Cell(id, v)
    BY <1>1, <2>1
  <2>4. ASSUME NEW i \in 1..n, i > at PROVE e[i + 1] = t.cells[i]
    <3>1. i + 1 \in 1..(n + 1) /\ ~(i + 1 <= at) /\ i + 1 # at + 1 /\ (i + 1) - 1 = i
      BY <1>1, <2>4
    <3> QED BY <2>1, <3>1
  <2> QED BY <2>2, <2>3, <2>4
<1> HIDE DEF e
<1>3. ASSUME NEW i \in 1..(n + 1)
      PROVE  \/ i \in 1..n /\ i <= at /\ e[i] = t.cells[i]
             \/ i = at + 1 /\ e[i] = Cell(id, v)
             \/ \E k \in 1..n : k > at /\ i = k + 1 /\ e[i] = t.cells[k]
  <2>1. CASE i <= at
    BY <1>1, <1>2, <2>1
  <2>2. CASE i = at + 1
    BY <1>2, <2>2
  <2>3. CASE i > at + 1
    <3>1. PICK k \in 1..n : i = k + 1
      BY <1>1, <2>3
    <3>2. k > at
      BY <1>1, <2>3, <3>1
    <3>3. e[i] = t.cells[k]
      BY <1>2, <3>1, <3>2
    <3> QED BY <3>1, <3>2, <3>3
  <2> QED BY <1>1, <2>1, <2>2, <2>3
<1>4. Cell(id, v).id = id
  BY DEF Cell
<1>5. \A i \in 1..n : t.cells[i].id \in Nat
  BY DEF Ordered
<1>6. \A i \in 1..(n + 1) : e[i].id \in Nat
  BY <1>3, <1>4, <1>5
<1>7. ASSUME NEW i \in 1..(n + 1), NEW j \in 1..(n + 1), i < j PROVE e[i].id < e[j].id
  <2>1. CASE i \in 1..n /\ i <= at /\ e[i] = t.cells[i]
    <3>1. CASE j \in 1..n /\ j <= at /\ e[j] = t.cells[j]
      BY <1>7, <2>1, <3>1 DEF Ordered
    <3>2. CASE j = at + 1 /\ e[j] = Cell(id, v)
      BY <1>1, <1>4, <2>1, <3>2
    <3>3. ASSUME NEW k \in 1..n, k > at, j = k + 1, e[j] = t.cells[k] PROVE e[i].id < e[j].id
      <4>1. i < k
        BY <1>1, <2>1, <3>3
      <4> QED BY <2>1, <3>3, <4>1 DEF Ordered
    <3> QED BY <1>3, <3>1, <3>2, <3>3
  <2>2. CASE i = at + 1 /\ e[i] = Cell(id, v)
    <3>1. ASSUME NEW k \in 1..n, k > at, j = k + 1, e[j] = t.cells[k] PROVE e[i].id < e[j].id
      <4>1. t.cells[k].id > id /\ t.cells[k].id \in Nat
        BY <1>1, <1>5, <3>1
      <4>2. e[i].id = id /\ e[j].id = t.cells[k].id
        BY <1>4, <2>2, <3>1
      <4> QED BY <4>1, <4>2
    <3>2. ~(j <= at) /\ j # at + 1
      BY <1>1, <1>7, <2>2
    <3> QED BY <1>3, <3>1, <3>2
  <2>3. ASSUME NEW k \in 1..n, k > at, i = k + 1, e[i] = t.cells[k] PROVE e[i].id < e[j].id
    <3>1. ~(j <= at) /\ j # at + 1
      BY <1>1, <1>7, <2>3
    <3>2. PICK m \in 1..n : m > at /\ j = m + 1 /\ e[j] = t.cells[m]
      BY <1>3, <3>1
    <3>3. k < m
      BY <1>7, <2>3, <3>2
    <3> QED BY <2>3, <3>2, <3>3 DEF Ordered
  <2> QED BY <1>3, <2>1, <2>2, <2>3
<1>8. CellsIn(e, n + 1) = Content(t) \cup {Cell(id, v)}
  <2>1. ASSUME NEW i \in 1..(n + 1) PROVE e[i] \in Content(t) \cup {Cell(id, v)}
    BY <1>3 DEF Content, CellsIn
  <2>2. ASSUME NEW k \in 1..n PROVE \E i \in 1..(n + 1) : e[i] = t.cells[k]
    <3>1. CASE k <= at
      BY <1>2, <3>1
    <3>2. CASE k > at
      <4>1. k + 1 \in 1..(n + 1) /\ e[k + 1] = t.cells[k]
        BY <1>2, <3>2
      <4> QED BY <4>1
    <3> QED BY <1>1, <3>1, <3>2
  <2>3. at + 1 \in 1..(n + 1) /\ e[at + 1] = Cell(id, v)
    BY <1>1, <1>2
  <2> QED BY <2>1, <2>2, <2>3 DEF Content, CellsIn
<1> QED BY <1>6, <1>7, <1>8 DEF Ordered, e


LEMMA RemovedCells ==
    ASSUME NEW t, IsTable(t), NEW id \in Nat
    PROVE  /\ IsTable(otable_remove(t, id))
           /\ Content(otable_remove(t, id)) = {c \in Content(t) : c.id # id}
<1> DEFINE s == Search(t.cells, t.count, id)
           n == t.count
           cs == t.cells
<1>1. n \in Nat /\ Ordered(cs, n) /\ IsSequence(cs) /\ n <= Len(cs)
      /\ \A i \in DOMAIN cs : cs[i] = Cell(cs[i].id, cs[i].v)
  BY DEF IsTable
<1>2. Answers(s, cs, n, id)
  BY <1>1, SearchAnswers
<1>3. DOMAIN cs = 1..Len(cs) /\ Len(cs) \in Nat
  BY <1>1, SequenceIsFunction
<1>4. CASE ~s.found
  <2>1. otable_remove(t, id) = t
    BY <1>4 DEF otable_remove
  <2> HIDE DEF s
  <2>2. \A i \in 1..n : cs[i].id # id
    <3> TAKE i \in 1..n
    <3>1. cs[i].id \in Nat
      BY <1>1 DEF Ordered
    <3>2. cs[i].id < id \/ cs[i].id > id
      BY <1>2, <1>4 DEF Answers, Gap
    <3> QED BY <3>1, <3>2
  <2>3. {c \in Content(t) : c.id # id} = Content(t)
    BY <2>2 DEF Content, CellsIn
  <2> QED BY <2>1, <2>3
<1>5. CASE s.found
  <2> HIDE DEF s
  <2>1. PICK k \in Nat : n = k + 1
    <3>1. s.at < n /\ s.at \in Nat
      BY <1>1, <1>2, <1>5 DEF Answers, Gap
    <3>2. n - 1 \in Nat /\ n = (n - 1) + 1
      BY <1>1, <3>1
    <3> QED BY <3>2
  <2>2. s.at \in 0..k /\ cs[s.at + 1].id = id
    BY <1>1, <1>2, <1>5, <2>1 DEF Answers, Gap
  <2> DEFINE Moved(i) == IF i \in (s.at + 1)..k THEN cs[i + 1] ELSE cs[i]
             e == [i \in DOMAIN cs |-> IF i = n THEN [Moved(i) EXCEPT !.v = None] ELSE Moved(i)]
             r == [count |-> k, cells |-> e]
  <2>3. otable_remove(t, id) = r
    <3>1. n - 1 = k
      BY <2>1
    <3> QED BY <1>5, <3>1 DEF otable_remove, LastMoved, s
  <2>4. IsSequence(e) /\ Len(e) = Len(cs) /\ DOMAIN e = 1..Len(cs)
    <3>1. e = [i \in 1..Len(cs) |-> e[i]]
      BY <1>3
    <3> HIDE DEF e
    <3>2. IsSequence(e) /\ Len(e) = Len(cs)
      BY <1>3, <3>1, FunctionIsSequence
    <3> QED BY <3>1, <3>2
  <2>5. \A i \in 1..k : e[i] = IF i <= s.at THEN cs[i] ELSE cs[i + 1]
    <3> TAKE i \in 1..k
    <3>1. i \in DOMAIN cs /\ i # n /\ (i \in (s.at + 1)..k <=> ~(i <= s.at))
      BY <1>1, <1>3, <2>1, <2>2
    <3> QED BY <3>1
  <2>6. ASSUME NEW i \in DOMAIN e PROVE e[i] = Cell(e[i].id, e[i].v)
    <3>1. i \in DOMAIN cs /\ (i \in (s.at + 1)..k => i + 1 \in DOMAIN cs)
      BY <1>1, <1>3, <2>1, <2>4
    <3>2. Moved(i) = Cell(Moved(i).id, Moved(i).v)
      BY <1>1, <3>1
    <3> DEFINE m == Moved(i)
    <3>3. e[i] = IF i = n THEN [m EXCEPT !.v = None] ELSE m
      BY <3>1
    <3> HIDE DEF m, e
    <3>4. m = [id |-> m.id, v |-> m.v]
      BY <3>2 DEF m, Cell
    <3> QED BY <3>3, <3>4 DEF Cell
  <2> HIDE DEF e
  \* The place in the old table of a cell of the new one.
  <2> DEFINE Old(i) == IF i <= s.at THEN i ELSE i + 1
  <2>7. \A i \in 1..k : Old(i) \in 1..n /\ Old(i) # s.at + 1 /\ e[i] = cs[Old(i)]
    BY <1>1, <2>1, <2>2, <2>5
  <2>8. \A i, j \in 1..k : i < j => Old(i) < Old(j)
    BY <2>2
  <2>9. \A j \in 1..n : j # s.at + 1 => \E i \in 1..k : Old(i) = j
    <3> TAKE j \in 1..n
    <3>1. CASE j <= s.at
      BY <2>2, <3>1
    <3>2. CASE j > s.at + 1
      <4>1. PICK i \in 1..k : j = i + 1
        BY <2>1, <2>2, <3>2
      <4>2. ~(i <= s.at)
        BY <2>2, <3>2, <4>1
      <4> QED BY <4>1, <4>2
    <3> QED BY <2>2, <3>1, <3>2
  <2> HIDE DEF Old
  <2>10. Ordered(e, k)
    <3>1. \A i \in 1..k : e[i].id \in Nat
      BY <1>1, <2>7 DEF Ordered
    <3>2. \A i, j \in 1..k : i < j => e[i].id < e[j].id
      BY <1>1, <2>7, <2>8 DEF Ordered
    <3> QED BY <3>1, <3>2 DEF Ordered
  <2>11. s.at + 1 \in 1..n
    BY <1>1, <2>1, <2>2
  <2>12. \A j \in 1..n : cs[j].id # id <=> j # s.at + 1
    BY <1>1, <2>2, <2>11, OrderedOnce
  <2>13. CellsIn(e, k) = {c \in CellsIn(cs, n) : c.id # id}
    BY <2>7, <2>9, <2>12 DEF CellsIn
  <2>14. IsTable(r)
    <3>1. k <= Len(e)
      BY <1>1, <1>3, <2>1, <2>4
    <3> QED BY <2>4, <2>6, <2>10, <3>1 DEF IsTable
  <2> QED BY <2>3, <2>13, <2>14 DEF Content
<1> QED BY <1>4, <1>5

LEMMA ReplacedCells ==
    ASSUME NEW t, IsTable(t), NEW id \in Nat, NEW v
    PROVE  /\ IsTable(otable_replace(t, id, v))
           /\ Content(otable_replace(t, id, v)) = {c \in Content(t) : c.id # id} \cup {Cell(id, v)}
<1> DEFINE s == Search(t.cells, t.count, id)
           n == t.count
           cs == t.cells
<1>1. n \in Nat /\ Ordered(cs, n) /\ IsSequence(cs) /\ n <= Len(cs)
      /\ (\A i \in DOMAIN cs : cs[i] = Cell(cs[i].id, cs[i].v))
      /\ t = [count |-> n, cells |-> cs]
  BY DEF IsTable
<1>2. Answers(s, cs, n, id)
  BY <1>1, SearchAnswers
<1>3. DOMAIN cs = 1..Len(cs) /\ Len(cs) \in Nat
  BY <1>1, SequenceIsFunction
<1>4. CASE ~s.found
  <2> DEFINE e == Inserted(t, s.at, Cell(id, v))
  <2>1. otable_replace(t, id, v) = [count |-> n + 1, cells |-> e]
    BY <1>4 DEF otable_replace
  <2>2. s.at \in 0..n /\ Gap(s.at, cs, n, id)
    <3> HIDE DEF s
    <3> QED BY <1>2, <1>4 DEF Answers
  <2>3. Ordered(e, n + 1) /\ CellsIn(e, n + 1) = Content(t) \cup {Cell(id, v)}
    <3> HIDE DEF s
    <3> QED BY <1>1, <2>2, InsertedCells
  <2>4. IsSequence(e) /\ Len(e) = n + 1 /\ DOMAIN e = 1..(n + 1)
    <3>1. e = [i \in 1..(n + 1) |-> e[i]] /\ n + 1 \in Nat
      BY <1>1 DEF Inserted
    <3> HIDE DEF e
    <3>2. IsSequence(e) /\ Len(e) = n + 1
      BY <3>1, FunctionIsSequence
    <3> QED BY <3>1, <3>2
  <2>5. ASSUME NEW i \in DOMAIN e PROVE e[i] = Cell(e[i].id, e[i].v)
    <3> HIDE DEF e
    <3>1. e[i] \in Content(t) \cup {Cell(id, v)}
      BY <2>3, <2>4, <2>5 DEF CellsIn
    <3>2. \A c \in Content(t) : c = Cell(c.id, c.v)
      BY <1>1, <1>3 DEF Content, CellsIn
    <3>3. Cell(id, v) = Cell(Cell(id, v).id, Cell(id, v).v)
      BY DEF Cell
    <3> QED BY <3>1, <3>2, <3>3
  <2> HIDE DEF e, s
  <2>6. IsTable(otable_replace(t, id, v))
    BY <1>1, <2>1, <2>3, <2>4, <2>5 DEF IsTable
  <2>7. \A i \in 1..n : cs[i].id # id
    <3> TAKE i \in 1..n
    <3>1. cs[i].id \in Nat
      BY <1>1 DEF Ordered
    <3>2. cs[i].id < id \/ cs[i].id > id
      BY <1>2, <1>4 DEF Answers, Gap
    <3> QED BY <3>1, <3>2
  <2>8. {c \in Content(t) : c.id # id} = Content(t)
    BY <2>7 DEF Content, CellsIn
  <2> QED BY <2>1, <2>3, <2>6, <2>8 DEF Content
<1>5. CASE s.found
  <2> DEFINE p == s.at + 1
             e == [cs EXCEPT ![p].v = v]
  <2>1. otable_replace(t, id, v) = [count |-> n, cells |-> e]
    <3>1. otable_replace(t, id, v) = [t EXCEPT !.cells[p].v = v]
      BY <1>5 DEF otable_replace
    <3> HIDE DEF s
    <3> QED BY <1>1, <3>1
  <2> HIDE DEF s
  <2>2. p \in 1..n /\ cs[p].id = id /\ p \in DOMAIN cs
    BY <1>1, <1>2, <1>3, <1>5 DEF Answers, Gap
  <2> HIDE DEF p
  <2>3. e[p] = Cell(id, v) /\ DOMAIN e = DOMAIN cs /\ \A i \in DOMAIN cs : i # p => e[i] = cs[i]
    <3>1. cs[p] = [id |-> id, v |-> cs[p].v]
      BY <1>1, <2>2 DEF Cell
    <3> QED BY <2>2, <3>1 DEF Cell
  <2>4. IsSequence(e) /\ Len(e) = Len(cs)
    <3>1. e = [i \in 1..Len(cs) |-> e[i]]
      BY <1>3
    <3> HIDE DEF e
    <3> QED BY <1>3, <3>1, FunctionIsSequence
  <2> HIDE DEF e
  <2>5. \A i \in 1..n : e[i].id = cs[i].id
    BY <1>1, <1>3, <2>2, <2>3 DEF Cell
  <2>6. Ordered(e, n)
    BY <1>1, <2>5 DEF Ordered
  <2>7. \A i \in DOMAIN e : e[i] = Cell(e[i].id, e[i].v)
    BY <1>1, <2>3 DEF Cell
  <2>8. \A i \in 1..n : cs[i].id # id <=> i # p
    BY <1>1, <2>2, OrderedOnce
  <2>9. CellsIn(e, n) = {c \in CellsIn(cs, n) : c.id # id} \cup {Cell(id, v)}
    <3>1. \A i \in 1..n : i \in DOMAIN cs
      BY <1>1, <1>3
    <3>2. ASSUME NEW i \in 1..n
          PROVE  e[i] \in {c \in CellsIn(cs, n) : c.id # id} \cup {Cell(id, v)}
      <4>1. CASE i = p
        BY <2>3, <2>2, <4>1
      <4>2. CASE i # p
        <5>1. e[i] = cs[i] /\ cs[i].id # id /\ cs[i] \in CellsIn(cs, n)
          BY <2>3, <2>8, <3>1, <4>2 DEF CellsIn
        <5> QED BY <5>1
      <4> QED BY <4>1, <4>2
    <3>3. ASSUME NEW i \in 1..n, cs[i].id # id PROVE cs[i] \in CellsIn(e, n)
      BY <2>3, <2>8, <3>1, <3>3 DEF CellsIn
    <3>4. Cell(id, v) \in CellsIn(e, n)
      BY <2>2, <2>3 DEF CellsIn
    <3> QED BY <3>2, <3>3, <3>4 DEF CellsIn
  <2>10. IsTable([count |-> n, cells |-> e])
    BY <1>1, <2>4, <2>6, <2>7 DEF IsTable
  <2> QED BY <2>1, <2>9, <2>10 DEF Content
<1> QED BY <1>4, <1>5

-----------------------------------------------------------------------------
(* The shared table: its length. *)

USE HashAssumption

Inserting(t) == step[t] \in {"publish", "grow"}

Table ==
    /\ count \in Nat /\ IsSequence(cells)
    /\ Len(cells) = IF \E t \in Threads : step[t] = "grow" THEN count + 1 ELSE count
    /\ step = [t \in Threads |-> step[t]] /\ c2 = [t \in Threads |-> c2[t]]
    /\ max \in [Threads -> Nat]
    /\ \A t \in Threads : Inserting(t) => lock = t
    /\ \A t \in Threads : step[t] = "publish" => IsSequence(c2[t]) /\ Len(c2[t]) = count + 1

FieldInv == Table /\ LookupInBounds

LEMMA InsertedLength ==
    ASSUME NEW t, NEW at, NEW cell, t.count \in Nat
    PROVE  IsSequence(Inserted(t, at, cell)) /\ Len(Inserted(t, at, cell)) = t.count + 1
<1> DEFINE E(i) == IF i <= at THEN t.cells[i] ELSE IF i = at + 1 THEN cell ELSE t.cells[i - 1]
           S == {E(i) : i \in 1..(t.count + 1)}
<1>1. Inserted(t, at, cell) = [i \in 1..(t.count + 1) |-> E(i)]
  BY DEF Inserted
<1>2. \A i \in 1..(t.count + 1) : E(i) \in S
  OBVIOUS
<1> HIDE DEF E, S
<1>3. [i \in 1..(t.count + 1) |-> E(i)] \in [1..(t.count + 1) -> S]
  BY <1>2
<1>4. t.count + 1 \in Nat
  OBVIOUS
<1>5. [i \in 1..(t.count + 1) |-> E(i)] \in Seq(S)
  BY <1>3, <1>4
<1>6. Len([i \in 1..(t.count + 1) |-> E(i)]) = t.count + 1
  BY <1>4, <1>5
<1> QED BY <1>1, <1>5, <1>6 DEF IsSequence

\* One thread inserts at a time.
LEMMA OneInserts ==
    ASSUME Table, NEW t \in Threads, Inserting(t)
    PROVE  \A u \in Threads \ {t} : ~Inserting(u)
BY DEF Table

\* A step that leaves the table alone, and t at s.
Quiet(t, s) ==
    /\ UNCHANGED <<count, cells, c2>> /\ (lock = None \/ lock' = lock) /\ ~Inserting(t)
    /\ s \notin {"publish", "grow"} /\ step' = [step EXCEPT ![t] = s]
    /\ max' \in [Threads -> Nat] /\ \A u \in Threads \ {t} : max'[u] = max[u]
    /\ s = "cells" => max'[t] <= Len(cells)

LEMMA QuietStep ==
    ASSUME FieldInv, NEW t \in Threads, NEW s, Quiet(t, s)
    PROVE  FieldInv'
<1> USE DEF FieldInv, Table, Inserting, Quiet
<1>1. \A u \in Threads : step'[u] = IF u = t THEN s ELSE step[u]
  OBVIOUS
<1>2. (\E u \in Threads : step'[u] = "grow") <=> \E u \in Threads : step[u] = "grow"
  BY <1>1
<1>3. \A u \in Threads : Inserting(u)' => lock' = u
  BY <1>1
<1>4. step' = [u \in Threads |-> step'[u]]
  OBVIOUS
<1>5. LookupInBounds'
  BY <1>1 DEF LookupInBounds
<1> QED BY <1>1, <1>2, <1>3, <1>4, <1>5

LEMMA FoundGoes ==
    ASSUME NEW t, NEW found, Found(t, found)
    PROVE  \E s \in {"access", "conflict"} : step' = [step EXCEPT ![t] = s]
BY DEF Found, Goto

LEMMA FieldStep == FieldInv /\ [Next]_vars => FieldInv'
<1> SUFFICES ASSUME FieldInv, [Next]_vars PROVE FieldInv'
  OBVIOUS
<1>1. ASSUME NEW t \in Threads, NEW n \in Names, Call(t, n) PROVE FieldInv'
  <2>1. Quiet(t, "count")
    BY <1>1 DEF Call, At, Goto, FieldInv, Table, shared, Inserting, Quiet
  <2> QED BY <2>1, QuietStep
<1>2. ASSUME NEW t \in Threads, ReadCount(t) PROVE FieldInv'
  <2>1. count \in Nat /\ count <= Len(cells)
    BY DEF FieldInv, Table
  <2>2. max' = [max EXCEPT ![t] = count] /\ UNCHANGED <<count, cells, lock, c2>>
    BY <1>2 DEF ReadCount, CountToSearch, shared
  <2>3. step' = [step EXCEPT ![t] = "cells"] /\ ~Inserting(t)
    BY <1>2 DEF ReadCount, At, Goto, Inserting
  <2>4. Quiet(t, "cells")
    BY <2>1, <2>2, <2>3 DEF FieldInv, Table, Quiet
  <2> QED BY <2>4, QuietStep
<1>3. ASSUME NEW t \in Threads, Lookup(t) PROVE FieldInv'
  <2>1. UNCHANGED <<count, cells, lock, c2, max>> /\ ~Inserting(t)
    BY <1>3 DEF Lookup, At, shared, Inserting
  <2>2. PICK s \in {"lock", "access", "conflict"} : step' = [step EXCEPT ![t] = s]
    BY <1>3, FoundGoes DEF Lookup, Goto
  <2>3. Quiet(t, s)
    BY <2>1, <2>2 DEF FieldInv, Table, Quiet
  <2> QED BY <2>3, QuietStep
<1>4. ASSUME NEW t \in Threads, Acquire(t) PROVE FieldInv'
  <2>1. UNCHANGED <<count, cells, max>> /\ ~Inserting(t) /\ lock = None
    BY <1>4 DEF Acquire, At, Inserting
  <2>2. CASE SearchAgain(Hash[name[t]]).found
    <3>1. UNCHANGED c2
      BY <1>4, <2>2 DEF Acquire
    <3>2. PICK s \in {"access", "conflict"} : step' = [step EXCEPT ![t] = s]
      BY <1>4, <2>2, FoundGoes DEF Acquire
    <3>3. Quiet(t, s)
      BY <2>1, <3>1, <3>2 DEF FieldInv, Table, Quiet
    <3> QED BY <3>3, QuietStep
  <2>3. CASE ~SearchAgain(Hash[name[t]]).found
    <3> DEFINE i == Inserted(table, SearchAgain(Hash[name[t]]).at, Cell(Hash[name[t]], name[t]))
    <3>1. lock' = t /\ c2' = [c2 EXCEPT ![t] = i] /\ step' = [step EXCEPT ![t] = "publish"]
      BY <1>4, <2>3 DEF Acquire, Goto
    <3>2. IsSequence(i) /\ Len(i) = count + 1
      BY InsertedLength DEF FieldInv, Table, table
    <3> HIDE DEF i
    <3>3. \A u \in Threads : ~Inserting(u)
      BY <2>1 DEF FieldInv, Table
    <3>4. \A u \in Threads : step'[u] = IF u = t THEN "publish" ELSE step[u]
      BY <3>1 DEF FieldInv, Table
    <3>5. c2'[t] = i /\ c2' = [u \in Threads |-> c2'[u]]
      BY <3>1 DEF FieldInv, Table
    <3>6. step' = [u \in Threads |-> step'[u]] /\ UNCHANGED <<count, cells, max>>
      BY <2>1, <3>1 DEF FieldInv, Table
    <3>7. Len(cells') = IF \E u \in Threads : step'[u] = "grow" THEN count' + 1 ELSE count'
      BY <2>1, <3>3, <3>4 DEF FieldInv, Table, Inserting
    <3>8. \A u \in Threads : Inserting(u)' => lock' = u
      BY <3>1, <3>3, <3>4 DEF Inserting
    <3>9. \A u \in Threads : step'[u] = "publish" => IsSequence(c2'[u]) /\ Len(c2'[u]) = count' + 1
      BY <2>1, <3>2, <3>3, <3>4, <3>5 DEF Inserting
    <3>10. LookupInBounds'
      BY <3>4, <3>6 DEF FieldInv, LookupInBounds
    <3> QED BY <3>5, <3>6, <3>7, <3>8, <3>9, <3>10 DEF FieldInv, Table
  <2> QED BY <2>2, <2>3
<1>5. ASSUME NEW t \in Threads, Publish(t) PROVE FieldInv'
  <2>1. cells' = c2[t] /\ UNCHANGED <<count, lock, max, c2>>
    BY <1>5 DEF Publish, CellsFirst, SetCells
  <2>2. step' = [step EXCEPT ![t] = "grow"] /\ step[t] = "publish"
    BY <1>5 DEF Publish, At, Goto
  <2>3. \A u \in Threads \ {t} : ~Inserting(u)
    BY <2>2, OneInserts DEF FieldInv, Inserting
  <2>4. Len(cells) = count /\ IsSequence(cells') /\ Len(cells') = count + 1 /\ count \in Nat
    BY <2>1, <2>2, <2>3 DEF FieldInv, Table, Inserting
  <2>5. \A u \in Threads : step'[u] = IF u = t THEN "grow" ELSE step[u]
    BY <2>2 DEF FieldInv, Table
  <2>6. LookupInBounds'
    BY <2>1, <2>4, <2>5 DEF FieldInv, Table, LookupInBounds
  <2>7. step' = [u \in Threads |-> step'[u]] /\ c2' = [u \in Threads |-> c2'[u]]
    BY <2>1, <2>2 DEF FieldInv, Table
  <2>8. Len(cells') = IF \E u \in Threads : step'[u] = "grow" THEN count' + 1 ELSE count'
    BY <2>1, <2>4, <2>5
  <2>9. \A u \in Threads : (Inserting(u)' => lock' = u) /\ step'[u] # "publish"
    BY <2>1, <2>2, <2>3, <2>5 DEF FieldInv, Table, Inserting
  <2>10. max' \in [Threads -> Nat] /\ count' \in Nat
    BY <2>1 DEF FieldInv, Table
  <2> QED BY <2>4, <2>6, <2>7, <2>8, <2>9, <2>10 DEF FieldInv, Table
<1>6. ASSUME NEW t \in Threads, Grow(t) PROVE FieldInv'
  <2>1. count' = count + 1 /\ UNCHANGED <<cells, max>> /\ c2' = [c2 EXCEPT ![t] = <<>>]
    BY <1>6 DEF Grow, CellsFirst, SetCount
  <2>2. PICK s \in {"access", "conflict"} : step' = [step EXCEPT ![t] = s]
    BY <1>6, FoundGoes DEF Grow
  <2>3. step[t] = "grow" /\ \A u \in Threads \ {t} : ~Inserting(u)
    BY <1>6, OneInserts DEF Grow, At, FieldInv, Inserting
  <2>4. Len(cells) = count + 1 /\ count \in Nat
    BY <2>3 DEF FieldInv, Table
  <2>5. \A u \in Threads : step'[u] = IF u = t THEN s ELSE step[u]
    BY <2>2 DEF FieldInv, Table
  <2>6. \A u \in Threads : ~Inserting(u)'
    BY <2>3, <2>5 DEF Inserting
  <2>7. c2' = [u \in Threads |-> c2'[u]]
    BY <2>1 DEF FieldInv, Table
  <2>8. step' = [u \in Threads |-> step'[u]] /\ max' \in [Threads -> Nat] /\ IsSequence(cells')
    BY <2>1, <2>2 DEF FieldInv, Table
  <2>9. Len(cells') = IF \E u \in Threads : step'[u] = "grow" THEN count' + 1 ELSE count'
    BY <2>1, <2>4, <2>6 DEF Inserting
  <2>10. LookupInBounds'
    BY <2>1, <2>5 DEF FieldInv, LookupInBounds
  <2>11. \A u \in Threads : (Inserting(u)' => lock' = u) /\ step'[u] # "publish"
    BY <2>6 DEF Inserting
  <2>12. count' \in Nat
    BY <2>1, <2>4
  <2> QED BY <2>7, <2>8, <2>9, <2>10, <2>11, <2>12 DEF FieldInv, Table
<1>7. ASSUME NEW t \in Threads, Access(t) PROVE FieldInv'
  <2>1. Done(t) /\ UNCHANGED <<count, cells, lock, c2>> /\ ~Inserting(t)
    BY <1>7 DEF Access, alloc_field, objremove, FieldConflict, At, shared, Inserting
  <2>2. Quiet(t, "idle")
    BY <2>1 DEF Done, FieldInv, Table, Quiet
  <2> QED BY <2>2, QuietStep
<1>8. CASE UNCHANGED vars
  BY <1>8 DEF vars, shared, FieldInv, Table, LookupInBounds, Inserting
<1> QED BY <1>1, <1>2, <1>3, <1>4, <1>5, <1>6, <1>7, <1>8 DEF Next, val_id

LEMMA InitFields == Init => FieldInv
<1> SUFFICES ASSUME Init PROVE FieldInv
  OBVIOUS
<1>1. IsSequence(cells) /\ Len(cells) = 0 /\ count = 0
  <2>1. <<>> \in Seq({})
    OBVIOUS
  <2> QED BY <2>1 DEF Init, IsSequence
<1>2. \A t \in Threads : step[t] = "idle"
  BY DEF Init
<1>3. step = [t \in Threads |-> step[t]] /\ c2 = [t \in Threads |-> c2[t]] /\ max \in [Threads -> Nat]
  BY DEF Init
<1> QED BY <1>1, <1>2, <1>3 DEF FieldInv, Table, LookupInBounds, Inserting

-----------------------------------------------------------------------------
(* The shared table: the names in it. *)

Registry == CellsIn(cells, Len(cells))

NamesInv ==
    /\ name \in [Threads -> Names \cup {None}] /\ registered \subseteq Names
    /\ \A t \in Threads : step[t] # "idle" => name[t] \in Names
    /\ Ordered(cells, Len(cells))
    /\ \A c \in Registry : c.v \in Names /\ c = Cell(Hash[c.v], c.v)
    /\ \A n \in registered : Cell(Hash[n], n) \in Registry
    /\ \A t \in Threads : step[t] = "publish" =>
           /\ Ordered(c2[t], count + 1)
           /\ CellsIn(c2[t], count + 1) = Registry \cup {Cell(Hash[name[t]], name[t])}
    /\ \A t \in Threads : step[t] = "grow" => Cell(Hash[name[t]], name[t]) \in Registry
    /\ \A t \in Threads : step[t] = "access" => name[t] \in registered

LEMMA HashType == ASSUME NEW n \in Names PROVE Hash[n] \in Nat
OBVIOUS

LEMMA CellFields == ASSUME NEW id, NEW v PROVE Cell(id, v).id = id /\ Cell(id, v).v = v
BY DEF Cell

LEMMA Shorter ==
    ASSUME NEW cs, NEW m \in Nat, NEW n \in Nat, m <= n, Ordered(cs, n)
    PROVE  Ordered(cs, m) /\ CellsIn(cs, m) \subseteq CellsIn(cs, n)
<1>1. \A i \in 1..m : i \in 1..n
  OBVIOUS
<1> QED BY <1>1 DEF Ordered, CellsIn

LEMMA CellsLength == Table => Len(cells) \in Nat /\ count \in Nat /\ count <= Len(cells)
<1>1. Table => Len(cells) \in Nat
  BY SequenceIsFunction DEF Table
<1> QED BY <1>1 DEF Table

\* Names that have been registered have ids of their own.
LEMMA IdsDiffer ==
    ASSUME Table, NamesInv, NEW m \in registered, NEW n \in registered, Hash[m] = Hash[n]
    PROVE  m = n
<1>1. Len(cells) \in Nat /\ Ordered(cells, Len(cells))
  BY CellsLength DEF NamesInv
<1>2. PICK i \in 1..Len(cells) : cells[i] = Cell(Hash[m], m)
  BY DEF NamesInv, Registry, CellsIn
<1>3. PICK j \in 1..Len(cells) : cells[j] = Cell(Hash[n], n)
  BY DEF NamesInv, Registry, CellsIn
<1>4. cells[i].id = cells[j].id
  BY <1>2, <1>3, CellFields
<1>5. i = j
  BY <1>1, <1>4, OrderedOnce
<1> QED BY <1>2, <1>3, <1>5, CellFields

\* What a lookup finds is a registered cell of that id.
LEMMA FoundIsRegistered ==
    ASSUME Table, NamesInv, NEW n \in Names, NEW k \in Nat, k <= Len(cells),
           NEW found, found = otable_get([count |-> k, cells |-> cells], Hash[n])
    PROVE  IF \E c \in CellsIn(cells, k) : c.id = Hash[n]
           THEN \E c \in CellsIn(cells, k) : c.id = Hash[n] /\ found = c.v /\ c \in Registry
           ELSE found = None
<1> DEFINE t == [count |-> k, cells |-> cells]
<1>1. Ordered(cells, k) /\ CellsIn(cells, k) \subseteq Registry
  BY CellsLength, Shorter DEF NamesInv, Registry
<1>2. t.count = k /\ t.cells = cells /\ Content(t) = CellsIn(cells, k)
  BY DEF Content
<1>3. Hash[n] \in Nat
  BY HashType
<1> HIDE DEF t
<1>4. IF \E c \in Content(t) : c.id = Hash[n]
      THEN \E c \in Content(t) : c.id = Hash[n] /\ otable_get(t, Hash[n]) = c.v
      ELSE otable_get(t, Hash[n]) = None
  BY <1>1, <1>2, <1>3, GetFinds
<1> QED BY <1>1, <1>2, <1>4 DEF t

\* A name that is found under its own id counts as registered from now on.
LEMMA FoundRegisters ==
    ASSUME NamesInv, NEW t \in Threads, step[t] # "idle", NEW found, Found(t, found),
           found \in {None, name[t]} => Cell(Hash[name[t]], name[t]) \in Registry
    PROVE  /\ registered \subseteq registered' /\ registered' \subseteq Names
           /\ \A n \in registered' : Cell(Hash[n], n) \in Registry
           /\ \/ step' = [step EXCEPT ![t] = "conflict"]
              \/ step' = [step EXCEPT ![t] = "access"] /\ name[t] \in registered'
<1>1. name[t] \in Names
  BY DEF NamesInv
<1> QED BY <1>1 DEF Found, Conflict, Goto, NamesInv

\* A step that leaves the table alone.
LEMMA NamesQuiet ==
    ASSUME Table, NamesInv, NEW t \in Threads, NEW s,
           step' = [step EXCEPT ![t] = s], s \notin {"publish", "grow"}, ~Inserting(t),
           UNCHANGED <<count, cells, c2>>,
           name' \in [Threads -> Names \cup {None}], \A u \in Threads \ {t} : name'[u] = name[u],
           s # "idle" => name'[t] \in Names,
           registered \subseteq registered', registered' \subseteq Names,
           \A n \in registered' : Cell(Hash[n], n) \in Registry,
           s = "access" => name'[t] \in registered'
    PROVE  NamesInv'
<1>1. \A u \in Threads : step'[u] = IF u = t THEN s ELSE step[u]
  BY DEF Table
<1>2. Registry' = Registry
  BY DEF Registry
<1>3. \A u \in Threads : step'[u] # "idle" => name'[u] \in Names
  BY <1>1 DEF NamesInv
<1>4. \A u \in Threads : step'[u] = "publish" =>
           /\ Ordered(c2'[u], count' + 1)
           /\ CellsIn(c2'[u], count' + 1) = Registry' \cup {Cell(Hash[name'[u]], name'[u])}
  BY <1>1, <1>2 DEF NamesInv
<1>5. \A u \in Threads : step'[u] = "grow" => Cell(Hash[name'[u]], name'[u]) \in Registry'
  BY <1>1, <1>2 DEF NamesInv
<1>6. \A u \in Threads : step'[u] = "access" => name'[u] \in registered'
  BY <1>1 DEF NamesInv
<1> QED BY <1>2, <1>3, <1>4, <1>5, <1>6 DEF NamesInv

LEMMA NamesStep == FieldInv /\ NamesInv /\ [Next]_vars => NamesInv'
<1> SUFFICES ASSUME FieldInv, NamesInv, [Next]_vars PROVE NamesInv'
  OBVIOUS
<1>0. Table /\ LookupInBounds
  BY DEF FieldInv
<1>1. ASSUME NEW t \in Threads, NEW n \in Names, Call(t, n) PROVE NamesInv'
  <2>1. /\ name' = [name EXCEPT ![t] = n] /\ step' = [step EXCEPT ![t] = "count"]
        /\ ~Inserting(t) /\ UNCHANGED <<count, cells, c2, registered>>
    BY <1>1 DEF Call, At, Goto, shared, Inserting
  <2>2. /\ name' \in [Threads -> Names \cup {None}] /\ name'[t] \in Names
        /\ \A u \in Threads \ {t} : name'[u] = name[u]
    BY <2>1 DEF NamesInv
  <2>3. /\ registered \subseteq registered' /\ registered' \subseteq Names
        /\ \A m \in registered' : Cell(Hash[m], m) \in Registry
    BY <2>1 DEF NamesInv
  <2>4. /\ "count" \notin {"publish", "grow"}
        /\ "count" = "access" => name'[t] \in registered'
        /\ "count" # "idle" => name'[t] \in Names
        /\ step' = [step EXCEPT ![t] = "count"] /\ ~Inserting(t)
        /\ UNCHANGED <<count, cells, c2>>
    BY <2>1, <2>2
  <2> QED BY <1>0, <2>2, <2>3, <2>4, NamesQuiet
<1>2. ASSUME NEW t \in Threads, ReadCount(t) PROVE NamesInv'
  <2>1. /\ step[t] = "count" /\ step' = [step EXCEPT ![t] = "cells"] /\ ~Inserting(t)
        /\ UNCHANGED <<count, cells, c2, registered, name>>
    BY <1>2 DEF ReadCount, At, Goto, shared, Inserting
  <2>2. /\ name' \in [Threads -> Names \cup {None}] /\ name'[t] \in Names
        /\ \A u \in Threads \ {t} : name'[u] = name[u]
    BY <2>1 DEF NamesInv
  <2>3. /\ registered \subseteq registered' /\ registered' \subseteq Names
        /\ \A m \in registered' : Cell(Hash[m], m) \in Registry
    BY <2>1 DEF NamesInv
  <2>4. /\ "cells" \notin {"publish", "grow"}
        /\ "cells" = "access" => name'[t] \in registered'
        /\ "cells" # "idle" => name'[t] \in Names
        /\ step' = [step EXCEPT ![t] = "cells"] /\ ~Inserting(t)
        /\ UNCHANGED <<count, cells, c2>>
    BY <2>1, <2>2
  <2> QED BY <1>0, <2>2, <2>3, <2>4, NamesQuiet
<1>3. ASSUME NEW t \in Threads, Lookup(t) PROVE NamesInv'
  <2> DEFINE found == otable_get([count |-> max[t], cells |-> cells], Hash[name[t]])
  <2>1. step[t] = "cells" /\ ~Inserting(t) /\ UNCHANGED <<count, cells, c2, name>>
    BY <1>3 DEF Lookup, At, shared, Inserting
  <2>2. name[t] \in Names /\ max[t] \in Nat /\ max[t] <= Len(cells)
    BY <1>0, <2>1 DEF NamesInv, Table, LookupInBounds
  <2>3. \A u \in Threads \ {t} : name'[u] = name[u]
    BY <2>1
  <2>4. CASE found = None
    <3>1. step' = [step EXCEPT ![t] = "lock"] /\ UNCHANGED registered
      BY <1>3, <2>4 DEF Lookup, Goto
    <3>2. /\ registered \subseteq registered' /\ registered' \subseteq Names
          /\ \A m \in registered' : Cell(Hash[m], m) \in Registry
          /\ name' \in [Threads -> Names \cup {None}]
      BY <2>1, <3>1 DEF NamesInv
    <3>3. /\ "lock" \notin {"publish", "grow"}
          /\ "lock" = "access" => name'[t] \in registered'
          /\ "lock" # "idle" => name'[t] \in Names
          /\ step' = [step EXCEPT ![t] = "lock"] /\ ~Inserting(t)
          /\ UNCHANGED <<count, cells, c2>>
      BY <2>1, <2>2, <3>1
    <3> QED BY <1>0, <2>3, <3>2, <3>3, NamesQuiet
  <2>5. CASE found # None
    <3>1. Found(t, found)
      BY <1>3, <2>5 DEF Lookup
    <3> DEFINE x == found
    <3>2. \E c \in Registry : c.id = Hash[name[t]] /\ x = c.v
      BY <1>0, <2>2, <2>5, FoundIsRegistered
    <3> HIDE DEF x
    <3>3. x \in {None, name[t]} => Cell(Hash[name[t]], name[t]) \in Registry
      BY <2>2, <3>2 DEF NamesInv
    <3>4. Found(t, x)
      BY <3>1 DEF x
    <3> HIDE DEF found
    <3>5. /\ registered \subseteq registered' /\ registered' \subseteq Names
          /\ \A n \in registered' : Cell(Hash[n], n) \in Registry
          /\ \/ step' = [step EXCEPT ![t] = "conflict"]
             \/ step' = [step EXCEPT ![t] = "access"] /\ name[t] \in registered'
      BY <2>1, <3>3, <3>4, FoundRegisters
    <3>6. name' \in [Threads -> Names \cup {None}]
      BY <2>1 DEF NamesInv
    <3> QED BY <1>0, <2>1, <2>2, <2>3, <3>5, <3>6, NamesQuiet
  <2> QED BY <2>4, <2>5
<1>4. ASSUME NEW t \in Threads, Acquire(t) PROVE NamesInv'
  <2> DEFINE id == Hash[name[t]]
             s == Search(cells, count, id)
  <2>1. step[t] = "lock" /\ lock = None /\ ~Inserting(t) /\ UNCHANGED <<count, cells, name>>
    BY <1>4 DEF Acquire, At, Inserting
  <2>2. name[t] \in Names /\ id \in Nat
    BY <2>1 DEF NamesInv
  <2>3. \A u \in Threads : ~Inserting(u)
    BY <1>0, <2>1 DEF Table
  <2>4. Len(cells) = count /\ count \in Nat /\ Ordered(cells, count) /\ Registry = CellsIn(cells, count)
    BY <1>0, <2>3 DEF Table, Inserting, NamesInv, Registry
  <2>5. Answers(s, cells, count, id)
    BY <2>2, <2>4, SearchAnswers
  <2>6. CASE s.found
    <3> DEFINE x == cells[s.at + 1].v
    <3>1. Found(t, x) /\ UNCHANGED c2
      BY <1>4, <2>6 DEF Acquire, SearchAgain
    <3>2. s.at + 1 \in 1..count /\ cells[s.at + 1].id = id
      <4> HIDE DEF s
      <4> QED BY <2>4, <2>5, <2>6 DEF Answers
    <3>3. cells[s.at + 1] \in Registry
      <4> HIDE DEF s
      <4> QED BY <2>4, <3>2 DEF CellsIn
    <3>4. x \in {None, name[t]} => Cell(Hash[name[t]], name[t]) \in Registry
      <4> HIDE DEF s
      <4> QED BY <2>2, <3>3 DEF NamesInv
    <3> HIDE DEF x, s
    <3>5. /\ registered \subseteq registered' /\ registered' \subseteq Names
          /\ \A n \in registered' : Cell(Hash[n], n) \in Registry
          /\ \/ step' = [step EXCEPT ![t] = "conflict"]
             \/ step' = [step EXCEPT ![t] = "access"] /\ name[t] \in registered'
      BY <2>1, <3>1, <3>4, FoundRegisters
    <3>6. name' \in [Threads -> Names \cup {None}] /\ \A u \in Threads \ {t} : name'[u] = name[u]
      BY <2>1 DEF NamesInv
    <3> QED BY <1>0, <2>1, <2>2, <3>1, <3>5, <3>6, NamesQuiet
  <2>7. CASE ~s.found
    <3> DEFINE e == Inserted(table, s.at, Cell(id, name[t]))
    <3>1. /\ c2' = [c2 EXCEPT ![t] = e] /\ step' = [step EXCEPT ![t] = "publish"]
          /\ UNCHANGED registered
      BY <1>4, <2>7 DEF Acquire, SearchAgain, Goto
    <3> HIDE DEF s
    <3>2. s.at \in 0..count /\ Gap(s.at, cells, count, id)
      BY <2>5, <2>7 DEF Answers
    <3>3. Ordered(e, count + 1) /\ CellsIn(e, count + 1) = Registry \cup {Cell(id, name[t])}
      <4>1. table.count = count /\ table.cells = cells /\ Content(table) = CellsIn(cells, count)
        BY DEF table, Content
      <4> HIDE DEF id
      <4>2. /\ Ordered(e, table.count + 1)
            /\ CellsIn(e, table.count + 1) = Content(table) \cup {Cell(id, name[t])}
        <5>1. table.count \in Nat /\ Ordered(table.cells, table.count)
          BY <2>4, <4>1
        <5>2. s.at \in 0..table.count /\ Gap(s.at, table.cells, table.count, id)
          BY <3>2, <4>1
        <5> DEFINE at == s.at
                   u == table
        <5> HIDE DEF e, at, u
        <5>3. /\ Ordered(Inserted(u, at, Cell(id, name[t])), u.count + 1)
              /\ CellsIn(Inserted(u, at, Cell(id, name[t])), u.count + 1)
                    = Content(u) \cup {Cell(id, name[t])}
          <6>1. id \in Nat /\ at \in 0..u.count /\ Gap(at, u.cells, u.count, id)
                /\ u.count \in Nat /\ Ordered(u.cells, u.count)
            BY <2>2, <5>1, <5>2 DEF at, u
          <6> QED BY <6>1, InsertedCells
        <5> QED BY <5>3 DEF e, at, u
      <4> QED BY <2>4, <4>1, <4>2
    <3> HIDE DEF e
    <3>4. \A u \in Threads : step'[u] = IF u = t THEN "publish" ELSE step[u]
      BY <1>0, <3>1 DEF Table
    <3>5. c2'[t] = e
      BY <1>0, <3>1 DEF Table
    <3>6. Registry' = Registry
      BY <2>1 DEF Registry
    <3>7. \A u \in Threads \ {t} : step[u] \notin {"publish", "grow"}
      BY <2>3 DEF Inserting
    <3>8. \A u \in Threads : step'[u] = "publish" =>
              /\ Ordered(c2'[u], count' + 1)
              /\ CellsIn(c2'[u], count' + 1) = Registry' \cup {Cell(Hash[name'[u]], name'[u])}
      BY <2>1, <3>3, <3>4, <3>5, <3>6, <3>7
    <3>9. \A u \in Threads : step'[u] # "grow" /\ (step'[u] = "access" => name'[u] \in registered')
      BY <2>1, <3>1, <3>4, <3>7 DEF NamesInv
    <3>10. \A u \in Threads : step'[u] # "idle" => name'[u] \in Names
      BY <2>1, <2>2, <3>4 DEF NamesInv
    <3> QED BY <2>1, <3>1, <3>6, <3>8, <3>9, <3>10 DEF NamesInv
  <2> QED BY <2>6, <2>7
<1>5. ASSUME NEW t \in Threads, Publish(t) PROVE NamesInv'
  <2>1. /\ cells' = c2[t] /\ UNCHANGED <<count, name, registered>> /\ step[t] = "publish"
        /\ step' = [step EXCEPT ![t] = "grow"]
    BY <1>5 DEF Publish, CellsFirst, SetCells, At, Goto
  <2>2. \A u \in Threads \ {t} : ~Inserting(u)
    BY <1>0, <2>1, OneInserts DEF Inserting
  <2>3. Len(cells') = count + 1
    BY <1>0, <2>1 DEF Table
  <2>4. Ordered(cells', Len(cells')) /\ Registry' = Registry \cup {Cell(Hash[name[t]], name[t])}
    BY <2>1, <2>3 DEF NamesInv, Registry
  <2>5. \A u \in Threads : step'[u] = IF u = t THEN "grow" ELSE step[u]
    BY <1>0, <2>1 DEF Table
  <2>6. name[t] \in Names
    BY <2>1 DEF NamesInv
  <2>7. ASSUME NEW c \in Registry' PROVE c.v \in Names /\ c = Cell(Hash[c.v], c.v)
    BY <2>4, <2>6, CellFields DEF NamesInv
  <2>8. \A n \in registered' : Cell(Hash[n], n) \in Registry'
    BY <2>1, <2>4 DEF NamesInv
  <2>9. \A u \in Threads : /\ step'[u] # "publish"
                           /\ step'[u] = "grow" => Cell(Hash[name'[u]], name'[u]) \in Registry'
    BY <2>1, <2>2, <2>4, <2>5 DEF Inserting
  <2>10. \A u \in Threads : /\ step'[u] = "access" => name'[u] \in registered'
                            /\ step'[u] # "idle" => name'[u] \in Names
    BY <2>1, <2>5, <2>6 DEF NamesInv
  <2>11. name' \in [Threads -> Names \cup {None}] /\ registered' \subseteq Names
    BY <2>1 DEF NamesInv
  <2> QED BY <2>4, <2>7, <2>8, <2>9, <2>10, <2>11 DEF NamesInv
<1>6. ASSUME NEW t \in Threads, Grow(t) PROVE NamesInv'
  <2>1. UNCHANGED <<cells, name>> /\ step[t] = "grow" /\ Found(t, None)
    BY <1>6 DEF Grow, CellsFirst, SetCount, At
  <2>2. Cell(Hash[name[t]], name[t]) \in Registry
    BY <2>1 DEF NamesInv
  <2>3. /\ registered \subseteq registered' /\ registered' \subseteq Names
        /\ \A n \in registered' : Cell(Hash[n], n) \in Registry
        /\ \/ step' = [step EXCEPT ![t] = "conflict"]
           \/ step' = [step EXCEPT ![t] = "access"] /\ name[t] \in registered'
    BY <2>1, <2>2, FoundRegisters
  <2>4. \A u \in Threads \ {t} : ~Inserting(u)
    BY <1>0, <2>1, OneInserts DEF Inserting
  <2>5. \A u \in Threads : /\ u # t => step'[u] = step[u]
                           /\ step'[t] \in {"conflict", "access"}
                           /\ step'[t] = "access" => name[t] \in registered'
    BY <1>0, <2>3 DEF Table
  <2>6. Registry' = Registry
    BY <2>1 DEF Registry
  <2>7. \A u \in Threads : step'[u] \notin {"publish", "grow"}
    BY <2>4, <2>5 DEF Inserting
  <2>8. \A u \in Threads : /\ step'[u] = "access" => name'[u] \in registered'
                           /\ step'[u] # "idle" => name'[u] \in Names
    BY <2>1, <2>3, <2>5 DEF NamesInv
  <2> QED BY <2>1, <2>3, <2>6, <2>7, <2>8 DEF NamesInv
<1>7. ASSUME NEW t \in Threads, Access(t) PROVE NamesInv'
  <2>1. /\ Done(t) /\ UNCHANGED <<count, cells, c2, registered>> /\ ~Inserting(t)
    BY <1>7 DEF Access, alloc_field, objremove, FieldConflict, At, shared, Inserting
  <2>2. step' = [step EXCEPT ![t] = "idle"] /\ name' = [name EXCEPT ![t] = None]
    BY <2>1 DEF Done
  <2>3. /\ name' \in [Threads -> Names \cup {None}]
        /\ \A u \in Threads \ {t} : name'[u] = name[u]
    BY <2>2 DEF NamesInv
  <2>4. /\ registered \subseteq registered' /\ registered' \subseteq Names
        /\ \A m \in registered' : Cell(Hash[m], m) \in Registry
    BY <2>1 DEF NamesInv
  <2>5. /\ "idle" \notin {"publish", "grow"}
        /\ "idle" = "access" => name'[t] \in registered'
        /\ "idle" # "idle" => name'[t] \in Names
        /\ step' = [step EXCEPT ![t] = "idle"] /\ ~Inserting(t)
        /\ UNCHANGED <<count, cells, c2>>
    BY <2>1, <2>2
  <2> QED BY <1>0, <2>3, <2>4, <2>5, NamesQuiet
<1>8. CASE UNCHANGED vars
  BY <1>8 DEF vars, shared, NamesInv, Registry
<1> QED BY <1>1, <1>2, <1>3, <1>4, <1>5, <1>6, <1>7, <1>8 DEF Next, val_id

LEMMA InitNames == Init => NamesInv
<1> SUFFICES ASSUME Init PROVE NamesInv
  OBVIOUS
<1>1. cells = <<>> /\ registered = {} /\ name = [t \in Threads |-> None]
      /\ \A t \in Threads : step[t] = "idle"
  BY DEF Init
<1>2. Len(cells) = 0
  BY <1>1
<1>3. Registry = {}
  BY <1>2 DEF Registry, CellsIn
<1>4. Ordered(cells, Len(cells))
  BY <1>2 DEF Ordered
<1> QED BY <1>1, <1>3, <1>4 DEF NamesInv

-----------------------------------------------------------------------------
(* Objects. *)

\* The cells of an object with the fields f.
HeldCells(f) == {Cell(Hash[n], f[n]) : n \in {m \in Names : f[m] # None}}

ObjectsInv ==
    /\ object = [t \in Threads |-> object[t]]
    /\ fields \in [Threads -> [Names -> Values \cup {None}]]
    /\ \A t \in Threads : IsTable(object[t]) /\ Content(object[t]) = HeldCells(fields[t])
    /\ \A t \in Threads, n \in Names : fields[t][n] # None => n \in registered

\* Of the cells of an object, the one with a registered name's id is the name's.
LEMMA HeldByOthers ==
    ASSUME Table, NamesInv, NEW n \in registered,
           NEW f \in [Names -> Values \cup {None}], \A m \in Names : f[m] # None => m \in registered
    PROVE  {c \in HeldCells(f) : c.id # Hash[n]}
              = {Cell(Hash[m], f[m]) : m \in {m \in Names : f[m] # None /\ m # n}}
<1>1. \A m \in Names : f[m] # None => (Hash[m] # Hash[n] <=> m # n)
  BY IdsDiffer
<1>2. \A m \in Names : Cell(Hash[m], f[m]).id = Hash[m]
  BY CellFields
<1> QED BY <1>1, <1>2 DEF HeldCells

LEMMA HeldStored ==
    ASSUME Table, NamesInv, NEW n \in registered, NEW v \in Values,
           NEW f \in [Names -> Values \cup {None}], \A m \in Names : f[m] # None => m \in registered
    PROVE  HeldCells([f EXCEPT ![n] = v])
              = {c \in HeldCells(f) : c.id # Hash[n]} \cup {Cell(Hash[n], v)}
<1> DEFINE g == [f EXCEPT ![n] = v]
<1>1. n \in Names /\ v # None
  BY DEF NamesInv
<1>2. g[n] = v /\ \A m \in Names \ {n} : g[m] = f[m]
  BY <1>1
<1> HIDE DEF g
<1>3. HeldCells(g) = {Cell(Hash[m], f[m]) : m \in {m \in Names : f[m] # None /\ m # n}}
                        \cup {Cell(Hash[n], v)}
  BY <1>1, <1>2 DEF HeldCells
<1> QED BY <1>3, HeldByOthers DEF g

LEMMA HeldRemoved ==
    ASSUME Table, NamesInv, NEW n \in registered,
           NEW f \in [Names -> Values \cup {None}], \A m \in Names : f[m] # None => m \in registered
    PROVE  HeldCells([f EXCEPT ![n] = None]) = {c \in HeldCells(f) : c.id # Hash[n]}
<1> DEFINE g == [f EXCEPT ![n] = None]
<1>1. n \in Names
  BY DEF NamesInv
<1>2. g[n] = None /\ \A m \in Names \ {n} : g[m] = f[m]
  BY <1>1
<1> HIDE DEF g
<1>3. HeldCells(g) = {Cell(Hash[m], f[m]) : m \in {m \in Names : f[m] # None /\ m # n}}
  BY <1>1, <1>2 DEF HeldCells
<1> QED BY <1>3, HeldByOthers DEF g

\* An access replaces one object and the fields it should have.
LEMMA ObjectsAccess ==
    ASSUME ObjectsInv, NEW t \in Threads, NEW o, NEW f \in [Names -> Values \cup {None}],
           object' = [object EXCEPT ![t] = o], fields' = [fields EXCEPT ![t] = f],
           UNCHANGED registered, IsTable(o), Content(o) = HeldCells(f),
           \A n \in Names : f[n] # None => n \in registered
    PROVE  ObjectsInv'
<1>1. \A u \in Threads : /\ object'[u] = IF u = t THEN o ELSE object[u]
                         /\ fields'[u] = IF u = t THEN f ELSE fields[u]
  BY DEF ObjectsInv
<1>2. object' = [u \in Threads |-> object'[u]]
  BY DEF ObjectsInv
<1>3. fields' \in [Threads -> [Names -> Values \cup {None}]]
  BY DEF ObjectsInv
<1>4. \A u \in Threads : IsTable(object'[u]) /\ Content(object'[u]) = HeldCells(fields'[u])
  BY <1>1 DEF ObjectsInv
<1>5. \A u \in Threads, n \in Names : fields'[u][n] # None => n \in registered'
  BY <1>1 DEF ObjectsInv
<1> QED BY <1>2, <1>3, <1>4, <1>5 DEF ObjectsInv

LEMMA ObjectsStep == FieldInv /\ NamesInv /\ ObjectsInv /\ [Next]_vars => ObjectsInv'
<1> SUFFICES ASSUME FieldInv, NamesInv, ObjectsInv, [Next]_vars PROVE ObjectsInv'
  OBVIOUS
<1>0. Table
  BY DEF FieldInv
<1>1. ASSUME UNCHANGED <<object, fields>>, registered \subseteq registered' PROVE ObjectsInv'
  BY <1>1 DEF ObjectsInv
<1>2. ASSUME NEW t \in Threads, NEW n \in Names, Call(t, n) PROVE ObjectsInv'
  BY <1>1, <1>2 DEF Call
<1>3. ASSUME NEW t \in Threads, val_id(t) PROVE ObjectsInv'
  <2>1. registered \subseteq registered'
    BY <1>3 DEF val_id, ReadCount, Lookup, Acquire, Publish, Grow, Found
  <2>2. UNCHANGED <<object, fields>>
    BY <1>3 DEF val_id, ReadCount, Lookup, Acquire, Publish, Grow
  <2> QED BY <1>1, <2>1, <2>2
<1>4. ASSUME NEW t \in Threads, step[t] = "access"
      PROVE  /\ name[t] \in registered /\ Hash[name[t]] \in Nat /\ name[t] \in Names
             /\ IsTable(object[t]) /\ Content(object[t]) = HeldCells(fields[t])
             /\ fields[t] \in [Names -> Values \cup {None}]
             /\ \A n \in Names : fields[t][n] # None => n \in registered
  BY <1>4, HashType DEF NamesInv, ObjectsInv
<1>5. ASSUME NEW t \in Threads, NEW v \in Values, alloc_field(t, v) PROVE ObjectsInv'
  <2> DEFINE o == otable_replace(object[t], Hash[name[t]], v)
             f == [fields[t] EXCEPT ![name[t]] = v]
  <2>1. step[t] = "access" /\ UNCHANGED registered /\ object' = [object EXCEPT ![t] = o]
    BY <1>5 DEF alloc_field, At
  <2>2. fields' = [fields EXCEPT ![t] = f]
    BY <1>5 DEF alloc_field
  <2>3. IsTable(o) /\ Content(o) = HeldCells(f)
    <3>1. /\ IsTable(o)
          /\ Content(o) = {c \in HeldCells(fields[t]) : c.id # Hash[name[t]]} \cup {Cell(Hash[name[t]], v)}
      BY <1>4, <2>1, ReplacedCells
    <3> HIDE DEF o
    <3>2. HeldCells(f) = {c \in HeldCells(fields[t]) : c.id # Hash[name[t]]} \cup {Cell(Hash[name[t]], v)}
      BY <1>0, <1>4, <2>1, HeldStored
    <3> QED BY <3>1, <3>2
  <2>4. f \in [Names -> Values \cup {None}] /\ \A n \in Names : f[n] # None => n \in registered
    BY <1>4, <2>1
  <2> HIDE DEF o, f
  <2> QED BY <2>1, <2>2, <2>3, <2>4, ObjectsAccess
<1>6. ASSUME NEW t \in Threads, objremove(t) PROVE ObjectsInv'
  <2> DEFINE o == otable_remove(object[t], Hash[name[t]])
             f == [fields[t] EXCEPT ![name[t]] = None]
  <2>1. step[t] = "access" /\ UNCHANGED registered /\ object' = [object EXCEPT ![t] = o]
    BY <1>6 DEF objremove, At
  <2>2. fields' = [fields EXCEPT ![t] = f]
    BY <1>6 DEF objremove
  <2>3. IsTable(o) /\ Content(o) = HeldCells(f)
    <3>1. IsTable(o) /\ Content(o) = {c \in HeldCells(fields[t]) : c.id # Hash[name[t]]}
      BY <1>4, <2>1, RemovedCells
    <3> HIDE DEF o
    <3>2. HeldCells(f) = {c \in HeldCells(fields[t]) : c.id # Hash[name[t]]}
      BY <1>0, <1>4, <2>1, HeldRemoved
    <3> QED BY <3>1, <3>2
  <2>4. f \in [Names -> Values \cup {None}] /\ \A n \in Names : f[n] # None => n \in registered
    BY <1>4, <2>1
  <2> HIDE DEF o, f
  <2> QED BY <2>1, <2>2, <2>3, <2>4, ObjectsAccess
<1>7. ASSUME NEW t \in Threads, FieldConflict(t) PROVE ObjectsInv'
  BY <1>1, <1>7 DEF FieldConflict
<1>8. CASE UNCHANGED vars
  BY <1>1, <1>8 DEF vars
<1> QED BY <1>2, <1>3, <1>5, <1>6, <1>7, <1>8 DEF Next, Access

LEMMA InitObjects == Init => ObjectsInv
<1> SUFFICES ASSUME Init PROVE ObjectsInv
  OBVIOUS
<1>1. object = [t \in Threads |-> Empty] /\ fields = [t \in Threads |-> [n \in Names |-> None]]
  BY DEF Init
<1>2. fields \in [Threads -> [Names -> Values \cup {None}]] /\ object = [t \in Threads |-> object[t]]
  BY <1>1
<1>3. IsTable(Empty) /\ Content(Empty) = {}
  <2>1. <<>> \in Seq({}) /\ Len(<<>>) = 0
    OBVIOUS
  <2> QED BY <2>1 DEF IsTable, Empty, Content, CellsIn, Ordered, IsSequence
<1>4. ASSUME NEW t \in Threads PROVE object[t] = Empty /\ \A n \in Names : fields[t][n] = None
  BY <1>1
<1>5. ASSUME NEW t \in Threads PROVE HeldCells(fields[t]) = {}
  BY <1>4 DEF HeldCells
<1> QED BY <1>2, <1>3, <1>4, <1>5 DEF ObjectsInv

-----------------------------------------------------------------------------
(* Lookups that no insertion overlaps. *)

LateInv ==
    /\ late = [t \in Threads |-> late[t]]
    /\ \A t \in Threads : ~late[t] /\ step[t] \in {"count", "cells"} =>
           /\ \A u \in Threads : step[u] # "grow"
           /\ step[t] = "cells" => max[t] = count

LEMMA LateStep == FieldInv /\ LateInv /\ [Next]_vars => LateInv'
<1> SUFFICES ASSUME FieldInv, LateInv, [Next]_vars PROVE LateInv'
  OBVIOUS
<1>0. Table
  BY DEF FieldInv
\* A step of a thread that neither starts nor finishes an insertion.
<1>1. ASSUME NEW t \in Threads, NEW s, step' = [step EXCEPT ![t] = s], s # "grow",
             UNCHANGED <<count, late>>, \A u \in Threads \ {t} : max'[u] = max[u],
             ~late[t] /\ s \in {"count", "cells"} =>
                 (\A u \in Threads : step[u] # "grow") /\ (s = "cells" => max'[t] = count)
      PROVE  LateInv'
  <2>1. \A u \in Threads : step'[u] = IF u = t THEN s ELSE step[u]
    BY <1>0, <1>1 DEF Table
  <2> QED BY <1>1, <2>1 DEF LateInv
<1>2. ASSUME NEW t \in Threads, NEW n \in Names, Call(t, n) PROVE LateInv'
  <2>1. step' = [step EXCEPT ![t] = "count"] /\ late' = [late EXCEPT ![t] = lock # None]
        /\ UNCHANGED <<lock, count, max>>
    BY <1>2 DEF Call, Goto, shared
  <2>2. \A u \in Threads : step'[u] = IF u = t THEN "count" ELSE step[u]
    BY <1>0, <2>1 DEF Table
  <2>3. late' = [u \in Threads |-> late'[u]] /\ \A u \in Threads \ {t} : late'[u] = late[u]
    BY <2>1 DEF LateInv
  <2>4. ~late'[t] => \A u \in Threads : step[u] # "grow"
    <3>1. late'[t] = (lock # None)
      BY <2>1 DEF LateInv
    <3> QED BY <1>0, <3>1 DEF Table, Inserting
  <2> QED BY <2>1, <2>2, <2>3, <2>4 DEF LateInv
<1>3. ASSUME NEW t \in Threads, ReadCount(t) PROVE LateInv'
  <2>1. /\ step[t] = "count" /\ step' = [step EXCEPT ![t] = "cells"]
        /\ max' = [max EXCEPT ![t] = count] /\ UNCHANGED <<count, late>>
    BY <1>3 DEF ReadCount, At, Goto, shared, CountToSearch
  <2>2. max'[t] = count /\ \A u \in Threads \ {t} : max'[u] = max[u]
    BY <1>0, <2>1 DEF Table
  <2>3. ~late[t] => \A u \in Threads : step[u] # "grow"
    BY <2>1 DEF LateInv
  <2> QED BY <1>1, <2>1, <2>2, <2>3
<1>4. ASSUME NEW t \in Threads, Lookup(t) \/ Acquire(t) PROVE LateInv'
  <2>1. UNCHANGED <<count, late, max>>
    BY <1>4 DEF Lookup, Acquire, shared
  <2>2. \E s \in {"lock", "publish", "access", "conflict"} : step' = [step EXCEPT ![t] = s]
    BY <1>4 DEF Lookup, Acquire, Found, Goto
  <2> QED BY <1>1, <2>1, <2>2
<1>5. ASSUME NEW t \in Threads, Publish(t) \/ Grow(t) PROVE LateInv'
  <2>1. late' = [u \in Threads |-> TRUE]
    BY <1>5 DEF Publish, Grow
  <2> QED BY <2>1 DEF LateInv
<1>6. ASSUME NEW t \in Threads, Access(t) PROVE LateInv'
  <2>1. Done(t) /\ UNCHANGED <<count, late>>
    BY <1>6 DEF Access, alloc_field, objremove, FieldConflict, shared
  <2>2. step' = [step EXCEPT ![t] = "idle"] /\ \A u \in Threads \ {t} : max'[u] = max[u]
    BY <1>0, <2>1 DEF Done, Table
  <2> QED BY <1>1, <2>1, <2>2
<1>7. CASE UNCHANGED vars
  BY <1>7 DEF vars, shared, LateInv
<1> QED BY <1>2, <1>3, <1>4, <1>5, <1>6, <1>7 DEF Next, val_id

LEMMA InitLate == Init => LateInv
BY DEF Init, LateInv

\* Such a lookup sees the whole table.
LEMMA LookupFinds ==
    ASSUME FieldInv, NamesInv, LateInv, NEW t \in Threads,
           Lookup(t), ~late[t], name[t] \in registered
    PROVE  step'[t] = "access"
<1> DEFINE n == name[t]
           u == [count |-> max[t], cells |-> cells]
<1>1. Table /\ step[t] = "cells"
  BY DEF FieldInv, Lookup, At
<1>2. max[t] = Len(cells) /\ Len(cells) \in Nat
  BY <1>1 DEF LateInv, Table
<1>3. n \in Names /\ Hash[n] \in Nat /\ Cell(Hash[n], n) \in Registry /\ Ordered(cells, Len(cells))
  BY HashType DEF NamesInv
<1>4. u.count = Len(cells) /\ u.cells = cells /\ Content(u) = Registry
  BY <1>2 DEF Content, Registry
<1>5. Lookup(t) <=> /\ At(t, "cells")
                    /\ IF otable_get(u, Hash[n]) = None THEN Goto(t, "lock") /\ UNCHANGED registered
                       ELSE Found(t, otable_get(u, Hash[n]))
                    /\ UNCHANGED <<shared, name, max, c2, object, fields, late>>
  BY DEF Lookup
<1> HIDE DEF u
<1>6. otable_get(u, Hash[n]) = n
  <2>1. Cell(Hash[n], n).id = Hash[n] /\ Cell(Hash[n], n).v = n
    BY CellFields
  <2> QED BY <1>2, <1>3, <1>4, <2>1, GetCell
<1>7. Found(t, n)
  BY <1>3, <1>5, <1>6
<1>8. step' = [step EXCEPT ![t] = "access"]
  BY <1>7 DEF Found, Conflict, Goto
<1> QED BY <1>1, <1>8 DEF Table

-----------------------------------------------------------------------------

\* val_id (others.c:358-380): a thread that searches the shared table without
\* the lock reads no cell behind its end, whoever replaces it meanwhile.
THEOREM LookupsStayInBounds == Spec => []LookupInBounds
<1>1. FieldInv => LookupInBounds
  BY DEF FieldInv
<1> QED BY <1>1, InitFields, FieldStep, PTL DEF Spec

\* val_id (others.c:358-402): the table stays sorted while it is replaced, and
\* once val_id has returned for a name its id means this name to every thread.
THEOREM IdsAreAlwaysKept == Spec => []IdsAreKept
<1>1. FieldInv /\ NamesInv => IdsAreKept
  <2> SUFFICES ASSUME FieldInv, NamesInv PROVE IdsAreKept
    OBVIOUS
  <2> DEFINE u == [table EXCEPT !.count = Len(cells)]
  <2>1. Table /\ Len(cells) \in Nat /\ count \in Nat /\ count <= Len(cells)
    BY CellsLength DEF FieldInv
  <2>2. Ordered(cells, Len(cells)) /\ Ordered(cells, count)
    BY <2>1, Shorter DEF NamesInv
  <2>3. Sorted(table)
    BY <2>1, <2>2 DEF Sorted, table, Ordered
  <2>4. u.count = Len(cells) /\ u.cells = cells /\ Content(u) = Registry
    BY DEF table, Content, Registry
  <2> HIDE DEF u
  <2>5. ASSUME NEW n \in registered PROVE otable_get(u, Hash[n]) = n
    <3>1. Cell(Hash[n], n) \in Registry /\ Hash[n] \in Nat
      BY HashType DEF NamesInv
    <3>2. Cell(Hash[n], n).id = Hash[n] /\ Cell(Hash[n], n).v = n
      BY CellFields
    <3> QED BY <2>1, <2>2, <2>4, <3>1, <3>2, GetCell
  <2> QED BY <2>3, <2>5 DEF IdsAreKept, u
<1> QED BY <1>1, InitFields, InitNames, FieldStep, NamesStep, PTL DEF Spec

\* alloc_field, objremove (alloc.c:336-338, builtins.c) on tables (objtable.c):
\* an object is a map from names to values, whatever else is registered.
THEOREM ObjectsAreMaps == Spec => []ObjectIsMap
<1>1. FieldInv /\ NamesInv /\ ObjectsInv => ObjectIsMap
  <2> SUFFICES ASSUME FieldInv, NamesInv, ObjectsInv, NEW t \in Threads
               PROVE  /\ Sorted(object[t])
                      /\ \A n \in registered : otable_get(object[t], Hash[n]) = fields[t][n]
    BY DEF ObjectIsMap
  <2> DEFINE o == object[t]
             f == fields[t]
  <2>1. Table /\ IsTable(o) /\ Content(o) = HeldCells(f)
    BY DEF FieldInv, ObjectsInv
  <2>2. o.count \in Nat /\ Ordered(o.cells, o.count)
    BY <2>1 DEF IsTable
  <2>3. Sorted(o)
    BY <2>1 DEF IsTable, Sorted, Ordered
  <2>4. ASSUME NEW n \in registered PROVE otable_get(o, Hash[n]) = f[n]
    <3>1. n \in Names /\ Hash[n] \in Nat
      BY HashType DEF NamesInv
    <3>2. CASE f[n] # None
      <4>1. Cell(Hash[n], f[n]) \in Content(o)
        BY <2>1, <3>1, <3>2 DEF HeldCells
      <4>2. Cell(Hash[n], f[n]).id = Hash[n] /\ Cell(Hash[n], f[n]).v = f[n]
        BY CellFields
      <4> HIDE DEF o, f
      <4> QED BY <2>2, <3>1, <4>1, <4>2, GetCell
    <3>3. CASE f[n] = None
      <4>1. ASSUME NEW m \in Names, f[m] # None PROVE Cell(Hash[m], f[m]).id # Hash[n]
        <5>1. m \in registered /\ m # n
          BY <3>3, <4>1 DEF ObjectsInv
        <5>2. Hash[m] # Hash[n]
          BY <2>1, <5>1, IdsDiffer
        <5> QED BY <5>2, CellFields
      <4>2. \A c \in Content(o) : c.id # Hash[n]
        BY <2>1, <4>1 DEF HeldCells
      <4> HIDE DEF o, f
      <4>3. otable_get(o, Hash[n]) = None
        BY <2>2, <3>1, <4>2, GetFinds
      <4> QED BY <3>3, <4>3
    <3> QED BY <3>2, <3>3
  <2> QED BY <2>3, <2>4
<1> QED BY <1>1, InitFields, InitNames, InitObjects, FieldStep, NamesStep, ObjectsStep, PTL DEF Spec

\* val_id (others.c:358-380): the lookup without the lock misses a registered
\* name only if an insertion overlaps it.
THEOREM LookupsFindRegistered == Spec => LookupFindsRegistered
<1>1. FieldInv /\ NamesInv /\ LateInv /\ [Next]_vars =>
        [\A t \in Threads :
            Lookup(t) /\ ~late[t] /\ name[t] \in registered => step'[t] = "access"]_vars
  BY LookupFinds
<1> QED BY <1>1, InitFields, InitNames, InitLate, FieldStep, NamesStep, LateStep, PTL
        DEF Spec, LookupFindsRegistered
=============================================================================
