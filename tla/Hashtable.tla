----------------------------- MODULE Hashtable -----------------------------
(***************************************************************************)
(* The hash tables of vm/builtins.c ($hnew to $hsize), with the copy that  *)
(* serialize.c makes of one.                                               *)
(*                                                                         *)
(* A table has an array of lists of cells.  Looking a key up compares it   *)
(* with the keys of a list, and the comparison, a function of the caller   *)
(* or an object's __compare, may work on the same table and may throw; so  *)
(* may the function that $hiter calls.  Operations therefore nest: calls   *)
(* is the stack of those in progress, all but the last of which wait for   *)
(* their function, and keep their place in the table in C variables.       *)
(* hash.c gives each key a number, here Hash, and never changes it.        *)
(***************************************************************************)
EXTENDS Integers, Sequences, FiniteSets, SequencesExt

CONSTANTS
    Keys, Values, Hash,
    Cells, NULL,
    Sizes,             \* arguments of $hnew and $hresize
    HASH_DEF_SIZE,
    Reentrant,         \* operations whose function works on the table itself
    MaxCalls           \* operations in progress at a time

ASSUME HashtableAssumption ==
    /\ Hash \in [Keys -> Nat] /\ Sizes \subseteq Int /\ HASH_DEF_SIZE \in Nat \ {0}
    /\ NULL \notin Cells \cup Values

VARIABLES
    cells, nitems,     \* of the table: first cell of each list, number of items
    hcell,             \* the memory of the cells: [hkey, key, val, next]
    calls,             \* operations in progress
    ret                \* what the operation that has just ended returns, or "none"

vars == <<cells, nitems, hcell, calls, ret>>

Buckets(n) == 0 .. n - 1
ncells == Cardinality(DOMAIN cells)
Size(s) == IF s <= 0 THEN HASH_DEF_SIZE ELSE s

\* The cells from c on, and those of a list; a list with a cycle is cut off.
From(c) ==
    LET from[n \in 0 .. Cardinality(Cells) + 1, d \in Cells \cup {NULL}] ==
            IF d = NULL \/ n = 0 THEN <<>> ELSE <<d>> \o from[n - 1, hcell[d].next]
    IN from[Cardinality(Cells) + 1, c]
List(i) == From(cells[i])
Lists(order) == FoldLeft(LAMBDA s, i : s \o List(i), <<>>, order)
Up == [i \in 1 .. ncells |-> i - 1]

Linked == UNION {Range(List(i)) : i \in DOMAIN cells}

\* The memory m as the collector leaves it: it takes what nothing refers to any more.
Blank == [hkey |-> 0, key |-> NULL, val |-> NULL, next |-> NULL]
Memory(m) ==
    LET roots == Range(cells') \cup UNION {{calls'[i].c, calls'[i].prev} : i \in DOMAIN calls'}
        live[n \in 0 .. Cardinality(Cells)] ==
            IF n = 0 THEN roots \ {NULL}
            ELSE LET l == live[n - 1] IN l \cup ({m[c].next : c \in l} \ {NULL})
    IN hcell' = [c \in Cells |-> IF c \in live[Cardinality(Cells)] THEN m[c] ELSE Blank]
Free == {c \in Cells : hcell[c] = Blank}

Init ==
    /\ \E s \in Sizes : cells = [i \in Buckets(Size(s)) |-> NULL]
    /\ nitems = 0
    /\ hcell = [c \in Cells |-> Blank]
    /\ calls = <<>> /\ ret = "none"

----------------------------------------------------------------------------
(* Resizing, and the copy: cells are put into the lists of n buckets.      *)

Bucket(c, n) == hcell[c].hkey % n
Following(s, c) ==
    LET i == CHOOSE j \in DOMAIN s : s[j] = c IN IF i = Len(s) THEN NULL ELSE s[i + 1]

\* The new lists, when the cells come in that order.
Relink(order, n) ==
    LET NewList(i) == SelectSeq(order, LAMBDA c : Bucket(c, n) = i)
        Of(c) == NewList(Bucket(c, n))
    IN [heads |-> [i \in Buckets(n) |-> IF NewList(i) = <<>> THEN NULL ELSE NewList(i)[1]],
        next |-> [c \in Range(order) |-> Following(Of(c), c)]]

\* add_rec starts from the end of each list and pushes in front.
AddRecForward == Reverse(Lists(Up))     \* mutant: it starts from the beginning
AddRec == Lists(Reverse(Up))

Nexts(new) == new.next @@ [c \in Cells |-> hcell[c].next]
Relinked(nexts) == [c \in Cells |-> [hcell[c] EXCEPT !.next = nexts[c]]]
Link(new) == cells' = new.heads /\ Memory(Relinked(Nexts(new)))

\* A new cell in front of bucket i of these lists.
AddCell(heads, nexts, i, k, v) ==
    \E c \in Free :
       /\ nitems' = nitems + 1
       /\ cells' = [heads EXCEPT ![i] = c]
       /\ Memory([Relinked(nexts) EXCEPT
                    ![c] = [hkey |-> Hash[k], key |-> k, val |-> v, next |-> heads[i]]])

\* The bucket of a new key; a mutant finds it before the table grows.
NewBucketEarly(k, n) == Hash[k] % ncells
NewBucket(k, n) == Hash[k] % n
Add(k, v) ==
    LET new == Relink(AddRec, 2 * ncells)
    IN IF nitems >= 2 * ncells
       THEN AddCell(new.heads, Nexts(new), NewBucket(k, 2 * ncells), k, v)
       ELSE AddCell(cells, [c \in Cells |-> hcell[c].next], NewBucket(k, ncells), k, v)

----------------------------------------------------------------------------
(* Operations.  *)

Top == Last(calls)
\* The program calls an operation, or the function of one in progress does.
Called ==
    /\ Len(calls) < MaxCalls
    /\ calls # <<>> => Top.c # NULL /\ Top.op \in Reentrant
Disturbed == [i \in DOMAIN calls |-> [calls[i] EXCEPT !.clean = FALSE, !.seen = {}]]

Call(op, k, v, bucket, c) ==
    [op |-> op, key |-> k, val |-> v, bucket |-> bucket, c |-> c, prev |-> NULL,
     seen |-> {}, clean |-> TRUE]

Same == UNCHANGED <<cells, nitems>> /\ Memory(hcell)
Begin(call) == Called /\ calls' = Append(Disturbed, call) /\ ret' = "none" /\ Same

Hashed(k) == Hash[k] % ncells
hget(k) == Begin(Call("hget", k, NULL, 0, cells[Hashed(k)]))
hmem(k) == Begin(Call("hmem", k, NULL, 0, cells[Hashed(k)]))
hset(k, v) == Begin(Call("hset", k, v, 0, cells[Hashed(k)]))
\* hkey is the bucket from here on.
hremove(k) == Begin(Call("hremove", k, NULL, Hashed(k), cells[Hashed(k)]))
hiter == Begin(Call("hiter", NULL, NULL, 0, cells[0]))

\* An operation that calls nothing.
AtOnce == Called /\ calls' = Disturbed /\ ret' = "none"

hadd(k, v) == AtOnce /\ Add(k, v)
hresize(s) == AtOnce /\ Link(Relink(AddRec, Size(s))) /\ UNCHANGED nitems

\* $serialize and $unserialize: the reader puts each cell at the end of its list.
InsertInFront == Reverse(Lists(Up))     \* mutant
InsertAtEnd == Lists(Up)
store ==
    /\ calls = <<>> /\ AtOnce
    /\ Link(Relink(InsertAtEnd, ncells)) /\ UNCHANGED nitems

Return(v) == calls' = Front(calls) /\ ret' = v
Waits(ops) == calls # <<>> /\ Top.op \in ops /\ Top.c # NULL
AtEnd(ops) == calls # <<>> /\ Top.op \in ops /\ Top.c = NULL
Equal == Top.key = hcell[Top.c].key
NextCell == calls' = [calls EXCEPT ![Len(calls)].prev = Top.c, ![Len(calls)].c = hcell[Top.c].next]

\* The comparison says no.
Differs ==
    /\ Waits({"hget", "hmem", "hset", "hremove"}) /\ ~Equal
    /\ NextCell /\ ret' = "none" /\ Same

\* The comparison says yes.
GetFound ==
    /\ Waits({"hget", "hmem"}) /\ Equal
    /\ Return(IF Top.op = "hget" THEN hcell[Top.c].val ELSE "true") /\ Same

SetFound ==
    /\ Waits({"hset"}) /\ Equal
    /\ Return("false") /\ UNCHANGED <<cells, nitems>>
    /\ Memory([hcell EXCEPT ![Top.c].val = Top.val])

\* Taking the cell out of its list; of a bucket that is gone, nothing in the table is set.
Unlink ==
    LET next == hcell[Top.c].next
    IN IF Top.prev = NULL
       THEN cells' = [i \in DOMAIN cells |-> IF i = Top.bucket THEN next ELSE cells[i]]
            /\ Memory(hcell)
       ELSE cells' = cells /\ Memory([hcell EXCEPT ![Top.prev].next = next])
RemoveFound ==
    /\ Waits({"hremove"}) /\ Equal
    /\ Return("true") /\ nitems' = nitems - 1 /\ Unlink

NotFound ==
    /\ AtEnd({"hget", "hmem", "hremove"})
    /\ Return(IF Top.op = "hget" THEN NULL ELSE "false") /\ Same

SetNew == AtEnd({"hset"}) /\ Return("true") /\ Add(Top.key, Top.val)

\* The function of $hiter returns.  Which cells it saw is recorded until it is disturbed.
Seen == IF Top.clean THEN Top.seen \cup {Top.c} ELSE {}
IterNext ==
    /\ Waits({"hiter"}) /\ ret' = "none"
    /\ calls' = [calls EXCEPT ![Len(calls)].seen = Seen,
                              ![Len(calls)].c = hcell[Top.c].next]
    /\ Same
IterBucket ==
    /\ AtEnd({"hiter"})
    /\ IF Top.bucket + 1 < ncells
       THEN /\ calls' = [calls EXCEPT ![Len(calls)].bucket = @ + 1,
                                      ![Len(calls)].c = cells[Top.bucket + 1]]
            /\ ret' = "none"
       ELSE Return(NULL)
    /\ Same

\* The function throws; the operation is left as it is.
Throw ==
    /\ calls # <<>> /\ Top.c # NULL
    /\ calls' = Front(calls) /\ ret' = "none" /\ Same

Next ==
    \/ \E k \in Keys :
        hget(k) \/ hmem(k) \/ hremove(k) \/ \E v \in Values : hset(k, v) \/ hadd(k, v)
    \/ hiter \/ (\E s \in Sizes : hresize(s)) \/ store
    \/ Differs \/ GetFound \/ SetFound \/ RemoveFound \/ NotFound \/ SetNew
    \/ IterNext \/ IterBucket \/ Throw
Spec == Init /\ [][Next]_vars

----------------------------------------------------------------------------
(* Properties.  *)

(* Each cell is linked once, in the bucket of its hash, where a lookup     *)
(* will search for it, and h->nitems, which decides when the table grows   *)
(* and tells unserialize how many cells are to come, is their number.      *)
(* This also holds when comparisons and iterated functions work on the     *)
(* same table, those of $hremove aside: it writes through a bucket and a   *)
(* previous cell that it found before.                                     *)
CountAgrees == Cardinality(Linked) = nitems
TableIsSound ==
    /\ \A i \in DOMAIN cells : \A c \in Range(List(i)) : Bucket(c, ncells) = i
    /\ Len(Lists(Up)) = Cardinality(Linked) /\ CountAgrees

\* What is bound to a key, the newest value first.
Bound(k) ==
    LET l == List(Hashed(k))
        mine == SelectSeq(l, LAMBDA c : hcell[c].key = k)
    IN [i \in DOMAIN mine |-> hcell[mine[i]].val]
Bindings == [k \in Keys |-> Bound(k)]

Ended == ret' # "none"
Pushed(k, v) == [Bindings EXCEPT ![k] = <<v>> \o @]

\* What the operation that ends promises, in terms of the bindings.
Promise(call) ==
    LET b == Bindings[call.key]
    IN CASE call.op = "hget" ->
                /\ ret' = IF b = <<>> THEN NULL ELSE b[1]
                /\ Bindings' = Bindings
         [] call.op = "hmem" ->
                ret' = (IF b = <<>> THEN "false" ELSE "true") /\ Bindings' = Bindings
         [] call.op = "hset" ->
                /\ ret' = IF b = <<>> THEN "true" ELSE "false"
                /\ Bindings' = [Bindings EXCEPT ![call.key] =
                                    <<call.val>> \o (IF b = <<>> THEN b ELSE Tail(b))]
         [] call.op = "hremove" ->
                /\ ret' = IF b = <<>> THEN "false" ELSE "true"
                /\ Bindings' = [Bindings EXCEPT ![call.key] = IF b = <<>> THEN b ELSE Tail(b)]
         [] call.op = "hiter" -> call.seen = Linked /\ Bindings' = Bindings

(* An operation whose function leaves the table alone does what its        *)
(* documentation promises (builtins.c:810-1000): $hget and $hmem find the  *)
(* newest binding, $hset replaces it, $hremove uncovers the one it masked, *)
(* $hiter sees every cell; and nothing else, above all no resizing and no  *)
(* copy, changes what is bound to a key, or the order of masked bindings.  *)
BindingsAreKept ==
    [][ /\ Ended /\ Top.clean => Promise(Top)
        /\ ~Ended => \/ Bindings' = Bindings
                     \/ \E k \in Keys, v \in Values : hadd(k, v) /\ Bindings' = Pushed(k, v)
      ]_vars
=============================================================================
