------------------------------- MODULE Otable -------------------------------
(***************************************************************************)
(* The tables of vm/objtable.c and vm/objtable.h: cells sorted by field    *)
(* id.  The array may be longer than the count of cells in use.  Cell i of *)
(* the code is element i + 1 here.                                         *)
(***************************************************************************)
EXTENDS Integers, Sequences

CONSTANT Null      \* val_null

Cell(id, v) == [id |-> id, v |-> v]

Empty == [count |-> 0, cells |-> <<>>]

\* The binary search every operation begins with: where the id is, or where it
\* would have to be inserted.
Search(cells, max, id) ==
    LET from[r \in (0..max) \X (0..max)] ==
            LET mid == (r[1] + r[2]) \div 2
            IN  IF r[1] >= r[2] THEN [found |-> FALSE, at |-> mid]
                ELSE IF cells[mid + 1].id < id THEN from[<<mid + 1, r[2]>>]
                ELSE IF cells[mid + 1].id > id THEN from[<<r[1], mid>>]
                ELSE [found |-> TRUE, at |-> mid]
    IN  from[<<0, max>>]

otable_get(t, id) ==
    LET s == Search(t.cells, t.count, id)
    IN  IF s.found THEN t.cells[s.at + 1].v ELSE Null

\* A larger copy with a new cell at position at.
Inserted(t, at, cell) ==
    [i \in 1..(t.count + 1) |->
        IF i <= at THEN t.cells[i] ELSE IF i = at + 1 THEN cell ELSE t.cells[i - 1]]

otable_replace(t, id, v) ==
    LET s == Search(t.cells, t.count, id)
    IN  IF s.found THEN [t EXCEPT !.cells[s.at + 1].v = v]
        ELSE [count |-> t.count + 1, cells |-> Inserted(t, s.at, Cell(id, v))]

\* Mutant: the loop stops one cell early.
LastMovedEarly(count) == count - 1

\* The last cell that moves down once one is gone.
LastMoved(count) == count

\* The cell behind the last one stays, without its value.
otable_remove(t, id) ==
    LET s == Search(t.cells, t.count, id)
        count == t.count - 1
    IN  IF ~s.found THEN t
        ELSE [count |-> count,
              cells |-> [i \in DOMAIN t.cells |->
                            LET moved == IF i \in (s.at + 1)..LastMoved(count)
                                         THEN t.cells[i + 1] ELSE t.cells[i]
                            IN  IF i = t.count THEN [moved EXCEPT !.v = Null] ELSE moved]]

Sorted(t) ==
    /\ t.count <= Len(t.cells)
    /\ \A i, j \in 1..t.count : i < j => t.cells[i].id < t.cells[j].id
=============================================================================
