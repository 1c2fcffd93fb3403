------------------------------- MODULE Fields -------------------------------
(***************************************************************************)
(* Field names and objects (vm/others.c, vm/objtable.c, vm/alloc.c).       *)
(*                                                                         *)
(* A field's id is a hash of its name.  val_id registers the name in a     *)
(* table that all threads share, and refuses a name whose id belongs to    *)
(* another.  It looks the id up without the lock, which the threads that   *)
(* insert hold, and again with it.  Here all ids belong to one of the      *)
(* tables of neko_fields.  Every thread has an object, a table of its own  *)
(* that it accesses by name.                                               *)
(*                                                                         *)
(* Loads and stores take effect in the order of the source.                *)
(***************************************************************************)
EXTENDS Integers, Sequences, FiniteSets

CONSTANTS
    Threads, Names, Values,
    Hash,      \* the id of each name
    None       \* no thread, no name, and val_null

INSTANCE Otable WITH Null <- None

ASSUME HashAssumption == Hash \in [Names -> Nat] /\ None \notin Threads \cup Names \cup Values

VARIABLES
    count, cells,  \* the shared table
    lock,          \* the thread that holds neko_fields_lock, or None
    step,          \* of each thread: "idle", "count", "cells", "lock", "publish",
                   \* "grow", "access", "conflict"
    name,          \* the name it is looking up
    max,           \* the count it has read
    c2,            \* the table it is going to publish
    object,        \* its object's table
    fields,        \* ghost: what its object should hold, by name
    registered,    \* ghost: names for which val_id has returned
    late           \* ghost: has an insertion overlapped the lookup?

shared == <<count, cells, lock>>
vars == <<shared, step, name, max, c2, object, fields, registered, late>>

Init ==
    /\ count = 0 /\ cells = <<>> /\ lock = None
    /\ step = [t \in Threads |-> "idle"]
    /\ name = [t \in Threads |-> None]
    /\ max = [t \in Threads |-> 0]
    /\ c2 = [t \in Threads |-> <<>>]
    /\ object = [t \in Threads |-> Empty]
    /\ fields = [t \in Threads |-> [n \in Names |-> None]]
    /\ registered = {}
    /\ late = [t \in Threads |-> FALSE]

At(t, s) == step[t] = s
Goto(t, s) == step' = [step EXCEPT ![t] = s]

table == [count |-> count, cells |-> cells]

\* The end of val_id: the name found under the id must be the name wanted.
\* Mutant: they are not compared.
ConflictUnseen(found, n) == FALSE

Conflict(found, n) == found \notin {None, n}

Found(t, found) ==
    IF Conflict(found, name[t])
    THEN Goto(t, "conflict") /\ UNCHANGED registered
    ELSE Goto(t, "access") /\ registered' = registered \cup {name[t]}

-----------------------------------------------------------------------------
(* val_id *)

Call(t, n) ==
    /\ At(t, "idle")
    /\ name' = [name EXCEPT ![t] = n]
    /\ late' = [late EXCEPT ![t] = lock # None]
    /\ Goto(t, "count")
    /\ UNCHANGED <<shared, max, c2, object, fields, registered>>

\* Mutant: the last cell is not looked at.
CountToSearchLess == IF count = 0 THEN 0 ELSE count - 1

CountToSearch == count

ReadCount(t) ==
    /\ At(t, "count")
    /\ max' = [max EXCEPT ![t] = CountToSearch]
    /\ Goto(t, "cells")
    /\ UNCHANGED <<shared, name, c2, object, fields, registered, late>>

\* otable_get, without the lock
Lookup(t) ==
    /\ At(t, "cells")
    /\ LET found == otable_get([count |-> max[t], cells |-> cells], Hash[name[t]])
       IN  IF found = None THEN Goto(t, "lock") /\ UNCHANGED registered
           ELSE Found(t, found)
    /\ UNCHANGED <<shared, name, max, c2, object, fields, late>>

\* Mutant: the second lookup is left out.
SearchAgainNot(id) == [Search(cells, count, id) EXCEPT !.found = FALSE]

SearchAgain(id) == Search(cells, count, id)

\* Mutant: the lock is kept when the name was found after all.
HolderAfterFoundKept(t) == t

HolderAfterFound(t) == None

\* The lookup inside the lock.
Acquire(t) ==
    /\ At(t, "lock") /\ lock = None
    /\ LET id == Hash[name[t]]
           s == SearchAgain(id)
       IN  IF s.found
           THEN /\ Found(t, cells[s.at + 1].v)
                /\ lock' = HolderAfterFound(t)
                /\ UNCHANGED c2
           ELSE /\ lock' = t
                /\ c2' = [c2 EXCEPT ![t] = Inserted(table, s.at, Cell(id, name[t]))]
                /\ Goto(t, "publish")
                /\ UNCHANGED registered
    /\ UNCHANGED <<count, cells, name, max, object, fields, late>>

\* Mutant: the count grows before the cells are there.
CellsFirstNot == FALSE

CellsFirst == TRUE

SetCells(t) == cells' = c2[t] /\ UNCHANGED count
SetCount(t) == count' = count + 1 /\ UNCHANGED cells

Publish(t) ==
    /\ At(t, "publish")
    /\ IF CellsFirst THEN SetCells(t) ELSE SetCount(t)
    /\ late' = [u \in Threads |-> TRUE]
    /\ Goto(t, "grow")
    /\ UNCHANGED <<lock, name, max, c2, object, fields, registered>>

Grow(t) ==
    /\ At(t, "grow")
    /\ IF CellsFirst THEN SetCount(t) ELSE SetCells(t)
    /\ lock' = None
    /\ late' = [u \in Threads |-> TRUE]
    /\ c2' = [c2 EXCEPT ![t] = <<>>]
    /\ Found(t, None)
    /\ UNCHANGED <<name, max, object, fields>>

-----------------------------------------------------------------------------
(* What the id is used for. *)

Done(t) ==
    /\ step' = [step EXCEPT ![t] = "idle"]
    /\ name' = [name EXCEPT ![t] = None]
    /\ max' = [max EXCEPT ![t] = 0]

alloc_field(t, v) ==
    /\ At(t, "access") /\ Done(t)
    /\ object' = [object EXCEPT ![t] = otable_replace(@, Hash[name[t]], v)]
    /\ fields' = [fields EXCEPT ![t][name[t]] = v]
    /\ UNCHANGED <<shared, c2, registered, late>>

objremove(t) ==
    /\ At(t, "access") /\ Done(t)
    /\ object' = [object EXCEPT ![t] = otable_remove(@, Hash[name[t]])]
    /\ fields' = [fields EXCEPT ![t][name[t]] = None]
    /\ UNCHANGED <<shared, c2, registered, late>>

\* "Field conflict between": the access is given up.
FieldConflict(t) ==
    /\ At(t, "conflict") /\ Done(t)
    /\ UNCHANGED <<shared, c2, object, fields, registered, late>>

val_id(t) ==
    ReadCount(t) \/ Lookup(t) \/ Acquire(t) \/ Publish(t) \/ Grow(t)

Access(t) == (\E v \in Values : alloc_field(t, v)) \/ objremove(t) \/ FieldConflict(t)

Next ==
    \E t \in Threads :
        \/ \E n \in Names : Call(t, n)
        \/ val_id(t) \/ Access(t)

\* A thread in val_id is scheduled.  The lock need not be fair: each time it is
\* found taken a name is being inserted, and names run out.
Spec == Init /\ [][Next]_vars /\ \A t \in Threads : WF_vars(val_id(t))

(***************************************************************************)
(* Properties.                                                             *)
(***************************************************************************)
\* A lookup without the lock never reads behind the table's end, whichever
\* insertion it overlaps.
LookupInBounds ==
    \A t \in Threads : step[t] = "cells" => max[t] <= Len(cells)

\* Once val_id has returned for a name, its id means this name for ever, to all
\* threads; no other name ever gets it.
IdsAreKept ==
    /\ Sorted(table)
    /\ \A n \in registered : otable_get([table EXCEPT !.count = Len(cells)], Hash[n]) = n

\* An object is a map from names to values, whatever is inserted, replaced and
\* removed, and whatever names share an id.
ObjectIsMap ==
    \A t \in Threads :
        /\ Sorted(object[t])
        /\ \A n \in registered : otable_get(object[t], Hash[n]) = fields[t][n]

\* The lookup without the lock misses a registered name only if an insertion
\* overlaps it.
LookupFindsRegistered ==
    [][\A t \in Threads :
          Lookup(t) /\ ~late[t] /\ name[t] \in registered => step'[t] = "access"]_vars

\* Whatever the others register meanwhile, val_id comes to an end.
LookupsEnd ==
    \A t \in Threads : step[t] = "count" ~> step[t] \in {"access", "conflict"}
=============================================================================
