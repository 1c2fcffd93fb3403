----------------------------- MODULE DequeSpec -----------------------------
(***************************************************************************)
(* What the message queues of src/libs/std/thread.c promise: one sequence  *)
(* of messages that every thread adds to at the tail or the head and pops  *)
(* from at the head, each operation in one step.  A blocking pop that      *)
(* finds the queue empty takes a message later.                            *)
(***************************************************************************)
EXTENDS Sequences

CONSTANTS
    Threads,
    Messages,
    Null       \* val_null, what a pop of an empty queue returns

VARIABLES
    items,     \* the messages, head first
    popping,   \* threads inside a blocking pop
    result     \* what the last pop of each thread returned

vars == <<items, popping, result>>

Init == items = <<>> /\ popping = {} /\ result = [t \in Threads |-> Null]

Add(t, m) ==
    /\ t \notin popping
    /\ items' = Append(items, m)
    /\ UNCHANGED <<popping, result>>

Push(t, m) ==
    /\ t \notin popping
    /\ items' = <<m>> \o items
    /\ UNCHANGED <<popping, result>>

Take(t) ==
    /\ items # <<>>
    /\ items' = Tail(items)
    /\ popping' = popping \ {t}
    /\ result' = [result EXCEPT ![t] = Head(items)]

TryPop(t) ==
    /\ t \notin popping /\ items = <<>>
    /\ result' = [result EXCEPT ![t] = Null]
    /\ UNCHANGED <<items, popping>>

Block(t) ==
    /\ t \notin popping /\ items = <<>>
    /\ popping' = popping \cup {t}
    /\ UNCHANGED <<items, result>>

Next ==
    \E t \in Threads :
        \/ \E m \in Messages : Add(t, m) \/ Push(t, m)
        \/ Take(t) \/ TryPop(t) \/ Block(t)

Spec == Init /\ [][Next]_vars
=============================================================================
