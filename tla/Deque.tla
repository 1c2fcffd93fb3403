------------------------------- MODULE Deque -------------------------------
(***************************************************************************)
(* The raw deque of src/libs/std/thread.c (POSIX build), which deque_add,  *)
(* deque_push, deque_pop, thread_send and thread_read_message use: a       *)
(* singly linked list with a pointer to each end, a mutex and a condition  *)
(* variable.                                                               *)
(*                                                                         *)
(* All accesses to the list are inside the mutex, so the code from LOCK to *)
(* UNLOCK, or to pthread_cond_wait, is one action.  A thread that waits is *)
(* woken by a signal, or spuriously, and competes for the mutex again.     *)
(***************************************************************************)
EXTENDS Naturals, FiniteSets

CONSTANTS
    Threads, Messages,
    Cells,     \* tqueue cells; a bound on the queue's length in model checking
    Nil,       \* the NULL pointer
    Null       \* val_null

ASSUME NilAssumption == Nil \notin Cells

VARIABLES
    first, last,   \* q->first, q->last
    next, msg,     \* the fields of the cells
    live,          \* cells the collector may not reuse: those in the queue
    state,         \* "run", "wait" in pthread_cond_wait, "woken" after it
    result         \* what the last pop of each thread returned

list == <<first, last, next, msg, live>>
vars == <<first, last, next, msg, live, state, result>>

Init ==
    /\ first = Nil /\ last = Nil
    /\ next = [c \in Cells |-> Nil] /\ msg = [c \in Cells |-> Null]
    /\ live = {}
    /\ state = [t \in Threads |-> "run"]
    /\ result = [t \in Threads |-> Null]

\* SIGNAL wakes one waiting thread, if there is one.
Waiting(st) == {t \in Threads : st[t] = "wait"}

Signalled(st) ==
    IF Waiting(st) = {} THEN {st}
    ELSE {[st EXCEPT ![w] = "woken"] : w \in Waiting(st)}

\* Mutant: the cell is linked without a signal.
AddSignalSilent(st) == {st}

AddSignal(st) == Signalled(st)

\* Mutant: the cell is linked with whatever the reused memory holds.
StoreForgotten(c, m) == msg

Store(c, m) == [msg EXCEPT ![c] = m]

\* _deque_add: link the cell behind the last one.
Add(t, m, c) ==
    /\ state[t] = "run" /\ c \notin live
    /\ first' = IF last = Nil THEN c ELSE first
    /\ next' = [d \in Cells |-> IF d = c THEN Nil ELSE IF d = last THEN c ELSE next[d]]
    /\ msg' = Store(c, m)
    /\ last' = c
    /\ live' = live \cup {c}
    /\ state' \in AddSignal(state)
    /\ UNCHANGED result

\* Mutant: the first message of a queue does not become its last.
TailAfterPushKept(c) == IF c \in Cells THEN last ELSE Nil

TailAfterPush(c) == IF last = Nil THEN c ELSE last

\* _deque_push: link the cell before the first one.
Push(t, m, c) ==
    /\ state[t] = "run" /\ c \notin live
    /\ next' = [next EXCEPT ![c] = first]
    /\ first' = c
    /\ last' = TailAfterPush(c)
    /\ msg' = Store(c, m)
    /\ live' = live \cup {c}
    /\ state' \in Signalled(state)
    /\ UNCHANGED result

PopSignal(st) == IF next[first] = Nil THEN {st} ELSE Signalled(st)

\* Mutant: the last pop leaves q->last at the cell it took.
TailAfterPopKept == IF next[first] = Nil THEN first ELSE last

TailAfterPop == IF next[first] = Nil THEN Nil ELSE last

\* The end of _deque_pop, with a message in the queue.
Take(t) ==
    /\ first # Nil
    /\ result' = [result EXCEPT ![t] = msg[first]]
    /\ first' = next[first]
    /\ last' = TailAfterPop
    /\ live' = live \ {first}
    /\ state' \in PopSignal([state EXCEPT ![t] = "run"])
    /\ UNCHANGED <<next, msg>>

Wait(t) ==
    /\ first = Nil
    /\ state' = [state EXCEPT ![t] = "wait"]
    /\ UNCHANGED <<list, result>>

\* _deque_pop(q, block), up to its return or its wait.
Pop(t, block) ==
    /\ state[t] = "run"
    /\ \/ Take(t)
       \/ block /\ Wait(t)
       \/ /\ ~block /\ first = Nil
          /\ result' = [result EXCEPT ![t] = Null]
          /\ UNCHANGED <<list, state>>

\* A woken thread holds the mutex again and retests the queue.
Resume(t) == state[t] = "woken" /\ (Take(t) \/ Wait(t))

SpuriousWakeup(t) ==
    /\ state[t] = "wait"
    /\ state' = [state EXCEPT ![t] = "woken"]
    /\ UNCHANGED <<list, result>>

Next ==
    \E t \in Threads :
        \/ \E m \in Messages, c \in Cells : Add(t, m, c) \/ Push(t, m, c)
        \/ \E block \in BOOLEAN : Pop(t, block)
        \/ Resume(t) \/ SpuriousWakeup(t)

\* pthread_mutex_lock returns in the end: a woken thread gets the mutex.
Spec == Init /\ [][Next]_vars /\ \A t \in Threads : WF_vars(Resume(t))

(***************************************************************************)
(* Properties.                                                             *)
(***************************************************************************)
\* The only NULL message is the one of an empty queue: a linked cell is filled.
TypeOK ==
    /\ first \in Cells \cup {Nil} /\ last \in Cells \cup {Nil}
    /\ next \in [Cells -> Cells \cup {Nil}] /\ msg \in [Cells -> Messages \cup {Null}]
    /\ live \subseteq Cells /\ \A c \in live : msg[c] \in Messages
    /\ state \in [Threads -> {"run", "wait", "woken"}]
    /\ result \in [Threads -> Messages \cup {Null}]

\* The two end pointers agree through every mixture of adds, pushes and pops:
\* both are NULL or neither is, and q->last is the only cell of the list with
\* no successor, so that _deque_add links behind the whole queue.
EndsAgree ==
    /\ first = Nil <=> last = Nil
    /\ first # Nil => first \in live /\ last \in live
    /\ \A c \in live : next[c] = Nil <=> c = last

\* No lost wakeup: when a message is in the queue and a thread waits for one,
\* some thread has been woken and has yet to look at the queue.
NoLostWakeup ==
    (first # Nil /\ \E t \in Threads : state[t] = "wait")
        => \E t \in Threads : state[t] = "woken"

\* A blocked reader and a waiting message meet.
MessagesAreTaken ==
    (first # Nil /\ \E t \in Threads : state[t] = "wait")
        ~> (first = Nil \/ \A t \in Threads : state[t] # "wait")

\* The list implements the abstract queue.
Nth[i \in Nat] ==
    IF i = 0 THEN first
    ELSE IF Nth[i - 1] = Nil THEN Nil ELSE next[Nth[i - 1]]

Items ==
    [i \in 1..Cardinality(live) |->
        IF Nth[i - 1] = Nil THEN Null ELSE msg[Nth[i - 1]]]

Abstract == INSTANCE DequeSpec WITH
    items <- Items,
    popping <- {t \in Threads : state[t] # "run"},
    result <- result

\* Every step of the list is a step of a queue: no message is lost, copied or
\* overtaken, whichever threads add, push, pop and wait.
ImplementsQueue == Abstract!Spec
=============================================================================
