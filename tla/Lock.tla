-------------------------------- MODULE Lock --------------------------------
(***************************************************************************)
(* The locks of src/libs/std/thread.c (POSIX build): a counter of releases *)
(* not yet acquired, a mutex and a condition variable.  lock_wait takes an *)
(* optional timeout, here Timeout ticks of a clock that all threads see.   *)
(*                                                                         *)
(* The counter is touched inside the mutex only, so the code from the      *)
(* mutex to the condition variable or the return is one action.            *)
(***************************************************************************)
EXTENDS Integers

CONSTANTS
    Threads,
    Timeout,       \* ticks given to a timed wait
    MaxReleases    \* bound on the releases in model checking

ASSUME TimeoutAssumption == Timeout \in Nat /\ MaxReleases \in Nat

VARIABLES
    counter,       \* l->counter
    state,         \* "run", "wait", "timed" (pthread_cond_timedwait), "woken" by a
                   \* signal or for nothing, "expired" by the clock
    timed,         \* does the wait in progress have a timeout?
    left,          \* ticks to the deadline of pthread_cond_timedwait
    released, acquired,  \* ghosts: successful calls
    astray         \* ghost: did a wait that had expired take the last signal?

vars == <<counter, state, timed, left, released, acquired, astray>>

Init ==
    /\ counter = 0
    /\ state = [t \in Threads |-> "run"]
    /\ timed = [t \in Threads |-> FALSE]
    /\ left = [t \in Threads |-> 0]
    /\ released = 0 /\ acquired = 0 /\ astray = FALSE

Asleep(st) == {t \in Threads : st[t] \in {"wait", "timed"}}
Expired(st) == {t \in Threads : st[t] = "expired"}

\* pthread_cond_signal wakes one sleeper, if there is one.  A timed wait that has
\* expired and has yet to get the mutex back may take the signal all the same
\* (POSIX allows it), and wakes nobody.
Signalled(st) ==
    {[st EXCEPT ![w] = "woken"] : w \in Asleep(st)}
    \cup (IF Asleep(st) = {} \/ Expired(st) # {} THEN {st} ELSE {})

\* History, of a signal that is sent to st.
Strays(st) == state' = st /\ Expired(st) # {}

\* Mutant: the counter grows and nobody is told.
ReleaseSignalNone(st) == {st}

ReleaseSignal(st) == Signalled(st)

Release(t) ==
    /\ state[t] = "run" /\ released < MaxReleases
    /\ counter' = counter + 1
    /\ released' = released + 1
    /\ state' \in ReleaseSignal(state)
    /\ astray' = Strays(state)
    /\ UNCHANGED <<timed, left, acquired>>

HandOn(st) == IF counter - 1 > 0 THEN Signalled(st) ELSE {st}

\* The end of lock_wait when the counter is positive.
Acquire(t) ==
    /\ counter > 0
    /\ counter' = counter - 1
    /\ acquired' = acquired + 1
    /\ LET others == [state EXCEPT ![t] = "run"]
       IN state' \in HandOn(others) /\ astray' = (counter - 1 > 0 /\ Strays(others))
    /\ left' = [left EXCEPT ![t] = 0]
    /\ timed' = [timed EXCEPT ![t] = FALSE]
    /\ UNCHANGED released

Deadline == Timeout

\* The body of its loop: the deadline is computed from the present time,
\* each time around.
Sleep(t, has_timeout) ==
    /\ counter = 0
    /\ state' = [state EXCEPT ![t] = IF has_timeout THEN "timed" ELSE "wait"]
    /\ left' = [left EXCEPT ![t] = IF has_timeout THEN Deadline ELSE 0]
    /\ timed' = [timed EXCEPT ![t] = has_timeout]
    /\ UNCHANGED <<counter, released, acquired, astray>>

Wait(t, has_timeout) ==
    /\ state[t] = "run"
    /\ Acquire(t) \/ Sleep(t, has_timeout)

\* A woken thread holds the mutex again and retests the counter.
Resume(t) ==
    /\ state[t] = "woken"
    /\ Acquire(t) \/ Sleep(t, timed[t])

\* The clock ends the wait.  The thread has yet to get the mutex back; a signal may
\* still go to it, to no effect.
TimeOut(t) ==
    /\ state[t] = "timed" /\ left[t] = 0
    /\ state' = [state EXCEPT ![t] = "expired"]
    /\ UNCHANGED <<counter, timed, left, released, acquired, astray>>

\* Mutant: a wait that expires takes the counter down.
ExpiredCounterDown == counter - 1

ExpiredCounter == counter

\* pthread_cond_timedwait fails: lock_wait returns false, also when a release
\* came between the timeout and the mutex, and passes no signal on.
Expire(t) ==
    /\ state[t] = "expired"
    /\ counter' = ExpiredCounter
    /\ state' = [state EXCEPT ![t] = "run"]
    /\ timed' = [timed EXCEPT ![t] = FALSE]
    /\ UNCHANGED <<left, released, acquired, astray>>

SpuriousWakeup(t) ==
    /\ state[t] \in {"wait", "timed"}
    /\ state' = [state EXCEPT ![t] = "woken"]
    /\ UNCHANGED <<counter, timed, left, released, acquired, astray>>

Due == \E t \in Threads : state[t] = "timed" /\ left[t] = 0

\* Time passes, but no deadline that is due.
Tick ==
    /\ \E t \in Threads : state[t] # "run"
    /\ ~Due
    /\ left' = [t \in Threads |-> IF state[t] = "timed" THEN left[t] - 1 ELSE left[t]]
    /\ UNCHANGED <<counter, state, timed, released, acquired, astray>>

Next ==
    \/ \E t \in Threads :
         \/ Release(t) \/ Resume(t) \/ TimeOut(t) \/ Expire(t) \/ SpuriousWakeup(t)
         \/ \E b \in BOOLEAN : Wait(t, b)
    \/ Tick

\* A thread that is no longer asleep gets the mutex in the end.
Spec == Init /\ [][Next]_vars /\ \A t \in Threads : WF_vars(Resume(t) \/ Expire(t))

(***************************************************************************)
(* Properties.                                                             *)
(***************************************************************************)
TypeOK ==
    /\ counter \in Int /\ released \in Nat /\ acquired \in Nat /\ astray \in BOOLEAN
    /\ state \in [Threads -> {"run", "wait", "timed", "woken", "expired"}]
    /\ timed \in [Threads -> BOOLEAN]
    /\ left \in [Threads -> 0..Timeout]

\* "If a lock is released several times, it can be acquired as many times"
\* (thread.c:339): whatever expires, barges in or wakes for nothing, the
\* counter is the releases less the acquisitions, and never negative.
ReleasesAreKept == counter = released - acquired /\ counter >= 0

\* Wakeups are lost in one way only: while the lock can be acquired and a thread
\* sleeps on it, some thread has been woken and has yet to look at the counter,
\* or a wait that had expired took the last signal (thread.c:400 does not send it
\* on), and nobody has released the lock since.
NoLostWakeup ==
    counter > 0 /\ Asleep(state) # {} => astray \/ \E t \in Threads : state[t] = "woken"

\* A released lock and a sleeping waiter meet, unless a wait that had expired
\* takes the signal.
ReleaseReachesWaiter ==
    (counter > 0 /\ Asleep(state) # {}) ~> (counter = 0 \/ Asleep(state) = {} \/ astray)
=============================================================================
