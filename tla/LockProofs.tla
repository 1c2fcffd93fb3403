----------------------------- MODULE LockProofs -----------------------------
(***************************************************************************)
(* The counter and the wakeups of a lock, for any number of threads, any   *)
(* timeout and any number of releases.                                     *)
(*                                                                         *)
(* Both invariants are inductive with the types.  The argument of          *)
(* NoLostWakeup is that each step that makes the counter positive, or      *)
(* leaves it so and takes a woken thread away, signals: Signalled then     *)
(* wakes a sleeper if there is one, or a wait that had expired has taken   *)
(* the signal, which astray records.                                       *)
(***************************************************************************)
EXTENDS Lock, TLAPS

States == {"run", "wait", "timed", "woken", "expired"}

LEMMA SignalledState ==
    ASSUME NEW st \in [Threads -> States], state' \in Signalled(st)
    PROVE  /\ state' \in [Threads -> States]
           /\ Asleep(state') # {} => Strays(st) \/ \E t \in Threads : state'[t] = "woken"
<1>1. CASE state' = st
  <2>1. Asleep(st) # {} => Expired(st) # {} \/ \E w \in Asleep(st) : state' = [st EXCEPT ![w] = "woken"]
    BY DEF Signalled
  <2>2. ASSUME NEW w \in Asleep(st) PROVE st # [st EXCEPT ![w] = "woken"]
    BY DEF Asleep
  <2> QED BY <1>1, <2>1, <2>2 DEF Strays
<1>2. CASE state' # st
  <2>1. PICK w \in Asleep(st) : state' = [st EXCEPT ![w] = "woken"]
    BY <1>2 DEF Signalled
  <2>2. w \in Threads
    BY DEF Asleep
  <2> QED BY <2>1, <2>2 DEF States
<1> QED BY <1>1, <1>2

\* The end of lock_wait, also with the next signal.
LEMMA AcquireStep ==
    ASSUME TypeOK, NEW t \in Threads, Acquire(t)
    PROVE  TypeOK' /\ (NoLostWakeup /\ ReleasesAreKept => NoLostWakeup' /\ ReleasesAreKept')
<1> DEFINE mine == [state EXCEPT ![t] = "run"]
<1>1. mine \in [Threads -> States]
  BY DEF TypeOK, States
<1>2. state' \in [Threads -> States]
  <2>1. state' = mine \/ state' \in Signalled(mine)
    BY DEF Acquire, HandOn
  <2> HIDE DEF mine
  <2> QED BY <1>1, <2>1, SignalledState
<1>3. TypeOK'
  <2>1. counter' \in Int /\ acquired' \in Nat /\ released' \in Nat
    BY DEF Acquire, TypeOK
  <2>2. left' \in [Threads -> 0..Timeout]
    BY TimeoutAssumption DEF Acquire, TypeOK
  <2>3. astray' \in BOOLEAN
    BY DEF Acquire
  <2> QED BY <1>2, <2>1, <2>2, <2>3 DEF Acquire, TypeOK, States
<1>4. ReleasesAreKept => ReleasesAreKept'
  BY DEF Acquire, TypeOK, ReleasesAreKept
<1>5. counter' > 0 => state' \in Signalled(mine) /\ (Strays(mine) => astray')
  <2>1. state' \in HandOn(mine) /\ astray' = (counter - 1 > 0 /\ Strays(mine))
    BY DEF Acquire
  <2>2. counter' > 0 => counter - 1 > 0
    BY DEF Acquire, TypeOK
  <2>3. counter - 1 > 0 => state' \in Signalled(mine)
    BY <2>1 DEF HandOn
  <2> QED BY <2>1, <2>2, <2>3, Zenon
<1>6. NoLostWakeup'
  <2> HIDE DEF mine
  <2> QED BY <1>1, <1>5, SignalledState DEF NoLostWakeup
<1> QED BY <1>3, <1>4, <1>6

\* Going to sleep: the counter is zero.
LEMMA SleepStep ==
    ASSUME TypeOK, NEW t \in Threads, NEW b \in BOOLEAN, Sleep(t, b)
    PROVE  TypeOK' /\ (ReleasesAreKept => NoLostWakeup' /\ ReleasesAreKept')
<1>1. TypeOK'
  BY TimeoutAssumption DEF Sleep, Deadline, TypeOK
<1> QED BY <1>1 DEF Sleep, NoLostWakeup, ReleasesAreKept, TypeOK

\* The inductive invariant.
Inv == TypeOK /\ ReleasesAreKept /\ NoLostWakeup

LEMMA Step == Inv /\ [Next]_vars => Inv'
<1> SUFFICES ASSUME Inv, [Next]_vars PROVE Inv'
  OBVIOUS
<1> USE DEF Inv
<1>1. ASSUME NEW t \in Threads, Release(t) PROVE Inv'
  <2>1. state \in [Threads -> States]
    BY DEF TypeOK, States
  <2>2. state' \in [Threads -> States] /\ NoLostWakeup'
    BY <1>1, <2>1, SignalledState DEF Release, ReleaseSignal, NoLostWakeup
  <2>3. TypeOK'
    <3>1. astray' \in BOOLEAN
      BY <1>1 DEF Release, Strays
    <3> QED BY <1>1, <2>2, <3>1 DEF Release, TypeOK, States
  <2>4. ReleasesAreKept'
    BY <1>1 DEF Release, ReleasesAreKept, TypeOK
  <2> QED BY <2>2, <2>3, <2>4
<1>2. ASSUME NEW t \in Threads, NEW b \in BOOLEAN, Wait(t, b) PROVE Inv'
  BY <1>2, AcquireStep, SleepStep DEF Wait
<1>3. ASSUME NEW t \in Threads, Resume(t) PROVE Inv'
  <2>1. timed[t] \in BOOLEAN
    BY DEF TypeOK
  <2> QED BY <1>3, <2>1, AcquireStep, SleepStep DEF Resume
<1>4. ASSUME NEW t \in Threads, TimeOut(t) PROVE Inv'
  <2>1. TypeOK' /\ ReleasesAreKept'
    BY <1>4 DEF TimeOut, TypeOK, ReleasesAreKept
  <2>2. Asleep(state') \subseteq Asleep(state)
    BY <1>4 DEF TimeOut, Asleep, TypeOK
  <2>3. \A u \in Threads : state[u] = "woken" => state'[u] = "woken"
    BY <1>4 DEF TimeOut, TypeOK
  <2> QED BY <1>4, <2>1, <2>2, <2>3 DEF TimeOut, NoLostWakeup
<1>5. ASSUME NEW t \in Threads, Expire(t) PROVE Inv'
  <2>1. TypeOK' /\ ReleasesAreKept'
    BY <1>5 DEF Expire, ExpiredCounter, TypeOK, ReleasesAreKept
  <2>2. Asleep(state') \subseteq Asleep(state)
    BY <1>5 DEF Expire, Asleep, TypeOK
  <2>3. \A u \in Threads : state[u] = "woken" => state'[u] = "woken"
    BY <1>5 DEF Expire, TypeOK
  <2> QED BY <1>5, <2>1, <2>2, <2>3 DEF Expire, ExpiredCounter, NoLostWakeup
<1>6. ASSUME NEW t \in Threads, SpuriousWakeup(t) PROVE Inv'
  <2>1. TypeOK' /\ ReleasesAreKept'
    BY <1>6 DEF SpuriousWakeup, TypeOK, ReleasesAreKept
  <2>2. state'[t] = "woken"
    BY <1>6 DEF SpuriousWakeup, TypeOK
  <2> QED BY <2>1, <2>2 DEF NoLostWakeup
<1>7. CASE Tick
  <2>1. left' \in [Threads -> 0..Timeout]
    BY <1>7, TimeoutAssumption DEF Tick, Due, TypeOK
  <2> QED BY <1>7, <2>1 DEF Tick, TypeOK, ReleasesAreKept, NoLostWakeup, Asleep
<1>8. CASE UNCHANGED vars
  BY <1>8 DEF vars, TypeOK, ReleasesAreKept, NoLostWakeup, Asleep
<1> QED BY <1>1, <1>2, <1>3, <1>4, <1>5, <1>6, <1>7, <1>8 DEF Next

LEMMA Invariance == Spec => []Inv
<1>1. Init => Inv
  <2> SUFFICES ASSUME Init PROVE Inv
    OBVIOUS
  <2>1. TypeOK
    <3>1. left \in [Threads -> 0..Timeout]
      BY TimeoutAssumption DEF Init
    <3>2. astray \in BOOLEAN
      BY DEF Init
    <3> QED BY <3>1, <3>2 DEF Init, TypeOK
  <2>2. ReleasesAreKept /\ ~(counter > 0)
    BY DEF Init, ReleasesAreKept
  <2> QED BY <2>1, <2>2 DEF Inv, NoLostWakeup
<1> QED BY <1>1, Step, PTL DEF Spec

\* lock_release and lock_wait, with and without a timeout (thread.c:339-414): no
\* release is lost and none is acquired twice.
THEOREM ReleasesAreAlwaysKept == Spec => [](TypeOK /\ ReleasesAreKept)
BY Invariance, PTL DEF Inv

\* The signals of lock_release and lock_wait suffice but for the one case: a lock
\* that can be acquired and a sleeper on it mean a woken thread, whatever timeouts
\* and spurious wakeups come between, or a wait that had expired took the signal.
THEOREM WakeupsAreKept == Spec => []NoLostWakeup
BY Invariance, PTL DEF Inv

\* No wait on the lock runs into its timeout.
InTime == [][\A t \in Threads : ~TimeOut(t)]_vars

\* The lock can be acquired while some thread sleeps on it, and none is woken.
Forgotten ==
    counter > 0 /\ Asleep(state) # {} /\ ~\E t \in Threads : state[t] = "woken"

NoneExpired == Expired(state) = {} /\ ~astray

\* As long as no wait on a lock expires (thread.c:400), no wakeup is lost.
THEOREM UntimedWakeupsAreKept == Spec /\ InTime => []~Forgotten
<1>1. Init => NoneExpired
  BY DEF Init, NoneExpired, Expired
<1>2. Inv /\ NoneExpired /\ [Next]_vars /\ [\A t \in Threads : ~TimeOut(t)]_vars => NoneExpired'
  <2> SUFFICES ASSUME Inv, NoneExpired, [Next]_vars, [\A t \in Threads : ~TimeOut(t)]_vars
               PROVE  NoneExpired'
    OBVIOUS
  <2>1. state \in [Threads -> States] /\ \A t \in Threads : state[t] # "expired"
    BY DEF Inv, TypeOK, States, NoneExpired, Expired
  <2>2. ASSUME NEW st \in [Threads -> States], state' \in Signalled(st) \cup {st}, Expired(st) = {}
        PROVE  Expired(state') = {} /\ ~Strays(st)
    <3>1. CASE state' = st
      BY <2>2, <3>1 DEF Strays
    <3>2. CASE state' # st
      <4>1. PICK w \in Asleep(st) : state' = [st EXCEPT ![w] = "woken"]
        BY <2>2, <3>2 DEF Signalled
      <4> QED BY <2>2, <4>1 DEF Expired, Strays
    <3> QED BY <3>1, <3>2
  <2>3. ASSUME NEW t \in Threads, Release(t) PROVE NoneExpired'
    BY <2>1, <2>2, <2>3 DEF Release, ReleaseSignal, NoneExpired
  <2>4. ASSUME NEW t \in Threads, Acquire(t) PROVE NoneExpired'
    <3> DEFINE mine == [state EXCEPT ![t] = "run"]
    <3>1. mine \in [Threads -> States] /\ Expired(mine) = {}
      BY <2>1 DEF States, Expired
    <3>2. state' \in Signalled(mine) \cup {mine} /\ astray' = (counter - 1 > 0 /\ Strays(mine))
      BY <2>4 DEF Acquire, HandOn
    <3> HIDE DEF mine
    <3> QED BY <2>2, <3>1, <3>2 DEF NoneExpired
  <2>5. ASSUME NEW t \in Threads, NEW b \in BOOLEAN, Sleep(t, b) PROVE NoneExpired'
    BY <2>1, <2>5 DEF Sleep, NoneExpired, Expired
  <2>6. ASSUME NEW t \in Threads, Expire(t) \/ SpuriousWakeup(t) PROVE NoneExpired'
    BY <2>1, <2>6 DEF Expire, SpuriousWakeup, NoneExpired, Expired
  <2>7. CASE Tick \/ UNCHANGED vars
    BY <2>7 DEF Tick, vars, NoneExpired, Expired
  <2>8. ASSUME NEW t \in Threads, TimeOut(t) PROVE NoneExpired'
    <3>1. ~UNCHANGED vars
      BY <2>1, <2>8 DEF TimeOut, vars
    <3> QED BY <2>8, <3>1
  <2>9. ASSUME NEW t \in Threads, Resume(t) PROVE NoneExpired'
    BY <2>4, <2>5, <2>9 DEF Resume, Inv, TypeOK
  <2> QED BY <2>3, <2>4, <2>5, <2>6, <2>7, <2>8, <2>9 DEF Next, Wait
<1>3. Inv /\ NoneExpired => ~Forgotten
  BY DEF Inv, NoLostWakeup, NoneExpired, Forgotten
<1> QED BY <1>1, <1>2, <1>3, Invariance, PTL DEF Spec, InTime
=============================================================================
