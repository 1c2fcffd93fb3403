------------------------------ MODULE Threads ------------------------------
(***************************************************************************)
(* Threads of the virtual machine (vm/threads.c, src/libs/std/thread.c,    *)
(* POSIX build): their creation, their handles and their messages.         *)
(*                                                                         *)
(* neko_thread_create keeps the parameters, and a mutex it has locked, on  *)
(* the creator's stack; ThreadMain copies them, runs thread_init and       *)
(* unlocks the mutex, which lets the creator return.  The message queues   *)
(* are the sequences that module Deque is shown to implement.              *)
(*                                                                         *)
(* A handle (vthread) is named by the thread it was allocated in and by    *)
(* whether thread_current allocated it, because it found none.  Handles    *)
(* are values: once returned, any thread may come to know them.            *)
(***************************************************************************)
EXTENDS Integers, Sequences

CONSTANTS
    Threads, Main,   \* threads, among them the one that starts
    None,            \* no thread, no handle, and the null value
    MaxMessages      \* bound on the messages each thread sends

Handles == [in : Threads, lazy : BOOLEAN]

ASSUME ThreadsAssumption ==
    Main \in Threads /\ None \notin Threads \cup Handles /\ MaxMessages \in Nat

Messages == [from : Threads, to : Handles, n : Nat]

VARIABLES
    phase,     \* of a thread: "none", "created", "copied" (has its parameters),
               \* "ready" (thread_init is done), "run", "ended"
    locked,    \* p.lock of its creation
    frame,     \* is the stack frame that holds p still there?
    creating,  \* the thread a thread is creating, or None
    custom,    \* the handle set in a thread's VM (k_thread), or None
    pt, ptv,   \* p->t and p->t->v of its creation, or None
    known,     \* handles that have been returned to a program
    queue,     \* messages of a handle
    log,       \* ghost: messages a thread has read
    sent,      \* ghost: number of messages sent
    returned   \* ghost: what thread_create has returned, for each thread created

vars == <<phase, locked, frame, creating, custom, pt, ptv, known, queue, log, sent, returned>>

Init ==
    /\ phase = [t \in Threads |-> IF t = Main THEN "run" ELSE "none"]
    /\ locked = [t \in Threads |-> FALSE]
    /\ frame = [t \in Threads |-> FALSE]
    /\ creating = [t \in Threads |-> None]
    /\ custom = [t \in Threads |-> None]
    /\ pt = [t \in Threads |-> None]
    /\ ptv = [t \in Threads |-> None]
    /\ known = {}
    /\ queue = [h \in Handles |-> <<>>]
    /\ log = [t \in Threads |-> <<>>]
    /\ sent = 0
    /\ returned = [t \in Threads |-> {}]

messaging == <<known, queue, log, sent>>

Runs(t) == phase[t] = "run" /\ creating[t] = None

-----------------------------------------------------------------------------
(* Creation.  A creation that fails leaves nothing behind. *)

\* Mutant: the mutex is not locked before the thread is created.
LockedAtFirstNot == FALSE

LockedAtFirst == TRUE

\* neko_thread_create up to the second pthread_mutex_lock.
Create(c, t) ==
    /\ Runs(c) /\ phase[t] = "none"
    /\ phase' = [phase EXCEPT ![t] = "created"]
    /\ locked' = [locked EXCEPT ![t] = LockedAtFirst]
    /\ frame' = [frame EXCEPT ![t] = TRUE]
    /\ creating' = [creating EXCEPT ![c] = t]
    /\ UNCHANGED <<custom, pt, ptv, messaging, returned>>

\* ThreadMain: tparams p = *lp
CopyParameters(t) ==
    /\ phase[t] = "created"
    /\ phase' = [phase EXCEPT ![t] = "copied"]
    /\ UNCHANGED <<locked, frame, creating, custom, pt, ptv, messaging, returned>>

\* Mutant: the new VM is not told its thread.
CustomForgotten(h) == None

CustomSet(h) == h

\* thread_init
InitThread(t) ==
    /\ phase[t] = "copied"
    /\ phase' = [phase EXCEPT ![t] = "ready"]
    /\ LET h == [in |-> t, lazy |-> FALSE]
       IN  /\ pt' = [pt EXCEPT ![t] = h]
           /\ ptv' = [ptv EXCEPT ![t] = h]
           /\ custom' = [custom EXCEPT ![t] = CustomSet(h)]
    /\ UNCHANGED <<locked, frame, creating, messaging, returned>>

\* Mutant: control is given back before thread_init.
GivesBackEarly(t) == phase[t] \in {"copied", "ready"}

\* Mutant: the mutex is not unlocked.
GivesBackNever(t) == FALSE

GivesBack(t) == phase[t] = "ready"

\* pthread_mutex_unlock(&lp->lock), on the creator's stack
GiveBack(t) ==
    /\ GivesBack(t) /\ locked[t]
    /\ locked' = [locked EXCEPT ![t] = FALSE]
    /\ UNCHANGED <<phase, frame, creating, custom, pt, ptv, messaging, returned>>

\* Then the thread's function is called.
Start(t) ==
    /\ phase[t] = "ready" /\ ~locked[t]
    /\ phase' = [phase EXCEPT ![t] = "run"]
    /\ UNCHANGED <<locked, frame, creating, custom, pt, ptv, messaging, returned>>

\* The creator gets the mutex, destroys it and leaves neko_thread_create.
LeaveFrame(c) ==
    /\ creating[c] # None
    /\ LET t == creating[c]
       IN  /\ frame[t] /\ ~locked[t]
           /\ frame' = [frame EXCEPT ![t] = FALSE]
    /\ UNCHANGED <<phase, locked, creating, custom, pt, ptv, messaging, returned>>

\* return p->t->v
CreateReturns(c) ==
    /\ creating[c] # None /\ ~frame[creating[c]]
    /\ LET t == creating[c]
       IN  /\ returned' = [returned EXCEPT ![t] = {ptv[t]}]
           /\ known' = known \cup ({ptv[t]} \ {None})
    /\ creating' = [creating EXCEPT ![c] = None]
    /\ UNCHANGED <<phase, locked, frame, custom, pt, ptv, queue, log, sent>>

\* The end of thread_loop: p->t->v = val_null
End(t) ==
    /\ Runs(t) /\ t # Main
    /\ phase' = [phase EXCEPT ![t] = "ended"]
    /\ ptv' = [ptv EXCEPT ![t] = None]
    /\ UNCHANGED <<locked, frame, creating, custom, pt, messaging, returned>>

-----------------------------------------------------------------------------
(* Handles and messages. *)

\* The handle thread_current returns: "should only occur for main thread !"
Self(t) == IF custom[t] = None THEN [in |-> t, lazy |-> TRUE] ELSE custom[t]

Current(t) ==
    /\ Runs(t)
    /\ custom' = [custom EXCEPT ![t] = Self(t)]
    /\ known' = known \cup {Self(t)}
    /\ UNCHANGED <<phase, locked, frame, creating, pt, ptv, queue, log, sent, returned>>

\* Mutant: a message is put in front of the queue.
EnqueueInFront(q, m) == <<m>> \o q

Enqueue(q, m) == Append(q, m)

\* thread_send
Send(t, h) ==
    /\ Runs(t) /\ h \in known /\ sent < MaxMessages
    /\ sent' = sent + 1
    /\ queue' = [queue EXCEPT ![h] = Enqueue(@, [from |-> t, to |-> h, n |-> sent])]
    /\ UNCHANGED <<phase, locked, frame, creating, custom, pt, ptv, known, log, returned>>

\* thread_read_message, which waits if there is no message; without block it
\* returns null instead.
ReadMessage(t) ==
    /\ Runs(t) /\ queue[Self(t)] # <<>>
    /\ custom' = [custom EXCEPT ![t] = Self(t)]
    /\ queue' = [queue EXCEPT ![Self(t)] = Tail(@)]
    /\ log' = [log EXCEPT ![t] = Append(@, Head(queue[Self(t)]))]
    /\ UNCHANGED <<phase, locked, frame, creating, pt, ptv, known, sent, returned>>

Creation(t) ==
    \/ CopyParameters(t) \/ InitThread(t) \/ GiveBack(t) \/ Start(t)
    \/ LeaveFrame(t) \/ CreateReturns(t)

Next ==
    \E t \in Threads :
        \/ Creation(t) \/ End(t) \/ Current(t) \/ ReadMessage(t)
        \/ \E u \in Threads : Create(t, u)
        \/ \E h \in known : Send(t, h)

\* A thread that is being created, and its creator, are scheduled.
Spec == Init /\ [][Next]_vars /\ \A t \in Threads : WF_vars(Creation(t))

(***************************************************************************)
(* Properties.                                                             *)
(***************************************************************************)
TypeOK ==
    /\ phase \in [Threads -> {"none", "created", "copied", "ready", "run", "ended"}]
    /\ locked \in [Threads -> BOOLEAN] /\ frame \in [Threads -> BOOLEAN]
    /\ creating \in [Threads -> Threads \cup {None}]
    /\ custom \in [Threads -> Handles \cup {None}]
    /\ pt \in [Threads -> Handles \cup {None}]
    /\ ptv \in [Threads -> Handles \cup {None}]
    /\ known \subseteq Handles
    /\ queue \in [Handles -> Seq(Messages)] /\ log \in [Threads -> Seq(Messages)]
    /\ sent \in 0..MaxMessages
    /\ returned \in [Threads -> SUBSET (Handles \cup {None})]

\* "we have the 'param' value on this thread C stack so it's safe to give back
\* control to main thread" (threads.c:109): as long as the new thread has its
\* parameters to copy, or the mutex to unlock, its creator's frame is there.
FrameIsAlive ==
    \A t \in Threads : phase[t] = "created" \/ locked[t] => frame[t]

\* A thread has one handle, which exists when thread_create returns it: while
\* the thread lives its creator has the one that the thread itself gets from
\* thread_current, and reads its messages with.
OneHandle ==
    \A t \in Threads :
        /\ phase[t] # "ended" => returned[t] \subseteq {Self(t)}
        /\ \A h \in known : h.in = t => h = Self(t)

\* Each sender's messages are read by the thread they were sent to, once and
\* in the order they were sent.
MessagesInOrder ==
    \A t \in Threads :
        LET seen == log[t] \o queue[Self(t)]
        IN  /\ \A i \in DOMAIN seen : seen[i].to = Self(t)
            /\ \A i, j \in DOMAIN seen :
                   i < j /\ seen[i].from = seen[j].from => seen[i].n < seen[j].n

\* thread_create comes back, whatever the new thread does.
CreationEnds == \A t \in Threads : creating[t] # None ~> creating[t] = None
=============================================================================
