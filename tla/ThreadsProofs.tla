--------------------------- MODULE ThreadsProofs ---------------------------
(***************************************************************************)
(* The hand-over between a thread and its creator, for any number of       *)
(* threads.                                                                *)
(*                                                                         *)
(* FrameIsAlive is inductive once we say that the mutex stays locked until *)
(* the parameters are copied (HandOver).  OneHandle needs to know what a   *)
(* thread's VM holds at each phase, that nothing of a thread that has not  *)
(* begun has been returned, and that what a creator waits for has been     *)
(* created (Owned).  MessagesInOrder is a property of what was read; it is *)
(* inductive for what was read followed by what still lies in the queue    *)
(* (Mail), and needs OneHandle: only the thread itself reads its queue.    *)
(***************************************************************************)
EXTENDS Threads, SequenceTheorems, TLAPS

\* A thread that still reads its creator's frame keeps the creator waiting.
HandOver ==
    \A t \in Threads :
        /\ phase[t] \in {"created", "copied"} => locked[t]
        /\ locked[t] => frame[t]

\* The handle that thread_init makes.
Own(t) == [in |-> t, lazy |-> FALSE]

Fresh(t) == phase[t] \in {"none", "created", "copied"}

OwnedBy(t) ==
    /\ custom[t] # None => custom[t].in = t
    /\ t # Main /\ ~Fresh(t) => custom[t] = Own(t)
    /\ t # Main /\ phase[t] \in {"ready", "run"} => ptv[t] = Own(t)
    /\ t # Main /\ ~Fresh(t) => ptv[t] \in {None, Own(t)}
    /\ Fresh(t) => custom[t] = None /\ returned[t] = {} /\ \A h \in known : h.in # t
    /\ creating[t] # None => creating[t] # Main /\ phase[creating[t]] # "none"

Owned == phase[Main] = "run" /\ \A t \in Threads : OwnedBy(t)

USE ThreadsAssumption

-----------------------------------------------------------------------------
(* Types. *)

LEMMA SelfType == ASSUME TypeOK, NEW t \in Threads PROVE Self(t) \in Handles
BY DEF TypeOK, Self, Handles

LEMMA OwnType ==
    ASSUME NEW t \in Threads
    PROVE  Own(t) \in Handles /\ Own(t) # None /\ Own(t).in = t
<1>1. Own(t) \in Handles
  BY DEF Own, Handles
<1> QED BY <1>1 DEF ThreadsAssumption, Own

\* One step per action.
LEMMA Typing == TypeOK /\ [Next]_vars => TypeOK'
<1> SUFFICES ASSUME TypeOK, [Next]_vars PROVE TypeOK'
  OBVIOUS
<1> USE DEF TypeOK
<1>1. ASSUME NEW c \in Threads, NEW t \in Threads, Create(c, t) PROVE TypeOK'
  BY <1>1 DEF Create, LockedAtFirst, messaging
<1>2. ASSUME NEW t \in Threads, CopyParameters(t) PROVE TypeOK'
  BY <1>2 DEF CopyParameters, messaging
<1>3. ASSUME NEW t \in Threads, InitThread(t) PROVE TypeOK'
  <2>1. [in |-> t, lazy |-> FALSE] \in Handles
    BY DEF Handles
  <2> QED BY <1>3, <2>1 DEF InitThread, CustomSet, messaging
<1>4. ASSUME NEW t \in Threads, GiveBack(t) \/ Start(t) PROVE TypeOK'
  BY <1>4 DEF GiveBack, Start, messaging
<1>5. ASSUME NEW c \in Threads, LeaveFrame(c) PROVE TypeOK'
  BY <1>5 DEF LeaveFrame, messaging
<1>6. ASSUME NEW c \in Threads, CreateReturns(c) PROVE TypeOK'
  <2>1. creating[c] \in Threads
    BY <1>6 DEF CreateReturns
  <2> QED BY <1>6, <2>1 DEF CreateReturns
<1>7. ASSUME NEW t \in Threads, End(t) PROVE TypeOK'
  BY <1>7 DEF End, messaging
<1>8. ASSUME NEW t \in Threads, Current(t) PROVE TypeOK'
  BY <1>8, SelfType DEF Current
<1>9. ASSUME NEW t \in Threads, NEW h \in known, Send(t, h) PROVE TypeOK'
  <2>1. h \in Handles /\ sent \in Nat /\ sent + 1 \in 0..MaxMessages
    BY <1>9 DEF Send
  <2>2. [from |-> t, to |-> h, n |-> sent] \in Messages
    BY <2>1 DEF Messages
  <2>3. Append(queue[h], [from |-> t, to |-> h, n |-> sent]) \in Seq(Messages)
    BY <2>1, <2>2
  <2>4. queue' \in [Handles -> Seq(Messages)]
    BY <1>9, <2>1, <2>3 DEF Send, Enqueue
  <2> QED BY <1>9, <2>1, <2>4 DEF Send
<1>10. ASSUME NEW t \in Threads, ReadMessage(t) PROVE TypeOK'
  <2> DEFINE h == Self(t)
  <2>1. h \in Handles /\ queue[h] \in Seq(Messages) /\ queue[h] # <<>>
    BY <1>10, SelfType DEF ReadMessage
  <2>2. Head(queue[h]) \in Messages /\ Tail(queue[h]) \in Seq(Messages)
    BY <2>1
  <2>3. queue' \in [Handles -> Seq(Messages)]
    BY <1>10, <2>1, <2>2 DEF ReadMessage
  <2>4. log' \in [Threads -> Seq(Messages)]
    BY <1>10, <2>2 DEF ReadMessage
  <2>5. custom' \in [Threads -> Handles \cup {None}]
    BY <1>10, <2>1 DEF ReadMessage
  <2> QED BY <1>10, <2>3, <2>4, <2>5 DEF ReadMessage
<1>11. CASE UNCHANGED vars
  BY <1>11 DEF vars
<1> QED BY <1>1, <1>2, <1>3, <1>4, <1>5, <1>6, <1>7, <1>8, <1>9, <1>10, <1>11 DEF Next, Creation

-----------------------------------------------------------------------------
(* The creator's frame. *)

LEMMA HandOverStep == TypeOK /\ HandOver /\ [Next]_vars => HandOver'
<1> SUFFICES ASSUME TypeOK, HandOver, [Next]_vars PROVE HandOver'
  OBVIOUS
<1> USE DEF TypeOK, HandOver
<1>1. ASSUME NEW c \in Threads, NEW t \in Threads, Create(c, t) PROVE HandOver'
  BY <1>1 DEF Create, LockedAtFirst
<1>2. ASSUME NEW t \in Threads, CopyParameters(t) \/ InitThread(t) PROVE HandOver'
  BY <1>2 DEF CopyParameters, InitThread
<1>3. ASSUME NEW t \in Threads, GiveBack(t) PROVE HandOver'
  BY <1>3 DEF GiveBack, GivesBack
<1>4. ASSUME NEW t \in Threads, Start(t) \/ End(t) PROVE HandOver'
  BY <1>4 DEF Start, End
<1>5. ASSUME NEW c \in Threads, LeaveFrame(c) PROVE HandOver'
  <2> DEFINE t == creating[c]
  <2>1. t \in Threads /\ ~locked[t] /\ frame' = [frame EXCEPT ![t] = FALSE]
    BY <1>5 DEF LeaveFrame
  <2> QED BY <1>5, <2>1 DEF LeaveFrame
<1>6. ASSUME NEW t \in Threads,
             CreateReturns(t) \/ Current(t) \/ ReadMessage(t) \/ \E h \in known : Send(t, h)
      PROVE  HandOver'
  <2>1. UNCHANGED <<phase, locked, frame>>
    BY <1>6 DEF CreateReturns, Current, ReadMessage, Send
  <2> QED BY <2>1
<1>7. CASE UNCHANGED vars
  BY <1>7 DEF vars
<1> QED BY <1>1, <1>2, <1>3, <1>4, <1>5, <1>6, <1>7 DEF Next, Creation

-----------------------------------------------------------------------------
(* Handles. *)

Inv == TypeOK /\ HandOver /\ Owned /\ OneHandle

\* A thread calls thread_current or reads its messages: its handle is set.
LEMMA SelfStep ==
    ASSUME Inv, NEW t \in Threads, Runs(t), custom' = [custom EXCEPT ![t] = Self(t)],
           known' \in {known, known \cup {Self(t)}},
           UNCHANGED <<phase, creating, ptv, returned>>
    PROVE  Owned' /\ OneHandle'
<1> USE DEF Inv, TypeOK
<1>1. Self(t).in = t
  BY DEF Owned, OwnedBy, Self
<1>2. phase[t] = "run" /\ OwnedBy(t)
  BY DEF Runs, Owned
<1>3. t # Main => Self(t) = custom[t]
  BY <1>2, OwnType DEF OwnedBy, Fresh, Self
<1>4. ASSUME NEW u \in Threads PROVE OwnedBy(u)'
  <2>1. OwnedBy(u)
    BY DEF Owned
  <2>2. CASE u = t
    BY <1>1, <1>2, <1>3, <2>2 DEF OwnedBy, Fresh, Own
  <2>3. CASE u # t
    BY <1>1, <2>1, <2>3 DEF OwnedBy, Fresh, Own
  <2> QED BY <2>2, <2>3
<1>5. \A u \in Threads : Self(u)' = Self(u)
  BY SelfType DEF Self
<1>6. OneHandle'
  BY <1>1, <1>5 DEF OneHandle
<1> QED BY <1>4, <1>6 DEF Owned

LEMMA OwnedStep == Inv /\ [Next]_vars => Owned' /\ OneHandle'
<1> SUFFICES ASSUME Inv, [Next]_vars PROVE Owned' /\ OneHandle'
  OBVIOUS
<1> USE DEF Inv, TypeOK
<1>1. ASSUME NEW c \in Threads, NEW t \in Threads, Create(c, t) PROVE Owned' /\ OneHandle'
  <2>1. Owned'
    BY <1>1 DEF Create, Owned, OwnedBy, Fresh, messaging, Own
  <2>2. OneHandle'
    BY <1>1 DEF Create, OneHandle, Self, messaging
  <2> QED BY <2>1, <2>2
<1>2. ASSUME NEW t \in Threads, CopyParameters(t) PROVE Owned' /\ OneHandle'
  <2>1. Owned'
    BY <1>2 DEF CopyParameters, Owned, OwnedBy, Fresh, messaging, Own
  <2>2. OneHandle'
    BY <1>2 DEF CopyParameters, OneHandle, Self, messaging
  <2> QED BY <2>1, <2>2
<1>3. ASSUME NEW t \in Threads, InitThread(t) PROVE Owned' /\ OneHandle'
  <2>1. t # Main /\ returned[t] = {} /\ \A h \in known : h.in # t
    BY <1>3 DEF InitThread, Owned, OwnedBy, Fresh
  <2>2. custom' = [custom EXCEPT ![t] = Own(t)] /\ ptv' = [ptv EXCEPT ![t] = Own(t)]
    BY <1>3 DEF InitThread, CustomSet, Own
  <2>3. Own(t).in = t
    BY DEF Own
  <2>4. ASSUME NEW u \in Threads PROVE OwnedBy(u)'
    <3>1. OwnedBy(u)
      BY DEF Owned
    <3>2. CASE u = t
      BY <1>3, <2>2, <2>3, <3>1, <3>2 DEF InitThread, OwnedBy, Fresh, messaging
    <3>3. CASE u # t
      BY <1>3, <2>2, <3>1, <3>3 DEF InitThread, OwnedBy, Fresh, messaging, Own
    <3> QED BY <3>2, <3>3
  <2>5. Owned'
    BY <1>3, <2>1, <2>4 DEF InitThread, Owned
  <2>6. OneHandle'
    BY <1>3, <2>1, <2>2 DEF InitThread, OneHandle, Self, messaging
  <2> QED BY <2>5, <2>6
<1>4. ASSUME NEW t \in Threads, GiveBack(t) \/ LeaveFrame(t) PROVE Owned' /\ OneHandle'
  <2>1. UNCHANGED <<phase, creating, custom, ptv, known, returned>>
    BY <1>4 DEF GiveBack, LeaveFrame, messaging
  <2>2. Owned'
    BY <2>1 DEF Owned, OwnedBy, Fresh, Own
  <2>3. OneHandle'
    BY <2>1 DEF OneHandle, Self
  <2> QED BY <2>2, <2>3
<1>5. ASSUME NEW t \in Threads, Start(t) PROVE Owned' /\ OneHandle'
  <2>1. Owned'
    BY <1>5 DEF Start, Owned, OwnedBy, Fresh, messaging, Own
  <2>2. OneHandle'
    BY <1>5 DEF Start, OneHandle, Self, messaging
  <2> QED BY <2>1, <2>2
<1>6. ASSUME NEW c \in Threads, CreateReturns(c) PROVE Owned' /\ OneHandle'
  <2> DEFINE t == creating[c]
  <2>1. t \in Threads /\ t # Main /\ ~Fresh(t)
    BY <1>6 DEF CreateReturns, Owned, OwnedBy, HandOver, Fresh
  <2>2. ptv[t] \in {None, Own(t)} /\ custom[t] = Own(t)
    BY <2>1 DEF Owned, OwnedBy
  <2>3. Self(t) = Own(t) /\ Own(t).in = t
    BY <2>1, <2>2, OwnType DEF Self
  <2>4. phase[t] # "ended" => ptv[t] = Own(t)
    BY <2>1 DEF Owned, OwnedBy, Fresh
  <2>5. known' \subseteq known \cup {Own(t)}
    BY <1>6, <2>2 DEF CreateReturns
  <2>6. Owned'
    <3> SUFFICES ASSUME NEW u \in Threads PROVE OwnedBy(u)'
      BY <1>6 DEF CreateReturns, Owned
    <3>1. OwnedBy(u)
      BY DEF Owned
    <3>2. Fresh(u) => u # t
      BY <2>1
    <3>3. Fresh(u) => \A h \in known' : h.in # u
      BY <2>3, <2>5, <3>1, <3>2 DEF OwnedBy
    <3>4. Fresh(u) => returned'[u] = {}
      BY <1>6, <2>1, <3>1, <3>2 DEF CreateReturns, OwnedBy
    <3>5. creating'[u] # None => creating'[u] # Main /\ phase[creating'[u]] # "none"
      BY <1>6, <3>1 DEF CreateReturns, OwnedBy
    <3>6. UNCHANGED <<phase, custom, ptv>>
      BY <1>6 DEF CreateReturns
    <3> QED BY <3>1, <3>3, <3>4, <3>5, <3>6 DEF OwnedBy, Fresh
  <2>7. OneHandle'
    BY <1>6, <2>1, <2>3, <2>4, <2>5 DEF CreateReturns, OneHandle, Self
  <2> QED BY <2>6, <2>7
<1>7. ASSUME NEW t \in Threads, End(t) PROVE Owned' /\ OneHandle'
  <2>1. Owned'
    <3> SUFFICES ASSUME NEW u \in Threads PROVE OwnedBy(u)'
      BY <1>7 DEF End, Owned
    <3>1. OwnedBy(u) /\ OwnedBy(t)
      BY DEF Owned
    <3>2. phase[t] = "run" /\ phase' = [phase EXCEPT ![t] = "ended"]
      BY <1>7 DEF End, Runs
    <3>3. ptv' = [ptv EXCEPT ![t] = None] /\ UNCHANGED <<creating, custom, known, returned>>
      BY <1>7 DEF End, messaging
    <3>4. creating'[u] # None => creating'[u] # Main /\ phase'[creating'[u]] # "none"
      BY <3>1, <3>2, <3>3 DEF OwnedBy
    <3> QED BY <3>1, <3>2, <3>3, <3>4 DEF OwnedBy, Fresh, Own
  <2>2. OneHandle'
    BY <1>7 DEF End, OneHandle, Self, messaging
  <2> QED BY <2>1, <2>2
<1>8. ASSUME NEW t \in Threads, Current(t) \/ ReadMessage(t) PROVE Owned' /\ OneHandle'
  BY <1>8, SelfStep DEF Current, ReadMessage
<1>9. ASSUME NEW t \in Threads, NEW h \in known, Send(t, h) PROVE Owned' /\ OneHandle'
  BY <1>9 DEF Send, Owned, OwnedBy, Fresh, OneHandle, Self, Own
<1>10. CASE UNCHANGED vars
  BY <1>10 DEF vars, Owned, OwnedBy, Fresh, OneHandle, Self, Own
<1> QED BY <1>1, <1>2, <1>3, <1>4, <1>5, <1>6, <1>7, <1>8, <1>9, <1>10 DEF Next, Creation

LEMMA Initially == Init => Inv
<1> SUFFICES ASSUME Init PROVE Inv
  OBVIOUS
<1> USE DEF Init
<1>1. TypeOK
  BY DEF TypeOK
<1>2. HandOver
  BY DEF HandOver
<1>3. Owned
  BY DEF Owned, OwnedBy, Fresh
<1>4. OneHandle
  BY DEF OneHandle
<1> QED BY <1>1, <1>2, <1>3, <1>4 DEF Inv

LEMMA Invariance == Spec => []Inv
<1>1. Inv /\ [Next]_vars => Inv'
  BY Typing, HandOverStep, OwnedStep DEF Inv
<1> QED BY <1>1, Initially, PTL DEF Spec

-----------------------------------------------------------------------------
(* Messages. *)

\* What a thread has read and has still to read.
Seen(t) == log[t] \o queue[Self(t)]

\* The messages of s went to h, none of them after the k-th, and each sender's
\* lie in the order it sent them.
InOrder(s, h, k) ==
    /\ \A i \in DOMAIN s : s[i].to = h /\ s[i].n < k
    /\ \A i, j \in DOMAIN s : i < j /\ s[i].from = s[j].from => s[i].n < s[j].n

\* Nobody can have written to a handle that has not been returned, and a thread
\* that has not begun has read nothing.
Mail ==
    /\ \A h \in Handles : h \notin known => queue[h] = <<>>
    /\ \A t \in Threads : Fresh(t) => log[t] = <<>>
    /\ \A t \in Threads : InOrder(Seen(t), Self(t), sent)

LEMMA Stamped ==
    ASSUME NEW s \in Seq(Messages), NEW i \in DOMAIN s PROVE s[i].n \in Nat
<1>1. s[i] \in Messages
  BY ElementOfSeq
<1> QED BY <1>1 DEF Messages

LEMMA InOrderLater ==
    ASSUME NEW s \in Seq(Messages), NEW h, NEW k \in Nat, InOrder(s, h, k)
    PROVE  InOrder(s, h, k + 1)
<1> SUFFICES ASSUME NEW i \in DOMAIN s PROVE s[i].n < k + 1
  BY DEF InOrder
<1>1. s[i].n \in Nat
  BY Stamped
<1>2. s[i].n < k
  BY DEF InOrder
<1> QED BY <1>1, <1>2

LEMMA InOrderAppend ==
    ASSUME NEW s \in Seq(Messages), NEW h \in Handles, NEW k \in Nat, InOrder(s, h, k),
           NEW m \in Messages, m.to = h, m.n = k
    PROVE  InOrder(Append(s, m), h, k + 1)
<1> DEFINE r == Append(s, m)
<1>1. /\ Len(s) \in Nat /\ DOMAIN s = 1..Len(s) /\ DOMAIN r = 1..(Len(s) + 1)
      /\ r[Len(s) + 1] = m /\ \A i \in 1..Len(s) : r[i] = s[i]
  OBVIOUS
<1> HIDE DEF r
<1>2. \A i \in DOMAIN s : s[i].to = h /\ s[i].n < k /\ s[i].n \in Nat
  BY Stamped DEF InOrder
<1>3. ASSUME NEW i \in DOMAIN r PROVE r[i].to = h /\ r[i].n < k + 1
  <2>1. CASE i = Len(s) + 1
    <3>1. r[i] = m
      BY <1>1, <2>1
    <3> QED BY <3>1
  <2>2. CASE i # Len(s) + 1
    <3>1. i \in DOMAIN s /\ r[i] = s[i]
      BY <1>1, <2>2
    <3>2. r[i].to = h /\ r[i].n < k /\ r[i].n \in Nat
      BY <1>2, <3>1
    <3> QED BY <3>2
  <2> QED BY <2>1, <2>2
<1>4. ASSUME NEW i \in DOMAIN r, NEW j \in DOMAIN r, i < j, r[i].from = r[j].from
      PROVE  r[i].n < r[j].n
  <2>1. i \in DOMAIN s /\ r[i] = s[i]
    BY <1>1, <1>4
  <2>2. CASE j = Len(s) + 1
    BY <1>1, <1>2, <2>1, <2>2
  <2>3. CASE j # Len(s) + 1
    <3>1. j \in DOMAIN s /\ r[j] = s[j]
      BY <1>1, <2>3
    <3> QED BY <1>4, <2>1, <3>1 DEF InOrder
  <2> QED BY <2>2, <2>3
<1> QED BY <1>3, <1>4 DEF InOrder, r

LEMMA InOrderEmpty == ASSUME NEW h, NEW k PROVE InOrder(<<>>, h, k)
BY DEF InOrder

\* The first message of a queue goes to the end of what has been read.
LEMMA ReadFirst ==
    ASSUME NEW l \in Seq(Messages), NEW q \in Seq(Messages), q # <<>>
    PROVE  Append(l, Head(q)) \o Tail(q) = l \o q
<1> DEFINE r == <<Head(q)>> \o Tail(q)
<1>0. /\ Head(q) \in Messages /\ Tail(q) \in Seq(Messages) /\ q[1] = Head(q)
      /\ Len(q) = Len(Tail(q)) + 1 /\ \A i \in 1..Len(Tail(q)) : Tail(q)[i] = q[i + 1]
  BY HeadTailProperties
<1>a. <<Head(q)>> \in Seq(Messages) /\ Len(<<Head(q)>>) = 1 /\ <<Head(q)>>[1] = Head(q)
  BY <1>0
<1>b. /\ r \in Seq(Messages) /\ Len(r) = 1 + Len(Tail(q))
      /\ \A i \in 1..(1 + Len(Tail(q))) :
            r[i] = IF i <= 1 THEN <<Head(q)>>[i] ELSE Tail(q)[i - 1]
  BY <1>0, <1>a, ConcatProperties
<1> HIDE DEF r
<1>c. ASSUME NEW i \in 1..Len(q) PROVE r[i] = q[i]
  <2>1. Len(Tail(q)) \in Nat
    BY <1>0
  <2>2. CASE i = 1
    BY <1>0, <1>a, <1>b, <2>1, <2>2
  <2>3. CASE i # 1
    <3>1. PICK j \in 1..Len(Tail(q)) : i = j + 1
      BY <1>0, <2>1, <2>3
    <3>2. r[i] = Tail(q)[j]
      BY <1>b, <2>1, <3>1
    <3> QED BY <1>0, <3>1, <3>2
  <2> QED BY <2>2, <2>3
<1>d. q = r
  BY <1>0, <1>b, <1>c, SeqEqual
<1>1. Head(q) \in Messages /\ Tail(q) \in Seq(Messages) /\ q = <<Head(q)>> \o Tail(q)
  BY <1>0, <1>d DEF r
<1>2. <<Head(q)>> \in Seq(Messages) /\ Append(l, Head(q)) = l \o <<Head(q)>>
  BY <1>1, AppendIsConcat
<1>3. (l \o <<Head(q)>>) \o Tail(q) = l \o (<<Head(q)>> \o Tail(q))
  BY <1>1, <1>2, ConcatAssociative
<1> QED BY <1>1, <1>2, <1>3

LEMMA AppendLast ==
    ASSUME NEW l \in Seq(Messages), NEW q \in Seq(Messages), NEW m \in Messages
    PROVE  l \o Append(q, m) = Append(l \o q, m)
<1>1. <<m>> \in Seq(Messages) /\ Append(q, m) = q \o <<m>>
  BY AppendIsConcat
<1>2. l \o q \in Seq(Messages)
  BY ConcatProperties
<1>3. Append(l \o q, m) = (l \o q) \o <<m>>
  BY <1>2, AppendIsConcat
<1>4. (l \o q) \o <<m>> = l \o (q \o <<m>>)
  BY <1>1, ConcatAssociative
<1> QED BY <1>1, <1>3, <1>4

LEMMA SeenType == ASSUME TypeOK, NEW t \in Threads PROVE Seen(t) \in Seq(Messages)
<1>1. log[t] \in Seq(Messages) /\ queue[Self(t)] \in Seq(Messages)
  BY SelfType DEF TypeOK
<1> QED BY <1>1 DEF Seen

LEMMA SelfIn ==
    ASSUME Inv, NEW t \in Threads
    PROVE  Self(t).in = t /\ Self(t) \in Handles /\ \A u \in Threads : Self(u) = Self(t) => u = t
<1>1. \A u \in Threads : Self(u).in = u
  BY DEF Inv, Owned, OwnedBy, Self
<1> QED BY <1>1, SelfType DEF Inv

\* A step that leaves handles and messages alone.
LEMMA MailStays ==
    ASSUME Inv, Mail, UNCHANGED <<custom, queue, log, sent>>, known \subseteq known',
           \A t \in Threads : Fresh(t)' => Fresh(t)
    PROVE  Mail'
<1>1. ASSUME NEW t \in Threads PROVE Self(t)' = Self(t) /\ Seen(t)' = Seen(t)
  BY DEF Self, Seen
<1> QED BY <1>1 DEF Mail

LEMMA MailSend ==
    ASSUME Inv, Mail, NEW t \in Threads, NEW h \in known, Send(t, h) PROVE Mail'
<1> DEFINE m == [from |-> t, to |-> h, n |-> sent]
           u == h.in
<1>1. /\ h \in Handles /\ sent \in Nat /\ queue \in [Handles -> Seq(Messages)]
      /\ sent' = sent + 1 /\ queue' = [queue EXCEPT ![h] = Append(@, m)]
      /\ UNCHANGED <<phase, custom, known, log>>
  BY DEF Send, Enqueue, Inv, TypeOK
<1>2. u \in Threads /\ h = Self(u)
  BY <1>1 DEF Handles, Inv, OneHandle
<1>3. m \in Messages /\ m.to = h /\ m.n = sent
  BY <1>1 DEF Messages
<1> HIDE DEF m, u
<1>4. \A v \in Threads : Self(v)' = Self(v)
  BY <1>1 DEF Self
<1>5. \A v \in Threads : Self(v) \in Handles /\ (v # u => Self(v) # h)
  BY <1>2, SelfIn
<1>6. \A g \in Handles : g \notin known' => queue'[g] = <<>>
  BY <1>1 DEF Mail
<1>7. \A v \in Threads : Fresh(v)' => log'[v] = <<>>
  BY <1>1 DEF Mail, Fresh
<1>8. ASSUME NEW v \in Threads PROVE InOrder(Seen(v), Self(v), sent)'
  <2>1. InOrder(Seen(v), Self(v), sent) /\ Seen(v) \in Seq(Messages)
    BY SeenType DEF Mail, Inv
  <2>2. CASE v = u
    <3>1. queue'[h] = Append(queue[h], m) /\ queue[h] \in Seq(Messages) /\ log[v] \in Seq(Messages)
      BY <1>1 DEF Inv, TypeOK
    <3>2. log[v] \o Append(queue[h], m) = Append(log[v] \o queue[h], m)
      BY <1>3, <3>1, AppendLast
    <3>3. Seen(v)' = Append(Seen(v), m)
      BY <1>1, <1>2, <1>4, <2>2, <3>1, <3>2 DEF Seen
    <3>4. InOrder(Append(Seen(v), m), h, sent + 1)
      BY <1>1, <1>2, <1>3, <2>1, <2>2, InOrderAppend
    <3> QED BY <1>1, <1>2, <1>4, <2>2, <3>3, <3>4
  <2>3. CASE v # u
    <3>1. Seen(v)' = Seen(v)
      BY <1>1, <1>4, <1>5, <2>3 DEF Seen
    <3>2. InOrder(Seen(v), Self(v), sent + 1)
      BY <1>1, <2>1, InOrderLater
    <3> QED BY <1>1, <1>4, <3>1, <3>2
  <2> QED BY <2>2, <2>3
<1> QED BY <1>6, <1>7, <1>8 DEF Mail

LEMMA MailRead == ASSUME Inv, Mail, NEW t \in Threads, ReadMessage(t) PROVE Mail'
<1> DEFINE h == Self(t)
<1>1. /\ phase[t] = "run" /\ h \in Handles /\ queue[h] \in Seq(Messages) /\ queue[h] # <<>>
      /\ log[t] \in Seq(Messages) /\ queue \in [Handles -> Seq(Messages)]
      /\ log \in [Threads -> Seq(Messages)] /\ custom \in [Threads -> Handles \cup {None}]
      /\ custom' = [custom EXCEPT ![t] = h] /\ queue' = [queue EXCEPT ![h] = Tail(@)]
      /\ log' = [log EXCEPT ![t] = Append(@, Head(queue[h]))]
      /\ UNCHANGED <<phase, known, sent>>
  BY SelfType DEF ReadMessage, Runs, Inv, TypeOK
<1>2. \A v \in Threads : Self(v)' = Self(v)
  BY <1>1 DEF Self
<1>3. \A v \in Threads : Self(v) \in Handles /\ (v # t => Self(v) # h)
  BY SelfIn
<1> HIDE DEF h
<1>4. h \in known
  BY <1>1 DEF Mail
<1>5. \A g \in Handles : g \notin known' => queue'[g] = <<>>
  BY <1>1, <1>4 DEF Mail
<1>6. \A v \in Threads : Fresh(v)' => log'[v] = <<>>
  BY <1>1 DEF Mail, Fresh
<1>7. ASSUME NEW v \in Threads PROVE Seen(v)' = Seen(v)
  <2>1. CASE v = t
    <3>1. Append(log[t], Head(queue[h])) \o Tail(queue[h]) = log[t] \o queue[h]
      BY <1>1, ReadFirst
    <3>2. log'[t] = Append(log[t], Head(queue[h])) /\ queue'[h] = Tail(queue[h])
      BY <1>1
    <3> QED BY <1>2, <2>1, <3>1, <3>2 DEF Seen, h
  <2>2. CASE v # t
    BY <1>1, <1>2, <1>3, <2>2 DEF Seen
  <2> QED BY <2>1, <2>2
<1>8. \A v \in Threads : InOrder(Seen(v), Self(v), sent)'
  BY <1>1, <1>2, <1>7 DEF Mail
<1> QED BY <1>5, <1>6, <1>8 DEF Mail

\* A thread's handle appears when nobody can have written to it yet.
LEMMA MailInit == ASSUME Inv, Mail, NEW t \in Threads, InitThread(t) PROVE Mail'
<1>1. /\ phase[t] = "copied" /\ phase' = [phase EXCEPT ![t] = "ready"]
      /\ custom' = [custom EXCEPT ![t] = Own(t)] /\ UNCHANGED <<known, queue, log, sent>>
  BY DEF InitThread, CustomSet, Own, messaging
<1>2. Own(t) \in Handles /\ Own(t) # None /\ Own(t) \notin known /\ Fresh(t)
  BY <1>1, OwnType DEF Inv, Owned, OwnedBy, Fresh
<1>3. phase \in [Threads -> {"none", "created", "copied", "ready", "run", "ended"}]
      /\ custom \in [Threads -> Handles \cup {None}]
  BY DEF Inv, TypeOK
<1>4. queue[Own(t)] = <<>> /\ log[t] = <<>>
  BY <1>2 DEF Mail
<1>5. \A u \in Threads : u # t => Self(u)' = Self(u)
  BY <1>1, <1>3 DEF Self
<1>6. Self(t)' = Own(t)
  BY <1>1, <1>2, <1>3 DEF Self
<1>7. ASSUME NEW u \in Threads PROVE InOrder(Seen(u), Self(u), sent)'
  <2>1. CASE u = t
    <3>1. Seen(u)' = <<>>
      BY <1>1, <1>4, <1>6, <2>1 DEF Seen
    <3> QED BY <3>1, InOrderEmpty
  <2>2. CASE u # t
    <3>1. Self(u)' = Self(u) /\ Seen(u)' = Seen(u)
      BY <1>1, <1>5, <2>2 DEF Seen
    <3> QED BY <1>1, <3>1 DEF Mail
  <2> QED BY <2>1, <2>2
<1>8. \A u \in Threads : Fresh(u)' => log'[u] = <<>>
  BY <1>1, <1>3 DEF Mail, Fresh
<1>9. \A g \in Handles : g \notin known' => queue'[g] = <<>>
  BY <1>1 DEF Mail
<1> QED BY <1>7, <1>8, <1>9 DEF Mail

LEMMA MailStep == ASSUME Inv, Mail, [Next]_vars PROVE Mail'
<1>1. ASSUME NEW c \in Threads, NEW t \in Threads, Create(c, t) PROVE Mail'
  BY <1>1, MailStays DEF Create, Fresh, messaging, Inv, TypeOK
<1>2. ASSUME NEW t \in Threads, CopyParameters(t) \/ GiveBack(t) \/ Start(t) \/ LeaveFrame(t) \/ End(t)
      PROVE  Mail'
  <2>1. UNCHANGED <<custom, queue, log, sent, known>>
    BY <1>2 DEF CopyParameters, GiveBack, Start, LeaveFrame, End, messaging
  <2>2. \A u \in Threads : Fresh(u)' => Fresh(u)
    BY <1>2 DEF CopyParameters, GiveBack, Start, LeaveFrame, End, Fresh, Inv, TypeOK
  <2> QED BY <2>1, <2>2, MailStays
<1>3. ASSUME NEW t \in Threads, InitThread(t) PROVE Mail'
  BY <1>3, MailInit
<1>4. ASSUME NEW c \in Threads, CreateReturns(c) PROVE Mail'
  BY <1>4, MailStays DEF CreateReturns, Fresh
<1>5. ASSUME NEW t \in Threads, Current(t) PROVE Mail'
  <2>1. UNCHANGED <<phase, queue, log, sent>> /\ known \subseteq known'
        /\ custom' = [custom EXCEPT ![t] = Self(t)]
    BY <1>5 DEF Current
  <2>2. \A u \in Threads : Self(u)' = Self(u)
    BY <2>1, SelfType DEF Self, Inv, TypeOK
  <2>3. \A u \in Threads : Seen(u)' = Seen(u)
    BY <2>1, <2>2 DEF Seen
  <2> QED BY <2>1, <2>2, <2>3 DEF Mail, Fresh
<1>6. ASSUME NEW t \in Threads, ReadMessage(t) PROVE Mail'
  BY <1>6, MailRead
<1>7. ASSUME NEW t \in Threads, NEW h \in known, Send(t, h) PROVE Mail'
  BY <1>7, MailSend
<1>8. CASE UNCHANGED vars
  BY <1>8, MailStays DEF vars, Fresh
<1> QED BY <1>1, <1>2, <1>3, <1>4, <1>5, <1>6, <1>7, <1>8 DEF Next, Creation

LEMMA MailAtFirst == Init => Mail
<1> SUFFICES ASSUME Init PROVE Mail
  OBVIOUS
<1>1. ASSUME NEW t \in Threads PROVE log[t] = <<>> /\ Seen(t) = <<>>
  BY DEF Init, Seen, Self, Handles
<1>2. \A h \in Handles : queue[h] = <<>>
  BY DEF Init
<1> QED BY <1>1, <1>2, InOrderEmpty DEF Mail

LEMMA MailInvariance == Spec => []Mail
<1>1. Inv /\ Mail /\ [Next]_vars => Mail'
  BY MailStep
<1> QED BY <1>1, Invariance, MailAtFirst, PTL DEF Spec

-----------------------------------------------------------------------------

\* ThreadMain and neko_thread_create (threads.c:105-160): the new thread never
\* reads or unlocks anything on a creator's frame that is gone.
THEOREM FramesAreAlive == Spec => []FrameIsAlive
<1>1. Inv => FrameIsAlive
  BY DEF Inv, HandOver, FrameIsAlive
<1> QED BY <1>1, Invariance, PTL

\* thread_create and thread_current (thread.c:247-271): a living thread has one
\* handle, for its creator, for itself and for everybody else.
THEOREM HandlesAreOne == Spec => [](TypeOK /\ OneHandle)
BY Invariance, PTL DEF Inv

\* thread_send and thread_read_message (thread.c:273-302): whatever is created,
\* sent and read in between, a thread reads only what was sent to its handle,
\* each message once, and those of one sender in the order they were sent.
THEOREM MessagesStayInOrder == Spec => []MessagesInOrder
<1>1. Mail => MessagesInOrder
  BY DEF Mail, MessagesInOrder, InOrder, Seen
<1> QED BY <1>1, MailInvariance, PTL
=============================================================================
