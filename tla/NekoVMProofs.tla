---------------------------- MODULE NekoVMProofs ----------------------------
(***************************************************************************)
(* What holds of the virtual machine for every array size, C stack and     *)
(* program.                                                                *)
(*                                                                         *)
(* First, where a throw lands: the activation named by vm->start is always *)
(* the innermost handler on the C stack (StartIsInnermost).  HandlerInv    *)
(* says that the saved jmp_bufs form a chain: what each handler found in   *)
(* vm->start, and will put back, is the innermost handler below it.  It is *)
(* stated over sequences of activations, so that the four ways in which an *)
(* action changes the C stack (a push of a handler or of another           *)
(* activation, an update of the top, a cut) are lemmas.                    *)
(*                                                                         *)
(* Then the two stacks.  VMInv says of every activation, frame and trap    *)
(* what it will find again when control returns to it: an activation the   *)
(* part of both stacks below its floor, a frame the code that pushed it, a *)
(* trap the slots, the frames and the older traps it was set up over.  The *)
(* changes that actions are made of (a push or a pop on the data stack, of *)
(* a frame, of a trap, of an activation, a move of the code on top) are    *)
(* again lemmas, from which each action is put together.                   *)
(***************************************************************************)
EXTENDS NekoVM, TLAPS

\* The record shapes of activations.
Shaped(a) ==
    \/ a.kind = "host" /\ a = [kind |-> "host", at |-> a.at, floor |-> a.floor]
    \/ a.kind = "prim" /\ a = [kind |-> "prim", args |-> a.args, at |-> a.at, floor |-> a.floor]
    \/ /\ a.kind = "execute"
       /\ a = [kind |-> "execute", vthis |-> a.vthis, env |-> a.env, floor |-> a.floor]
    \/ /\ a.kind = "interp"
       /\ a = [kind |-> "interp", init |-> a.init, old |-> a.old, act |-> a.act,
               floor |-> a.floor]
    \/ /\ a.kind = "callex"
       /\ a \in [kind : {"callex"}, exc : BOOLEAN, called : BOOLEAN, old : {a.old},
                 vthis : {a.vthis}, env : {a.env}, floor : {a.floor}]

\* h is the innermost handler among the first n activations of s.
InnermostIn(h, s, n) ==
    /\ h \in 0..n
    /\ h > 0 => IsHandler(s[h])
    /\ \A j \in 1..n : IsHandler(s[j]) => j <= h

IsSeq(s) == \E S : s \in Seq(S)

Chain(s) ==
    /\ IsSeq(s) /\ Len(s) >= 1
    /\ s[1].kind = "host"
    /\ \A i \in 1..Len(s) : Shaped(s[i])
    /\ \A i \in 1..Len(s) : IsHandler(s[i]) => InnermostIn(s[i].old, s, i - 1)

HandlerInv ==
    /\ Chain(native)
    /\ start \in 0..Len(native)
    /\ start > 0 => IsHandler(native[start])
    /\ why # "callex" => InnermostIn(start, native, Len(native))
    /\ mode = "run" => why # "callex"

-----------------------------------------------------------------------------
(* Sequences of activations. *)

LEMMA ChainLength ==
    ASSUME NEW s, Chain(s)
    PROVE  Len(s) \in Nat /\ Len(s) >= 1 /\ Len(s) \in 1..Len(s)
<1>1. PICK S : s \in Seq(S)
  BY DEF Chain, IsSeq
<1>2. Len(s) \in Nat
  BY <1>1
<1> QED BY <1>2 DEF Chain

\* Cutting the C stack leaves a chain: longjmp and return.
LEMMA PrefixChain ==
    ASSUME NEW s, Chain(s), NEW n \in 1..Len(s)
    PROVE  /\ Chain(Prefix(s, n)) /\ Len(Prefix(s, n)) = n
           /\ \A i \in 1..n : Prefix(s, n)[i] = s[i]
           /\ \A h, m \in 0..n : InnermostIn(h, s, m) <=> InnermostIn(h, Prefix(s, n), m)
<1> DEFINE t == Prefix(s, n)
<1>1. PICK S : s \in Seq(S)
  BY DEF Chain, IsSeq
<1>2. Len(s) \in Nat /\ n \in Nat /\ n <= Len(s)
  BY <1>1
<1>3. t \in Seq(S) /\ Len(t) = n /\ \A i \in 1..n : t[i] = s[i]
  BY <1>1, <1>2 DEF Prefix
<1>4. \A h, m \in 0..n : InnermostIn(h, s, m) <=> InnermostIn(h, t, m)
  <2> TAKE h, m \in 0..n
  <2>1. \A j \in 1..m : t[j] = s[j]
    BY <1>2, <1>3
  <2>2. h > 0 => t[h] = s[h]
    BY <1>2, <1>3
  <2> QED BY <2>1, <2>2, <1>2 DEF InnermostIn
<1>5. \A i \in 1..n : IsHandler(t[i]) => InnermostIn(t[i].old, t, i - 1)
  <2> SUFFICES ASSUME NEW i \in 1..n, IsHandler(t[i]) PROVE InnermostIn(t[i].old, t, i - 1)
    OBVIOUS
  <2>1. t[i] = s[i] /\ i \in 1..Len(s) /\ i - 1 \in 0..n
    BY <1>2, <1>3
  <2>2. InnermostIn(s[i].old, s, i - 1)
    BY <2>1 DEF Chain
  <2>3. s[i].old \in 0..n
    BY <2>1, <2>2, <1>2 DEF InnermostIn
  <2> QED BY <2>1, <2>2, <2>3, <1>4
<1>6. Chain(t)
  <2>1. IsSeq(t)
    BY <1>3 DEF IsSeq
  <2>2. t[1].kind = "host"
    BY <1>2, <1>3 DEF Chain
  <2>3. \A i \in 1..n : Shaped(t[i])
    BY <1>2, <1>3 DEF Chain
  <2> QED BY <2>1, <2>2, <2>3, <1>2, <1>3, <1>5 DEF Chain
<1> QED BY <1>3, <1>4, <1>6

\* Pushing an activation: a handler must save the innermost handler below it.
LEMMA AppendChain ==
    ASSUME NEW s, Chain(s), NEW a, Shaped(a),
           IsHandler(a) => InnermostIn(a.old, s, Len(s))
    PROVE  /\ Chain(Append(s, a)) /\ Len(Append(s, a)) = Len(s) + 1
           /\ Len(s) \in Nat /\ Append(s, a)[Len(s) + 1] = a
           /\ \A i \in 1..Len(s) : Append(s, a)[i] = s[i]
           /\ IsHandler(a) => InnermostIn(Len(s) + 1, Append(s, a), Len(s) + 1)
           /\ \A h : InnermostIn(h, s, Len(s)) /\ ~IsHandler(a)
                       => InnermostIn(h, Append(s, a), Len(s) + 1)
<1> DEFINE t == Append(s, a)
<1>1. PICK S : s \in Seq(S)
  BY DEF Chain, IsSeq
<1>2. Len(s) \in Nat /\ Len(s) >= 1
  BY <1>1 DEF Chain
<1>3. t \in Seq(S \cup {a}) /\ Len(t) = Len(s) + 1 /\ t[Len(s) + 1] = a
      /\ \A i \in 1..Len(s) : t[i] = s[i]
  <2>1. s \in Seq(S \cup {a})
    BY <1>1
  <2> QED BY <2>1
<1>4. \A h, m \in 0..Len(s) : InnermostIn(h, s, m) => InnermostIn(h, t, m)
  <2> TAKE h, m \in 0..Len(s)
  <2>1. \A j \in 1..m : t[j] = s[j]
    BY <1>2, <1>3
  <2>2. h > 0 => t[h] = s[h]
    BY <1>2, <1>3
  <2> QED BY <2>1, <2>2, <1>2 DEF InnermostIn
<1>5. \A i \in 1..Len(t) : IsHandler(t[i]) => InnermostIn(t[i].old, t, i - 1)
  <2> SUFFICES ASSUME NEW i \in 1..Len(t), IsHandler(t[i]) PROVE InnermostIn(t[i].old, t, i - 1)
    OBVIOUS
  <2>1. CASE i \in 1..Len(s)
    <3>1. t[i] = s[i] /\ i - 1 \in 0..Len(s)
      BY <2>1, <1>2, <1>3
    <3>2. InnermostIn(s[i].old, s, i - 1)
      BY <2>1, <3>1 DEF Chain
    <3>3. s[i].old \in 0..Len(s)
      BY <2>1, <3>2, <1>2 DEF InnermostIn
    <3> QED BY <3>1, <3>2, <3>3, <1>4
  <2>2. CASE i = Len(s) + 1
    <3>1. t[i] = a /\ i - 1 = Len(s)
      BY <2>2, <1>2, <1>3
    <3>2. InnermostIn(a.old, s, Len(s))
      BY <3>1
    <3>3. a.old \in 0..Len(s)
      BY <3>2 DEF InnermostIn
    <3> QED BY <3>1, <3>2, <3>3, <1>2, <1>4
  <2> QED BY <2>1, <2>2, <1>2, <1>3
<1>6. Chain(t)
  <2>1. IsSeq(t)
    BY <1>3 DEF IsSeq
  <2>2. t[1].kind = "host"
    BY <1>2, <1>3 DEF Chain
  <2>3. \A i \in 1..Len(t) : Shaped(t[i])
    BY <1>2, <1>3 DEF Chain
  <2> QED BY <2>1, <2>2, <2>3, <1>2, <1>3, <1>5 DEF Chain
<1>7. IsHandler(a) => InnermostIn(Len(s) + 1, t, Len(s) + 1)
  BY <1>2, <1>3 DEF InnermostIn
<1>8. \A h : InnermostIn(h, s, Len(s)) /\ ~IsHandler(a) => InnermostIn(h, t, Len(s) + 1)
  <2> SUFFICES ASSUME NEW h, InnermostIn(h, s, Len(s)), ~IsHandler(a)
               PROVE  InnermostIn(h, t, Len(s) + 1)
    OBVIOUS
  <2>1. h \in 0..Len(s) /\ (h > 0 => IsHandler(s[h]))
        /\ \A j \in 1..Len(s) : IsHandler(s[j]) => j <= h
    BY DEF InnermostIn
  <2>2. h > 0 => t[h] = s[h]
    BY <2>1, <1>2, <1>3
  <2>3. \A j \in 1..(Len(s) + 1) : IsHandler(t[j]) => j <= h
    BY <2>1, <1>2, <1>3
  <2> QED BY <2>1, <2>2, <2>3, <1>2 DEF InnermostIn
<1> QED BY <1>2, <1>3, <1>6, <1>7, <1>8

\* Changing the top activation without touching what makes it a handler.
LEMMA UpdateChain ==
    ASSUME NEW s, Chain(s), NEW b, Shaped(b), b.kind = s[Len(s)].kind,
           IsHandler(b) <=> IsHandler(s[Len(s)]),
           IsHandler(b) => b.old = s[Len(s)].old
    PROVE  LET t == [s EXCEPT ![Len(s)] = b]
           IN  /\ Chain(t) /\ Len(t) = Len(s) /\ Len(s) \in Nat
               /\ t[Len(s)] = b
               /\ \A i \in 1..Len(s) : IsHandler(t[i]) <=> IsHandler(s[i])
               /\ \A h : InnermostIn(h, s, Len(s)) => InnermostIn(h, t, Len(s))
<1> DEFINE t == [s EXCEPT ![Len(s)] = b]
<1>1. PICK S : s \in Seq(S)
  BY DEF Chain, IsSeq
<1>2. Len(s) \in Nat /\ Len(s) >= 1
  BY <1>1 DEF Chain
<1>3. t \in Seq(S \cup {b}) /\ Len(t) = Len(s) /\ t[Len(s)] = b
      /\ \A i \in 1..Len(s) : i # Len(s) => t[i] = s[i]
  <2>1. s \in Seq(S \cup {b})
    BY <1>1
  <2> QED BY <2>1, <1>2
<1>4. \A i \in 1..Len(s) :
        /\ IsHandler(t[i]) <=> IsHandler(s[i])
        /\ IsHandler(t[i]) => t[i].old = s[i].old
        /\ t[i].kind = s[i].kind /\ Shaped(t[i])
  BY <1>2, <1>3 DEF Chain
<1>5. \A h : \A m \in 0..Len(s) : InnermostIn(h, s, m) => InnermostIn(h, t, m)
  <2> SUFFICES ASSUME NEW h, NEW m \in 0..Len(s), InnermostIn(h, s, m)
               PROVE  InnermostIn(h, t, m)
    OBVIOUS
  <2>1. h \in 0..m /\ (h > 0 => IsHandler(s[h])) /\ \A j \in 1..m : IsHandler(s[j]) => j <= h
    BY DEF InnermostIn
  <2>2. h > 0 => IsHandler(t[h])
    BY <2>1, <1>2, <1>4
  <2>3. \A j \in 1..m : IsHandler(t[j]) => j <= h
    BY <2>1, <1>2, <1>4
  <2> QED BY <2>1, <2>2, <2>3 DEF InnermostIn
<1>6. \A i \in 1..Len(t) : IsHandler(t[i]) => InnermostIn(t[i].old, t, i - 1)
  <2> SUFFICES ASSUME NEW i \in 1..Len(s), IsHandler(t[i]) PROVE InnermostIn(t[i].old, t, i - 1)
    BY <1>3
  <2>1. InnermostIn(s[i].old, s, i - 1)
    BY <1>4 DEF Chain
  <2>2. i - 1 \in 0..Len(s) /\ t[i].old = s[i].old
    BY <1>2, <1>4
  <2> QED BY <2>1, <2>2, <1>5
<1>7. Chain(t)
  <2>1. IsSeq(t)
    BY <1>3 DEF IsSeq
  <2>2. t[1].kind = "host"
    BY <1>2, <1>4 DEF Chain
  <2> QED BY <2>1, <2>2, <1>2, <1>3, <1>4, <1>6 DEF Chain
<1>8. \A h : InnermostIn(h, s, Len(s)) => InnermostIn(h, t, Len(s))
  <2>1. Len(s) \in 0..Len(s)
    BY <1>2
  <2> HIDE DEF t
  <2> QED BY <1>5, <2>1
<1> QED BY <1>2, <1>3, <1>4, <1>7, <1>8

-----------------------------------------------------------------------------
(* Steps. *)

\* A step that leaves the C stack and vm->start alone.
LEMMA StillStep ==
    ASSUME HandlerInv, UNCHANGED <<native, start>>,
           \/ UNCHANGED <<mode, why>>
           \/ mode = "run" /\ why' # "callex"
    PROVE  HandlerInv'
BY DEF HandlerInv

\* Moving the top activation, a neko_interp, to another code point.
LEMMA UpdateTop ==
    ASSUME NEW s, Chain(s), s[Len(s)].kind = "interp", NEW c
    PROVE  LET t == [s EXCEPT ![Len(s)].act = c]
           IN  /\ Chain(t) /\ Len(t) = Len(s) /\ Len(s) \in Nat
               /\ \A i \in 1..Len(s) : IsHandler(t[i]) <=> IsHandler(s[i])
               /\ \A h : InnermostIn(h, s, Len(s)) => InnermostIn(h, t, Len(s))
<1> DEFINE a == s[Len(s)]
           b == [a EXCEPT !.act = c]
           t == [s EXCEPT ![Len(s)] = b]
<1>1. Len(s) \in 1..Len(s) /\ Shaped(a)
  BY ChainLength DEF Chain
<1>2. a = [kind |-> "interp", init |-> a.init, old |-> a.old, act |-> a.act,
            floor |-> a.floor]
  BY <1>1 DEF Shaped
<1>3. b = [kind |-> "interp", init |-> a.init, old |-> a.old, act |-> c, floor |-> a.floor]
  BY <1>2
<1>4. Shaped(b) /\ b.kind = "interp" /\ b.old = a.old
  BY <1>3 DEF Shaped
<1>5. IsHandler(b) /\ IsHandler(a)
  BY <1>4 DEF IsHandler
<1> HIDE DEF b
<1>6. /\ Chain(t) /\ Len(t) = Len(s) /\ Len(s) \in Nat
      /\ \A i \in 1..Len(s) : IsHandler(t[i]) <=> IsHandler(s[i])
      /\ \A h : InnermostIn(h, s, Len(s)) => InnermostIn(h, t, Len(s))
  BY <1>4, <1>5, UpdateChain
<1> QED BY <1>6 DEF b

\* A step of the bytecode of the top activation.
LEMMA CodeStep ==
    ASSUME HandlerInv, Ready, Top.kind = "interp", NEW c,
           native' = WithAct(c), UNCHANGED <<start, mode, why>>
    PROVE  HandlerInv'
<1>1. /\ Chain(native') /\ Len(native') = Len(native) /\ Len(native) \in Nat
      /\ \A i \in 1..Len(native) : IsHandler(native'[i]) <=> IsHandler(native[i])
      /\ \A h : InnermostIn(h, native, Len(native)) => InnermostIn(h, native', Len(native))
  BY UpdateTop DEF HandlerInv, Top, Last, WithAct
<1> QED BY <1>1 DEF HandlerInv

\* A step that pushes an activation without a handler.
LEMMA PushStep ==
    ASSUME HandlerInv, NEW s, Chain(s), InnermostIn(start, s, Len(s)),
           NEW a, Shaped(a), ~IsHandler(a), mode = "run",
           native' = Append(s, a), UNCHANGED <<start, mode, why>>
    PROVE  HandlerInv'
<1>1. /\ Chain(native') /\ Len(native') = Len(s) + 1
      /\ InnermostIn(start, native', Len(s) + 1)
  BY AppendChain
<1> QED BY <1>1 DEF HandlerInv, InnermostIn

\* A step that pushes an activation with a handler, which saves vm->start.
LEMMA PushHandlerStep ==
    ASSUME HandlerInv, NEW s, Chain(s), InnermostIn(start, s, Len(s)),
           NEW a, Shaped(a), IsHandler(a), a.old = start, mode = "run",
           native' = Append(s, a), start' = Len(s) + 1,
           why' # "callex"
    PROVE  HandlerInv'
<1>1. /\ Chain(native') /\ Len(native') = Len(s) + 1
      /\ InnermostIn(Len(s) + 1, native', Len(s) + 1)
  BY AppendChain
<1> QED BY <1>1 DEF HandlerInv, InnermostIn

\* Cutting the C stack at its n oldest activations, where h is innermost.
LEMMA CutStep ==
    ASSUME HandlerInv, NEW n \in 1..Len(native), native' = Prefix(native, n),
           InnermostIn(start', native, n),
           mode' = "run" => why' # "callex"
    PROVE  HandlerInv'
<1>1. n \in 0..n /\ start' \in 0..n
  BY DEF InnermostIn, HandlerInv, Chain, IsSeq
<1>2. Chain(native) /\ Chain(native') /\ Len(native') = n /\ InnermostIn(start', native', n)
  BY <1>1, PrefixChain DEF HandlerInv
<1> QED BY <1>1, <1>2 DEF HandlerInv, InnermostIn

-----------------------------------------------------------------------------
(* Each action. *)

USE DEF Quiet, stacks

LEMMA InitHandlerInv == Init => HandlerInv
<1> SUFFICES ASSUME Init PROVE HandlerInv
  OBVIOUS
<1> DEFINE at0 == [sp |-> 0, csp |-> <<>>, traps |-> <<>>, start |-> 0,
                   vthis |-> NoThis, env |-> NoEnv]
           host == [kind |-> "host", at |-> at0, floor |-> Mark(0, <<>>, <<>>)]
<1>1. native = <<host>> /\ start = 0 /\ why = "none"
  BY DEF Init
<1>2. Shaped(host) /\ host.kind = "host" /\ ~IsHandler(host)
  <2> HIDE DEF at0
  <2> QED BY DEF Shaped, IsHandler
<1> HIDE DEF host
<1>3. native \in Seq({host}) /\ Len(native) = 1 /\ native[1] = host
  BY <1>1
<1>4. Chain(native)
  BY <1>2, <1>3 DEF Chain, IsSeq
<1>5. InnermostIn(0, native, 1)
  BY <1>2, <1>3 DEF InnermostIn
<1> QED BY <1>1, <1>3, <1>4, <1>5 DEF HandlerInv

\* Facts every action of running code starts from.
LEMMA Running ==
    ASSUME HandlerInv, Ready
    PROVE  /\ Chain(native) /\ Len(native) \in 1..Len(native) /\ Len(native) \in Nat
           /\ Top = native[Len(native)] /\ Shaped(Top) /\ mode = "run" /\ why # "callex"
           /\ InnermostIn(start, native, Len(native))
<1>1. Chain(native) /\ Len(native) \in 1..Len(native) /\ Len(native) \in Nat
  BY ChainLength DEF HandlerInv
<1> QED BY <1>1 DEF HandlerInv, Ready, Top, Last, Chain

\* Instructions that neither call nor return change only the code point of the
\* top activation, or throw.
LEMMA OverflowStep == ASSUME HandlerInv, Ready, NEW n, Overflow(n) PROVE HandlerInv'
BY Running, StillStep DEF Overflow, Throw

LEMMA PlainStep ==
    ASSUME HandlerInv, Push \/ Pop \/ SetThis \/ Trap \/ EndTrap \/ RuntimeError
    PROVE  HandlerInv'
<1>1. CASE Push
  BY <1>1, CodeStep, OverflowStep DEF Push, InCode
<1>2. CASE Pop
  BY <1>2, CodeStep DEF Pop, InCode
<1>3. CASE SetThis
  BY <1>3, CodeStep DEF SetThis, InCode
<1>4. CASE Trap
  BY <1>4, CodeStep, OverflowStep DEF Trap, InCode
<1>5. CASE EndTrap
  BY <1>5, CodeStep, StillStep, Running DEF EndTrap, InCode, Throw
<1>6. CASE RuntimeError
  BY <1>6, OverflowStep, StillStep, Running DEF RuntimeError, InCode, Throw
<1> QED BY <1>1, <1>2, <1>3, <1>4, <1>5, <1>6

LEMMA DoCallStep ==
    ASSUME HandlerInv, InCode, UNCHANGED <<start, mode, why>>,
           NEW code, NEW frames, NEW s, NEW n, NEW t, NEW ct, NEW ce,
           DoCall(code, frames, s, n, t, ct, ce)
    PROVE  HandlerInv'
<1>1. PICK e \in Envs :
        \/ native' = WithAct(Code("fun", s - n, n, t, e))
        \/ native' = Append(WithAct(code),
                       Prim(n, Snapshot(s, Append(frames, Frame(code, ct, ce)), t, e)))
  BY DEF DoCall
<1>2. CASE native' = WithAct(Code("fun", s - n, n, t, e))
  BY <1>2, CodeStep DEF InCode
<1>3. CASE native' = Append(WithAct(code),
                       Prim(n, Snapshot(s, Append(frames, Frame(code, ct, ce)), t, e)))
  <2> DEFINE w == WithAct(code)
             at0 == Snapshot(s, Append(frames, Frame(code, ct, ce)), t, e)
  <2> HIDE DEF at0
  <2>1. Shaped(Prim(n, at0)) /\ ~IsHandler(Prim(n, at0))
    BY DEF Shaped, Prim, IsHandler
  <2>2. Chain(w) /\ InnermostIn(start, w, Len(w))
    <3>1. Chain(native) /\ native[Len(native)].kind = "interp"
          /\ InnermostIn(start, native, Len(native))
      BY Running DEF InCode
    <3> QED BY <3>1, UpdateTop DEF WithAct
  <2> QED BY <1>3, <2>1, <2>2, PushStep, Running DEF InCode, at0
<1> QED BY <1>1, <1>2, <1>3

LEMMA CallStep ==
    ASSUME HandlerInv, Call \/ ObjCall \/ TailCall \/ Ret
    PROVE  HandlerInv'
<1>1. CASE Call
  BY <1>1, DoCallStep, OverflowStep DEF Call, InCode
<1>2. CASE ObjCall
  BY <1>2, DoCallStep, StillStep, Running DEF ObjCall, InCode, Throw
<1>3. CASE TailCall
  BY <1>3, DoCallStep, StillStep DEF TailCall, Lost
<1>4. CASE Ret
  BY <1>4, CodeStep, StillStep DEF Ret, Lost, InCode
<1> QED BY <1>1, <1>2, <1>3, <1>4

\* val_callEx saves vm->start exactly when it installs its own handler.
LEMMA EnterStep ==
    ASSUME HandlerInv, Ready, NEW exc \in BOOLEAN, NEW t, EnterCallEx(exc, t)
    PROVE  HandlerInv'
<1> DEFINE rec == [kind |-> "callex", exc |-> exc, called |-> FALSE, old |-> start,
                   vthis |-> vthis, env |-> env, floor |-> Floor]
<1>1. /\ Chain(native) /\ mode = "run" /\ why # "callex"
      /\ InnermostIn(start, native, Len(native))
  BY Running
<1>2. Shaped(rec) /\ rec.old = start /\ (IsHandler(rec) <=> exc)
  BY DEF Shaped, IsHandler
<1>3. native' = Append(native, rec)
  BY DEF EnterCallEx
<1> HIDE DEF rec
<1>4. CASE exc
  <2>1. start' = Len(native) + 1 /\ why' # "callex"
    BY <1>1, <1>4 DEF EnterCallEx
  <2> QED BY <1>1, <1>2, <1>3, <1>4, <2>1, PushHandlerStep
<1>5. CASE ~exc
  <2>1. UNCHANGED <<start, mode, why>>
    BY <1>5 DEF EnterCallEx
  <2> QED BY <1>1, <1>2, <1>3, <1>5, <2>1, PushStep
<1> QED BY <1>4, <1>5

\* Marking the call of the top val_callEx as made.
LEMMA CalledChain ==
    ASSUME HandlerInv, Ready, Top.kind = "callex"
    PROVE  /\ Chain(Called) /\ Len(Called) = Len(native)
           /\ InnermostIn(start, Called, Len(Called))
<1> DEFINE a == native[Len(native)]
           b == [a EXCEPT !.called = TRUE]
           t == [native EXCEPT ![Len(native)] = b]
<1>1. /\ Chain(native) /\ Top = a /\ Shaped(a) /\ a.kind = "callex"
      /\ InnermostIn(start, native, Len(native))
  BY Running
<1>2. a \in [kind : {"callex"}, exc : BOOLEAN, called : BOOLEAN, old : {a.old},
             vthis : {a.vthis}, env : {a.env}, floor : {a.floor}]
  BY <1>1 DEF Shaped
<1>3. b \in [kind : {"callex"}, exc : BOOLEAN, called : BOOLEAN, old : {a.old},
             vthis : {a.vthis}, env : {a.env}, floor : {a.floor}]
  BY <1>2
<1>4. Shaped(b) /\ b.kind = "callex" /\ b.old = a.old /\ b.exc = a.exc
  BY <1>2, <1>3 DEF Shaped
<1>5. IsHandler(b) <=> IsHandler(a)
  BY <1>1, <1>4 DEF IsHandler
<1> HIDE DEF b
<1>6. Chain(t) /\ Len(t) = Len(native) /\ InnermostIn(start, t, Len(native))
  BY <1>1, <1>4, <1>5, UpdateChain
<1> QED BY <1>6 DEF Called, b

LEMMA DispatchStep ==
    ASSUME HandlerInv, CallExFails \/ CallExPrimitive \/ CallExFunction
    PROVE  HandlerInv'
<1>1. CASE CallExFails
  BY <1>1, StillStep, Running DEF CallExFails, Dispatching, Throw
<1>2. CASE CallExPrimitive
  <2>1. PICK e \in Envs : native' = Append(Called, Prim(0, Snapshot(sp, csp, vthis, e)))
    BY <1>2 DEF CallExPrimitive
  <2> DEFINE at0 == Snapshot(sp, csp, vthis, e)
  <2> HIDE DEF at0
  <2>2. Shaped(Prim(0, at0)) /\ ~IsHandler(Prim(0, at0))
    BY DEF Shaped, Prim, IsHandler
  <2>3. Ready /\ Top.kind = "callex" /\ UNCHANGED <<start, mode, why>>
    BY <1>2 DEF CallExPrimitive, Dispatching
  <2>4. native' = Append(Called, Prim(0, at0))
    BY <2>1 DEF at0
  <2> QED BY <2>2, <2>3, <2>4, CalledChain, PushStep, Running
<1>3. CASE CallExFunction
  <2>1. PICK n \in 0..CallbackArgs, e \in Envs :
          LET code == Code("fun", sp, n, vthis, e)
          IN  \/ /\ native' = Append(Called, Interp(sp + n, start, code))
                 /\ start' = Len(native) + 1 /\ UNCHANGED <<mode, why>>
              \/ /\ native' = native /\ Leave(Top)
                 /\ mode' = "throw" /\ why' = "callex"
    BY <1>3 DEF CallExFunction
  <2>2. Ready /\ Top.kind = "callex"
    BY <1>3 DEF CallExFunction, Dispatching
  <2>3. ASSUME NEW code, native' = Append(Called, Interp(sp + n, start, code)),
               start' = Len(native) + 1, UNCHANGED <<mode, why>>
        PROVE  HandlerInv'
    <3>1. /\ Shaped(Interp(sp + n, start, code)) /\ IsHandler(Interp(sp + n, start, code))
          /\ Interp(sp + n, start, code).old = start
      BY DEF Shaped, Interp, IsHandler
    <3> QED BY <2>2, <2>3, <3>1, CalledChain, PushHandlerStep, Running
  <2>4. ASSUME native' = native, Leave(Top), mode' = "throw", why' = "callex"
        PROVE  HandlerInv'
    <3>1. start' = start \/ (IsHandler(Top) /\ start' = Top.old)
      BY <2>4 DEF Leave
    <3>2. ASSUME IsHandler(Top)
          PROVE  /\ Top.old \in 0..Len(native)
                 /\ Top.old > 0 => IsHandler(native[Top.old])
      <4>1. Top = native[Len(native)] /\ InnermostIn(Top.old, native, Len(native) - 1)
            /\ Len(native) \in Nat
        BY <2>2, <3>2, Running DEF Chain
      <4> QED BY <4>1 DEF InnermostIn
    <3> QED BY <2>4, <3>1, <3>2 DEF HandlerInv
  <2> QED BY <2>1, <2>3, <2>4
<1> QED BY <1>1, <1>2, <1>3

\* What is innermost below the top: the handler it saved when it is one, the
\* present one when it is not.
LEMMA BelowTop ==
    ASSUME HandlerInv, Ready, Top.kind # "host"
    PROVE  /\ Len(native) - 1 \in 1..Len(native)
           /\ IsHandler(Top) => InnermostIn(Top.old, native, Len(native) - 1)
           /\ ~IsHandler(Top) => InnermostIn(start, native, Len(native) - 1)
<1>1. /\ Chain(native) /\ Len(native) \in 1..Len(native) /\ Len(native) \in Nat
      /\ Top = native[Len(native)] /\ InnermostIn(start, native, Len(native))
  BY Running
<1>2. Len(native) # 1
  BY <1>1 DEF Chain
<1>3. ~IsHandler(Top) => InnermostIn(start, native, Len(native) - 1)
  BY <1>1, <1>2 DEF InnermostIn
<1> QED BY <1>1, <1>2, <1>3 DEF Chain

\* Returning from the top activation to the one below it.
LEMMA ReturnStep ==
    ASSUME HandlerInv, Ready, Top.kind # "host", Leave(Top),
           native' = Front(native), UNCHANGED <<mode, why>>
    PROVE  HandlerInv'
<1>1. InnermostIn(start', native, Len(native) - 1)
  BY BelowTop DEF Leave
<1> QED BY <1>1, BelowTop, CutStep, Running DEF Front

LEMMA PrimStep ==
    ASSUME HandlerInv, PrimReturns \/ PrimThrows
    PROVE  HandlerInv'
<1>1. CASE PrimReturns
  <2>1. /\ Ready /\ Top.kind = "prim" /\ native' = Front(native)
        /\ UNCHANGED <<start, mode, why>>
    BY <1>1 DEF PrimReturns
  <2>2. Leave(Top)
    BY <2>1 DEF Leave, IsHandler
  <2> QED BY <2>1, <2>2, ReturnStep
<1>2. CASE PrimThrows
  BY <1>2, StillStep, Running DEF PrimThrows, Throw
<1> QED BY <1>1, <1>2

\* A val_callEx that an instruction made returns to it and pops an operand.
LEMMA CallExReturnsStep == ASSUME HandlerInv, CallExReturns PROVE HandlerInv'
<1> DEFINE below == Front(native)
           n == Len(native) - 1
<1>1. Ready /\ Top.kind = "callex" /\ Leave(Top) /\ UNCHANGED <<mode, why>>
  BY DEF CallExReturns
<1>2. \/ native' = below
      \/ /\ Last(below).kind = "interp"
         /\ native' = [below EXCEPT ![Len(below)].act.d = @ - 1]
  BY DEF CallExReturns
<1>3. CASE native' = below
  BY <1>1, <1>3, ReturnStep
<1>4. CASE /\ Last(below).kind = "interp"
           /\ native' = [below EXCEPT ![Len(below)].act.d = @ - 1]
  <2>1. n \in 1..Len(native) /\ InnermostIn(start', native, n) /\ Chain(native)
    BY <1>1, BelowTop, Running DEF Leave
  <2>2. n \in 0..n /\ start' \in 0..n
    BY <2>1 DEF InnermostIn
  <2>3. Chain(below) /\ Len(below) = n /\ InnermostIn(start', below, n)
    BY <2>1, <2>2, PrefixChain DEF Front
  <2> DEFINE c == [below[Len(below)].act EXCEPT !.d = @ - 1]
             t == [below EXCEPT ![Len(below)].act = c]
  <2>4. native' = t
    BY <1>4
  <2>5. below[Len(below)].kind = "interp"
    BY <1>4 DEF Last
  <2> HIDE DEF c, below
  <2>6. InnermostIn(start', below, Len(below)) /\ Len(below) = n
    BY <2>3
  <2>7. Chain(t) /\ Len(t) = Len(below) /\ InnermostIn(start', t, Len(below))
    BY <2>3, <2>5, <2>6, UpdateTop
  <2> QED BY <1>1, <2>4, <2>6, <2>7, Running DEF HandlerInv, InnermostIn
<1> QED BY <1>2, <1>3, <1>4

LEMMA ExecuteStep == ASSUME HandlerInv, Execute PROVE HandlerInv'
<1>1. PICK e \in Envs :
        native' = native \o
              << [kind |-> "execute", vthis |-> vthis, env |-> env, floor |-> Floor],
                 Interp(sp, start, Code("main", sp, 0, NoThis, e)) >>
  BY DEF Execute
<1>2. Ready /\ start' = Len(native) + 2 /\ UNCHANGED <<mode, why>>
  BY DEF Execute, InC
<1> DEFINE x == [kind |-> "execute", vthis |-> vthis, env |-> env, floor |-> Floor]
           c == Code("main", sp, 0, NoThis, e)
           y == Interp(sp, start, c)
           s == Append(native, x)
<1> HIDE DEF c
<1>3. Shaped(x) /\ ~IsHandler(x)
  BY DEF Shaped, IsHandler
<1>4. Shaped(y) /\ IsHandler(y) /\ y.old = start
  BY DEF Shaped, IsHandler, Interp
<1> HIDE DEF x, y
<1>5. Chain(native) /\ InnermostIn(start, native, Len(native)) /\ why # "callex" /\ mode = "run"
      /\ Len(native) \in Nat
  BY <1>2, Running
<1>6. Chain(s) /\ Len(s) = Len(native) + 1 /\ InnermostIn(start, s, Len(s))
  BY <1>3, <1>5, AppendChain
<1>7. native' = Append(s, y)
  <2>1. PICK S : native \in Seq(S)
    BY <1>5 DEF Chain, IsSeq
  <2>2. native \in Seq(S \cup {x, y})
    BY <2>1
  <2>3. native' = native \o <<x, y>>
    BY <1>1 DEF x, y, c
  <2> QED BY <2>2, <2>3
<1>8. start' = Len(s) + 1
  BY <1>2, <1>5, <1>6
<1> QED BY <1>2, <1>4, <1>5, <1>6, <1>7, <1>8, PushHandlerStep

LEMMA ReturnFromInterpStep == ASSUME HandlerInv, ReturnFromInterp PROVE HandlerInv'
<1> DEFINE below == Front(native)
           n == Len(native) - 1
<1>1. Ready /\ Top.kind = "interp" /\ Leave(Top) /\ UNCHANGED <<mode, why>>
  BY DEF ReturnFromInterp
<1>2. \/ native' = below
      \/ Last(below).kind = "execute" /\ native' = Front(below)
  BY DEF ReturnFromInterp
<1>3. CASE native' = below
  BY <1>1, <1>3, ReturnStep
<1>4. CASE Last(below).kind = "execute" /\ native' = Front(below)
  <2>1. /\ n \in 1..Len(native) /\ InnermostIn(start', native, n) /\ Chain(native)
        /\ mode = "run" /\ why # "callex" /\ Len(native) \in Nat
    BY <1>1, BelowTop, Running DEF Leave
  <2>2. n \in 0..n /\ start' \in 0..n
    BY <2>1 DEF InnermostIn
  <2>3. Chain(below) /\ Len(below) = n /\ InnermostIn(start', below, n)
    BY <2>1, <2>2, PrefixChain DEF Front
  <2> HIDE DEF below
  <2>4. below[n].kind = "execute" /\ n # 1
    BY <1>4, <2>3 DEF Last, Chain
  <2>5. n - 1 \in 1..n /\ InnermostIn(start', below, n - 1)
    BY <2>1, <2>3, <2>4 DEF InnermostIn, IsHandler
  <2>6. start' \in 0..(n - 1) /\ n - 1 \in 0..(n - 1)
    BY <2>5, <2>1 DEF InnermostIn
  <2>7. Chain(native') /\ Len(native') = n - 1 /\ InnermostIn(start', native', n - 1)
    BY <1>4, <2>3, <2>5, <2>6, PrefixChain DEF Front
  <2> QED BY <1>1, <2>1, <2>7 DEF HandlerInv, InnermostIn
<1> QED BY <1>2, <1>3, <1>4

\* A landing finds a live handler, and below it what the handler saved.
LEMMA LandingPoint ==
    ASSUME HandlerInv, Landing
    PROVE  /\ start \in 1..Len(native) /\ start - 1 \in 1..Len(native) /\ start \in Nat
           /\ IsHandler(native[start])
           /\ InnermostIn(native[start].old, native, start - 1)
           /\ InnermostIn(start, native, start)
<1>1. Chain(native) /\ Len(native) \in Nat
  BY ChainLength DEF HandlerInv
<1>2. start \in 1..Len(native) /\ IsHandler(native[start])
  BY <1>1 DEF HandlerInv, Landing
<1>3. start # 1
  BY <1>1, <1>2 DEF Chain, IsHandler
<1>4. InnermostIn(start, native, start)
  BY <1>1, <1>2 DEF InnermostIn
<1> QED BY <1>1, <1>2, <1>3, <1>4 DEF Chain

LEMMA LandStep == ASSUME HandlerInv, Land PROVE HandlerInv'
<1> DEFINE a == native[start]
<1>1. Landing
  BY DEF Land, LandInInterp, LandInCallEx
<1>2. ASSUME LeaveByJump(a), mode' = "run" => why' # "callex" PROVE HandlerInv'
  BY <1>1, <1>2, LandingPoint, CutStep DEF LeaveByJump, Leave
<1>3. CASE LandInCallEx
  BY <1>2, <1>3 DEF LandInCallEx
<1>4. CASE LandInInterp
  <2>1. \/ LeaveByJump(a) /\ mode' = mode
        \/ UNCHANGED <<native, start, mode, why>>
        \/ /\ native' = [Prefix(native, start) EXCEPT ![start].act = Last(traps).act]
           /\ start' = start /\ mode' = "run" /\ why' = "none"
    BY <1>4 DEF LandInInterp, Older, Reraise
  <2>2. CASE LeaveByJump(a) /\ mode' = mode
    BY <1>1, <1>2, <2>2 DEF Landing
  <2>3. CASE UNCHANGED <<native, start, mode, why>>
    BY <2>3, StillStep
  <2>4. CASE /\ native' = [Prefix(native, start) EXCEPT ![start].act = Last(traps).act]
             /\ start' = start /\ mode' = "run" /\ why' = "none"
    <3> DEFINE s == Prefix(native, start)
    <3>1. Chain(native) /\ start \in 0..start
      BY <1>1, LandingPoint DEF HandlerInv
    <3>2. /\ Chain(s) /\ Len(s) = start /\ s[start] = native[start]
          /\ InnermostIn(start, s, start)
      BY <1>1, <3>1, LandingPoint, PrefixChain
    <3>3. s[Len(s)].kind = "interp"
      BY <1>4, <3>2 DEF LandInInterp, Older
    <3> HIDE DEF s
    <3> DEFINE c == Last(traps).act
               t == [s EXCEPT ![Len(s)].act = c]
    <3> HIDE DEF c
    <3>4. InnermostIn(start, s, Len(s))
      BY <3>2
    <3>5. Chain(t) /\ Len(t) = Len(s) /\ InnermostIn(start, t, Len(s))
      BY <3>2, <3>3, <3>4, UpdateTop
    <3>6. native' = t
      BY <2>4, <3>2 DEF s, c
    <3> QED BY <2>4, <3>2, <3>5, <3>6 DEF HandlerInv, InnermostIn
  <2> QED BY <2>1, <2>2, <2>3, <2>4
<1> QED BY <1>3, <1>4 DEF Land

LEMMA HandlerInvStep == ASSUME HandlerInv, [Next]_vars PROVE HandlerInv'
<1>1. CASE Bytecode
  <2>1. CASE OperatorCall
    BY <2>1, EnterStep DEF OperatorCall, InCode
  <2> QED BY <1>1, <2>1, PlainStep, CallStep DEF Bytecode
<1>2. CASE CCode
  <2>1. CASE CallEx
    BY <2>1, EnterStep DEF CallEx, InC
  <2> QED BY <1>2, <2>1, DispatchStep, CallExReturnsStep, ExecuteStep,
             ReturnFromInterpStep, PrimStep DEF CCode
<1>3. CASE Land
  BY <1>3, LandStep
<1>4. CASE UNCHANGED vars
  BY <1>4, StillStep DEF vars
<1> QED BY <1>1, <1>2, <1>3, <1>4 DEF Next, Undefined

\* HandlerInv says that start is innermost; Innermost chooses that activation.
LEMMA HandlerInvImplies == HandlerInv => StartIsInnermost
<1> SUFFICES ASSUME HandlerInv, why # "callex" PROVE start = Innermost
  BY DEF StartIsInnermost
<1> DEFINE H == {i \in DOMAIN native : IsHandler(native[i])}
<1>1. InnermostIn(start, native, Len(native)) /\ Len(native) \in Nat
      /\ DOMAIN native = 1..Len(native)
  <2>1. PICK S : native \in Seq(S)
    BY DEF HandlerInv, Chain, IsSeq
  <2> QED BY <2>1 DEF HandlerInv
<1>2. CASE start = 0
  <2>1. H = {}
    BY <1>1, <1>2 DEF InnermostIn
  <2> QED BY <1>2, <2>1 DEF Innermost
<1>3. CASE start > 0
  <2>1. start \in H /\ \A j \in H : j <= start
    BY <1>1, <1>3 DEF InnermostIn
  <2>2. \A i \in H : (\A j \in H : j <= i) => i = start
    BY <1>1, <2>1
  <2> HIDE DEF H
  <2>3. (CHOOSE i \in H : \A j \in H : j <= i) = start
    BY <2>1, <2>2
  <2>4. H # {}
    BY <2>1
  <2> QED BY <2>3, <2>4 DEF Innermost, H
<1> QED BY <1>1, <1>2, <1>3 DEF InnermostIn

\* In every execution, whatever the sizes and the program, vm->start names the
\* innermost live handler, so that no throw skips a handler or jumps to a C
\* function that has returned (the "Stack Overflow" of val_callEx excepted).
THEOREM HandlersAreInnermost == Spec => []StartIsInnermost
<1>1. Init => HandlerInv
  BY InitHandlerInv
<1>2. HandlerInv /\ [Next]_vars => HandlerInv'
  BY HandlerInvStep
<1>3. HandlerInv => StartIsInnermost
  BY HandlerInvImplies
<1> QED BY <1>1, <1>2, <1>3, PTL DEF Spec

HIDE DEF Quiet, stacks

-----------------------------------------------------------------------------
(***************************************************************************)
(* What a virtual machine looks like between two steps.  The definitions   *)
(* take its parts as arguments - N the activations, F the frames, T the    *)
(* traps, h the height of the data stack, u the last activation whose      *)
(* trap is set up - so that the changes an action makes one after the      *)
(* other can be reasoned about one at a time.                              *)
(***************************************************************************)
Height(c) == c.base + c.d

\* The code has its arguments, and its open traps are above them.
KeepsArgs(c) ==
    /\ c.args \in Nat /\ c.args <= c.d
    /\ \A k \in 1..Len(c.open) : c.args <= c.open[k]

\* A code point: its open traps lie one above the other in its slots.
CodePoint(c) ==
    /\ c = [where |-> c.where, base |-> c.base, args |-> c.args, d |-> c.d, open |-> c.open,
            vthis |-> c.vthis, env |-> c.env]
    /\ KeepsArgs(c)
    /\ c.where \in {"fun", "main", "callback"}
    /\ c.base \in Nat /\ c.d \in Nat /\ c.open \in Seq(Nat)
    /\ \A k \in 1..Len(c.open) :
         c.open[k] + TrapSlots <= IF k < Len(c.open) THEN c.open[k + 1] ELSE c.d

\* c runs in activation a on q frames, the last of which it returns through.
Stands(c, q, a, F) ==
    IF c.where = "fun"
      THEN q > a.floor.csp /\ Height(F[q].act) = c.base
      ELSE /\ q = a.floor.csp /\ c.base = a.floor.sp
           /\ c.where = "callback" => c.d = 0 /\ c.open = <<>>

\* Of the traps T those in the slots of c, which runs in activation i, are its
\* open ones.
Placed(c, i, T) ==
    \E q \in Nat :
        /\ q + Len(c.open) <= Len(T)
        /\ \A k \in 1..Len(c.open) :
             T[q + k].pos = c.base + c.open[k] + TrapSlots /\ T[q + k].owner = i
        /\ \A k \in 1..q : T[k].pos <= c.base
        /\ \A k \in (q + Len(c.open) + 1)..Len(T) : T[k].pos > Height(c)

\* A frame saves the vthis and env of the code it returns to.
FrameShaped(f) ==
    f = [act |-> f.act, vthis |-> f.act.vthis, env |-> f.act.env, live |-> f.live]

FramesFit(F, h) ==
    /\ IsSeq(F) /\ h \in Nat
    /\ \A j \in 1..Len(F) :
         /\ FrameShaped(F[j])
         /\ CodePoint(F[j].act) /\ Height(F[j].act) <= h
    /\ \A j, k \in 1..Len(F) : j <= k => Height(F[j].act) <= Height(F[k].act)

TrapsFit(F, T, h) ==
    /\ IsSeq(T)
    /\ \A k \in 1..Len(T) :
         /\ T[k].pos \in Nat /\ T[k].csp \in Nat
         /\ TrapSlots <= T[k].pos /\ T[k].pos <= h /\ T[k].csp <= Len(F)
         /\ \A j \in 1..T[k].csp : Height(F[j].act) + TrapSlots <= T[k].pos
    /\ \A k, l \in 1..Len(T) : k < l =>
         T[k].pos + TrapSlots <= T[l].pos /\ T[k].csp <= T[l].csp /\ T[k].owner <= T[l].owner

\* What was there when activation i was entered is below what came later.
Below(f, i, F, T, h) ==
    /\ f = [sp |-> f.sp, csp |-> f.csp, traps |-> f.traps]
    /\ f.sp \in Nat /\ f.csp \in Nat /\ f.traps \in Nat
    /\ f.sp <= h /\ f.csp <= Len(F) /\ f.traps <= Len(T)
    /\ \A j \in 1..Len(F) :
         IF j <= f.csp THEN Height(F[j].act) <= f.sp ELSE f.sp <= Height(F[j].act)
    /\ \A k \in 1..Len(T) :
         IF k <= f.traps
           THEN T[k].owner < i /\ T[k].pos <= f.sp /\ T[k].csp <= f.csp
           ELSE T[k].owner >= i /\ f.sp + TrapSlots <= T[k].pos /\ f.csp <= T[k].csp

Floors(N, F, T, h) ==
    /\ \A i \in 1..Len(N) : Below(N[i].floor, i, F, T, h)
    /\ \A i, j \in 1..Len(N) : i <= j =>
         N[i].floor.sp <= N[j].floor.sp /\ N[i].floor.csp <= N[j].floor.csp

\* A frame but for its erased slots.
Bare(f) == [f EXCEPT !.live = FrameSlots]

Snapped(s) ==
    s = [sp |-> s.sp, csp |-> s.csp, traps |-> s.traps, start |-> s.start,
         vthis |-> s.vthis, env |-> s.env]

\* What an activation of C code finds again when its callbacks are done.
Kept(a, i, N, F, T) ==
    /\ Snapped(a.at)
    /\ IsSeq(a.at.csp) /\ IsSeq(a.at.traps)
    /\ a.floor = Mark(a.at.sp, a.at.csp, a.at.traps)
    /\ \A j \in 1..a.floor.csp : Bare(F[j]) = Bare(a.at.csp[j])
    /\ \A k \in 1..a.floor.traps : T[k] = a.at.traps[k]
    /\ InnermostIn(a.at.start, N, i)

\* The marks of an activation that val_callEx a makes.
Entered(a) == [sp |-> a.floor.sp + (IF a.exc THEN TrapSlots ELSE 0), csp |-> a.floor.csp,
               traps |-> a.floor.traps + (IF a.exc THEN 1 ELSE 0)]

\* Activation i has made activation i + 1 and waits for it.
Waits(a, b, i, F, T) ==
    \/ /\ a.kind \in {"host", "prim"} /\ b.kind \in {"callex", "execute"}
       /\ b.floor = a.floor /\ b.vthis = a.at.vthis /\ b.env = a.at.env
    \/ /\ a.kind = "callex" /\ b.kind \in {"prim", "interp"} /\ a.called
       /\ b.floor = Entered(a)
       /\ b.kind = "prim" => b.args = 0
    \/ a.kind = "execute" /\ b.kind = "interp" /\ b.floor = a.floor
    \/ /\ a.kind = "interp" /\ b.kind = "prim"
       /\ b.args \in Nat /\ b.floor.sp = Height(a.act) + b.args
       /\ a.floor.csp < b.floor.csp /\ F[b.floor.csp].act = a.act
       /\ \A k \in 1..b.floor.traps : T[k].pos <= Height(a.act)
    \/ /\ a.kind = "interp" /\ b.kind = "callex" /\ ~b.exc
       /\ b.floor.sp = Height(a.act) /\ b.vthis = a.act.vthis /\ b.env = a.act.env
       /\ CodePoint(a.act) /\ CodePoint([a.act EXCEPT !.d = @ - 1]) /\ a.act.d > 0
       /\ Stands(a.act, b.floor.csp, a, F) /\ Placed(a.act, i, T)

\* The frames above the floor of a neko_interp return to its own code.
Own(i, n, N, F, T) ==
    /\ N[i].init \in Nat /\ N[i].floor.sp <= N[i].init
    /\ N[i].init <= N[i].floor.sp + CallbackArgs
    /\ \A j \in (N[i].floor.csp + 1)..n :
         Stands(F[j].act, j - 1, N[i], F) /\ Placed(F[j].act, i, T)

FramesOf(i, N, F) == IF i = Len(N) THEN Len(F) ELSE N[i + 1].floor.csp

\* A trap belongs to a handler and leads back into it.
Leads(t, k, N, F, T) ==
    /\ t.owner \in 1..Len(N) /\ IsHandler(N[t.owner])
    /\ LET a == N[t.owner]
       IN  \/ /\ a.kind = "callex" /\ k = a.floor.traps + 1
              /\ t.pos = a.floor.sp + TrapSlots /\ t.csp = a.floor.csp
           \/ /\ a.kind = "interp" /\ a.init < t.pos /\ t.csp <= FramesOf(t.owner, N, F)
              /\ CodePoint(t.act) /\ t.vthis = t.act.vthis /\ t.env = t.act.env
              /\ t.act.where # "callback" /\ Height(t.act) + TrapSlots = t.pos
              /\ Stands(t.act, t.csp, a, F) /\ Placed(t.act, t.owner, T)

Armed(a, i, T) == a.floor.traps < Len(T) /\ T[a.floor.traps + 1].owner = i

KeptAll(N, F, T) ==
    \A i \in 1..Len(N) : N[i].kind \in {"host", "prim"} => Kept(N[i], i, N, F, T)

WaitsAll(N, F, T) == \A i \in 1..(Len(N) - 1) : Waits(N[i], N[i + 1], i, F, T)

OwnAll(N, F, T) ==
    \A i \in 1..Len(N) : N[i].kind = "interp" => Own(i, FramesOf(i, N, F), N, F, T)

LeadsAll(N, F, T, u) == \A k \in 1..Len(T) : Leads(T[k], k, N, F, T) /\ T[k].owner <= u

CallsBack(a) == a.kind = "callex" /\ a.exc

ArmedAll(N, T, u) == \A i \in 1..u : CallsBack(N[i]) => Armed(N[i], i, T)

Machine(N, F, T, h, u) ==
    /\ FramesFit(F, h) /\ TrapsFit(F, T, h) /\ Floors(N, F, T, h)
    /\ KeptAll(N, F, T) /\ WaitsAll(N, F, T) /\ OwnAll(N, F, T)
    /\ LeadsAll(N, F, T, u) /\ ArmedAll(N, T, u) /\ u \in 0..Len(N)

\* val_callEx names itself in vm->start before its trap is set up.
LastArmed == IF why = "setup_trap" THEN start - 1 ELSE start

\* The activation in control finds both stacks as it left them.
InControl(a) ==
    \/ /\ a.kind = "interp" /\ CodePoint(a.act) /\ sp = Height(a.act)
       /\ Stands(a.act, Len(csp), a, csp) /\ Placed(a.act, Len(native), traps)
       /\ vthis = a.act.vthis /\ env = a.act.env
    \/ a.kind = "callex" /\ Floor = Entered(a)
    \/ a.kind \in {"host", "prim"} /\ Floor = a.floor /\ vthis = a.at.vthis /\ env = a.at.env

Healthy ==
    /\ Machine(native, csp, traps, sp, LastArmed)
    /\ mode \in {"run", "throw"}
    /\ mode = "run" => InControl(Top) /\ Used <= size /\ why = "none"
    /\ why = "setup_trap" => mode = "throw" /\ start = Len(native) /\ Top.kind = "callex" /\ Top.exc
                              /\ Len(traps) = Top.floor.traps

Bounds == size \in Nat /\ InitSize <= size /\ Used <= size + TrapSlots

VMInv ==
    /\ HandlerInv
    /\ Bounds
    /\ TrapsNest
    /\ damage = "none" => Healthy

\* C code passes a function too few arguments to fill the slots of a trap.
FewArguments == CallbackArgs < TrapSlots

-----------------------------------------------------------------------------
(* Sequences that grow by one element or lose their end. *)

Extended(s, x, t) ==
    /\ IsSeq(t) /\ Len(t) = Len(s) + 1 /\ t[Len(s) + 1] = x
    /\ \A k \in 1..Len(s) : t[k] = s[k]

CutTo(s, n, t) ==
    IsSeq(t) /\ n \in 0..Len(s) /\ Len(t) = n /\ \A k \in 1..n : t[k] = s[k]

LEMMA SeqLen == ASSUME NEW s, IsSeq(s) PROVE Len(s) \in Nat /\ DOMAIN s = 1..Len(s)
BY DEF IsSeq

LEMMA AppendExtends == ASSUME NEW s, IsSeq(s), NEW x PROVE Extended(s, x, Append(s, x))
<1>1. PICK S : s \in Seq(S)
  BY DEF IsSeq
<1>2. s \in Seq(S \cup {x})
  BY <1>1
<1>3. Append(s, x) \in Seq(S \cup {x})
  BY <1>2
<1> QED BY <1>2, <1>3 DEF IsSeq, Extended

LEMMA PrefixCuts ==
    ASSUME NEW s, IsSeq(s), NEW n \in 0..Len(s) PROVE CutTo(s, n, Prefix(s, n))
<1>1. PICK S : s \in Seq(S)
  BY DEF IsSeq
<1>2. n \in Nat /\ Len(s) \in Nat /\ n <= Len(s)
  BY <1>1
<1>3. Prefix(s, n) \in Seq(S) /\ Len(Prefix(s, n)) = n /\ \A k \in 1..n : Prefix(s, n)[k] = s[k]
  BY <1>1, <1>2 DEF Prefix
<1> QED BY <1>3 DEF CutTo, IsSeq

LEMMA FrontCuts ==
    ASSUME NEW s, IsSeq(s), s # <<>> PROVE CutTo(s, Len(s) - 1, Front(s)) /\ Len(s) >= 1
<1>1. PICK S : s \in Seq(S)
  BY DEF IsSeq
<1>2. Len(s) \in Nat /\ Len(s) # 0
  BY <1>1
<1>3. Len(s) - 1 \in 0..Len(s)
  BY <1>2
<1> QED BY <1>2, <1>3, PrefixCuts DEF Front

LEMMA NonemptySeq == ASSUME NEW s, IsSeq(s), Len(s) >= 1 PROVE s # <<>>
OBVIOUS

\* Sequences that agree up to n agree up to any m below it.
LEMMA AgreeBelow ==
    ASSUME NEW n \in Nat, NEW m \in Nat, m <= n, NEW s, NEW t, \A k \in 1..n : t[k] = s[k]
    PROVE  \A k \in 1..m : t[k] = s[k]
<1> TAKE k \in 1..m
<1>1. k \in 1..n
  OBVIOUS
<1> QED BY <1>1

LEMMA RoomForTrap ==
    ASSUME NEW x \in Nat, NEW y \in Nat, x <= y PROVE x + TrapSlots <= y + TrapSlots
BY DEF TrapSlots

LEMMA BelowTrap ==
    ASSUME NEW x \in Nat, NEW y \in Nat, x + TrapSlots <= y PROVE x < y
BY DEF TrapSlots

LEMMA SlotInside == ASSUME NEW x \in Nat, NEW y \in Nat, x < y PROVE x + 1 \in 1..y
OBVIOUS

LEMMA InnermostAlike ==
    ASSUME NEW N, NEW M, NEW i \in Nat, NEW h, InnermostIn(h, N, i),
           \A j \in 1..i : IsHandler(N[j]) <=> IsHandler(M[j])
    PROVE  InnermostIn(h, M, i)
BY DEF InnermostIn

LEMMA InnermostUnique ==
    ASSUME NEW N, NEW i \in Nat, NEW h, NEW g, InnermostIn(h, N, i), InnermostIn(g, N, i)
    PROVE  h = g
BY DEF InnermostIn

-----------------------------------------------------------------------------
(* A code point and the traps in its slots. *)

\* The slots of a code point, and the innermost of its open traps.
LEMMA CodeSlots ==
    ASSUME NEW c, CodePoint(c)
    PROVE  /\ c.base \in Nat /\ c.d \in Nat /\ Len(c.open) \in Nat /\ Height(c) = c.base + c.d
           /\ \A k \in 1..Len(c.open) : c.open[k] \in Nat
           /\ Len(c.open) > 0 => c.open[Len(c.open)] + TrapSlots <= c.d
           /\ \A k \in 1..Len(c.open) : k < Len(c.open) => c.open[k] + TrapSlots <= c.open[k + 1]
<1>1. c.base \in Nat /\ c.d \in Nat /\ c.open \in Seq(Nat)
  BY DEF CodePoint
<1>2. Len(c.open) \in Nat /\ \A k \in 1..Len(c.open) : c.open[k] \in Nat
  BY <1>1
<1>3. ASSUME Len(c.open) > 0 PROVE c.open[Len(c.open)] + TrapSlots <= c.d
  <2>1. Len(c.open) \in 1..Len(c.open) /\ ~(Len(c.open) < Len(c.open))
    BY <1>2, <1>3
  <2> QED BY <2>1 DEF CodePoint
<1>4. \A k \in 1..Len(c.open) : k < Len(c.open) => c.open[k] + TrapSlots <= c.open[k + 1]
  BY DEF CodePoint
<1> QED BY <1>1, <1>2, <1>3, <1>4 DEF Height

LEMMA PlacedExtends ==
    ASSUME NEW c, CodePoint(c), NEW i, NEW T, IsSeq(T), NEW t, NEW U, Extended(T, t, U),
           Placed(c, i, T), t.pos > Height(c)
    PROVE  Placed(c, i, U)
<1>1. Len(T) \in Nat /\ Len(c.open) \in Nat
  BY SeqLen, CodeSlots
<1>2. PICK q \in Nat :
        /\ q + Len(c.open) <= Len(T)
        /\ \A k \in 1..Len(c.open) :
             T[q + k].pos = c.base + c.open[k] + TrapSlots /\ T[q + k].owner = i
        /\ \A k \in 1..q : T[k].pos <= c.base
        /\ \A k \in (q + Len(c.open) + 1)..Len(T) : T[k].pos > Height(c)
  BY DEF Placed
<1>3. Len(U) = Len(T) + 1 /\ U[Len(T) + 1] = t /\ \A k \in 1..Len(T) : U[k] = T[k]
  BY DEF Extended
<1>4. \A k \in 1..Len(c.open) :
        U[q + k].pos = c.base + c.open[k] + TrapSlots /\ U[q + k].owner = i
  <2> TAKE k \in 1..Len(c.open)
  <2>1. q + k \in 1..Len(T)
    BY <1>1, <1>2
  <2> QED BY <2>1, <1>2, <1>3
<1>5. \A k \in 1..q : U[k].pos <= c.base
  BY <1>1, <1>2, <1>3
<1>6. \A k \in (q + Len(c.open) + 1)..Len(U) : U[k].pos > Height(c)
  BY <1>1, <1>2, <1>3
<1>7. q + Len(c.open) <= Len(U)
  BY <1>1, <1>2, <1>3
<1> QED BY <1>4, <1>5, <1>6, <1>7 DEF Placed

LEMMA PlacedCut ==
    ASSUME NEW c, CodePoint(c), NEW i, NEW T, IsSeq(T), NEW U, CutTo(T, Len(T) - 1, U),
           Placed(c, i, T), T[Len(T)].pos > Height(c), T[Len(T)].pos \in Nat
    PROVE  Placed(c, i, U)
<1>1. /\ Len(T) \in Nat /\ Len(c.open) \in Nat /\ c.base \in Nat /\ c.d \in Nat
      /\ Height(c) = c.base + c.d /\ \A k \in 1..Len(c.open) : c.open[k] \in Nat
      /\ Len(c.open) > 0 => c.open[Len(c.open)] + TrapSlots <= c.d
  BY SeqLen, CodeSlots
<1>2. PICK q \in Nat :
        /\ q + Len(c.open) <= Len(T)
        /\ \A k \in 1..Len(c.open) :
             T[q + k].pos = c.base + c.open[k] + TrapSlots /\ T[q + k].owner = i
        /\ \A k \in 1..q : T[k].pos <= c.base
        /\ \A k \in (q + Len(c.open) + 1)..Len(T) : T[k].pos > Height(c)
  BY DEF Placed
<1>3. Len(U) = Len(T) - 1 /\ Len(T) >= 1 /\ \A k \in 1..Len(U) : U[k] = T[k]
  BY <1>1 DEF CutTo
<1>4. q + Len(c.open) # Len(T)
  <2>1. CASE Len(c.open) = 0
    BY <1>1, <1>2, <1>3, <2>1
  <2>2. CASE Len(c.open) > 0
    <3>1. Len(c.open) \in 1..Len(c.open)
      BY <1>1, <2>2
    <3>2. T[q + Len(c.open)].pos = c.base + c.open[Len(c.open)] + TrapSlots
      BY <1>2, <3>1
    <3>3. c.open[Len(c.open)] \in Nat /\ TrapSlots \in Nat
      BY <1>1, <3>1 DEF TrapSlots
    <3>4. T[q + Len(c.open)].pos <= Height(c)
      BY <1>1, <2>2, <3>2, <3>3
    <3>5. SUFFICES ASSUME q + Len(c.open) = Len(T) PROVE FALSE
      OBVIOUS
    <3>6. T[Len(T)].pos <= Height(c) /\ T[Len(T)].pos > Height(c) /\ Height(c) \in Nat
      BY <1>1, <3>4, <3>5
    <3> QED BY <3>6
  <2> QED BY <1>1, <2>1, <2>2
<1>5. \A k \in 1..Len(c.open) :
        U[q + k].pos = c.base + c.open[k] + TrapSlots /\ U[q + k].owner = i
  <2> TAKE k \in 1..Len(c.open)
  <2>1. q + k \in 1..Len(U)
    BY <1>1, <1>2, <1>3, <1>4
  <2>2. U[q + k] = T[q + k]
    BY <2>1, <1>3
  <2> QED BY <2>2, <1>2
<1>6. \A k \in 1..q : U[k].pos <= c.base
  <2> TAKE k \in 1..q
  <2>1. k \in 1..Len(U)
    BY <1>1, <1>2, <1>3, <1>4
  <2>2. U[k] = T[k]
    BY <2>1, <1>3
  <2> QED BY <2>2, <1>2
<1>7. \A k \in (q + Len(c.open) + 1)..Len(U) : U[k].pos > Height(c)
  BY <1>1, <1>2, <1>3
<1>8. q + Len(c.open) <= Len(U)
  BY <1>1, <1>2, <1>3, <1>4
<1> QED BY <1>5, <1>6, <1>7, <1>8 DEF Placed

-----------------------------------------------------------------------------
(* What each part of the invariant reads: it carries over to activations M, *)
(* frames G and traps U that agree with N, F and T there.                   *)

Similar(a, b) ==
    /\ b.kind = a.kind /\ b.floor = a.floor /\ (IsHandler(b) <=> IsHandler(a))
    /\ a.kind = "interp" => b.init = a.init

LEMMA KeptSame ==
    ASSUME NEW a, NEW i \in Nat, NEW N, NEW F, NEW T, Kept(a, i, N, F, T), NEW M, NEW G, NEW U,
           \A j \in 1..a.floor.csp : Bare(G[j]) = Bare(F[j]),
           \A k \in 1..a.floor.traps : U[k] = T[k],
           \A j \in 1..i : IsHandler(N[j]) <=> IsHandler(M[j])
    PROVE  Kept(a, i, M, G, U)
<1>1. InnermostIn(a.at.start, N, i)
  BY DEF Kept
<1>2. InnermostIn(a.at.start, M, i)
  BY <1>1, InnermostAlike
<1> QED BY <1>2 DEF Kept

LEMMA WaitsSame ==
    ASSUME NEW a, NEW b, NEW i, NEW F, NEW T, Waits(a, b, i, F, T), NEW G, NEW U,
           G[b.floor.csp].act = F[b.floor.csp].act,
           \A k \in 1..b.floor.traps : U[k] = T[k],
           a.kind = "interp" /\ b.kind = "callex" /\ Placed(a.act, i, T) => Placed(a.act, i, U)
    PROVE  Waits(a, b, i, G, U)
<1>1. CASE a.kind \in {"host", "prim", "callex", "execute"}
  BY <1>1 DEF Waits
<1>2. CASE a.kind = "interp" /\ b.kind = "prim"
  BY <1>2 DEF Waits
<1>3. CASE a.kind = "interp" /\ b.kind = "callex"
  BY <1>3 DEF Waits, Stands
<1> QED BY <1>1, <1>2, <1>3 DEF Waits

LEMMA StandsSame ==
    ASSUME NEW c, NEW q, NEW a, NEW F, Stands(c, q, a, F), NEW b, NEW G, b.floor = a.floor,
           G[q].act = F[q].act \/ c.where # "fun"
    PROVE  Stands(c, q, b, G)
BY DEF Stands

LEMMA LeadsSame ==
    ASSUME NEW t, NEW k, NEW N, NEW F, NEW T, Leads(t, k, N, F, T), NEW M, NEW G, NEW U,
           t.owner \in 1..Len(M), Similar(N[t.owner], M[t.owner]),
           G[t.csp].act = F[t.csp].act \/ (t.csp = 0 /\ N[t.owner].floor.csp \in Nat),
           N[t.owner].kind = "interp" =>
             /\ t.csp <= FramesOf(t.owner, N, F) => t.csp <= FramesOf(t.owner, M, G)
             /\ Placed(t.act, t.owner, T) => Placed(t.act, t.owner, U)
    PROVE  Leads(t, k, M, G, U)
<1> DEFINE a == N[t.owner]
           b == M[t.owner]
<1>1. b.kind = a.kind /\ b.floor = a.floor /\ IsHandler(b) /\ (a.kind = "interp" => b.init = a.init)
  BY DEF Similar, Leads
<1>2. CASE a.kind = "callex"
  BY <1>1, <1>2 DEF Leads
<1>3. CASE a.kind = "interp"
  <2>1. Stands(t.act, t.csp, a, F)
    BY <1>3 DEF Leads
  <2>2. Stands(t.act, t.csp, b, G)
    BY <1>1, <2>1 DEF Stands
  <2> QED BY <1>1, <1>3, <2>2 DEF Leads
<1> QED BY <1>2, <1>3 DEF Leads

LEMMA OwnSame ==
    ASSUME NEW i, NEW n \in Nat, NEW N, NEW F, NEW T, Own(i, n, N, F, T),
           NEW M, NEW G, NEW U, NEW m \in Nat, m <= n,
           N[i].floor.csp \in Nat, M[i].floor = N[i].floor, M[i].init = N[i].init,
           \A j \in 1..m : G[j].act = F[j].act,
           \A j \in 1..m : Placed(F[j].act, i, T) => Placed(F[j].act, i, U)
    PROVE  Own(i, m, M, G, U)
<1> DEFINE f == N[i].floor.csp
<1>1. ASSUME NEW j \in (f + 1)..m
      PROVE  Stands(G[j].act, j - 1, M[i], G) /\ Placed(G[j].act, i, U)
  <2>1. j \in (f + 1)..n /\ j \in 1..m /\ (j - 1 \in 1..m \/ (j - 1 = 0 /\ f = 0))
    OBVIOUS
  <2>2. Stands(F[j].act, j - 1, N[i], F) /\ Placed(F[j].act, i, T) /\ G[j].act = F[j].act
    BY <2>1 DEF Own
  <2>3. G[j - 1].act = F[j - 1].act \/ (j - 1 = 0 /\ f = 0)
    BY <2>1
  <2>4. Stands(G[j].act, j - 1, M[i], G)
    BY <2>2, <2>3 DEF Stands
  <2> QED BY <2>1, <2>2, <2>4
<1> QED BY <1>1 DEF Own

LEMMA TrapsSame ==
    ASSUME NEW F, NEW T, NEW h, TrapsFit(F, T, h), NEW G,
           \A k \in 1..Len(T) : T[k].csp <= Len(G),
           \A k \in 1..Len(T) : \A j \in 1..T[k].csp : G[j].act = F[j].act
    PROVE  TrapsFit(G, T, h)
<1>1. ASSUME NEW k \in 1..Len(T)
      PROVE  /\ T[k].pos \in Nat /\ T[k].csp \in Nat
             /\ TrapSlots <= T[k].pos /\ T[k].pos <= h /\ T[k].csp <= Len(G)
             /\ \A j \in 1..T[k].csp : Height(G[j].act) + TrapSlots <= T[k].pos
  BY DEF TrapsFit
<1>2. IsSeq(T) /\ \A k, l \in 1..Len(T) : k < l =>
         T[k].pos + TrapSlots <= T[l].pos /\ T[k].csp <= T[l].csp /\ T[k].owner <= T[l].owner
  BY DEF TrapsFit
<1> QED BY <1>1, <1>2 DEF TrapsFit

LEMMA BelowSame ==
    ASSUME NEW f, NEW i, NEW F, NEW T, NEW h, Below(f, i, F, T, h), NEW G, Len(F) \in Nat,
           Len(G) \in Nat, f.csp <= Len(G),
           \A j \in 1..Len(G) : \/ j <= Len(F) /\ G[j].act = F[j].act
                                \/ j > f.csp /\ f.sp <= Height(G[j].act)
    PROVE  Below(f, i, G, T, h)
<1>1. ASSUME NEW j \in 1..Len(G)
      PROVE  IF j <= f.csp THEN Height(G[j].act) <= f.sp ELSE f.sp <= Height(G[j].act)
  <2>1. f.csp \in Nat
    BY DEF Below
  <2>2. CASE j <= Len(F) /\ G[j].act = F[j].act
    <3>1. j \in 1..Len(F)
      BY <2>2
    <3> QED BY <2>2, <3>1 DEF Below
  <2>3. CASE j > f.csp /\ f.sp <= Height(G[j].act)
    BY <2>1, <2>3
  <2> QED BY <2>2, <2>3
<1> QED BY <1>1 DEF Below

-----------------------------------------------------------------------------
(* The elementary changes of a machine. *)

LEMMA MachineTypes ==
    ASSUME NEW N, IsSeq(N), NEW F, NEW T, NEW h, NEW u, Machine(N, F, T, h, u)
    PROVE  /\ Len(N) \in Nat /\ Len(F) \in Nat /\ Len(T) \in Nat /\ h \in Nat
           /\ IsSeq(F) /\ IsSeq(T)
           /\ u \in Nat /\ u <= Len(N)
           /\ \A j \in 1..Len(F) :
                CodePoint(F[j].act) /\ Height(F[j].act) \in Nat /\ Height(F[j].act) <= h
           /\ \A k \in 1..Len(T) :
                /\ T[k].pos \in Nat /\ T[k].csp \in Nat /\ T[k].owner \in 1..Len(N)
                /\ T[k].pos <= h /\ T[k].csp <= Len(F) /\ T[k].owner <= u
           /\ \A i \in 1..Len(N) :
                /\ N[i].floor.sp \in Nat /\ N[i].floor.csp \in Nat /\ N[i].floor.traps \in Nat
                /\ N[i].floor.sp <= h /\ N[i].floor.csp <= Len(F) /\ N[i].floor.traps <= Len(T)
                /\ FramesOf(i, N, F) \in Nat /\ FramesOf(i, N, F) <= Len(F)
<1>1. IsSeq(F) /\ IsSeq(T) /\ h \in Nat
  BY DEF Machine, FramesFit, TrapsFit
<1>2. Len(N) \in Nat /\ Len(F) \in Nat /\ Len(T) \in Nat
  BY <1>1, SeqLen
<1>3. u \in Nat /\ u <= Len(N)
  BY <1>2 DEF Machine
<1>4. ASSUME NEW j \in 1..Len(F)
      PROVE  CodePoint(F[j].act) /\ Height(F[j].act) \in Nat /\ Height(F[j].act) <= h
  <2>1. CodePoint(F[j].act) /\ Height(F[j].act) <= h
    BY DEF Machine, FramesFit
  <2> QED BY <2>1, CodeSlots
<1>5. \A k \in 1..Len(T) :
        /\ T[k].pos \in Nat /\ T[k].csp \in Nat /\ T[k].owner \in 1..Len(N)
        /\ T[k].pos <= h /\ T[k].csp <= Len(F) /\ T[k].owner <= u
  BY DEF Machine, TrapsFit, LeadsAll, Leads
<1>6. \A i \in 1..Len(N) :
        /\ N[i].floor.sp \in Nat /\ N[i].floor.csp \in Nat /\ N[i].floor.traps \in Nat
        /\ N[i].floor.sp <= h /\ N[i].floor.csp <= Len(F) /\ N[i].floor.traps <= Len(T)
  BY DEF Machine, Floors, Below
<1>7. \A i \in 1..Len(N) : FramesOf(i, N, F) \in Nat /\ FramesOf(i, N, F) <= Len(F)
  BY <1>2, <1>6 DEF FramesOf
<1> QED BY <1>1, <1>2, <1>3, <1>4, <1>5, <1>6, <1>7

\* The data stack grows or shrinks above everything that marks a place on it.
LEMMA SetHeight ==
    ASSUME NEW N, IsSeq(N), NEW F, NEW T, NEW h, NEW u, Machine(N, F, T, h, u), NEW g \in Nat,
           \A j \in 1..Len(F) : Height(F[j].act) <= g,
           \A k \in 1..Len(T) : T[k].pos <= g,
           \A i \in 1..Len(N) : N[i].floor.sp <= g
    PROVE  Machine(N, F, T, g, u)
<1>1. FramesFit(F, g)
  BY DEF Machine, FramesFit
<1>2. TrapsFit(F, T, g)
  BY DEF Machine, TrapsFit
<1>3. Floors(N, F, T, g)
  BY DEF Machine, Floors, Below
<1> QED BY <1>1, <1>2, <1>3 DEF Machine

\* The data stack grows.
LEMMA Grow ==
    ASSUME NEW N, IsSeq(N), NEW F, NEW T, NEW h, NEW u, Machine(N, F, T, h, u), NEW g \in Nat,
           h <= g
    PROVE  Machine(N, F, T, g, u)
<1>1. /\ h \in Nat
      /\ \A j \in 1..Len(F) : Height(F[j].act) \in Nat /\ Height(F[j].act) <= h
      /\ \A k \in 1..Len(T) : T[k].pos \in Nat /\ T[k].pos <= h
      /\ \A i \in 1..Len(N) : N[i].floor.sp \in Nat /\ N[i].floor.sp <= h
  BY MachineTypes
<1>2. /\ \A j \in 1..Len(F) : Height(F[j].act) <= g
      /\ \A k \in 1..Len(T) : T[k].pos <= g
      /\ \A i \in 1..Len(N) : N[i].floor.sp <= g
  BY <1>1
<1> QED BY <1>2, SetHeight

\* A frame is pushed by the top activation: a call, a callback.
LEMMA PushFrame ==
    ASSUME NEW N, IsSeq(N), NEW F, NEW T, NEW h, NEW u, Machine(N, F, T, h, u),
           NEW f, NEW G, Extended(F, f, G), Len(N) >= 1,
           FrameShaped(f), CodePoint(f.act), Height(f.act) <= h,
           \A j \in 1..Len(F) : Height(F[j].act) <= Height(f.act),
           \A i \in 1..Len(N) : N[i].floor.sp <= Height(f.act),
           N[Len(N)].kind = "interp" =>
             Stands(f.act, Len(F), N[Len(N)], F) /\ Placed(f.act, Len(N), T)
    PROVE  Machine(N, G, T, h, u)
<1> DEFINE n == Len(F) + 1
<1>1. /\ Len(N) \in Nat /\ Len(F) \in Nat /\ Len(T) \in Nat /\ h \in Nat
      /\ IsSeq(G) /\ Len(G) = n /\ G[n] = f /\ \A j \in 1..Len(F) : G[j] = F[j]
  BY MachineTypes DEF Extended
<1>2. /\ \A j \in 1..Len(F) : CodePoint(F[j].act) /\ Height(F[j].act) \in Nat
      /\ \A k \in 1..Len(T) :
           T[k].csp \in Nat /\ T[k].csp <= Len(F) /\ T[k].owner \in 1..Len(N)
      /\ \A i \in 1..Len(N) :
           /\ N[i].floor.csp \in Nat /\ N[i].floor.sp \in Nat /\ N[i].floor.csp <= Len(F)
           /\ N[i].floor.traps \in Nat /\ N[i].floor.traps <= Len(T)
           /\ FramesOf(i, N, F) \in Nat /\ FramesOf(i, N, F) <= Len(F)
  BY MachineTypes
<1>3. Height(f.act) \in Nat
  BY CodeSlots
<1>4. FramesFit(G, h)
  <2>1. \A j \in 1..Len(G) :
         FrameShaped(G[j]) /\ CodePoint(G[j].act) /\ Height(G[j].act) <= h
    BY <1>1 DEF Machine, FramesFit
  <2>2. \A j, k \in 1..Len(G) : j <= k => Height(G[j].act) <= Height(G[k].act)
    <3> SUFFICES ASSUME NEW j \in 1..n, NEW k \in 1..n, j <= k
                 PROVE  Height(G[j].act) <= Height(G[k].act)
      BY <1>1
    <3>1. CASE k # n
      BY <1>1, <3>1 DEF Machine, FramesFit
    <3>2. CASE k = n
      BY <1>1, <1>3, <3>2
    <3> QED BY <3>1, <3>2
  <2> QED BY <1>1, <2>1, <2>2 DEF FramesFit, Machine
<1>5. TrapsFit(G, T, h)
  <2>1. TrapsFit(F, T, h)
    BY DEF Machine
  <2>2. \A k \in 1..Len(T) : T[k].csp <= Len(G)
    BY <1>1, <1>2
  <2>3. \A k \in 1..Len(T) : \A j \in 1..T[k].csp : G[j].act = F[j].act
    BY <1>1, <1>2
  <2> QED BY <2>1, <2>2, <2>3, TrapsSame
<1>6. Floors(N, G, T, h)
  <2>1. ASSUME NEW i \in 1..Len(N) PROVE Below(N[i].floor, i, G, T, h)
    <3>1. Below(N[i].floor, i, F, T, h)
      BY DEF Machine, Floors
    <3>2. N[i].floor.csp \in Nat /\ N[i].floor.csp <= Len(F) /\ N[i].floor.sp <= Height(f.act)
      BY <1>2
    <3>3. N[i].floor.csp <= Len(G) /\ n > N[i].floor.csp
      BY <1>1, <3>2
    <3>4. ASSUME NEW j \in 1..Len(G)
          PROVE  \/ j <= Len(F) /\ G[j].act = F[j].act
                 \/ j > N[i].floor.csp /\ N[i].floor.sp <= Height(G[j].act)
      <4>1. j \in 1..Len(F) \/ j = n
        BY <1>1
      <4> QED BY <1>1, <3>2, <3>3, <4>1
    <3> QED BY <1>1, <3>1, <3>2, <3>3, <3>4, BelowSame
  <2> QED BY <2>1 DEF Machine, Floors
<1>7. KeptAll(N, G, T)
  <2> SUFFICES ASSUME NEW i \in 1..Len(N), N[i].kind \in {"host", "prim"}
               PROVE  Kept(N[i], i, N, G, T)
    BY DEF KeptAll
  <2>1. Kept(N[i], i, N, F, T)
    BY DEF Machine, KeptAll
  <2>2. i \in Nat /\ N[i].floor.csp \in Nat /\ N[i].floor.csp <= Len(F)
    BY <1>1, <1>2
  <2>3. \A j \in 1..N[i].floor.csp : Bare(G[j]) = Bare(F[j])
    BY <1>1, <2>2
  <2> QED BY <2>1, <2>2, <2>3, KeptSame
<1>8. WaitsAll(N, G, T)
  <2> SUFFICES ASSUME NEW i \in 1..(Len(N) - 1) PROVE Waits(N[i], N[i + 1], i, G, T)
    BY DEF WaitsAll
  <2>1. Waits(N[i], N[i + 1], i, F, T) /\ i + 1 \in 1..Len(N) /\ i \in 1..Len(N)
    BY <1>1 DEF Machine, WaitsAll
  <2>2. CASE N[i + 1].floor.csp \in 1..Len(F)
    BY <1>1, <2>1, <2>2, WaitsSame
  <2>3. CASE N[i + 1].floor.csp = 0
    <3>1. N[i].floor.csp \in Nat
      BY <1>2, <2>1
    <3> QED BY <2>1, <2>3, <3>1 DEF Waits, Stands
  <2>4. N[i + 1].floor.csp \in Nat /\ N[i + 1].floor.csp <= Len(F)
    BY <1>2, <2>1
  <2> QED BY <1>1, <2>2, <2>3, <2>4
<1>9. OwnAll(N, G, T)
  <2> SUFFICES ASSUME NEW i \in 1..Len(N), N[i].kind = "interp"
               PROVE  Own(i, FramesOf(i, N, G), N, G, T)
    BY DEF OwnAll
  <2>1. Own(i, FramesOf(i, N, F), N, F, T)
    BY DEF Machine, OwnAll
  <2>2. \A j \in 1..FramesOf(i, N, F) : G[j].act = F[j].act
    BY <1>1, <1>2
  <2>3. Own(i, FramesOf(i, N, F), N, G, T)
    BY <1>2, <2>1, <2>2, OwnSame
  <2>4. CASE i # Len(N)
    BY <2>3, <2>4 DEF FramesOf
  <2>5. CASE i = Len(N)
    <3>1. FramesOf(i, N, F) = Len(F) /\ FramesOf(i, N, G) = n
      BY <1>1, <2>5 DEF FramesOf
    <3>2. Stands(f.act, n - 1, N[i], G) /\ Placed(f.act, i, T)
      <4>1. Stands(f.act, Len(F), N[i], F) /\ Placed(f.act, i, T) /\ n - 1 = Len(F)
        BY <1>1, <2>5
      <4>2. G[Len(F)].act = F[Len(F)].act \/ Len(F) = 0
        BY <1>1
      <4>3. N[i].floor.csp \in Nat
        BY <1>2
      <4> QED BY <4>1, <4>2, <4>3 DEF Stands
    <3>3. N[i].floor.csp \in Nat /\ G[n].act = f.act
      BY <1>1, <1>2
    <3>4. \A j \in (N[i].floor.csp + 1)..n : j = n \/ j \in (N[i].floor.csp + 1)..Len(F)
      BY <1>1, <3>3
    <3> QED BY <2>3, <3>1, <3>2, <3>3, <3>4 DEF Own
  <2> QED BY <2>4, <2>5
<1>10. LeadsAll(N, G, T, u)
  <2> SUFFICES ASSUME NEW k \in 1..Len(T) PROVE Leads(T[k], k, N, G, T) /\ T[k].owner <= u
    BY DEF LeadsAll
  <2>1. Leads(T[k], k, N, F, T) /\ T[k].owner <= u
    BY DEF Machine, LeadsAll
  <2>2. T[k].csp \in 1..Len(F) \/ T[k].csp = 0
    BY <1>1, <1>2
  <2>3. T[k].csp <= FramesOf(T[k].owner, N, F) => T[k].csp <= FramesOf(T[k].owner, N, G)
    BY <1>1, <1>2 DEF FramesOf
  <2>4. Similar(N[T[k].owner], N[T[k].owner])
    BY DEF Similar
  <2> QED BY <1>1, <1>2, <2>1, <2>2, <2>3, <2>4, LeadsSame
<1> QED BY <1>4, <1>5, <1>6, <1>7, <1>8, <1>9, <1>10 DEF Machine

\* Activations that have no trap of their own count as armed, and those above
\* the owners of all traps as not.
LEMMA SetArmed ==
    ASSUME NEW N, IsSeq(N), NEW F, NEW T, NEW h, NEW u, Machine(N, F, T, h, u),
           NEW v \in 0..Len(N), \A i \in (u + 1)..v : ~CallsBack(N[i]),
           \A k \in 1..Len(T) : T[k].owner <= v
    PROVE  Machine(N, F, T, h, v)
<1>1. Len(N) \in Nat /\ u \in Nat
  BY MachineTypes
<1>2. LeadsAll(N, F, T, v)
  BY DEF Machine, LeadsAll
<1>3. ArmedAll(N, T, v)
  <2> SUFFICES ASSUME NEW i \in 1..v, CallsBack(N[i]) PROVE Armed(N[i], i, T)
    BY DEF ArmedAll
  <2>1. i \in 1..u
    BY <1>1
  <2> QED BY <2>1 DEF Machine, ArmedAll
<1> QED BY <1>2, <1>3 DEF Machine

\* A handler on top sets up a trap.
LEMMA PushTrap ==
    ASSUME NEW N, IsSeq(N), NEW F, NEW T, NEW h, NEW u, Machine(N, F, T, h, u),
           NEW t, NEW U, Extended(T, t, U), Len(N) >= 1, u \in {Len(N) - 1, Len(N)},
           t.pos \in Nat, t.pos <= h, t.csp = Len(F), t.owner = Len(N),
           TrapSlots <= t.pos,
           \A j \in 1..Len(F) : Height(F[j].act) + TrapSlots <= t.pos,
           \A k \in 1..Len(T) : T[k].pos + TrapSlots <= t.pos,
           \A i \in 1..Len(N) : N[i].floor.sp + TrapSlots <= t.pos,
           CallsBack(N[Len(N)]) => N[Len(N)].floor.traps = Len(T),
           Leads(t, Len(T) + 1, N, F, U)
    PROVE  Machine(N, F, U, h, Len(N))
<1> DEFINE n == Len(T) + 1
<1>1. /\ Len(N) \in Nat /\ Len(F) \in Nat /\ Len(T) \in Nat /\ h \in Nat
      /\ IsSeq(U) /\ Len(U) = n /\ U[n] = t /\ \A k \in 1..Len(T) : U[k] = T[k]
      /\ TrapSlots = 6
  BY MachineTypes DEF Extended, TrapSlots
<1>2. \A j \in 1..Len(F) :
        CodePoint(F[j].act) /\ Height(F[j].act) \in Nat /\ Height(F[j].act) < t.pos
  <2> TAKE j \in 1..Len(F)
  <2>1. CodePoint(F[j].act) /\ Height(F[j].act) \in Nat
    BY MachineTypes
  <2> QED BY <1>1, <2>1
<1>3. \A k \in 1..Len(T) :
        /\ T[k].pos \in Nat /\ T[k].csp \in Nat /\ T[k].csp <= Len(F)
        /\ T[k].owner \in 1..Len(N) /\ T[k].owner \in Nat /\ T[k].owner <= Len(N)
  <2> TAKE k \in 1..Len(T)
  <2>1. T[k].pos \in Nat /\ T[k].csp \in Nat /\ T[k].csp <= Len(F) /\ T[k].owner \in 1..Len(N)
    BY MachineTypes
  <2> QED BY <1>1, <2>1
<1>4. \A i \in 1..Len(N) :
        /\ N[i].floor.sp \in Nat /\ N[i].floor.csp \in Nat /\ N[i].floor.traps \in Nat
        /\ N[i].floor.csp <= Len(F) /\ N[i].floor.traps <= Len(T)
        /\ FramesOf(i, N, F) \in Nat /\ FramesOf(i, N, F) <= Len(F)
  BY MachineTypes
<1>5. \A k \in 1..Len(U) : k = n \/ (k \in 1..Len(T) /\ U[k] = T[k] /\ k < n)
  <2> TAKE k \in 1..Len(U)
  <2>1. k = n \/ (k \in 1..Len(T) /\ k < n)
    BY <1>1
  <2> QED BY <1>1, <2>1
<1>6. TrapsFit(F, U, h)
  <2>1. ASSUME NEW k \in 1..Len(U)
        PROVE  /\ U[k].pos \in Nat /\ U[k].csp \in Nat
               /\ TrapSlots <= U[k].pos /\ U[k].pos <= h /\ U[k].csp <= Len(F)
               /\ \A j \in 1..U[k].csp : Height(F[j].act) + TrapSlots <= U[k].pos
    <3>1. CASE k = n
      BY <1>1, <3>1
    <3>2. CASE k \in 1..Len(T) /\ U[k] = T[k]
      BY <3>2 DEF Machine, TrapsFit
    <3> QED BY <1>5, <3>1, <3>2
  <2>2. ASSUME NEW k \in 1..Len(U), NEW l \in 1..Len(U), k < l
        PROVE  /\ U[k].pos + TrapSlots <= U[l].pos /\ U[k].csp <= U[l].csp
               /\ U[k].owner <= U[l].owner
    <3>1. k \in 1..Len(T) /\ U[k] = T[k]
      BY <1>1, <1>5, <2>2
    <3>2. CASE l = n
      BY <1>1, <1>3, <3>1, <3>2
    <3>3. CASE l \in 1..Len(T) /\ U[l] = T[l]
      BY <2>2, <3>1, <3>3 DEF Machine, TrapsFit
    <3> QED BY <1>5, <3>2, <3>3
  <2> QED BY <1>1, <2>1, <2>2 DEF TrapsFit
<1>7. Floors(N, F, U, h)
  <2>1. ASSUME NEW i \in 1..Len(N) PROVE Below(N[i].floor, i, F, U, h)
    <3>1. Below(N[i].floor, i, F, T, h)
      BY DEF Machine, Floors
    <3>2. /\ N[i].floor.csp <= Len(F) /\ N[i].floor.traps < n /\ N[i].floor.traps \in Nat
          /\ i <= Len(N) /\ N[i].floor.sp + TrapSlots <= t.pos
      <4>1. N[i].floor.csp <= Len(F) /\ N[i].floor.traps <= Len(T) /\ N[i].floor.traps \in Nat
        BY <1>4
      <4>2. i <= Len(N) /\ N[i].floor.sp + TrapSlots <= t.pos
        BY <1>1
      <4>3. N[i].floor.traps < n
        BY <1>1, <4>1
      <4> QED BY <4>1, <4>2, <4>3
    <3>3. ASSUME NEW k \in 1..Len(U)
          PROVE  IF k <= N[i].floor.traps
                   THEN U[k].owner < i /\ U[k].pos <= N[i].floor.sp /\ U[k].csp <= N[i].floor.csp
                   ELSE /\ U[k].owner >= i /\ N[i].floor.sp + TrapSlots <= U[k].pos
                        /\ N[i].floor.csp <= U[k].csp
      <4>1. CASE k = n
        <5>1. U[k] = t /\ ~(k <= N[i].floor.traps)
          BY <1>1, <3>2, <4>1
        <5> QED BY <1>1, <3>2, <5>1
      <4>2. CASE k \in 1..Len(T) /\ U[k] = T[k]
        BY <3>1, <4>2 DEF Below
      <4> QED BY <1>5, <4>1, <4>2
    <3>4. N[i].floor.traps <= Len(U)
      BY <1>1, <3>2
    <3> QED BY <3>1, <3>3, <3>4 DEF Below
  <2> QED BY <2>1 DEF Machine, Floors
<1>8. KeptAll(N, F, U)
  <2> SUFFICES ASSUME NEW i \in 1..Len(N), N[i].kind \in {"host", "prim"}
               PROVE  Kept(N[i], i, N, F, U)
    BY DEF KeptAll
  <2>1. Kept(N[i], i, N, F, T)
    BY DEF Machine, KeptAll
  <2>2. i \in Nat /\ N[i].floor.traps \in Nat /\ N[i].floor.traps <= Len(T)
    BY <1>1, <1>4
  <2>3. \A k \in 1..N[i].floor.traps : U[k] = T[k]
    BY <1>1, <2>2, AgreeBelow
  <2> QED BY <2>1, <2>2, <2>3, KeptSame
<1>9. WaitsAll(N, F, U)
  <2> SUFFICES ASSUME NEW i \in 1..(Len(N) - 1) PROVE Waits(N[i], N[i + 1], i, F, U)
    BY DEF WaitsAll
  <2>1. Waits(N[i], N[i + 1], i, F, T) /\ i + 1 \in 1..Len(N)
    BY <1>1 DEF Machine, WaitsAll
  <2>2. /\ N[i + 1].floor.traps \in Nat /\ N[i + 1].floor.traps <= Len(T)
        /\ N[i + 1].floor.sp < t.pos
    <3>1. N[i + 1].floor.traps \in Nat /\ N[i + 1].floor.traps <= Len(T) /\ N[i + 1].floor.sp \in Nat
      BY <1>4, <2>1
    <3>2. N[i + 1].floor.sp + TrapSlots <= t.pos
      BY <2>1
    <3> QED BY <3>1, <3>2, BelowTrap
  <2>3. \A k \in 1..N[i + 1].floor.traps : U[k] = T[k]
    BY <1>1, <2>2, AgreeBelow
  <2>4. ASSUME N[i].kind = "interp", N[i + 1].kind = "callex", Placed(N[i].act, i, T)
        PROVE  Placed(N[i].act, i, U)
    <3>1. CodePoint(N[i].act) /\ t.pos > Height(N[i].act)
      BY <2>1, <2>2, <2>4 DEF Waits
    <3> QED BY <1>1, <2>4, <3>1, PlacedExtends DEF Machine, TrapsFit
  <2> QED BY <2>1, <2>3, <2>4, WaitsSame
<1>10. OwnAll(N, F, U)
  <2> SUFFICES ASSUME NEW i \in 1..Len(N), N[i].kind = "interp"
               PROVE  Own(i, FramesOf(i, N, F), N, F, U)
    BY DEF OwnAll
  <2>1. Own(i, FramesOf(i, N, F), N, F, T) /\ N[i].floor.csp \in Nat /\ IsSeq(T)
    BY <1>4 DEF Machine, OwnAll, TrapsFit
  <2>2. FramesOf(i, N, F) \in Nat /\ FramesOf(i, N, F) <= Len(F)
    BY <1>4
  <2>3. ASSUME NEW j \in 1..FramesOf(i, N, F), Placed(F[j].act, i, T)
        PROVE  Placed(F[j].act, i, U)
    <3>1. CodePoint(F[j].act) /\ t.pos > Height(F[j].act)
      <4>1. j \in 1..Len(F)
        BY <1>1, <2>2
      <4> QED BY <1>2, <4>1
    <3> QED BY <2>1, <2>3, <3>1, PlacedExtends
  <2> QED BY <2>1, <2>2, <2>3, OwnSame
<1>11. LeadsAll(N, F, U, Len(N))
  <2> SUFFICES ASSUME NEW k \in 1..Len(U)
               PROVE  Leads(U[k], k, N, F, U) /\ U[k].owner <= Len(N)
    BY DEF LeadsAll
  <2>1. CASE k = n
    BY <1>1, <2>1
  <2>2. CASE k \in 1..Len(T) /\ U[k] = T[k]
    <3>1. Leads(T[k], k, N, F, T) /\ T[k].owner \in 1..Len(N) /\ T[k].owner <= Len(N) /\ IsSeq(T)
      BY <1>3, <2>2 DEF Machine, LeadsAll, TrapsFit
    <3>2. Similar(N[T[k].owner], N[T[k].owner])
      BY DEF Similar
    <3>3. ASSUME N[T[k].owner].kind = "interp", Placed(T[k].act, T[k].owner, T)
          PROVE  Placed(T[k].act, T[k].owner, U)
      <4>1. CodePoint(T[k].act) /\ Height(T[k].act) + TrapSlots = T[k].pos
        BY <3>1, <3>3 DEF Leads
      <4>2. t.pos > Height(T[k].act)
        <5>1. Height(T[k].act) \in Nat
          BY <4>1, CodeSlots
        <5>2. T[k].pos + TrapSlots <= t.pos /\ T[k].pos \in Nat
          BY <1>3, <2>2
        <5> QED BY <4>1, <5>1, <5>2 DEF TrapSlots
      <4> QED BY <3>1, <3>3, <4>1, <4>2, PlacedExtends
    <3> QED BY <2>2, <3>1, <3>2, <3>3, LeadsSame
  <2> QED BY <1>5, <2>1, <2>2
<1>12. ArmedAll(N, U, Len(N))
  <2> SUFFICES ASSUME NEW i \in 1..Len(N), CallsBack(N[i]) PROVE Armed(N[i], i, U)
    BY DEF ArmedAll
  <2>1. N[i].floor.traps \in Nat /\ N[i].floor.traps <= Len(T)
    BY <1>4
  <2>2. CASE i = Len(N)
    <3>1. N[i].floor.traps = Len(T)
      BY <2>2
    <3>2. N[i].floor.traps < Len(U) /\ U[N[i].floor.traps + 1].owner = i
      BY <1>1, <2>2, <3>1
    <3> QED BY <3>2 DEF Armed
  <2>3. CASE i # Len(N)
    <3>1. i \in 1..u
      BY <1>1, <2>3
    <3>2. N[i].floor.traps < Len(T) /\ T[N[i].floor.traps + 1].owner = i
      BY <3>1 DEF Machine, ArmedAll, Armed
    <3>3. N[i].floor.traps + 1 \in 1..Len(T)
      BY <1>1, <2>1, <3>2, SlotInside
    <3>4. U[N[i].floor.traps + 1] = T[N[i].floor.traps + 1]
      BY <1>1, <3>3
    <3>5. N[i].floor.traps < Len(U)
      BY <1>1, <2>1
    <3>6. N[i].floor.traps < Len(U) /\ U[N[i].floor.traps + 1].owner = i
      BY <3>2, <3>4, <3>5
    <3> QED BY <3>6 DEF Armed
  <2> QED BY <2>2, <2>3
<1> QED BY <1>1, <1>6, <1>7, <1>8, <1>9, <1>10, <1>11, <1>12 DEF Machine

\* The innermost trap, which the top activation set up, is taken down.
LEMMA DropTrap ==
    ASSUME NEW N, IsSeq(N), NEW F, NEW T, NEW h, NEW u, Machine(N, F, T, h, u),
           NEW U, CutTo(T, Len(T) - 1, U), T[Len(T)].owner = Len(N),
           \A j \in 1..Len(F) : Height(F[j].act) < T[Len(T)].pos,
           NEW v \in 0..u, \A k \in 1..(Len(T) - 1) : T[k].owner <= v,
           CallsBack(N[Len(N)]) => v < Len(N)
    PROVE  Machine(N, F, U, h, v)
<1> DEFINE n == Len(T)
           t == T[n]
<1>1. /\ Len(N) \in Nat /\ Len(F) \in Nat /\ Len(T) \in Nat /\ h \in Nat /\ IsSeq(F) /\ IsSeq(T)
      /\ u \in Nat /\ u <= Len(N)
  BY MachineTypes
<1>2. IsSeq(U) /\ n >= 1 /\ Len(U) = n - 1 /\ \A k \in 1..Len(U) : U[k] = T[k]
  BY <1>1 DEF CutTo
<1>3. n \in 1..n
  BY <1>1, <1>2
<1>4. t.pos \in Nat
  BY <1>3, MachineTypes
<1>5. \A j \in 1..Len(F) : CodePoint(F[j].act)
  BY MachineTypes
<1>6. \A k \in 1..Len(U) : k \in 1..n /\ k < n /\ U[k] = T[k]
  BY <1>1, <1>2
<1>7. \A i \in 1..Len(N) :
        /\ N[i].floor.sp \in Nat /\ N[i].floor.csp \in Nat /\ N[i].floor.traps \in Nat
        /\ N[i].floor.traps <= n /\ i \in Nat
        /\ FramesOf(i, N, F) \in Nat /\ FramesOf(i, N, F) <= Len(F)
  BY <1>1, MachineTypes
<1>8. ASSUME NEW i \in 1..Len(N)
      PROVE  N[i].floor.traps <= Len(U) /\ N[i].floor.sp < t.pos
  <2>1. Below(N[i].floor, i, F, T, h)
    BY DEF Machine, Floors
  <2>2. ~(n <= N[i].floor.traps)
    <3>1. ~(t.owner < i)
      BY <1>1
    <3> QED BY <1>3, <2>1, <3>1 DEF Below
  <2>3. N[i].floor.sp + TrapSlots <= t.pos
    BY <1>3, <2>1, <2>2 DEF Below
  <2>4. N[i].floor.traps \in Nat /\ N[i].floor.sp \in Nat
    BY <1>7
  <2>5. N[i].floor.sp < t.pos
    BY <1>4, <2>3, <2>4 DEF TrapSlots
  <2> QED BY <1>1, <1>2, <2>2, <2>4, <2>5
<1>9. TrapsFit(F, U, h)
  <2>1. ASSUME NEW k \in 1..Len(U)
        PROVE  /\ U[k].pos \in Nat /\ U[k].csp \in Nat
               /\ TrapSlots <= U[k].pos /\ U[k].pos <= h /\ U[k].csp <= Len(F)
               /\ \A j \in 1..U[k].csp : Height(F[j].act) + TrapSlots <= U[k].pos
    BY <1>6 DEF Machine, TrapsFit
  <2>2. ASSUME NEW k \in 1..Len(U), NEW l \in 1..Len(U), k < l
        PROVE  /\ U[k].pos + TrapSlots <= U[l].pos /\ U[k].csp <= U[l].csp
               /\ U[k].owner <= U[l].owner
    BY <1>6, <2>2 DEF Machine, TrapsFit
  <2> QED BY <1>2, <2>1, <2>2 DEF TrapsFit
<1>10. Floors(N, F, U, h)
  <2>1. ASSUME NEW i \in 1..Len(N) PROVE Below(N[i].floor, i, F, U, h)
    <3>1. Below(N[i].floor, i, F, T, h) /\ N[i].floor.traps <= Len(U)
      BY <1>8 DEF Machine, Floors
    <3>2. ASSUME NEW k \in 1..Len(U)
          PROVE  IF k <= N[i].floor.traps
                   THEN U[k].owner < i /\ U[k].pos <= N[i].floor.sp /\ U[k].csp <= N[i].floor.csp
                   ELSE /\ U[k].owner >= i /\ N[i].floor.sp + TrapSlots <= U[k].pos
                        /\ N[i].floor.csp <= U[k].csp
      BY <1>6, <3>1 DEF Below
    <3> QED BY <3>1, <3>2 DEF Below
  <2> QED BY <2>1 DEF Machine, Floors
<1>11. KeptAll(N, F, U)
  <2> SUFFICES ASSUME NEW i \in 1..Len(N), N[i].kind \in {"host", "prim"}
               PROVE  Kept(N[i], i, N, F, U)
    BY DEF KeptAll
  <2>1. Kept(N[i], i, N, F, T)
    BY DEF Machine, KeptAll
  <2>2. i \in Nat /\ N[i].floor.traps \in Nat /\ N[i].floor.traps <= Len(U)
    BY <1>7, <1>8
  <2>3. \A k \in 1..N[i].floor.traps : U[k] = T[k]
    BY <1>1, <1>2, <2>2
  <2> QED BY <2>1, <2>2, <2>3, KeptSame
<1>12. WaitsAll(N, F, U)
  <2> SUFFICES ASSUME NEW i \in 1..(Len(N) - 1) PROVE Waits(N[i], N[i + 1], i, F, U)
    BY DEF WaitsAll
  <2>1. Waits(N[i], N[i + 1], i, F, T) /\ i + 1 \in 1..Len(N)
    BY <1>1 DEF Machine, WaitsAll
  <2>2. /\ N[i + 1].floor.traps \in Nat /\ N[i + 1].floor.traps <= Len(U)
        /\ N[i + 1].floor.sp < t.pos
    BY <1>7, <1>8, <2>1
  <2>3. \A k \in 1..N[i + 1].floor.traps : U[k] = T[k]
    <3>1. Len(U) \in Nat
      BY <1>1, <1>2
    <3> QED BY <1>2, <2>2, <3>1, AgreeBelow
  <2>4. ASSUME N[i].kind = "interp", N[i + 1].kind = "callex", Placed(N[i].act, i, T)
        PROVE  Placed(N[i].act, i, U)
    <3>1. CodePoint(N[i].act) /\ t.pos > Height(N[i].act)
      BY <2>1, <2>2, <2>4 DEF Waits
    <3> QED BY <1>1, <1>4, <2>4, <3>1, PlacedCut
  <2> QED BY <2>1, <2>3, <2>4, WaitsSame
<1>13. OwnAll(N, F, U)
  <2> SUFFICES ASSUME NEW i \in 1..Len(N), N[i].kind = "interp"
               PROVE  Own(i, FramesOf(i, N, F), N, F, U)
    BY DEF OwnAll
  <2>1. Own(i, FramesOf(i, N, F), N, F, T) /\ N[i].floor.csp \in Nat
    BY <1>7 DEF Machine, OwnAll
  <2>2. FramesOf(i, N, F) \in Nat /\ FramesOf(i, N, F) <= Len(F)
    BY <1>7
  <2>3. ASSUME NEW j \in 1..FramesOf(i, N, F), Placed(F[j].act, i, T)
        PROVE  Placed(F[j].act, i, U)
    <3>1. j \in 1..Len(F)
      BY <1>1, <2>2
    <3>2. CodePoint(F[j].act) /\ t.pos > Height(F[j].act)
      <4>1. Height(F[j].act) < t.pos /\ Height(F[j].act) \in Nat
        BY <3>1, MachineTypes
      <4> QED BY <1>4, <1>5, <3>1, <4>1
    <3> QED BY <1>1, <1>4, <2>3, <3>2, PlacedCut
  <2> QED BY <2>1, <2>2, <2>3, OwnSame
<1>14. LeadsAll(N, F, U, v)
  <2> SUFFICES ASSUME NEW k \in 1..Len(U) PROVE Leads(U[k], k, N, F, U) /\ U[k].owner <= v
    BY DEF LeadsAll
  <2>1. k \in 1..n /\ k < n /\ U[k] = T[k] /\ k \in 1..(Len(T) - 1)
    BY <1>2, <1>6
  <2>2. Leads(T[k], k, N, F, T) /\ T[k].owner \in 1..Len(N) /\ T[k].owner <= v
    BY <2>1 DEF Machine, LeadsAll, Leads
  <2>3. Similar(N[T[k].owner], N[T[k].owner])
    BY DEF Similar
  <2>4. ASSUME N[T[k].owner].kind = "interp", Placed(T[k].act, T[k].owner, T)
        PROVE  Placed(T[k].act, T[k].owner, U)
    <3>1. CodePoint(T[k].act) /\ Height(T[k].act) + TrapSlots = T[k].pos
      BY <2>2, <2>4 DEF Leads
    <3>2. t.pos > Height(T[k].act)
      <4>1. T[k].pos + TrapSlots <= t.pos /\ T[k].pos \in Nat
        BY <1>3, <2>1 DEF Machine, TrapsFit
      <4>2. Height(T[k].act) \in Nat
        BY <3>1, CodeSlots
      <4> QED BY <1>4, <3>1, <4>1, <4>2 DEF TrapSlots
    <3> QED BY <1>1, <1>4, <2>4, <3>1, <3>2, PlacedCut
  <2> QED BY <2>1, <2>2, <2>3, <2>4, LeadsSame
<1>15. ArmedAll(N, U, v)
  <2> SUFFICES ASSUME NEW i \in 1..v, CallsBack(N[i]) PROVE Armed(N[i], i, U)
    BY DEF ArmedAll
  <2>1. i \in 1..u /\ i \in 1..Len(N) /\ i # Len(N)
    BY <1>1
  <2>2. N[i].floor.traps < n /\ T[N[i].floor.traps + 1].owner = i /\ N[i].floor.traps \in Nat
    BY <1>7, <2>1 DEF Machine, ArmedAll, Armed
  <2>3. N[i].floor.traps + 1 # n
    BY <2>1, <2>2
  <2>4. N[i].floor.traps < Len(U) /\ N[i].floor.traps + 1 \in 1..Len(U)
    <3>1. Len(U) \in Nat /\ n = Len(U) + 1
      BY <1>1, <1>2
    <3>2. N[i].floor.traps < Len(U)
      BY <2>2, <2>3, <3>1
    <3> QED BY <2>2, <3>1, <3>2, SlotInside
  <2>5. U[N[i].floor.traps + 1].owner = i
    BY <1>2, <2>2, <2>4
  <2> QED BY <2>4, <2>5 DEF Armed
<1>16. v \in 0..Len(N)
  BY <1>1
<1> QED BY <1>9, <1>10, <1>11, <1>12, <1>13, <1>14, <1>15, <1>16 DEF Machine

\* The top activation makes another one.
LEMMA PushAct ==
    ASSUME NEW N, IsSeq(N), NEW F, NEW T, NEW h, NEW u, Machine(N, F, T, h, u),
           NEW a, NEW M, Extended(N, a, M), Len(N) >= 1,
           a.floor = [sp |-> h, csp |-> Len(F), traps |-> Len(T)],
           Waits(N[Len(N)], a, Len(N), F, T),
           a.kind \in {"host", "prim"} => Kept(a, Len(N) + 1, M, F, T),
           a.kind = "interp" => a.init \in Nat /\ h <= a.init /\ a.init <= h + CallbackArgs
    PROVE  Machine(M, F, T, h, u)
<1> DEFINE n == Len(N) + 1
<1>1. /\ Len(N) \in Nat /\ Len(F) \in Nat /\ Len(T) \in Nat /\ h \in Nat /\ IsSeq(F) /\ IsSeq(T)
      /\ u \in Nat /\ u <= Len(N)
  BY MachineTypes
<1>2. IsSeq(M) /\ Len(M) = n /\ M[n] = a /\ \A i \in 1..Len(N) : M[i] = N[i]
  BY DEF Extended
<1>3. a.floor.sp = h /\ a.floor.csp = Len(F) /\ a.floor.traps = Len(T)
  OBVIOUS
<1>4. \A i \in 1..Len(M) : i = n \/ (i \in 1..Len(N) /\ i < n /\ M[i] = N[i])
  BY <1>1, <1>2
<1>5. \A i \in 1..Len(N) :
        /\ N[i].floor.sp \in Nat /\ N[i].floor.csp \in Nat /\ N[i].floor.traps \in Nat
        /\ N[i].floor.sp <= h /\ N[i].floor.csp <= Len(F)
        /\ FramesOf(i, N, F) \in Nat /\ FramesOf(i, N, F) <= Len(F)
  BY MachineTypes
<1>6. \A i \in 1..Len(N) : FramesOf(i, M, F) = FramesOf(i, N, F)
  <2> TAKE i \in 1..Len(N)
  <2>1. i # Len(M)
    BY <1>1, <1>2
  <2>2. CASE i = Len(N)
    BY <1>2, <1>3, <2>1, <2>2 DEF FramesOf
  <2>3. CASE i # Len(N)
    <3>1. i + 1 \in 1..Len(N)
      BY <1>1, <2>3
    <3> QED BY <1>2, <2>1, <2>3, <3>1 DEF FramesOf
  <2> QED BY <2>2, <2>3
<1>7. Floors(M, F, T, h)
  <2>1. ASSUME NEW i \in 1..Len(M) PROVE Below(M[i].floor, i, F, T, h)
    <3>1. CASE i = n
      <4>1. /\ h <= h /\ Len(F) <= Len(F) /\ Len(T) <= Len(T)
            /\ \A j \in 1..Len(F) : j <= Len(F) /\ Height(F[j].act) <= h
        BY <1>1, MachineTypes
      <4>2. \A k \in 1..Len(T) : k <= Len(T) /\ T[k].owner < n /\ T[k].pos <= h /\ T[k].csp <= Len(F)
        <5> TAKE k \in 1..Len(T)
        <5>1. T[k].owner \in 1..Len(N) /\ T[k].pos <= h /\ T[k].csp <= Len(F)
          BY MachineTypes
        <5> QED BY <1>1, <5>1
      <4>3. a.floor = [sp |-> a.floor.sp, csp |-> a.floor.csp, traps |-> a.floor.traps]
        BY <1>3
      <4> HIDE DEF n
      <4> QED BY <1>1, <1>2, <1>3, <3>1, <4>1, <4>2, <4>3 DEF Below
    <3>2. CASE i \in 1..Len(N) /\ M[i] = N[i]
      BY <3>2 DEF Machine, Floors
    <3> QED BY <1>4, <3>1, <3>2
  <2>2. ASSUME NEW i \in 1..Len(M), NEW j \in 1..Len(M), i <= j
        PROVE  M[i].floor.sp <= M[j].floor.sp /\ M[i].floor.csp <= M[j].floor.csp
    <3>1. CASE j = n
      <4>1. M[j].floor.sp = h /\ M[j].floor.csp = Len(F)
        BY <1>2, <1>3, <3>1
      <4>2. M[i].floor.sp <= h /\ M[i].floor.csp <= Len(F)
        <5>1. CASE i = n
          BY <1>1, <1>2, <1>3, <5>1
        <5>2. CASE i \in 1..Len(N) /\ M[i] = N[i]
          BY <1>5, <5>2
        <5> QED BY <1>4, <5>1, <5>2
      <4> QED BY <4>1, <4>2
    <3>2. CASE j \in 1..Len(N) /\ M[j] = N[j]
      <4>1. i \in 1..Len(N) /\ M[i] = N[i]
        BY <1>1, <1>2, <2>2, <3>2
      <4> QED BY <2>2, <3>2, <4>1 DEF Machine, Floors
    <3> QED BY <1>4, <3>1, <3>2
  <2> QED BY <2>1, <2>2 DEF Floors
<1>8. KeptAll(M, F, T)
  <2> SUFFICES ASSUME NEW i \in 1..Len(M), M[i].kind \in {"host", "prim"}
               PROVE  Kept(M[i], i, M, F, T)
    BY DEF KeptAll
  <2>1. CASE i = n
    BY <1>2, <2>1
  <2>2. CASE i \in 1..Len(N) /\ M[i] = N[i]
    <3>1. Kept(N[i], i, N, F, T) /\ i \in Nat
      BY <2>2 DEF Machine, KeptAll
    <3>2. \A j \in 1..i : M[j] = N[j]
      BY <1>1, <1>2, <2>2
    <3> QED BY <2>2, <3>1, <3>2, KeptSame
  <2> QED BY <1>4, <2>1, <2>2
<1>9. WaitsAll(M, F, T)
  <2> SUFFICES ASSUME NEW i \in 1..Len(N) PROVE Waits(M[i], M[i + 1], i, F, T)
    BY <1>1, <1>2 DEF WaitsAll
  <2>1. CASE i = Len(N)
    BY <1>1, <1>2, <2>1
  <2>2. CASE i # Len(N)
    <3>1. i \in 1..(Len(N) - 1) /\ i + 1 \in 1..Len(N)
      BY <1>1, <2>2
    <3> QED BY <1>2, <3>1 DEF Machine, WaitsAll
  <2> QED BY <2>1, <2>2
<1>10. OwnAll(M, F, T)
  <2> SUFFICES ASSUME NEW i \in 1..Len(M), M[i].kind = "interp"
               PROVE  Own(i, FramesOf(i, M, F), M, F, T)
    BY DEF OwnAll
  <2>1. CASE i = n
    <3>1. FramesOf(i, M, F) = Len(F) /\ M[i] = a
      BY <1>2, <2>1 DEF FramesOf
    <3>2. (a.floor.csp + 1)..Len(F) = {}
      BY <1>1, <1>3
    <3>3. a.init \in Nat /\ a.floor.sp <= a.init /\ a.init <= a.floor.sp + CallbackArgs
      BY <1>3, <3>1
    <3> QED BY <3>1, <3>2, <3>3 DEF Own
  <2>2. CASE i \in 1..Len(N) /\ M[i] = N[i]
    <3>1. Own(i, FramesOf(i, N, F), N, F, T)
      BY <2>2 DEF Machine, OwnAll
    <3> QED BY <1>6, <2>2, <3>1 DEF Own
  <2> QED BY <1>4, <2>1, <2>2
<1>11. LeadsAll(M, F, T, u)
  <2> SUFFICES ASSUME NEW k \in 1..Len(T) PROVE Leads(T[k], k, M, F, T) /\ T[k].owner <= u
    BY DEF LeadsAll
  <2>1. Leads(T[k], k, N, F, T) /\ T[k].owner \in 1..Len(N) /\ T[k].owner <= u
    BY DEF Machine, LeadsAll, Leads
  <2>2. M[T[k].owner] = N[T[k].owner] /\ T[k].owner \in 1..Len(M)
        /\ FramesOf(T[k].owner, M, F) = FramesOf(T[k].owner, N, F)
    BY <1>1, <1>2, <1>6, <2>1
  <2>3. Similar(N[T[k].owner], M[T[k].owner])
    BY <2>2 DEF Similar
  <2> QED BY <2>1, <2>2, <2>3, LeadsSame
<1>12. ArmedAll(M, T, u)
  <2> SUFFICES ASSUME NEW i \in 1..u, CallsBack(M[i]) PROVE Armed(M[i], i, T)
    BY DEF ArmedAll
  <2>1. M[i] = N[i]
    BY <1>1, <1>2
  <2> QED BY <2>1 DEF Machine, ArmedAll
<1>13. u \in 0..Len(M)
  BY <1>1, <1>2
<1> QED BY <1>7, <1>8, <1>9, <1>10, <1>11, <1>12, <1>13 DEF Machine

\* G is the q oldest frames of F, some of their slots erased.
Agrees(F, q, G) ==
    /\ IsSeq(G) /\ q \in 0..Len(F) /\ Len(G) = q
    /\ \A j \in 1..q : FrameShaped(G[j]) /\ G[j].act = F[j].act /\ Bare(G[j]) = Bare(F[j])

\* The C stack returns or jumps to activation n, with the q oldest frames.
LEMMA CutBack ==
    ASSUME NEW N, IsSeq(N), NEW F, NEW T, NEW h, NEW u, Machine(N, F, T, h, u),
           NEW n \in 1..Len(N), NEW M, CutTo(N, n, M), NEW q, NEW G, Agrees(F, q, G),
           u <= n,
           \A k \in 1..Len(T) : T[k].csp <= q,
           \A i \in 1..n : N[i].floor.csp <= q,
           N[n].kind = "interp" => q <= FramesOf(n, N, F)
    PROVE  Machine(M, G, T, h, u)
<1>1. /\ Len(N) \in Nat /\ Len(F) \in Nat /\ Len(T) \in Nat /\ h \in Nat /\ IsSeq(F) /\ IsSeq(T)
      /\ u \in Nat
  BY MachineTypes
<1>2. /\ IsSeq(G) /\ q \in Nat /\ q <= Len(F) /\ Len(G) = q
      /\ \A j \in 1..q : FrameShaped(G[j]) /\ G[j].act = F[j].act /\ Bare(G[j]) = Bare(F[j])
  BY <1>1 DEF Agrees
<1>3. IsSeq(M) /\ n \in Nat /\ n <= Len(N) /\ Len(M) = n /\ \A i \in 1..n : M[i] = N[i]
  BY <1>1 DEF CutTo
<1>4. \A i \in 1..n :
        /\ N[i].floor.sp \in Nat /\ N[i].floor.csp \in Nat /\ N[i].floor.traps \in Nat
        /\ FramesOf(i, N, F) \in Nat /\ FramesOf(i, N, F) <= Len(F) /\ i \in 1..Len(N)
  <2> TAKE i \in 1..n
  <2>1. i \in 1..Len(N)
    BY <1>1, <1>3
  <2> QED BY <2>1, MachineTypes
<1>5. \A j \in 1..q : j \in 1..Len(F)
  BY <1>1, <1>2
<1>6. \A i \in 1..n : i # n => FramesOf(i, M, G) = FramesOf(i, N, F)
  <2> SUFFICES ASSUME NEW i \in 1..n, i # n PROVE FramesOf(i, M, G) = FramesOf(i, N, F)
    OBVIOUS
  <2>1. i + 1 \in 1..n /\ i # Len(N)
    BY <1>3
  <2> QED BY <1>3, <2>1 DEF FramesOf
<1>7. FramesOf(n, M, G) = q
  BY <1>2, <1>3 DEF FramesOf
<1>8. FramesFit(G, h)
  <2>1. \A j \in 1..Len(G) :
          FrameShaped(G[j]) /\ CodePoint(G[j].act) /\ Height(G[j].act) <= h
    BY <1>2, <1>5 DEF Machine, FramesFit
  <2>2. \A j, k \in 1..Len(G) : j <= k => Height(G[j].act) <= Height(G[k].act)
    <3> SUFFICES ASSUME NEW j \in 1..q, NEW k \in 1..q, j <= k
                 PROVE  Height(G[j].act) <= Height(G[k].act)
      BY <1>2
    <3>1. j \in 1..Len(F) /\ k \in 1..Len(F) /\ G[j].act = F[j].act /\ G[k].act = F[k].act
      BY <1>2, <1>5
    <3> QED BY <3>1 DEF Machine, FramesFit
  <2> QED BY <1>1, <1>2, <2>1, <2>2 DEF FramesFit
<1>9. TrapsFit(G, T, h)
  <2>1. TrapsFit(F, T, h)
    BY DEF Machine
  <2>2. \A k \in 1..Len(T) : T[k].csp <= Len(G)
    BY <1>2
  <2>3. \A k \in 1..Len(T) : \A j \in 1..T[k].csp : G[j].act = F[j].act
    <3> TAKE k \in 1..Len(T)
    <3>1. T[k].csp \in Nat /\ T[k].csp <= q
      BY MachineTypes
    <3> QED BY <1>2, <3>1
  <2> QED BY <2>1, <2>2, <2>3, TrapsSame
<1>10. Floors(M, G, T, h)
  <2>1. ASSUME NEW i \in 1..Len(M) PROVE Below(M[i].floor, i, G, T, h)
    <3>1. i \in 1..n /\ i \in 1..Len(N) /\ M[i] = N[i]
      BY <1>3, <1>4
    <3>2. Below(N[i].floor, i, F, T, h) /\ N[i].floor.csp <= Len(G)
      BY <1>2, <3>1 DEF Machine, Floors
    <3>3. \A j \in 1..Len(G) : j <= Len(F) /\ G[j].act = F[j].act
      BY <1>2, <1>5
    <3> QED BY <1>1, <1>2, <3>1, <3>2, <3>3, BelowSame
  <2>2. ASSUME NEW i \in 1..Len(M), NEW j \in 1..Len(M), i <= j
        PROVE  M[i].floor.sp <= M[j].floor.sp /\ M[i].floor.csp <= M[j].floor.csp
    <3>1. i \in 1..Len(N) /\ j \in 1..Len(N) /\ M[i] = N[i] /\ M[j] = N[j]
      BY <1>3, <1>4
    <3> QED BY <2>2, <3>1 DEF Machine, Floors
  <2> QED BY <2>1, <2>2 DEF Floors
<1>11. KeptAll(M, G, T)
  <2> SUFFICES ASSUME NEW i \in 1..Len(M), M[i].kind \in {"host", "prim"}
               PROVE  Kept(M[i], i, M, G, T)
    BY DEF KeptAll
  <2>1. i \in 1..n /\ i \in 1..Len(N) /\ M[i] = N[i] /\ i \in Nat
    BY <1>3, <1>4
  <2>2. Kept(N[i], i, N, F, T)
    BY <2>1 DEF Machine, KeptAll
  <2>3. N[i].floor.csp \in Nat /\ N[i].floor.csp <= q
    BY <1>4, <2>1
  <2>4. \A j \in 1..N[i].floor.csp : Bare(G[j]) = Bare(F[j])
    BY <1>2, <2>3
  <2>5. \A j \in 1..i : M[j] = N[j]
    BY <1>3, <2>1
  <2> QED BY <2>1, <2>2, <2>4, <2>5, KeptSame
<1>12. WaitsAll(M, G, T)
  <2> SUFFICES ASSUME NEW i \in 1..(n - 1) PROVE Waits(M[i], M[i + 1], i, G, T)
    BY <1>3 DEF WaitsAll
  <2>1. i \in 1..n /\ i + 1 \in 1..n /\ i \in 1..(Len(N) - 1)
    BY <1>1, <1>3
  <2>2. Waits(N[i], N[i + 1], i, F, T) /\ M[i] = N[i] /\ M[i + 1] = N[i + 1]
    BY <1>3, <2>1 DEF Machine, WaitsAll
  <2>3. N[i + 1].floor.csp \in Nat /\ N[i + 1].floor.csp <= q /\ N[i].floor.csp \in Nat
    BY <1>4, <2>1
  <2>4. CASE N[i + 1].floor.csp \in 1..q
    <3>1. G[N[i + 1].floor.csp].act = F[N[i + 1].floor.csp].act
      BY <1>2, <2>4
    <3> QED BY <2>2, <3>1, WaitsSame
  <2>5. CASE N[i + 1].floor.csp = 0
    BY <2>2, <2>3, <2>5 DEF Waits, Stands
  <2> QED BY <1>2, <2>3, <2>4, <2>5
<1>13. OwnAll(M, G, T)
  <2> SUFFICES ASSUME NEW i \in 1..n, M[i].kind = "interp"
               PROVE  Own(i, FramesOf(i, M, G), M, G, T)
    BY <1>3 DEF OwnAll
  <2>1. i \in 1..Len(N) /\ M[i] = N[i] /\ N[i].floor.csp \in Nat
    BY <1>3, <1>4
  <2>2. Own(i, FramesOf(i, N, F), N, F, T)
    BY <2>1 DEF Machine, OwnAll
  <2>3. /\ FramesOf(i, M, G) \in Nat /\ FramesOf(i, N, F) \in Nat
        /\ FramesOf(i, M, G) <= FramesOf(i, N, F) /\ FramesOf(i, M, G) <= q
    <3>1. CASE i = n
      BY <1>2, <1>4, <1>7, <2>1, <3>1
    <3>2. CASE i # n
      <4>1. FramesOf(i, M, G) = M[i + 1].floor.csp /\ i + 1 \in 1..n
        BY <1>3, <3>2 DEF FramesOf
      <4>2. FramesOf(i, M, G) <= q
        BY <1>3, <4>1
      <4> QED BY <1>4, <1>6, <3>2, <4>2
    <3> QED BY <3>1, <3>2
  <2>4. \A j \in 1..FramesOf(i, M, G) : G[j].act = F[j].act
    BY <1>2, <2>3
  <2> QED BY <2>1, <2>2, <2>3, <2>4, OwnSame
<1>14. LeadsAll(M, G, T, u)
  <2> SUFFICES ASSUME NEW k \in 1..Len(T) PROVE Leads(T[k], k, M, G, T) /\ T[k].owner <= u
    BY DEF LeadsAll
  <2> DEFINE o == T[k].owner
  <2>1. Leads(T[k], k, N, F, T) /\ o \in 1..Len(N) /\ o <= u
    BY DEF Machine, LeadsAll, Leads
  <2>2. o \in 1..n /\ o \in 1..Len(M) /\ M[o] = N[o]
    BY <1>1, <1>3, <2>1
  <2>3. Similar(N[o], M[o])
    BY <2>2 DEF Similar
  <2>4. T[k].csp \in Nat /\ T[k].csp <= q /\ N[o].floor.csp \in Nat
    BY <1>4, <2>2, MachineTypes
  <2>5. G[T[k].csp].act = F[T[k].csp].act \/ (T[k].csp = 0 /\ N[o].floor.csp \in Nat)
    <3>1. T[k].csp \in 1..q \/ T[k].csp = 0
      BY <1>2, <2>4
    <3> QED BY <1>2, <2>4, <3>1
  <2>6. T[k].csp <= FramesOf(o, N, F) => T[k].csp <= FramesOf(o, M, G)
    BY <1>6, <1>7, <2>2, <2>4
  <2> HIDE DEF o
  <2> QED BY <2>1, <2>2, <2>3, <2>5, <2>6, LeadsSame DEF o
<1>15. ArmedAll(M, T, u)
  <2> SUFFICES ASSUME NEW i \in 1..u, CallsBack(M[i]) PROVE Armed(M[i], i, T)
    BY DEF ArmedAll
  <2>1. M[i] = N[i]
    BY <1>1, <1>3
  <2> QED BY <2>1 DEF Machine, ArmedAll
<1>16. u \in 0..Len(M)
  BY <1>1, <1>3
<1> QED BY <1>8, <1>9, <1>10, <1>11, <1>12, <1>13, <1>14, <1>15, <1>16 DEF Machine

\* The top activation moves on: only its code point or its progress changes.
Progress(a, b) ==
    /\ Similar(a, b) /\ a.kind \in {"interp", "callex"} /\ (CallsBack(b) <=> CallsBack(a))
    /\ a.kind = "callex" => b.exc = a.exc /\ b.vthis = a.vthis /\ b.env = a.env

LEMMA MoveOn ==
    ASSUME NEW N, IsSeq(N), NEW F, NEW T, NEW h, NEW u, Machine(N, F, T, h, u),
           Len(N) >= 1, NEW b, Progress(N[Len(N)], b),
           NEW M, IsSeq(M), Len(M) = Len(N), M[Len(N)] = b,
           \A i \in 1..(Len(N) - 1) : M[i] = N[i]
    PROVE  Machine(M, F, T, h, u)
<1> DEFINE n == Len(N)
           a == N[n]
<1>1. n \in Nat /\ n \in 1..n /\ u \in Nat /\ u <= n /\ Len(F) \in Nat
  BY MachineTypes
<1>2. Similar(a, b) /\ a.kind \in {"interp", "callex"} /\ (CallsBack(b) <=> CallsBack(a))
  BY DEF Progress
<1>3. \A i \in 1..n : i = n \/ (i \in 1..(n - 1) /\ M[i] = N[i])
  BY <1>1
<1>4. \A i \in 1..n : Similar(N[i], M[i]) /\ M[i].floor = N[i].floor
  BY <1>2, <1>3 DEF Similar
<1>5. \A i \in 1..n : M[i].kind = N[i].kind /\ (IsHandler(N[i]) <=> IsHandler(M[i]))
  BY <1>4 DEF Similar
<1>6. \A i \in 1..n : FramesOf(i, M, F) = FramesOf(i, N, F)
  <2> TAKE i \in 1..n
  <2>1. i # n => i + 1 \in 1..n
    BY <1>1
  <2> QED BY <1>4, <2>1 DEF FramesOf
<1>7. Floors(M, F, T, h)
  <2>1. \A i \in 1..Len(M) : Below(M[i].floor, i, F, T, h)
    BY <1>4 DEF Machine, Floors
  <2>2. \A i, j \in 1..Len(M) : i <= j =>
          M[i].floor.sp <= M[j].floor.sp /\ M[i].floor.csp <= M[j].floor.csp
    BY <1>4 DEF Machine, Floors
  <2> QED BY <2>1, <2>2 DEF Floors
<1>8. KeptAll(M, F, T)
  <2> SUFFICES ASSUME NEW i \in 1..n, M[i].kind \in {"host", "prim"}
               PROVE  Kept(M[i], i, M, F, T)
    BY DEF KeptAll
  <2>1. i \in 1..(n - 1) /\ M[i] = N[i] /\ i \in Nat
    BY <1>2, <1>3, <1>5
  <2>2. Kept(N[i], i, N, F, T)
    BY <2>1 DEF Machine, KeptAll
  <2>3. \A j \in 1..i : IsHandler(N[j]) <=> IsHandler(M[j])
    BY <1>1, <1>5, <2>1
  <2> QED BY <2>1, <2>2, <2>3, KeptSame
<1>9. WaitsAll(M, F, T)
  <2> SUFFICES ASSUME NEW i \in 1..(n - 1) PROVE Waits(M[i], M[i + 1], i, F, T)
    BY DEF WaitsAll
  <2>1. Waits(N[i], N[i + 1], i, F, T) /\ M[i] = N[i]
    BY DEF Machine, WaitsAll
  <2>2. CASE i + 1 = n
    <3>1. Waits(N[i], a, i, F, T) /\ M[i + 1] = b
      BY <2>1, <2>2
    <3>2. b.kind = a.kind /\ b.floor = a.floor /\ a.kind \in {"interp", "callex"}
          /\ (a.kind = "callex" => b.exc = a.exc /\ b.vthis = a.vthis /\ b.env = a.env)
      BY DEF Progress, Similar
    <3>3. Waits(N[i], b, i, F, T)
      BY <3>1, <3>2 DEF Waits
    <3> QED BY <2>1, <3>1, <3>3
  <2>3. CASE i + 1 # n
    <3>1. M[i + 1] = N[i + 1]
      BY <1>1, <2>3
    <3> QED BY <2>1, <3>1
  <2> QED BY <2>2, <2>3
<1>10. OwnAll(M, F, T)
  <2> SUFFICES ASSUME NEW i \in 1..n, M[i].kind = "interp"
               PROVE  Own(i, FramesOf(i, M, F), M, F, T)
    BY DEF OwnAll
  <2>1. Own(i, FramesOf(i, N, F), N, F, T)
    BY <1>5 DEF Machine, OwnAll
  <2>2. M[i].floor = N[i].floor /\ M[i].init = N[i].init
    BY <1>4, <1>5 DEF Similar
  <2>3. \A j : Stands(F[j].act, j - 1, N[i], F) => Stands(F[j].act, j - 1, M[i], F)
    BY <2>2 DEF Stands
  <2> QED BY <1>6, <2>1, <2>2, <2>3 DEF Own
<1>11. LeadsAll(M, F, T, u)
  <2> SUFFICES ASSUME NEW k \in 1..Len(T) PROVE Leads(T[k], k, M, F, T) /\ T[k].owner <= u
    BY DEF LeadsAll
  <2>1. Leads(T[k], k, N, F, T) /\ T[k].owner \in 1..n /\ T[k].owner <= u
    BY DEF Machine, LeadsAll, Leads
  <2>2. Similar(N[T[k].owner], M[T[k].owner]) /\ T[k].owner \in 1..Len(M)
        /\ FramesOf(T[k].owner, M, F) = FramesOf(T[k].owner, N, F)
    BY <1>4, <1>6, <2>1
  <2> QED BY <2>1, <2>2, LeadsSame
<1>12. ArmedAll(M, T, u)
  <2> SUFFICES ASSUME NEW i \in 1..u, CallsBack(M[i]) PROVE Armed(M[i], i, T)
    BY DEF ArmedAll
  <2>1. i \in 1..n /\ M[i].floor = N[i].floor
    BY <1>1, <1>4
  <2>2. CallsBack(N[i])
    BY <1>2, <1>3, <2>1
  <2> QED BY <2>1, <2>2 DEF Machine, ArmedAll, Armed
<1> QED BY <1>7, <1>8, <1>9, <1>10, <1>11, <1>12 DEF Machine

-----------------------------------------------------------------------------
(* Code points that move. *)

LEMMA CodeWith ==
    ASSUME NEW c, CodePoint(c), NEW x
    PROVE  /\ [c EXCEPT !.d = x] = [where |-> c.where, base |-> c.base, args |-> c.args, d |-> x,
                                    open |-> c.open, vthis |-> c.vthis, env |-> c.env]
           /\ [c EXCEPT !.vthis = x] = [where |-> c.where, base |-> c.base, args |-> c.args, d |-> c.d,
                                        open |-> c.open, vthis |-> x, env |-> c.env]
<1>1. c = [where |-> c.where, base |-> c.base, args |-> c.args, d |-> c.d,
           open |-> c.open, vthis |-> c.vthis, env |-> c.env]
  BY DEF CodePoint
<1>2. [c EXCEPT !.d = x] = [where |-> c.where, base |-> c.base, args |-> c.args, d |-> x,
                            open |-> c.open, vthis |-> c.vthis, env |-> c.env]
  BY <1>1
<1>3. [c EXCEPT !.vthis = x] = [where |-> c.where, base |-> c.base, args |-> c.args, d |-> c.d,
                                open |-> c.open, vthis |-> x, env |-> c.env]
  BY <1>1
<1> QED BY <1>2, <1>3

\* The open traps of c are the innermost of T, above q others.
OnTop(c, i, T, q) ==
    /\ q \in Nat /\ q + Len(c.open) = Len(T)
    /\ \A k \in 1..Len(c.open) :
         T[q + k].pos = c.base + c.open[k] + TrapSlots /\ T[q + k].owner = i
    /\ \A k \in 1..q : T[k].pos <= c.base

\* At a height no trap exceeds, the open traps of the code are the innermost.
LEMMA PlacedTop ==
    ASSUME NEW c, CodePoint(c), NEW i, NEW T, Len(T) \in Nat, Placed(c, i, T),
           \A k \in 1..Len(T) : T[k].pos \in Nat /\ T[k].pos <= Height(c)
    PROVE  \E q : OnTop(c, i, T, q)
<1>1. PICK q \in Nat :
        /\ q + Len(c.open) <= Len(T)
        /\ \A k \in 1..Len(c.open) :
             T[q + k].pos = c.base + c.open[k] + TrapSlots /\ T[q + k].owner = i
        /\ \A k \in 1..q : T[k].pos <= c.base
        /\ \A k \in (q + Len(c.open) + 1)..Len(T) : T[k].pos > Height(c)
  BY DEF Placed
<1>2. Len(c.open) \in Nat /\ Height(c) \in Nat
  BY CodeSlots
<1>3. q + Len(c.open) = Len(T)
  <2>1. SUFFICES ASSUME q + Len(c.open) # Len(T) PROVE FALSE
    OBVIOUS
  <2>2. Len(T) \in (q + Len(c.open) + 1)..Len(T) /\ Len(T) \in 1..Len(T)
    BY <1>1, <1>2, <2>1
  <2>3. T[Len(T)].pos > Height(c) /\ T[Len(T)].pos \in Nat /\ T[Len(T)].pos <= Height(c)
    BY <1>1, <2>2
  <2> QED BY <1>2, <2>3
<1> QED BY <1>1, <1>3 DEF OnTop

\* Code that owns the innermost traps.
LEMMA PlacedIntro ==
    ASSUME NEW c, NEW i, NEW T, Len(T) \in Nat, NEW q, OnTop(c, i, T, q)
    PROVE  Placed(c, i, T)
<1>1. q \in Nat /\ q + Len(c.open) <= Len(T) /\ (q + Len(c.open) + 1)..Len(T) = {}
  BY DEF OnTop
<1> QED BY <1>1 DEF OnTop, Placed

\* A function, a module or a callback that begins.
LEMMA FreshCode ==
    ASSUME NEW w \in {"fun", "main", "callback"}, NEW b \in Nat, NEW n \in Nat, NEW t, NEW e
    PROVE  /\ CodePoint(Code(w, b, n, t, e)) /\ Height(Code(w, b, n, t, e)) = b + n
           /\ Code(w, b, n, t, e).where = w /\ Code(w, b, n, t, e).base = b
           /\ Code(w, b, n, t, e).d = n /\ Code(w, b, n, t, e).open = <<>>
           /\ Code(w, b, n, t, e).vthis = t /\ Code(w, b, n, t, e).env = e
           /\ \A i, T : IsSeq(T) /\ (\A k \in 1..Len(T) : T[k].pos <= b)
                          => Placed(Code(w, b, n, t, e), i, T)
<1> DEFINE c == Code(w, b, n, t, e)
<1>1. /\ c.where = w /\ c.base = b /\ c.args = n /\ c.d = n /\ c.open = <<>> /\ c.vthis = t
      /\ c.env = e
      /\ c = [where |-> c.where, base |-> c.base, args |-> c.args, d |-> c.d,
              open |-> c.open, vthis |-> c.vthis, env |-> c.env]
  BY DEF Code
<1> HIDE DEF c
<1>2. c.open \in Seq(Nat) /\ Len(c.open) = 0
  BY <1>1
<1>3. CodePoint(c) /\ Height(c) = b + n
  <2>1. KeepsArgs(c)
    BY <1>1, <1>2 DEF KeepsArgs
  <2> QED BY <1>1, <1>2, <2>1 DEF CodePoint, Height
<1>4. ASSUME NEW i, NEW T, IsSeq(T), \A k \in 1..Len(T) : T[k].pos <= b
      PROVE  Placed(c, i, T)
  <2>1. Len(T) \in Nat
    BY <1>4, SeqLen
  <2>2. Len(T) + Len(c.open) = Len(T) /\ 1..Len(c.open) = {}
    BY <1>2, <2>1
  <2>3. OnTop(c, i, T, Len(T))
    BY <1>1, <1>4, <2>1, <2>2 DEF OnTop
  <2> QED BY <2>1, <2>3, PlacedIntro
<1> QED BY <1>1, <1>3, <1>4 DEF c

\* The code gains or loses slots above its innermost open trap.
LEMMA ResizeCode ==
    ASSUME NEW c, CodePoint(c), NEW i, NEW T, IsSeq(T), Placed(c, i, T), NEW x \in Nat,
           c.args <= x, Len(c.open) > 0 => c.open[Len(c.open)] + TrapSlots <= x,
           \A k \in 1..Len(T) :
             T[k].pos \in Nat /\ T[k].pos <= c.base + c.d /\ T[k].pos <= c.base + x
    PROVE  /\ CodePoint([c EXCEPT !.d = x]) /\ Height([c EXCEPT !.d = x]) = c.base + x
           /\ Placed([c EXCEPT !.d = x], i, T)
           /\ [c EXCEPT !.d = x].where = c.where /\ [c EXCEPT !.d = x].base = c.base
           /\ [c EXCEPT !.d = x].d = x /\ [c EXCEPT !.d = x].open = c.open
           /\ [c EXCEPT !.d = x].vthis = c.vthis /\ [c EXCEPT !.d = x].env = c.env
<1> DEFINE b == [c EXCEPT !.d = x]
<1>1. /\ b.where = c.where /\ b.base = c.base /\ b.d = x /\ b.open = c.open
      /\ b.args = c.args /\ b.vthis = c.vthis /\ b.env = c.env
      /\ b = [where |-> b.where, base |-> b.base, args |-> b.args, d |-> b.d,
              open |-> b.open, vthis |-> b.vthis, env |-> b.env]
  <2>1. b = [where |-> c.where, base |-> c.base, args |-> c.args, d |-> x,
             open |-> c.open, vthis |-> c.vthis, env |-> c.env]
    BY CodeWith
  <2> QED BY <2>1
<1> HIDE DEF b
<1>2. Len(c.open) \in Nat /\ c.base \in Nat /\ Height(c) = c.base + c.d
  BY CodeSlots
<1>3. \A k \in 1..Len(b.open) :
        b.open[k] + TrapSlots <= IF k < Len(b.open) THEN b.open[k + 1] ELSE b.d
  <2> SUFFICES ASSUME NEW k \in 1..Len(c.open)
               PROVE  c.open[k] + TrapSlots <= IF k < Len(c.open) THEN c.open[k + 1] ELSE x
    BY <1>1
  <2>1. CASE k < Len(c.open)
    BY <2>1 DEF CodePoint
  <2>2. CASE ~(k < Len(c.open))
    <3>1. k = Len(c.open) /\ Len(c.open) > 0
      BY <1>2, <2>2
    <3> QED BY <2>2, <3>1
  <2> QED BY <2>1, <2>2
<1>4. CodePoint(b)
  <2>1. b.where \in {"fun", "main", "callback"} /\ b.base \in Nat /\ b.open \in Seq(Nat)
    BY <1>1 DEF CodePoint
  <2>2. KeepsArgs(b)
    BY <1>1 DEF CodePoint, KeepsArgs
  <2> QED BY <1>1, <1>3, <2>1, <2>2 DEF CodePoint
<1>5. Height(b) = c.base + x
  BY <1>1 DEF Height
<1>6. Placed(b, i, T)
  <2>1. Len(T) \in Nat /\ \A k \in 1..Len(T) : T[k].pos \in Nat /\ T[k].pos <= Height(c)
    BY <1>2, SeqLen
  <2>2. PICK q : OnTop(c, i, T, q)
    BY <2>1, PlacedTop
  <2>3. OnTop(b, i, T, q)
    BY <1>1, <2>2 DEF OnTop
  <2> QED BY <2>1, <2>3, PlacedIntro
<1> QED BY <1>1, <1>4, <1>5, <1>6 DEF b

\* The code opens a trap in the slots above it.
LEMMA OpenCode ==
    ASSUME NEW c, CodePoint(c), NEW i, NEW T, IsSeq(T), Placed(c, i, T),
           \A k \in 1..Len(T) : T[k].pos \in Nat /\ T[k].pos <= c.base + c.d,
           NEW t, NEW U, Extended(T, t, U), t.owner = i, t.pos = c.base + c.d + TrapSlots
    PROVE  LET b == [c EXCEPT !.d = @ + TrapSlots, !.open = Append(@, c.d)]
           IN  /\ CodePoint(b) /\ Height(b) = c.base + c.d + TrapSlots /\ Placed(b, i, U)
               /\ b.where = c.where /\ b.base = c.base
               /\ b.vthis = c.vthis /\ b.env = c.env
<1> DEFINE b == [c EXCEPT !.d = @ + TrapSlots, !.open = Append(@, c.d)]
           m == Len(c.open)
<1>0. m = Len(c.open)
  OBVIOUS
<1>1. /\ b.where = c.where /\ b.base = c.base /\ b.d = c.d + TrapSlots
      /\ b.args = c.args /\ b.open = Append(c.open, c.d) /\ b.vthis = c.vthis /\ b.env = c.env
      /\ b = [where |-> b.where, base |-> b.base, args |-> b.args, d |-> b.d,
              open |-> b.open, vthis |-> b.vthis, env |-> b.env]
  <2>1. b = [where |-> c.where, base |-> c.base, args |-> c.args, d |-> c.d + TrapSlots,
             open |-> Append(c.open, c.d), vthis |-> c.vthis, env |-> c.env]
    <3> DEFINE e == [c EXCEPT !.d = c.d + TrapSlots]
    <3>1. b = [e EXCEPT !.open = Append(c.open, c.d)]
      OBVIOUS
    <3>2. e = [where |-> c.where, base |-> c.base, args |-> c.args, d |-> c.d + TrapSlots,
               open |-> c.open, vthis |-> c.vthis, env |-> c.env]
      BY CodeWith
    <3> HIDE DEF e
    <3> QED BY <3>1, <3>2
  <2> QED BY <2>1
<1> HIDE DEF b, m
<1>2. /\ m \in Nat /\ c.base \in Nat /\ c.d \in Nat /\ Height(c) = c.base + c.d
      /\ m > 0 => c.open[m] + TrapSlots <= c.d
      /\ \A k \in 1..m : k < m => c.open[k] + TrapSlots <= c.open[k + 1]
  BY <1>0, CodeSlots
<1>3. /\ b.open \in Seq(Nat) /\ Len(b.open) = m + 1 /\ b.open[m + 1] = c.d
      /\ \A k \in 1..m : b.open[k] = c.open[k]
  <2>1. c.open \in Seq(Nat) /\ c.d \in Nat
    BY DEF CodePoint
  <2> QED BY <1>0, <1>1, <2>1
<1>4. \A k \in 1..Len(b.open) :
        b.open[k] + TrapSlots <= IF k < Len(b.open) THEN b.open[k + 1] ELSE b.d
  <2> SUFFICES ASSUME NEW k \in 1..(m + 1)
               PROVE  b.open[k] + TrapSlots <= IF k < m + 1 THEN b.open[k + 1] ELSE b.d
    BY <1>3
  <2>1. CASE k < m
    <3>1. k \in 1..m /\ k + 1 \in 1..m
      BY <1>2, <2>1
    <3>2. c.open[k] + TrapSlots <= c.open[k + 1]
      BY <1>2, <2>1, <3>1
    <3>3. b.open[k] = c.open[k] /\ b.open[k + 1] = c.open[k + 1] /\ k < m + 1
      BY <1>2, <1>3, <2>1, <3>1
    <3> QED BY <3>2, <3>3
  <2>2. CASE k = m
    BY <1>2, <1>3, <2>2
  <2>3. CASE k = m + 1
    BY <1>1, <1>2, <1>3, <2>3 DEF TrapSlots
  <2> QED BY <1>2, <2>1, <2>2, <2>3
<1>5. CodePoint(b)
  <2>1. b.where \in {"fun", "main", "callback"} /\ b.base \in Nat /\ b.d \in Nat
    BY <1>1, <1>2 DEF CodePoint, TrapSlots
  <2>2. KeepsArgs(c)
    BY DEF CodePoint
  <2>3. b.args \in Nat /\ b.args <= c.d /\ b.args <= b.d
    BY <1>1, <1>2, <2>2 DEF KeepsArgs, TrapSlots
  <2>4. \A k \in 1..Len(b.open) : b.args <= b.open[k]
    <3> TAKE k \in 1..Len(b.open)
    <3>1. CASE k = m + 1
      BY <1>3, <2>3, <3>1
    <3>2. CASE k # m + 1
      <4>1. k \in 1..m
        BY <1>2, <1>3, <3>2
      <4> QED BY <1>0, <1>1, <1>3, <2>2, <4>1 DEF KeepsArgs
    <3> QED BY <3>1, <3>2
  <2> QED BY <1>1, <1>3, <1>4, <2>1, <2>3, <2>4 DEF CodePoint, KeepsArgs
<1>6. Height(b) = c.base + c.d + TrapSlots
  BY <1>1, <1>2 DEF Height, TrapSlots
<1>7. Placed(b, i, U)
  <2>1. Len(T) \in Nat /\ \A k \in 1..Len(T) : T[k].pos \in Nat /\ T[k].pos <= Height(c)
    BY <1>2, SeqLen
  <2>2. PICK q : OnTop(c, i, T, q)
    BY <2>1, PlacedTop
  <2>3. /\ q \in Nat /\ q + m = Len(T)
        /\ \A k \in 1..m :
             T[q + k].pos = c.base + c.open[k] + TrapSlots /\ T[q + k].owner = i
        /\ \A k \in 1..q : T[k].pos <= c.base
    BY <1>0, <2>2 DEF OnTop
  <2>4. Len(U) = Len(T) + 1 /\ U[Len(T) + 1] = t /\ \A k \in 1..Len(T) : U[k] = T[k]
    BY DEF Extended
  <2>5. q + Len(b.open) = Len(U) /\ Len(U) \in Nat
    BY <1>2, <1>3, <2>1, <2>3, <2>4
  <2>6. ASSUME NEW k \in 1..(m + 1)
        PROVE  U[q + k].pos = b.base + b.open[k] + TrapSlots /\ U[q + k].owner = i
    <3>1. CASE k = m + 1
      <4>1. U[q + (m + 1)] = t
        BY <1>2, <2>3, <2>4
      <4> QED BY <1>1, <1>3, <3>1, <4>1
    <3>2. CASE k # m + 1
      <4>1. k \in 1..m /\ q + k \in 1..Len(T)
        BY <1>2, <2>1, <2>3, <3>2
      <4> QED BY <1>1, <1>3, <2>3, <2>4, <4>1
    <3> QED BY <3>1, <3>2
  <2>7. \A k \in 1..q : U[k].pos <= b.base
    <3> TAKE k \in 1..q
    <3>1. k \in 1..Len(T)
      BY <1>2, <2>1, <2>3
    <3> QED BY <1>1, <2>3, <2>4, <3>1
  <2>8. OnTop(b, i, U, q)
    BY <1>3, <2>3, <2>5, <2>6, <2>7 DEF OnTop
  <2> QED BY <2>5, <2>8, PlacedIntro
<1> QED BY <1>1, <1>5, <1>6, <1>7 DEF b

\* The innermost open trap of the code, when nothing is above it.
LEMMA LastTrap ==
    ASSUME NEW c, CodePoint(c), c.open # <<>>, NEW i, NEW T, IsSeq(T), Placed(c, i, T),
           \A k \in 1..Len(T) : T[k].pos \in Nat /\ T[k].pos <= c.base + c.d,
           c.d = c.open[Len(c.open)] + TrapSlots
    PROVE  Len(T) >= 1 /\ T[Len(T)].owner = i /\ T[Len(T)].pos = c.base + c.d /\ c.d >= TrapSlots
<1> DEFINE m == Len(c.open)
<1>1. m = Len(c.open)
  OBVIOUS
<1> HIDE DEF m
<1>2. /\ m \in Nat /\ c.base \in Nat /\ c.d \in Nat /\ Height(c) = c.base + c.d
      /\ \A k \in 1..m : c.open[k] \in Nat
  BY <1>1, CodeSlots
<1>3. m >= 1
  <2>1. c.open \in Seq(Nat)
    BY DEF CodePoint
  <2>2. Len(c.open) # 0
    BY <2>1
  <2> QED BY <1>1, <1>2, <2>2
<1>4. PICK x \in Nat : c.open[m] = x /\ c.d = x + 6 /\ TrapSlots = 6
  <2>1. c.open[m] \in Nat /\ c.d = c.open[m] + TrapSlots
    BY <1>1, <1>2, <1>3
  <2> QED BY <2>1 DEF TrapSlots
<1>5. Len(T) \in Nat /\ \A k \in 1..Len(T) : T[k].pos \in Nat /\ T[k].pos <= Height(c)
  BY <1>2, SeqLen
<1>6. PICK q : OnTop(c, i, T, q)
  BY <1>5, PlacedTop
<1>7. /\ q \in Nat /\ Len(T) = q + m
      /\ \A k \in 1..m :
           T[q + k].pos = c.base + c.open[k] + TrapSlots /\ T[q + k].owner = i
  BY <1>1, <1>6 DEF OnTop
<1>8. Len(T) >= 1 /\ T[Len(T)].owner = i /\ T[Len(T)].pos = c.base + c.d
  <2>1. m \in 1..m
    BY <1>2, <1>3
  <2>2. T[q + m].pos = c.base + c.open[m] + TrapSlots /\ T[q + m].owner = i
    BY <1>7, <2>1
  <2>3. c.base + c.open[m] + TrapSlots = c.base + c.d
    <3>1. PICK y \in Nat : c.base = y
      BY <1>2
    <3>2. y + x + 6 = y + (x + 6)
      OBVIOUS
    <3> QED BY <1>4, <3>1, <3>2
  <2> QED BY <1>2, <1>3, <1>7, <2>2, <2>3
<1>9. c.d >= TrapSlots
  BY <1>4
<1> QED BY <1>8, <1>9

\* The code closes its innermost open trap, of which nothing is above.
LEMMA CloseCode ==
    ASSUME NEW c, CodePoint(c), c.open # <<>>, NEW i, NEW T, IsSeq(T), Placed(c, i, T),
           \A k \in 1..Len(T) : T[k].pos \in Nat /\ T[k].pos <= c.base + c.d,
           c.d = c.open[Len(c.open)] + TrapSlots, NEW U, CutTo(T, Len(T) - 1, U)
    PROVE  LET b == [c EXCEPT !.d = @ - TrapSlots, !.open = Front(@)]
           IN  /\ CodePoint(b) /\ Height(b) = c.base + c.d - TrapSlots /\ Placed(b, i, U)
               /\ b.where = c.where /\ b.base = c.base
               /\ b.vthis = c.vthis /\ b.env = c.env
<1> DEFINE b == [c EXCEPT !.d = @ - TrapSlots, !.open = Front(@)]
           m == Len(c.open)
<1>0. m = Len(c.open)
  OBVIOUS
<1>1. /\ b.where = c.where /\ b.base = c.base /\ b.d = c.d - TrapSlots
      /\ b.args = c.args /\ b.open = Front(c.open) /\ b.vthis = c.vthis /\ b.env = c.env
      /\ b = [where |-> b.where, base |-> b.base, args |-> b.args, d |-> b.d,
              open |-> b.open, vthis |-> b.vthis, env |-> b.env]
  <2>1. b = [where |-> c.where, base |-> c.base, args |-> c.args, d |-> c.d - TrapSlots,
             open |-> Front(c.open), vthis |-> c.vthis, env |-> c.env]
    <3> DEFINE e == [c EXCEPT !.d = c.d - TrapSlots]
    <3>1. b = [e EXCEPT !.open = Front(c.open)]
      OBVIOUS
    <3>2. e = [where |-> c.where, base |-> c.base, args |-> c.args, d |-> c.d - TrapSlots,
               open |-> c.open, vthis |-> c.vthis, env |-> c.env]
      BY CodeWith
    <3> HIDE DEF e
    <3> QED BY <3>1, <3>2
  <2> QED BY <2>1
<1> HIDE DEF b, m
<1>2. /\ m \in Nat /\ c.base \in Nat /\ c.d \in Nat /\ Height(c) = c.base + c.d
      /\ \A k \in 1..m : c.open[k] \in Nat
      /\ \A k \in 1..m : k < m => c.open[k] + TrapSlots <= c.open[k + 1]
  BY <1>0, CodeSlots
<1>3. m >= 1
  <2>1. c.open \in Seq(Nat)
    BY DEF CodePoint
  <2>2. Len(c.open) # 0
    BY <2>1
  <2> QED BY <1>0, <1>2, <2>2
<1>4. PICK x \in Nat : c.open[m] = x /\ b.d = x /\ c.d = x + 6 /\ TrapSlots = 6
  <2>1. c.open[m] \in Nat /\ c.d = c.open[m] + TrapSlots
    BY <1>0, <1>2, <1>3
  <2> QED BY <1>1, <2>1 DEF TrapSlots
<1>5. /\ b.open \in Seq(Nat) /\ Len(b.open) = m - 1
      /\ \A k \in 1..(m - 1) : b.open[k] = c.open[k]
  <2>1. c.open \in Seq(Nat) /\ m - 1 \in 0..m
    BY <1>2, <1>3 DEF CodePoint
  <2>2. b.open = SubSeq(c.open, 1, m - 1)
    BY <1>0, <1>1 DEF Front, Prefix
  <2>3. b.open \in Seq(Nat)
    BY <1>0, <1>2, <1>3, <2>1, <2>2
  <2>4. CutTo(c.open, m - 1, b.open)
    BY <1>0, <1>1, <2>1, FrontCuts DEF IsSeq
  <2> QED BY <2>3, <2>4 DEF CutTo
<1>6. \A k \in 1..Len(b.open) :
        b.open[k] + TrapSlots <= IF k < Len(b.open) THEN b.open[k + 1] ELSE b.d
  <2> SUFFICES ASSUME NEW k \in 1..(m - 1)
               PROVE  b.open[k] + TrapSlots <= IF k < m - 1 THEN b.open[k + 1] ELSE b.d
    BY <1>5
  <2>0. k \in 1..m /\ k < m
    BY <1>2
  <2>1. c.open[k] + TrapSlots <= c.open[k + 1] /\ b.open[k] = c.open[k]
    BY <1>2, <1>5, <2>0
  <2>2. CASE k < m - 1
    <3>1. k + 1 \in 1..(m - 1)
      BY <1>2, <2>2
    <3> QED BY <1>5, <2>1, <2>2, <3>1
  <2>3. CASE ~(k < m - 1)
    <3>1. k + 1 = m
      BY <1>2, <2>3
    <3> QED BY <1>4, <2>1, <2>3, <3>1
  <2> QED BY <2>2, <2>3
<1>7. CodePoint(b)
  <2>1. b.where \in {"fun", "main", "callback"} /\ b.base \in Nat /\ b.d \in Nat
    BY <1>1, <1>4 DEF CodePoint
  <2>2. KeepsArgs(c)
    BY DEF CodePoint
  <2>3. b.args \in Nat /\ b.args <= b.d
    <3>1. m \in 1..m
      BY <1>2, <1>3
    <3> QED BY <1>0, <1>1, <1>4, <2>2, <3>1 DEF KeepsArgs
  <2>4. \A k \in 1..Len(b.open) : b.args <= b.open[k]
    <3> TAKE k \in 1..Len(b.open)
    <3>1. k \in 1..m /\ b.open[k] = c.open[k]
      BY <1>2, <1>5
    <3> QED BY <1>0, <1>1, <2>2, <3>1 DEF KeepsArgs
  <2> QED BY <1>1, <1>5, <1>6, <2>1, <2>3, <2>4 DEF CodePoint, KeepsArgs
<1>8. Height(b) = c.base + c.d - TrapSlots /\ c.d >= TrapSlots
  <2>1. Height(b) = c.base + x /\ c.base \in Nat
    BY <1>1, <1>2, <1>4 DEF Height
  <2> QED BY <1>4, <2>1
<1>9. Len(T) \in Nat /\ \A k \in 1..Len(T) : T[k].pos \in Nat /\ T[k].pos <= Height(c)
  BY <1>2, SeqLen
<1>10. PICK q : OnTop(c, i, T, q)
  BY <1>9, PlacedTop
<1>11. /\ q \in Nat /\ Len(T) = q + m
       /\ \A k \in 1..m :
            T[q + k].pos = c.base + c.open[k] + TrapSlots /\ T[q + k].owner = i
       /\ \A k \in 1..q : T[k].pos <= c.base
  BY <1>0, <1>10 DEF OnTop
<1>13. Placed(b, i, U)
  <2>1. Len(U) = q + (m - 1) /\ \A k \in 1..(q + (m - 1)) : U[k] = T[k]
    BY <1>2, <1>3, <1>11 DEF CutTo
  <2>2. q + Len(b.open) = Len(U) /\ Len(U) \in Nat
    BY <1>2, <1>3, <1>5, <1>11, <2>1
  <2>3. ASSUME NEW k \in 1..(m - 1)
        PROVE  U[q + k].pos = b.base + b.open[k] + TrapSlots /\ U[q + k].owner = i
    <3>1. k \in 1..m /\ q + k \in 1..(q + (m - 1))
      BY <1>2, <1>11
    <3> QED BY <1>1, <1>5, <1>11, <2>1, <3>1
  <2>4. \A k \in 1..q : U[k].pos <= b.base
    <3> TAKE k \in 1..q
    <3>1. k \in 1..(q + (m - 1))
      BY <1>2, <1>3, <1>11
    <3> QED BY <1>1, <1>11, <2>1, <3>1
  <2>5. OnTop(b, i, U, q)
    BY <1>5, <1>11, <2>2, <2>3, <2>4 DEF OnTop
  <2> QED BY <2>2, <2>5, PlacedIntro
<1> QED BY <1>1, <1>7, <1>8, <1>13 DEF b

\* Where code runs, every frame and every mark lies below its slots, and every
\* trap below those it may use.
LEMMA CodeLies ==
    ASSUME NEW N, IsSeq(N), NEW F, NEW T, NEW h, NEW u, Machine(N, F, T, h, u), Len(N) >= 1,
           NEW c, CodePoint(c), h = Height(c), Stands(c, Len(F), N[Len(N)], F),
           Placed(c, Len(N), T)
    PROVE  /\ c.base \in Nat /\ c.d \in Nat /\ h = c.base + c.d
           /\ \A j \in 1..Len(F) : Height(F[j].act) <= c.base
           /\ \A i \in 1..Len(N) : N[i].floor.sp <= c.base
           /\ \A k \in 1..Len(T) :
                /\ T[k].pos \in Nat /\ T[k].pos <= c.base + c.d
                /\ c.open = <<>> => T[k].pos <= c.base
                /\ c.open # <<>> => T[k].pos <= c.base + c.open[Len(c.open)] + TrapSlots
           /\ c.open # <<>> => /\ Len(c.open) > 0 /\ c.open[Len(c.open)] \in Nat
                               /\ c.open[Len(c.open)] + TrapSlots <= c.d
           /\ c.open = <<>> => Len(c.open) = 0
<1> DEFINE n == Len(N)
           a == N[n]
<1>1. /\ n \in Nat /\ n \in 1..n /\ Len(F) \in Nat /\ Len(T) \in Nat /\ h \in Nat
      /\ c.base \in Nat /\ c.d \in Nat /\ h = c.base + c.d
  BY MachineTypes, CodeSlots
<1>2. /\ a.floor.sp \in Nat /\ a.floor.csp \in Nat /\ a.floor.csp <= Len(F)
  BY <1>1, MachineTypes
<1>3. /\ \A j \in 1..Len(F) : Height(F[j].act) \in Nat
      /\ \A i \in 1..n : N[i].floor.sp \in Nat /\ N[i].floor.sp <= a.floor.sp
      /\ \A k \in 1..Len(T) : T[k].pos \in Nat /\ T[k].pos <= h
  <2>1. /\ \A j \in 1..Len(F) : Height(F[j].act) \in Nat
        /\ \A i \in 1..n : N[i].floor.sp \in Nat
        /\ \A k \in 1..Len(T) : T[k].pos \in Nat /\ T[k].pos <= h
    BY MachineTypes
  <2>2. \A i \in 1..n : i <= n => N[i].floor.sp <= N[n].floor.sp
    BY <1>1 DEF Machine, Floors
  <2> QED BY <1>1, <2>1, <2>2
<1>4. Below(a.floor, n, F, T, h)
  BY <1>1 DEF Machine, Floors
<1>5. a.floor.sp <= c.base /\ \A j \in 1..Len(F) : Height(F[j].act) <= c.base
  <2>1. CASE c.where = "fun"
    <3>1. Len(F) > a.floor.csp /\ Height(F[Len(F)].act) = c.base /\ Len(F) \in 1..Len(F)
      BY <1>1, <1>2, <2>1 DEF Stands
    <3>2. \A j \in 1..Len(F) : Height(F[j].act) <= Height(F[Len(F)].act)
      BY <3>1 DEF Machine, FramesFit
    <3>3. a.floor.sp <= Height(F[Len(F)].act)
      <4>1. ~(Len(F) <= a.floor.csp)
        BY <1>1, <1>2, <3>1
      <4> QED BY <1>4, <3>1, <4>1 DEF Below
    <3> QED BY <3>1, <3>2, <3>3
  <2>2. CASE c.where # "fun"
    <3>1. Len(F) = a.floor.csp /\ c.base = a.floor.sp
      BY <2>2 DEF Stands
    <3>2. \A j \in 1..Len(F) : j <= a.floor.csp
      BY <1>1, <3>1
    <3>3. \A j \in 1..Len(F) : Height(F[j].act) <= a.floor.sp
      BY <1>4, <3>2 DEF Below
    <3> QED BY <1>1, <3>1, <3>3
  <2> QED BY <2>1, <2>2
<1>6. \A i \in 1..n : N[i].floor.sp <= c.base
  BY <1>1, <1>2, <1>3, <1>5
<1>7. /\ c.open = <<>> => Len(c.open) = 0
      /\ c.open # <<>> => Len(c.open) > 0
  <2>1. c.open \in Seq(Nat)
    BY DEF CodePoint
  <2>2. Len(c.open) = 0 <=> c.open = <<>>
    BY <2>1
  <2>3. Len(c.open) \in Nat
    BY <2>1
  <2> QED BY <2>2, <2>3
<1>8. ASSUME Len(c.open) > 0
      PROVE  /\ c.open[Len(c.open)] \in Nat /\ c.open[Len(c.open)] + TrapSlots <= c.d
  <2>1. Len(c.open) \in 1..Len(c.open)
    BY <1>8, CodeSlots
  <2> QED BY <1>8, <2>1, CodeSlots
<1>9. PICK q : OnTop(c, n, T, q)
  BY <1>1, <1>3, PlacedTop
<1>10. ASSUME c.open = <<>> PROVE \A k \in 1..Len(T) : T[k].pos <= c.base
  <2>1. q = Len(T)
    BY <1>1, <1>7, <1>9, <1>10 DEF OnTop
  <2> QED BY <1>9, <2>1 DEF OnTop
<1>11. ASSUME c.open # <<>>
       PROVE  \A k \in 1..Len(T) : T[k].pos <= c.base + c.open[Len(c.open)] + TrapSlots
  <2> DEFINE m == Len(c.open)
  <2>1. m \in Nat /\ m \in 1..m
    BY <1>7, <1>11, CodeSlots
  <2>2. q \in Nat /\ q + m = Len(T) /\ T[q + m].pos = c.base + c.open[m] + TrapSlots
    BY <1>9, <2>1 DEF OnTop
  <2> HIDE DEF m
  <2>3. Len(T) \in 1..Len(T) /\ T[Len(T)].pos = c.base + c.open[m] + TrapSlots
    BY <2>1, <2>2
  <2>4. \A k \in 1..Len(T) : T[k].pos <= T[Len(T)].pos
    <3> TAKE k \in 1..Len(T)
    <3>1. CASE k = Len(T)
      BY <1>3, <3>1
    <3>2. CASE k < Len(T)
      <4>1. T[k].pos + TrapSlots <= T[Len(T)].pos /\ T[k].pos \in Nat /\ T[Len(T)].pos \in Nat
        BY <1>3, <2>3, <3>2 DEF Machine, TrapsFit
      <4> QED BY <4>1 DEF TrapSlots
    <3> QED BY <1>1, <3>1, <3>2
  <2> QED BY <2>3, <2>4 DEF m
<1> QED BY <1>1, <1>3, <1>5, <1>6, <1>7, <1>8, <1>10, <1>11

-----------------------------------------------------------------------------
(* The machine in its states. *)

Sound == Healthy /\ Bounds

LEMMA UsedNat ==
    ASSUME IsSeq(csp), sp \in Nat
    PROVE  Used \in Nat /\ Used = 4 * Len(csp) + sp /\ Len(csp) \in Nat
<1>1. Len(csp) \in Nat
  BY SeqLen
<1> QED BY <1>1 DEF Used, FrameSlots

\* What growing the array achieves: twice its size is room for any push.
LEMMA ReserveFits ==
    ASSUME Bounds, Used \in Nat, Used <= size, NEW n \in Nat, n <= InitSize, Reserve(n)
    PROVE  size' \in Nat /\ InitSize <= size' /\ Used + n <= size'
<1>1. InitSize \in Nat /\ size \in Nat /\ InitSize <= size
  BY SizesAssumption DEF Bounds
<1>2. CASE Used + n <= size
  BY <1>1, <1>2 DEF Reserve
<1>3. CASE ~(Used + n <= size)
  <2>1. size' = 2 * size
    BY <1>3 DEF Reserve
  <2> QED BY <1>1, <2>1
<1> QED BY <1>2, <1>3

\* Where bytecode runs.
LEMMA CodeFacts ==
    ASSUME VMInv, InCode
    PROVE  /\ IsSeq(native) /\ Len(native) >= 1 /\ Len(native) \in Nat
           /\ Top = native[Len(native)] /\ Shaped(Top) /\ Top.kind = "interp"
           /\ Here = Top.act /\ Here.where # "callback"
           /\ start = Len(native) /\ Machine(native, csp, traps, sp, Len(native))
           /\ CodePoint(Here) /\ sp = Height(Here) /\ Stands(Here, Len(csp), Top, csp)
           /\ Placed(Here, Len(native), traps)
           /\ vthis = Here.vthis /\ env = Here.env
           /\ IsSeq(csp) /\ IsSeq(traps) /\ Used \in Nat /\ Used <= size
           /\ Used = 4 * Len(csp) + sp /\ Len(csp) \in Nat /\ Len(traps) \in Nat /\ sp \in Nat
           /\ mode = "run" /\ why = "none" /\ damage = "none" /\ Bounds
<1>1. HandlerInv /\ Bounds /\ Ready /\ Top.kind = "interp" /\ Here.where # "callback"
      /\ damage = "none" /\ mode = "run"
  BY DEF VMInv, InCode, Ready, Here
<1>2. Healthy
  BY <1>1 DEF VMInv
<1>3. /\ Chain(native) /\ Len(native) \in 1..Len(native) /\ Len(native) \in Nat
      /\ Top = native[Len(native)] /\ Shaped(Top) /\ InnermostIn(start, native, Len(native))
  BY <1>1, Running
<1>4. start = Len(native)
  <2>1. IsHandler(native[Len(native)])
    BY <1>1, <1>3 DEF IsHandler
  <2> QED BY <1>3, <2>1 DEF InnermostIn
<1>5. why = "none" /\ InControl(Top) /\ Used <= size /\ Machine(native, csp, traps, sp, LastArmed)
  BY <1>1, <1>2 DEF Healthy
<1>6. LastArmed = Len(native)
  BY <1>4, <1>5 DEF LastArmed
<1>7. /\ CodePoint(Here) /\ sp = Height(Here) /\ Stands(Here, Len(csp), Top, csp)
      /\ Placed(Here, Len(native), traps) /\ vthis = Here.vthis /\ env = Here.env
  BY <1>1, <1>5 DEF InControl, Here
<1>8. IsSeq(native) /\ Machine(native, csp, traps, sp, Len(native))
  BY <1>3, <1>5, <1>6 DEF Chain
<1>9. IsSeq(csp) /\ IsSeq(traps) /\ sp \in Nat /\ Len(csp) \in Nat /\ Len(traps) \in Nat
  BY <1>8, MachineTypes
<1>10. Used \in Nat /\ Used = 4 * Len(csp) + sp
  BY <1>9, UsedNat
<1> QED BY <1>1, <1>3, <1>4, <1>5, <1>7, <1>8, <1>9, <1>10 DEF Here

\* The slots bytecode may pop.
LEMMA FreeSlots ==
    ASSUME VMInv, InCode
    PROVE  /\ Here.base \in Nat /\ Here.d \in Nat /\ sp = Here.base + Here.d
           /\ Free \in Nat /\ Here.args \in Nat /\ Here.args + Free <= Here.d
           /\ \A j \in 1..Len(csp) : Height(csp[j].act) \in Nat /\ Height(csp[j].act) <= Here.base
           /\ \A i \in 1..Len(native) :
                native[i].floor.sp \in Nat /\ native[i].floor.sp <= Here.base
           /\ \A k \in 1..Len(traps) : traps[k].pos \in Nat /\ traps[k].pos + Free <= sp
           /\ Here.open # <<>> =>
                /\ Len(Here.open) > 0 /\ Here.open[Len(Here.open)] \in Nat
                /\ Here.d = Here.open[Len(Here.open)] + TrapSlots + Free
           /\ Here.open = <<>> => Len(Here.open) = 0
<1> DEFINE c == Here
<1>1. /\ IsSeq(native) /\ Len(native) >= 1 /\ Machine(native, csp, traps, sp, Len(native))
      /\ CodePoint(c) /\ sp = Height(c) /\ Stands(c, Len(csp), native[Len(native)], csp)
      /\ Placed(c, Len(native), traps)
  BY CodeFacts
<1> HIDE DEF c
<1>2. /\ c.base \in Nat /\ c.d \in Nat /\ sp = c.base + c.d
      /\ \A j \in 1..Len(csp) : Height(csp[j].act) <= c.base
      /\ \A i \in 1..Len(native) : native[i].floor.sp <= c.base
      /\ \A k \in 1..Len(traps) :
           /\ traps[k].pos \in Nat /\ traps[k].pos <= c.base + c.d
           /\ c.open = <<>> => traps[k].pos <= c.base
           /\ c.open # <<>> => traps[k].pos <= c.base + c.open[Len(c.open)] + TrapSlots
      /\ c.open # <<>> => /\ Len(c.open) > 0 /\ c.open[Len(c.open)] \in Nat
                          /\ c.open[Len(c.open)] + TrapSlots <= c.d
      /\ c.open = <<>> => Len(c.open) = 0
  BY <1>1, CodeLies
<1>3. /\ \A j \in 1..Len(csp) : Height(csp[j].act) \in Nat
      /\ \A i \in 1..Len(native) : native[i].floor.sp \in Nat
  BY <1>1, MachineTypes
<1>4. Free = IF c.open = <<>> THEN c.d - c.args ELSE c.d - c.open[Len(c.open)] - TrapSlots
  BY DEF Free, c, Last
<1>7. KeepsArgs(c)
  BY <1>1 DEF CodePoint
<1>5. CASE c.open = <<>>
  <2>1. Free \in Nat /\ c.args \in Nat /\ c.args + Free <= c.d /\ Free <= c.d
    <3>1. PICK y \in Nat, x \in Nat : y = c.d /\ x = c.args /\ x <= y
      BY <1>2, <1>7 DEF KeepsArgs
    <3>2. Free = y - x
      BY <1>4, <1>5, <3>1
    <3>3. Free \in Nat /\ x + Free <= y /\ Free <= y
      BY <3>1, <3>2
    <3> QED BY <3>1, <3>3
  <2>2. \A k \in 1..Len(traps) : traps[k].pos \in Nat /\ traps[k].pos <= c.base
    BY <1>2, <1>5
  <2>3. c.base \in Nat /\ c.d \in Nat /\ sp = c.base + c.d
    BY <1>2
  <2>4. \A k \in 1..Len(traps) : traps[k].pos + Free <= sp
    <3> TAKE k \in 1..Len(traps)
    <3>1. traps[k].pos \in Nat /\ traps[k].pos <= c.base
      BY <2>2
    <3> QED BY <2>1, <2>3, <3>1
  <2> QED BY <1>2, <1>3, <1>5, <2>1, <2>2, <2>3, <2>4 DEF c
<1>6. CASE c.open # <<>>
  <2>1. PICK x \in Nat : x = c.open[Len(c.open)] /\ x + TrapSlots <= c.d
    BY <1>2, <1>6
  <2>2. Free = c.d - x - TrapSlots
    BY <1>4, <1>6, <2>1
  <2>3. c.base \in Nat /\ c.d \in Nat /\ sp = c.base + c.d
    BY <1>2
  <2>4. Free \in Nat /\ Free <= c.d /\ c.d = x + TrapSlots + Free
    <3>1. PICK y \in Nat : y = c.d
      BY <2>3
    <3>2. x + 6 <= y /\ Free = y - x - 6
      BY <2>1, <2>2, <3>1 DEF TrapSlots
    <3>3. Free \in Nat /\ Free <= y /\ y = x + 6 + Free
      BY <3>2
    <3> QED BY <3>1, <3>3 DEF TrapSlots
  <2>5. \A k \in 1..Len(traps) : traps[k].pos \in Nat /\ traps[k].pos <= c.base + x + TrapSlots
    BY <1>2, <1>6, <2>1
  <2>6. \A k \in 1..Len(traps) : traps[k].pos + Free <= sp
    <3> TAKE k \in 1..Len(traps)
    <3>1. traps[k].pos \in Nat /\ traps[k].pos <= c.base + x + TrapSlots
      BY <2>5
    <3> QED BY <2>3, <2>4, <3>1 DEF TrapSlots
  <2>7. c.args \in Nat /\ c.args + Free <= c.d
    <3>1. Len(c.open) \in 1..Len(c.open)
      BY <1>1, <1>2, <1>6, CodeSlots
    <3>2. c.args \in Nat /\ c.args <= x
      BY <1>7, <2>1, <3>1 DEF KeepsArgs
    <3> QED BY <2>4, <3>2 DEF TrapSlots
  <2> QED BY <1>2, <1>3, <1>6, <2>1, <2>3, <2>4, <2>5, <2>6, <2>7 DEF c
<1> QED BY <1>5, <1>6

\* Code that pops n slots, and what then is on the stacks.
LEMMA Popped ==
    ASSUME VMInv, InCode, NEW n \in Nat, n <= Free
    PROVE  /\ LET e == [Here EXCEPT !.d = @ - n]
              IN  /\ CodePoint(e) /\ Height(e) = sp - n /\ Placed(e, Len(native), traps)
                  /\ Stands(e, Len(csp), Top, csp)
                  /\ e.where = Here.where /\ e.base = Here.base
                  /\ e.vthis = Here.vthis /\ e.env = Here.env
           /\ sp - n \in Nat /\ Machine(native, csp, traps, sp - n, Len(native))
           /\ \A j \in 1..Len(csp) : Height(csp[j].act) <= sp - n
           /\ \A i \in 1..Len(native) : native[i].floor.sp <= sp - n
           /\ \A k \in 1..Len(traps) : traps[k].pos <= sp - n
<1> DEFINE c == Here
           x == c.d - n
           e == [c EXCEPT !.d = x]
<1>1. /\ c.base \in Nat /\ c.d \in Nat /\ sp = c.base + c.d
      /\ Free \in Nat /\ c.args \in Nat /\ c.args + Free <= c.d
      /\ \A j \in 1..Len(csp) : Height(csp[j].act) \in Nat /\ Height(csp[j].act) <= c.base
      /\ \A i \in 1..Len(native) :
           native[i].floor.sp \in Nat /\ native[i].floor.sp <= c.base
      /\ \A k \in 1..Len(traps) : traps[k].pos \in Nat /\ traps[k].pos + Free <= sp
      /\ c.open # <<>> =>
           /\ Len(c.open) > 0 /\ c.open[Len(c.open)] \in Nat
           /\ c.d = c.open[Len(c.open)] + TrapSlots + Free
      /\ c.open = <<>> => Len(c.open) = 0
  BY FreeSlots
<1>2. /\ IsSeq(native) /\ Len(native) >= 1 /\ Machine(native, csp, traps, sp, Len(native))
      /\ CodePoint(c) /\ sp = Height(c) /\ Stands(c, Len(csp), Top, csp)
      /\ Placed(c, Len(native), traps) /\ IsSeq(traps) /\ c.where # "callback"
  BY CodeFacts
<1>3. /\ x \in Nat /\ sp - n = c.base + x /\ sp - n \in Nat /\ c.base <= sp - n
      /\ c.args <= x
  <2>1. c.base \in Nat /\ c.d \in Nat /\ sp = c.base + c.d /\ Free \in Nat /\ c.args \in Nat
    BY <1>1
  <2>2. c.args + n <= c.d
    BY <1>1, <2>1
  <2> QED BY <2>1, <2>2
<1> HIDE DEF c
<1>4. Len(c.open) > 0 => c.open[Len(c.open)] + TrapSlots <= x
  <2> SUFFICES ASSUME Len(c.open) > 0 PROVE c.open[Len(c.open)] + TrapSlots <= x
    OBVIOUS
  <2>1. PICK y \in Nat : y = c.open[Len(c.open)] /\ c.d = y + TrapSlots + Free
    <3>1. Len(c.open) # 0
      OBVIOUS
    <3>2. c.open # <<>>
      BY <1>1, <3>1, Zenon
    <3>3. c.open[Len(c.open)] \in Nat /\ c.d = c.open[Len(c.open)] + TrapSlots + Free
      BY <1>1, <3>2, Zenon
    <3> QED BY <3>3
  <2>2. c.d \in Nat /\ Free \in Nat
    BY <1>1
  <2> QED BY <2>1, <2>2 DEF TrapSlots
<1>5. \A k \in 1..Len(traps) :
        traps[k].pos \in Nat /\ traps[k].pos <= c.base + c.d /\ traps[k].pos <= c.base + x
  <2> TAKE k \in 1..Len(traps)
  <2>1. traps[k].pos \in Nat /\ traps[k].pos + Free <= sp
    BY <1>1
  <2>2. c.base \in Nat /\ c.d \in Nat /\ sp = c.base + c.d /\ Free \in Nat
    BY <1>1
  <2> QED BY <2>1, <2>2
<1>6. \A j \in 1..Len(csp) : Height(csp[j].act) <= sp - n
  <2> TAKE j \in 1..Len(csp)
  <2>1. Height(csp[j].act) \in Nat /\ Height(csp[j].act) <= c.base /\ c.base \in Nat
    BY <1>1
  <2> QED BY <1>3, <2>1
<1>7. \A i \in 1..Len(native) : native[i].floor.sp <= sp - n
  <2> TAKE i \in 1..Len(native)
  <2>1. native[i].floor.sp \in Nat /\ native[i].floor.sp <= c.base /\ c.base \in Nat
    BY <1>1
  <2> QED BY <1>3, <2>1
<1>8. \A k \in 1..Len(traps) : traps[k].pos <= sp - n
  BY <1>3, <1>5
<1>9. Machine(native, csp, traps, sp - n, Len(native))
  BY <1>2, <1>3, <1>6, <1>7, <1>8, SetHeight
<1> HIDE DEF x
<1>10. /\ CodePoint(e) /\ Height(e) = c.base + x /\ Placed(e, Len(native), traps)
       /\ e.where = c.where /\ e.base = c.base /\ e.vthis = c.vthis /\ e.env = c.env
  BY <1>2, <1>3, <1>4, <1>5, ResizeCode
<1> HIDE DEF e
<1>11. Stands(e, Len(csp), Top, csp)
  BY <1>2, <1>10 DEF Stands
<1> QED BY <1>3, <1>6, <1>7, <1>8, <1>9, <1>10, <1>11 DEF c, e, x

-----------------------------------------------------------------------------
(* The machine after a step. *)

LEMMA AtMostMore == ASSUME NEW x \in Nat, NEW y \in Nat, x <= y PROVE x <= y + 6
OBVIOUS

LEMMA Fits ==
    ASSUME size' \in Nat, InitSize <= size', Used' \in Nat, Used' <= size'
    PROVE  Bounds'
<1>1. Used' <= size' + 6
  BY AtMostMore
<1> QED BY <1>1 DEF Bounds, TrapSlots

\* The bytecode on top moves to another point.
LEMMA ActMoved ==
    ASSUME NEW N, IsSeq(N), NEW F, NEW T, NEW h, NEW u, Machine(N, F, T, h, u), Len(N) >= 1,
           Shaped(N[Len(N)]), N[Len(N)].kind = "interp", NEW e
    PROVE  LET M == [N EXCEPT ![Len(N)].act = e]
           IN  /\ IsSeq(M) /\ Len(M) = Len(N) /\ M[Len(N)].kind = "interp"
               /\ M[Len(N)].act = e /\ M[Len(N)].floor = N[Len(N)].floor
               /\ Machine(M, F, T, h, u)
<1> DEFINE n == Len(N)
           a == N[n]
           b == [a EXCEPT !.act = e]
           M == [N EXCEPT ![n].act = e]
<1>1. n \in Nat /\ n >= 1 /\ DOMAIN N = 1..n
  BY SeqLen
<1>2. b = [kind |-> "interp", init |-> a.init, old |-> a.old, act |-> e, floor |-> a.floor]
  <2>1. a = [kind |-> "interp", init |-> a.init, old |-> a.old, act |-> a.act, floor |-> a.floor]
    BY DEF Shaped
  <2> QED BY <2>1
<1>3. IsSeq(M) /\ Len(M) = n /\ M[n] = b /\ \A i \in 1..(n - 1) : M[i] = N[i]
  <2>1. PICK S : N \in Seq(S)
    BY DEF IsSeq
  <2>2. N \in Seq(S \cup {b})
    BY <2>1
  <2>3. M = [N EXCEPT ![n] = b]
    OBVIOUS
  <2>4. n \in 1..Len(N) /\ b \in S \cup {b}
    BY <1>1
  <2> HIDE DEF b, M
  <2>5. M \in Seq(S \cup {b})
    BY <2>2, <2>3, <2>4
  <2>6. Len(M) = n /\ M[n] = b
    BY <2>2, <2>3, <2>4
  <2>7. \A i \in 1..(n - 1) : M[i] = N[i]
    <3> TAKE i \in 1..(n - 1)
    <3>1. i \in 1..n /\ i # n
      <4> HIDE DEF n
      <4> QED BY <1>1
    <3>2. i \in DOMAIN N
      BY <1>1, <3>1
    <3> QED BY <2>3, <3>1, <3>2
  <2> QED BY <2>5, <2>6, <2>7 DEF IsSeq
<1> HIDE DEF b
<1>4. Progress(a, b)
  BY <1>2 DEF Progress, Similar, IsHandler, CallsBack
<1> HIDE DEF M
<1>5. Machine(M, F, T, h, u)
  BY <1>1, <1>3, <1>4, MoveOn
<1> QED BY <1>2, <1>3, <1>5 DEF M

\* Bytecode in control, at code e.
LEMMA TopRuns ==
    ASSUME NEW n, n = Len(native'), IsSeq(native'), native'[n].kind = "interp",
           NEW e, native'[n].act = e,
           Machine(native', csp', traps', sp', n), start' = n, mode' = "run", why' = "none",
           CodePoint(e), sp' = Height(e), Stands(e, Len(csp'), native'[n], csp'),
           Placed(e, n, traps'), vthis' = e.vthis, env' = e.env,
           size' \in Nat, InitSize <= size', Used' <= size'
    PROVE  Sound'
<1>1. LastArmed' = n
  BY DEF LastArmed
<1>2. Top' = native'[n]
  BY DEF Top, Last
<1>3. Machine(native', csp', traps', sp', LastArmed')
  BY <1>1
<1>4. InControl(Top)'
  BY <1>2 DEF InControl
<1>5. Used' \in Nat
  <2>1. IsSeq(csp') /\ sp' \in Nat /\ Len(csp') \in Nat
    BY MachineTypes
  <2> QED BY <2>1 DEF Used, FrameSlots
<1> QED BY <1>3, <1>4, <1>5, Fits DEF Sound, Healthy

\* Bytecode runs on: the top activation N is left with, now at code e.
LEMMA CodeRuns ==
    ASSUME NEW N, IsSeq(N), Len(N) >= 1, Shaped(N[Len(N)]), N[Len(N)].kind = "interp",
           NEW e, native' = [N EXCEPT ![Len(N)].act = e],
           Machine(N, csp', traps', sp', Len(N)), start' = Len(N),
           mode' = "run", why' = "none",
           CodePoint(e), sp' = Height(e), Stands(e, Len(csp'), N[Len(N)], csp'),
           Placed(e, Len(N), traps'), vthis' = e.vthis, env' = e.env,
           size' \in Nat, InitSize <= size', Used' <= size'
    PROVE  Sound'
<1> DEFINE n == Len(N)
<1>1. /\ IsSeq(native') /\ Len(native') = n /\ native'[n].kind = "interp"
      /\ native'[n].act = e /\ native'[n].floor = N[n].floor
      /\ Machine(native', csp', traps', sp', n)
  BY ActMoved
<1>2. Stands(e, Len(csp'), native'[n], csp')
  BY <1>1 DEF Stands
<1> QED BY <1>1, <1>2, TopRuns

\* C code in control.
LEMMA CRuns ==
    ASSUME IsSeq(native'), Machine(native', csp', traps', sp', start'),
           mode' = "run", why' = "none", native'[Len(native')].kind \in {"host", "prim", "callex"},
           native'[Len(native')].kind = "callex" => Floor' = Entered(native'[Len(native')]),
           native'[Len(native')].kind # "callex" =>
             /\ Floor' = native'[Len(native')].floor
             /\ vthis' = native'[Len(native')].at.vthis /\ env' = native'[Len(native')].at.env,
           size' \in Nat, InitSize <= size', Used' <= size'
    PROVE  Sound'
<1>1. LastArmed' = start'
  BY DEF LastArmed
<1>2. Top' = native'[Len(native')]
  BY DEF Top, Last
<1>3. InControl(Top)'
  BY <1>2 DEF InControl
<1>4. Used' \in Nat
  <2>1. IsSeq(csp') /\ sp' \in Nat /\ Len(csp') \in Nat
    BY MachineTypes
  <2> QED BY <2>1 DEF Used, FrameSlots
<1> QED BY <1>1, <1>3, <1>4, Fits DEF Sound, Healthy

\* An exception is on its way.
LEMMA Throws ==
    ASSUME Machine(native', csp', traps', sp', start'), mode' = "throw", why' # "setup_trap",
           size' \in Nat, InitSize <= size', Used' <= size' + TrapSlots
    PROVE  Sound'
<1>1. LastArmed' = start'
  BY DEF LastArmed
<1> QED BY <1>1 DEF Sound, Healthy, Bounds

\* A push that does not fit moves the data stack all the same.
LEMMA OverflowSound ==
    ASSUME VMInv, InCode, NEW n \in 0..TrapSlots, Overflow(n)
    PROVE  Sound'
<1>1. /\ IsSeq(native) /\ Machine(native, csp, traps, sp, Len(native)) /\ start = Len(native)
      /\ Bounds /\ Used \in Nat /\ Used <= size /\ Used = 4 * Len(csp) + sp
      /\ Len(csp) \in Nat /\ sp \in Nat
  BY CodeFacts
<1>2. /\ size' = size /\ csp' = csp /\ traps' = traps /\ start' = start /\ native' = native
      /\ sp' = sp + n /\ mode' = "throw" /\ why' = "overflow"
  BY DEF Overflow, Throw
<1>3. Machine(native, csp, traps, sp + n, Len(native))
  <2>1. sp + n \in Nat /\ sp <= sp + n
    BY <1>1 DEF TrapSlots
  <2> QED BY <1>1, <2>1, Grow
<1>4. size' \in Nat /\ InitSize <= size'
  BY <1>1, <1>2 DEF Bounds
<1>5. Used' = 4 * Len(csp) + (sp + n)
  BY <1>2 DEF Used, FrameSlots
<1>6. Used' <= size' + TrapSlots
  BY <1>1, <1>2, <1>4, <1>5 DEF TrapSlots
<1> QED BY <1>1, <1>2, <1>3, <1>4, <1>6, Throws

-----------------------------------------------------------------------------
(* The instructions. *)

\* Bytecode runs on in the same activation.
LEMMA RunsOn ==
    ASSUME VMInv, InCode, NEW e, native' = WithAct(e), start' = start, Quiet,
           Machine(native, csp', traps', sp', Len(native)),
           CodePoint(e), sp' = Height(e), Stands(e, Len(csp'), Top, csp'),
           Placed(e, Len(native), traps'), vthis' = e.vthis, env' = e.env,
           size' \in Nat, InitSize <= size', Used' <= size'
    PROVE  Sound'
<1>1. /\ IsSeq(native) /\ Len(native) >= 1 /\ Top = native[Len(native)] /\ Shaped(Top)
      /\ Top.kind = "interp" /\ start = Len(native) /\ mode = "run" /\ why = "none"
  BY CodeFacts
<1>2. native' = [native EXCEPT ![Len(native)].act = e] /\ mode' = "run" /\ why' = "none"
  BY <1>1 DEF WithAct, Quiet
<1> QED BY <1>1, <1>2, CodeRuns

\* A push for which the array has room, or is made to have.
LEMMA Roomier ==
    ASSUME Bounds, Used \in Nat, Used <= size, NEW n \in 0..TrapSlots, Reserve(n)
    PROVE  size' \in Nat /\ InitSize <= size' /\ Used + n <= size'
<1>1. n \in Nat /\ n <= InitSize
  BY SizesAssumption DEF TrapSlots
<1> QED BY <1>1, ReserveFits

LEMMA PushSound == ASSUME VMInv, Push PROVE Sound'
<1>1. InCode
  BY DEF Push
<1>2. /\ IsSeq(native) /\ Machine(native, csp, traps, sp, Len(native)) /\ CodePoint(Here)
      /\ Stands(Here, Len(csp), Top, csp) /\ Placed(Here, Len(native), traps)
      /\ vthis = Here.vthis /\ env = Here.env /\ Here.where # "callback"
      /\ IsSeq(traps) /\ Used \in Nat /\ Used <= size
      /\ Used = 4 * Len(csp) + sp /\ Len(csp) \in Nat /\ sp \in Nat /\ Bounds
  BY <1>1, CodeFacts
<1>3. CASE Room(1)
  <2> DEFINE x == Here.d + 1
             e == [Here EXCEPT !.d = x]
  <2>1. /\ Reserve(1) /\ sp' = sp + 1 /\ native' = WithAct(e)
        /\ UNCHANGED <<csp, traps, start, vthis, env>> /\ Quiet
    BY <1>3 DEF Push
  <2>2. /\ Here.base \in Nat /\ Here.d \in Nat /\ sp = Here.base + Here.d /\ Free \in Nat
        /\ \A k \in 1..Len(traps) : traps[k].pos \in Nat /\ traps[k].pos + Free <= sp
        /\ Here.open # <<>> =>
             /\ Len(Here.open) > 0 /\ Here.open[Len(Here.open)] \in Nat
             /\ Here.d = Here.open[Len(Here.open)] + TrapSlots + Free
        /\ Here.open = <<>> => Len(Here.open) = 0
    BY <1>1, FreeSlots
  <2>3. x \in Nat /\ sp' = Here.base + x /\ sp' \in Nat /\ sp <= sp'
    BY <2>1, <2>2
  <2>12. Here.args <= x
    <3>1. Here.args \in Nat /\ Here.args <= Here.d
      BY <1>2 DEF CodePoint, KeepsArgs
    <3> QED BY <2>2, <3>1
  <2>4. Len(Here.open) > 0 => Here.open[Len(Here.open)] + TrapSlots <= x
    <3> SUFFICES ASSUME Len(Here.open) > 0 PROVE Here.open[Len(Here.open)] + TrapSlots <= x
      OBVIOUS
    <3>1. PICK y \in Nat : y = Here.open[Len(Here.open)] /\ Here.d = y + TrapSlots + Free
      <4>1. Here.open # <<>>
        BY <2>2
      <4> QED BY <2>2, <4>1
    <3>2. Here.d \in Nat /\ Free \in Nat
      BY <2>2
    <3> QED BY <3>1, <3>2 DEF TrapSlots
  <2>5. \A k \in 1..Len(traps) : /\ traps[k].pos \in Nat /\ traps[k].pos <= Here.base + Here.d
                                 /\ traps[k].pos <= Here.base + x
    <3> TAKE k \in 1..Len(traps)
    <3>1. traps[k].pos \in Nat /\ traps[k].pos + Free <= sp
      BY <2>2
    <3>2. Here.base \in Nat /\ Here.d \in Nat /\ sp = Here.base + Here.d /\ Free \in Nat
      BY <2>2
    <3> QED BY <3>1, <3>2
  <2> HIDE DEF x
  <2>6. /\ CodePoint(e) /\ Height(e) = Here.base + x /\ Placed(e, Len(native), traps)
        /\ e.where = Here.where /\ e.base = Here.base
        /\ e.vthis = Here.vthis /\ e.env = Here.env
    BY <1>2, <2>3, <2>4, <2>5, <2>12, ResizeCode
  <2> HIDE DEF e
  <2>7. Stands(e, Len(csp'), Top, csp')
    BY <1>2, <2>1, <2>6 DEF Stands
  <2>8. Machine(native, csp', traps', sp', Len(native))
    BY <1>2, <2>1, <2>3, Grow
  <2>9. size' \in Nat /\ InitSize <= size' /\ Used + 1 <= size'
    <3>1. 1 \in 0..TrapSlots
      BY DEF TrapSlots
    <3> QED BY <1>2, <2>1, <3>1, Roomier
  <2>10. Used' <= size'
    <3>1. Used' = 4 * Len(csp) + (sp + 1)
      BY <2>1 DEF Used, FrameSlots
    <3>2. Used' = Used + 1
      BY <1>2, <3>1
    <3> QED BY <2>9, <3>2
  <2>11. sp' = Height(e) /\ Placed(e, Len(native), traps') /\ vthis' = e.vthis /\ env' = e.env
    BY <1>2, <2>1, <2>3, <2>6
  <2> QED BY <1>1, <2>1, <2>6, <2>7, <2>8, <2>9, <2>10, <2>11, RunsOn
<1>4. CASE ~Room(1)
  <2>1. Overflow(1) /\ 1 \in 0..TrapSlots
    BY <1>4 DEF Push, TrapSlots
  <2> QED BY <1>1, <2>1, OverflowSound
<1> QED BY <1>3, <1>4

LEMMA PopSound == ASSUME VMInv, Pop PROVE Sound'
<1> DEFINE e == [Here EXCEPT !.d = @ - 1]
<1>1. /\ InCode /\ Free > 0 /\ sp' = sp - 1 /\ native' = WithAct(e)
      /\ UNCHANGED <<size, csp, traps, start, vthis, env>> /\ Quiet
  BY DEF Pop
<1>2. /\ vthis = Here.vthis /\ env = Here.env /\ Used \in Nat /\ Used <= size
      /\ Used = 4 * Len(csp) + sp /\ Len(csp) \in Nat /\ sp \in Nat /\ Bounds
  BY <1>1, CodeFacts
<1>3. 1 \in Nat /\ 1 <= Free
  BY <1>1, FreeSlots
<1>4. /\ CodePoint(e) /\ Height(e) = sp - 1 /\ Placed(e, Len(native), traps)
      /\ Stands(e, Len(csp), Top, csp) /\ e.vthis = Here.vthis /\ e.env = Here.env
      /\ sp - 1 \in Nat /\ Machine(native, csp, traps, sp - 1, Len(native))
  BY <1>1, <1>3, Popped
<1> HIDE DEF e
<1>5. size' \in Nat /\ InitSize <= size'
  BY <1>1, <1>2 DEF Bounds
<1>6. Used' <= size'
  <2>1. Used' = 4 * Len(csp) + (sp - 1)
    BY <1>1 DEF Used, FrameSlots
  <2>2. size \in Nat /\ size' = size
    BY <1>1, <1>2 DEF Bounds
  <2>3. Used' <= size
    BY <1>2, <1>4, <2>1, <2>2
  <2> QED BY <2>2, <2>3
<1>7. Stands(e, Len(csp'), Top, csp') /\ Machine(native, csp', traps', sp', Len(native))
      /\ sp' = Height(e) /\ Placed(e, Len(native), traps') /\ vthis' = e.vthis /\ env' = e.env
  BY <1>1, <1>2, <1>4
<1> QED BY <1>1, <1>4, <1>5, <1>6, <1>7, RunsOn

LEMMA SetThisSound == ASSUME VMInv, SetThis PROVE Sound'
<1>1. InCode
  BY DEF SetThis
<1>2. PICK t : vthis' = t /\ native' = WithAct([Here EXCEPT !.vthis = t])
  BY DEF SetThis
<1>3. UNCHANGED <<size, csp, sp, traps, start, env>> /\ Quiet
  BY DEF SetThis, stacks
<1>4. /\ Machine(native, csp, traps, sp, Len(native)) /\ CodePoint(Here) /\ sp = Height(Here)
      /\ Stands(Here, Len(csp), Top, csp) /\ Placed(Here, Len(native), traps)
      /\ env = Here.env /\ Here.where # "callback" /\ Used \in Nat /\ Used <= size /\ Bounds
  BY <1>1, CodeFacts
<1> DEFINE e == [Here EXCEPT !.vthis = t]
<1>5. e = [where |-> Here.where, base |-> Here.base, args |-> Here.args, d |-> Here.d,
           open |-> Here.open, vthis |-> t, env |-> Here.env]
  BY <1>4, CodeWith
<1> HIDE DEF e
<1>6. CodePoint(e)
  BY <1>4, <1>5 DEF CodePoint, KeepsArgs
<1>7. Placed(e, Len(native), traps) /\ Height(e) = Height(Here)
  BY <1>4, <1>5 DEF Placed, Height
<1>8. Stands(e, Len(csp), Top, csp)
  BY <1>4, <1>5 DEF Stands
<1>9. size' \in Nat /\ InitSize <= size' /\ Used' <= size'
  <2>1. Used' = Used
    BY <1>3 DEF Used
  <2> QED BY <1>3, <1>4, <2>1 DEF Bounds
<1>10. native' = WithAct(e) /\ vthis' = e.vthis /\ env' = e.env /\ sp' = Height(e)
  BY <1>2, <1>3, <1>4, <1>5, <1>7 DEF e
<1>11. /\ Machine(native, csp', traps', sp', Len(native)) /\ start' = start
       /\ Stands(e, Len(csp'), Top, csp') /\ Placed(e, Len(native), traps')
  BY <1>3, <1>4, <1>7, <1>8
<1> QED BY <1>1, <1>3, <1>6, <1>9, <1>10, <1>11, RunsOn

LEMMA TrapSound == ASSUME FewArguments, VMInv, Trap PROVE Sound'
<1>1. InCode
  BY DEF Trap
<1> DEFINE n == Len(native)
           c == Here
<1>2. /\ IsSeq(native) /\ n >= 1 /\ n \in Nat /\ Machine(native, csp, traps, sp, n)
      /\ Top = native[n] /\ Top.kind = "interp"
      /\ CodePoint(c) /\ sp = Height(c) /\ Stands(c, Len(csp), Top, csp)
      /\ Placed(c, n, traps) /\ vthis = c.vthis /\ env = c.env /\ c.where # "callback"
      /\ IsSeq(traps) /\ IsSeq(csp) /\ Used \in Nat /\ Used <= size
      /\ Used = 4 * Len(csp) + sp /\ Len(csp) \in Nat /\ Len(traps) \in Nat /\ sp \in Nat
      /\ Bounds
  BY <1>1, CodeFacts
<1>3. /\ c.base \in Nat /\ c.d \in Nat /\ sp = c.base + c.d /\ Free \in Nat
      /\ \A j \in 1..Len(csp) : Height(csp[j].act) \in Nat /\ Height(csp[j].act) <= c.base
      /\ \A i \in 1..n : native[i].floor.sp \in Nat /\ native[i].floor.sp <= c.base
      /\ \A k \in 1..Len(traps) : traps[k].pos \in Nat /\ traps[k].pos + Free <= sp
  BY <1>1, FreeSlots
<1>4. CASE ~Room(TrapSlots)
  <2>1. Overflow(TrapSlots) /\ TrapSlots \in 0..TrapSlots
    BY <1>4 DEF Trap, TrapSlots
  <2> QED BY <1>1, <2>1, OverflowSound
<1>5. CASE Room(TrapSlots)
  <2> DEFINE e == [c EXCEPT !.d = @ + TrapSlots, !.open = Append(@, c.d)]
             t == [pos |-> sp + TrapSlots, csp |-> Len(csp), vthis |-> vthis,
                   env |-> env, owner |-> n, act |-> c]
  <2>1. /\ Reserve(TrapSlots) /\ sp' = sp + TrapSlots /\ traps' = Append(traps, t)
        /\ native' = WithAct(e) /\ UNCHANGED <<csp, start, vthis, env>> /\ Quiet
    BY <1>5 DEF Trap
  <2>2. t.pos = sp + TrapSlots /\ t.csp = Len(csp) /\ t.vthis = vthis /\ t.env = env
        /\ t.owner = n /\ t.act = c
    OBVIOUS
  <2> HIDE DEF c, e, t
  <2>3. Extended(traps, t, traps')
    BY <1>2, <2>1, AppendExtends
  <2>4. sp + TrapSlots \in Nat /\ sp <= sp + TrapSlots /\ sp < sp + TrapSlots /\ TrapSlots \in Nat
        /\ TrapSlots <= sp + TrapSlots
    BY <1>2 DEF TrapSlots
  <2>5. Machine(native, csp, traps, sp + TrapSlots, n)
    BY <1>2, <2>4, Grow
  <2>6. Top.init < t.pos
    <3>1. Own(n, FramesOf(n, native, csp), native, csp, traps)
      BY <1>2 DEF Machine, OwnAll
    <3>2. Top.init \in Nat /\ Top.init <= Top.floor.sp + CallbackArgs
      BY <1>2, <3>1 DEF Own
    <3>3. Top.floor.sp \in Nat /\ Top.floor.sp <= c.base
      BY <1>2, <1>3
    <3>4. CallbackArgs \in Nat /\ CallbackArgs < 6
      BY SizesAssumption DEF FewArguments, TrapSlots
    <3>5. t.pos = sp + 6
      BY <2>2 DEF TrapSlots
    <3> QED BY <1>3, <3>2, <3>3, <3>4, <3>5
  <2>7. Placed(c, n, traps')
    BY <1>2, <2>2, <2>3, <2>4, PlacedExtends
  <2>8. Leads(t, Len(traps) + 1, native, csp, traps')
    <3>1. IsHandler(native[t.owner]) /\ t.owner \in 1..n
      BY <1>2, <2>2 DEF IsHandler
    <3>2. t.csp <= FramesOf(t.owner, native, csp)
      BY <1>2, <2>2 DEF FramesOf
    <3>3. CodePoint(t.act) /\ t.vthis = t.act.vthis /\ t.env = t.act.env
          /\ t.act.where # "callback" /\ Height(t.act) + TrapSlots = t.pos
          /\ Stands(t.act, t.csp, Top, csp) /\ Placed(t.act, t.owner, traps')
      BY <1>2, <2>2, <2>7
    <3> QED BY <1>2, <2>2, <2>6, <3>1, <3>2, <3>3 DEF Leads
  <2>9. Machine(native, csp, traps', sp + TrapSlots, n)
    <3>1. \A j \in 1..Len(csp) : Height(csp[j].act) + TrapSlots <= t.pos
      <4> TAKE j \in 1..Len(csp)
      <4>1. Height(csp[j].act) \in Nat /\ Height(csp[j].act) <= c.base
        BY <1>3
      <4> QED BY <1>3, <2>2, <4>1 DEF TrapSlots
    <3>2. \A k \in 1..Len(traps) : traps[k].pos + TrapSlots <= t.pos
      <4> TAKE k \in 1..Len(traps)
      <4>1. traps[k].pos \in Nat /\ traps[k].pos + Free <= sp
        BY <1>3
      <4>2. Free \in Nat /\ sp \in Nat /\ t.pos = sp + TrapSlots
        BY <1>2, <1>3, <2>2
      <4> QED BY <4>1, <4>2 DEF TrapSlots
    <3>3. \A i \in 1..n : native[i].floor.sp + TrapSlots <= t.pos
      <4> TAKE i \in 1..n
      <4>1. native[i].floor.sp \in Nat /\ native[i].floor.sp <= c.base
        BY <1>3
      <4> QED BY <1>3, <2>2, <4>1 DEF TrapSlots
    <3>4. ~CallsBack(native[n])
      BY <1>2 DEF CallsBack
    <3>5. n \in {n - 1, n}
      OBVIOUS
    <3>6. t.pos \in Nat /\ t.pos <= sp + TrapSlots /\ TrapSlots <= t.pos
      BY <2>2, <2>4
    <3> QED BY <1>2, <2>2, <2>3, <2>5, <2>8, <3>1, <3>2, <3>3, <3>4, <3>5, <3>6, PushTrap
  <2>10. /\ CodePoint(e) /\ Height(e) = c.base + c.d + TrapSlots /\ Placed(e, n, traps')
         /\ e.where = c.where /\ e.base = c.base /\ e.vthis = c.vthis /\ e.env = c.env
    <3>1. \A k \in 1..Len(traps) : traps[k].pos \in Nat /\ traps[k].pos <= c.base + c.d
      <4> TAKE k \in 1..Len(traps)
      <4>1. traps[k].pos \in Nat /\ traps[k].pos + Free <= sp
        BY <1>3
      <4> QED BY <1>3, <4>1
    <3>2. t.owner = n /\ t.pos = c.base + c.d + TrapSlots
      BY <1>3, <2>2
    <3> QED BY <1>2, <2>3, <3>1, <3>2, OpenCode DEF e
  <2>11. Stands(e, Len(csp'), Top, csp')
    BY <1>2, <2>1, <2>10 DEF Stands
  <2>12. size' \in Nat /\ InitSize <= size' /\ Used + TrapSlots <= size'
    <3>1. TrapSlots \in 0..TrapSlots
      BY DEF TrapSlots
    <3> QED BY <1>2, <2>1, <3>1, Roomier
  <2>13. Used' <= size'
    <3>1. Used' = 4 * Len(csp) + (sp + TrapSlots)
      BY <2>1 DEF Used, FrameSlots
    <3>2. Used' = Used + TrapSlots
      BY <1>2, <2>4, <3>1
    <3> QED BY <2>12, <3>2
  <2>14. sp' = Height(e) /\ vthis' = e.vthis /\ env' = e.env
         /\ Machine(native, csp', traps', sp', Len(native))
    BY <1>2, <1>3, <2>1, <2>9, <2>10
  <2> QED BY <1>1, <2>1, <2>10, <2>11, <2>12, <2>13, <2>14, RunsOn DEF n
<1> QED BY <1>4, <1>5

LEMMA EndTrapSound == ASSUME VMInv, EndTrap PROVE Sound'
<1>1. InCode /\ Here.open # <<>> /\ Free = 0
  BY DEF EndTrap
<1> DEFINE n == Len(native)
           c == Here
           m == Len(traps)
<1>2. /\ IsSeq(native) /\ n >= 1 /\ n \in Nat /\ Machine(native, csp, traps, sp, n)
      /\ start = n /\ Top = native[n] /\ Top.kind = "interp"
      /\ CodePoint(c) /\ sp = Height(c) /\ Stands(c, Len(csp), Top, csp)
      /\ Placed(c, n, traps) /\ vthis = c.vthis /\ env = c.env /\ c.where # "callback"
      /\ IsSeq(traps) /\ IsSeq(csp) /\ Used \in Nat /\ Used <= size
      /\ Used = 4 * Len(csp) + sp /\ Len(csp) \in Nat /\ m \in Nat /\ sp \in Nat /\ Bounds
  BY <1>1, CodeFacts
<1>3. /\ c.base \in Nat /\ c.d \in Nat /\ sp = c.base + c.d
      /\ \A j \in 1..Len(csp) : Height(csp[j].act) \in Nat /\ Height(csp[j].act) <= c.base
      /\ \A i \in 1..n : native[i].floor.sp \in Nat /\ native[i].floor.sp <= c.base
      /\ \A k \in 1..m : traps[k].pos \in Nat /\ traps[k].pos + Free <= sp
      /\ Len(c.open) > 0 /\ c.open[Len(c.open)] \in Nat
      /\ c.d = c.open[Len(c.open)] + TrapSlots + Free
  BY <1>1, FreeSlots
<1>4. CASE ~(traps # <<>> /\ Last(traps).pos = sp)
  <2>1. /\ mode' = "throw" /\ why' = "error"
        /\ UNCHANGED <<size, csp, sp, traps, start, native>>
    BY <1>4 DEF EndTrap, Throw, stacks
  <2>2. Used' = Used /\ Machine(native', csp', traps', sp', start')
    BY <1>2, <2>1 DEF Used
  <2>3. size' \in Nat /\ InitSize <= size' /\ Used' <= size' + TrapSlots
    BY <1>2, <2>1, <2>2 DEF Bounds
  <2> QED BY <2>1, <2>2, <2>3, Throws
<1>5. CASE traps # <<>> /\ Last(traps).pos = sp
  <2> DEFINE e == [c EXCEPT !.d = @ - TrapSlots, !.open = Front(@)]
  <2>1. /\ sp' = sp - TrapSlots /\ traps' = Front(traps) /\ native' = WithAct(e)
        /\ UNCHANGED <<size, csp, start, vthis, env>> /\ Quiet
    BY <1>5 DEF EndTrap
  <2>2. CutTo(traps, m - 1, traps') /\ m >= 1
    BY <1>2, <1>5, <2>1, FrontCuts
  <2>3. \A k \in 1..m : traps[k].pos \in Nat /\ traps[k].pos <= c.base + c.d
    <3> TAKE k \in 1..m
    <3>1. traps[k].pos \in Nat /\ traps[k].pos + 0 <= sp
      BY <1>1, <1>3
    <3> QED BY <1>3, <3>1
  <2>4. c.d = c.open[Len(c.open)] + TrapSlots
    BY <1>1, <1>3 DEF TrapSlots
  <2> HIDE DEF c
  <2>12. c.open # <<>>
    BY <1>1 DEF c
  <2>5. /\ CodePoint(e) /\ Height(e) = c.base + c.d - TrapSlots /\ Placed(e, n, traps')
        /\ e.where = c.where /\ e.base = c.base /\ e.vthis = c.vthis /\ e.env = c.env
        /\ traps[m].owner = n /\ traps[m].pos = c.base + c.d /\ c.d >= TrapSlots
    <3>1. CodePoint(c) /\ IsSeq(traps) /\ Placed(c, n, traps) /\ CutTo(traps, Len(traps) - 1, traps')
      BY <1>2, <2>2
    <3>2. /\ CodePoint(e) /\ Height(e) = c.base + c.d - TrapSlots /\ Placed(e, n, traps')
          /\ e.where = c.where /\ e.base = c.base /\ e.vthis = c.vthis /\ e.env = c.env
          /\ Len(traps) >= 1 /\ traps[Len(traps)].owner = n /\ traps[Len(traps)].pos = c.base + c.d
          /\ c.d >= TrapSlots
      <4>1. CodePoint(c) /\ c.open # <<>> /\ IsSeq(traps) /\ Placed(c, n, traps)
        BY <2>12, <3>1
      <4>2. \A k \in 1..Len(traps) : traps[k].pos \in Nat /\ traps[k].pos <= c.base + c.d
        BY <2>3
      <4>3. /\ Len(traps) >= 1 /\ traps[Len(traps)].owner = n
            /\ traps[Len(traps)].pos = c.base + c.d /\ c.d >= TrapSlots
        BY <2>4, <4>1, <4>2, LastTrap
      <4>4. /\ CodePoint(e) /\ Height(e) = c.base + c.d - TrapSlots /\ Placed(e, n, traps')
            /\ e.where = c.where /\ e.base = c.base /\ e.vthis = c.vthis /\ e.env = c.env
        BY <2>4, <3>1, <4>1, <4>2, CloseCode
      <4> QED BY <4>3, <4>4
    <3> QED BY <3>2
  <2> HIDE DEF e
  <2>6. Machine(native, csp, traps', sp, n)
    <3>1. \A j \in 1..Len(csp) : Height(csp[j].act) < traps[m].pos
      <4> TAKE j \in 1..Len(csp)
      <4>1. Height(csp[j].act) \in Nat /\ Height(csp[j].act) <= c.base
        BY <1>3
      <4>2. c.base \in Nat /\ c.d \in Nat /\ c.d >= 6 /\ traps[m].pos = c.base + c.d
        BY <1>3, <2>5 DEF TrapSlots
      <4> QED BY <4>1, <4>2
    <3>2. \A k \in 1..(m - 1) : traps[k].owner <= n
      <4> TAKE k \in 1..(m - 1)
      <4>1. k \in 1..m
        BY <1>2
      <4> QED BY <1>2, <4>1, MachineTypes
    <3>3. ~CallsBack(native[n])
      BY <1>2 DEF CallsBack
    <3>4. n \in 0..n
      BY <1>2
    <3> QED BY <1>2, <2>2, <2>5, <3>1, <3>2, <3>3, <3>4, DropTrap
  <2>7. sp - TrapSlots \in Nat /\ c.base <= sp - TrapSlots
    <3>1. c.base \in Nat /\ c.d \in Nat /\ c.d >= 6 /\ sp = c.base + c.d
      BY <1>3, <2>5 DEF TrapSlots
    <3> QED BY <3>1 DEF TrapSlots
  <2>8. Machine(native, csp, traps', sp - TrapSlots, n)
    <3>1. \A j \in 1..Len(csp) : Height(csp[j].act) <= sp - TrapSlots
      <4> TAKE j \in 1..Len(csp)
      <4>1. Height(csp[j].act) \in Nat /\ Height(csp[j].act) <= c.base /\ c.base \in Nat
        BY <1>3
      <4> QED BY <2>7, <4>1
    <3>2. \A i \in 1..n : native[i].floor.sp <= sp - TrapSlots
      <4> TAKE i \in 1..n
      <4>1. native[i].floor.sp \in Nat /\ native[i].floor.sp <= c.base /\ c.base \in Nat
        BY <1>3
      <4> QED BY <2>7, <4>1
    <3>3. \A k \in 1..Len(traps') : traps'[k].pos <= sp - TrapSlots
      <4>1. Len(traps') = m - 1 /\ \A k \in 1..(m - 1) : traps'[k] = traps[k]
        BY <2>2 DEF CutTo
      <4> SUFFICES ASSUME NEW k \in 1..(m - 1) PROVE traps'[k].pos <= sp - TrapSlots
        BY <4>1
      <4>2. k \in 1..m /\ m \in 1..m /\ k < m
        BY <1>2, <2>2
      <4>3. traps[k].pos + TrapSlots <= traps[m].pos
        BY <1>2, <4>2 DEF Machine, TrapsFit
      <4>4. traps[k].pos \in Nat /\ traps[m].pos = sp /\ traps'[k] = traps[k]
        BY <1>3, <2>5, <4>1, <4>2
      <4>5. sp \in Nat /\ traps[k].pos + 6 <= sp
        BY <1>2, <4>3, <4>4 DEF TrapSlots
      <4>6. traps[k].pos <= sp - 6
        BY <4>4, <4>5
      <4> QED BY <4>4, <4>6 DEF TrapSlots
    <3> QED BY <1>2, <2>6, <2>7, <3>1, <3>2, <3>3, SetHeight
  <2>9. size' \in Nat /\ InitSize <= size'
    BY <1>2, <2>1 DEF Bounds
  <2>10. Used' <= size'
    <3>1. Used' = 4 * Len(csp) + (sp - TrapSlots)
      BY <2>1 DEF Used, FrameSlots
    <3>2. size \in Nat /\ size' = size
      BY <1>2, <2>1 DEF Bounds
    <3>3. PICK x \in Nat : x = 4 * Len(csp)
      BY <1>2
    <3>4. x + sp <= size /\ Used' = x + (sp - 6)
      BY <1>2, <3>1, <3>3 DEF TrapSlots
    <3>5. Used' <= size
      BY <1>2, <3>2, <3>4
    <3> QED BY <3>2, <3>5
  <2>11. sp' = Height(e) /\ vthis' = e.vthis /\ env' = e.env
         /\ Machine(native, csp', traps', sp', Len(native)) /\ Stands(e, Len(csp'), Top, csp')
    <3>1. Stands(e, Len(csp), Top, csp)
      BY <1>2, <2>5 DEF Stands
    <3>2. sp' = Height(e)
      <4>1. sp = c.base + c.d
        BY <1>3
      <4>2. sp' = sp - TrapSlots
        BY <2>1
      <4>3. Height(e) = c.base + c.d - TrapSlots
        BY <2>5
      <4>4. sp - TrapSlots = c.base + c.d - TrapSlots
        <5>1. PICK x \in Nat, y \in Nat : x = c.base /\ y = c.d
          BY <1>3
        <5> QED BY <4>1, <5>1 DEF TrapSlots
      <4> QED BY <4>2, <4>3, <4>4, Zenon
    <3> QED BY <1>2, <2>1, <2>5, <2>8, <3>1, <3>2
  <2> QED BY <1>1, <2>1, <2>5, <2>9, <2>10, <2>11, RunsOn DEF n, e, c
<1> QED BY <1>4, <1>5

LEMMA RuntimeErrorSound == ASSUME VMInv, RuntimeError PROVE Sound'
<1>1. InCode
  BY DEF RuntimeError
<1>2. /\ IsSeq(native) /\ Len(native) >= 1 /\ Machine(native, csp, traps, sp, Len(native))
      /\ start = Len(native) /\ Top = native[Len(native)]
      /\ CodePoint(Here) /\ sp = Height(Here) /\ Stands(Here, Len(csp), Top, csp)
      /\ Placed(Here, Len(native), traps) /\ vthis = Here.vthis /\ env = Here.env
      /\ IsSeq(csp) /\ Used \in Nat /\ Used <= size
      /\ Used = 4 * Len(csp) + sp /\ Len(csp) \in Nat /\ sp \in Nat /\ Bounds
  BY <1>1, CodeFacts
<1>3. CASE ~Room(FrameSlots)
  <2>1. Overflow(0) /\ 0 \in 0..TrapSlots
    BY <1>3 DEF RuntimeError, TrapSlots
  <2> QED BY <1>1, <2>1, OverflowSound
<1>4. CASE Room(FrameSlots)
  <2> DEFINE f == Frame(Here, vthis, env)
  <2>1. /\ Reserve(FrameSlots) /\ csp' = Append(csp, f) /\ mode' = "throw" /\ why' = "error"
        /\ UNCHANGED <<sp, traps, start, native>>
    BY <1>4 DEF RuntimeError, Throw
  <2>2. FrameShaped(f) /\ f.act = Here
    BY <1>2 DEF FrameShaped, Frame
  <2> HIDE DEF f
  <2>3. Extended(csp, f, csp')
    BY <1>2, <2>1, AppendExtends
  <2>4. Machine(native, csp', traps, sp, Len(native))
    <3>1. Height(f.act) = sp /\ Height(f.act) <= sp
      BY <1>2, <2>2
    <3>2. \A j \in 1..Len(csp) : Height(csp[j].act) <= Height(f.act)
      BY <1>2, <3>1, MachineTypes
    <3>3. \A i \in 1..Len(native) : native[i].floor.sp <= Height(f.act)
      BY <1>2, <3>1, MachineTypes
    <3> QED BY <1>2, <2>2, <2>3, <3>1, <3>2, <3>3, PushFrame
  <2>5. size' \in Nat /\ InitSize <= size' /\ Used + 4 <= size'
    <3>1. FrameSlots \in 0..TrapSlots
      BY DEF TrapSlots, FrameSlots
    <3> QED BY <1>2, <2>1, <3>1, Roomier DEF FrameSlots
  <2>6. Used' <= size' + TrapSlots
    <3>1. Len(csp') = Len(csp) + 1
      BY <2>3 DEF Extended
    <3>2. Used' = 4 * (Len(csp) + 1) + sp
      BY <2>1, <3>1 DEF Used, FrameSlots
    <3>3. Used' = Used + 4 /\ Used' \in Nat
      BY <1>2, <3>2
    <3>4. Used' <= size'
      BY <2>5, <3>3
    <3> QED BY <2>5, <3>3, <3>4, AtMostMore DEF TrapSlots
  <2>7. Machine(native', csp', traps', sp', start')
    BY <1>2, <2>1, <2>4
  <2> QED BY <2>1, <2>5, <2>6, <2>7, Throws
<1> QED BY <1>3, <1>4

-----------------------------------------------------------------------------
(* Calls and returns. *)

\* A call pushes the frame of code and runs a function or a primitive.
LEMMA DoCallSound ==
    ASSUME VMInv, InCode, HandlerInv', NEW code, NEW frames, NEW s \in Nat, NEW n \in Nat,
           NEW t, DoCall(code, frames, s, n, t, code.vthis, code.env),
           start' = start, traps' = traps, Quiet,
           NEW b \in Nat, s = b + n, CodePoint(code), Height(code) = b,
           Machine(native, frames, traps, s, Len(native)),
           Stands(code, Len(frames), Top, frames), Placed(code, Len(native), traps),
           \A j \in 1..Len(frames) : Height(frames[j].act) <= b,
           \A i \in 1..Len(native) : native[i].floor.sp <= b,
           \A k \in 1..Len(traps) : traps[k].pos <= b,
           size' \in Nat, InitSize <= size', 4 * Len(frames) + 4 + s <= size'
    PROVE  Sound'
<1> DEFINE f == Frame(code, code.vthis, code.env)
           below == Append(frames, f)
           m == Len(native)
<1>1. csp' = below /\ sp' = s /\ vthis' = t
  BY DEF DoCall
<1>2. PICK e : /\ env' = e
               /\ \/ native' = WithAct(Code("fun", s - n, n, t, e))
                  \/ native' = Append(WithAct(code), Prim(n, Snapshot(s, below, t, e)))
  BY DEF DoCall
<1>3. /\ IsSeq(native) /\ m >= 1 /\ m \in Nat /\ start = m /\ Top = native[m] /\ Shaped(Top)
      /\ Top.kind = "interp" /\ IsSeq(traps) /\ Len(traps) \in Nat /\ mode = "run" /\ why = "none"
  BY CodeFacts
<1>4. IsSeq(frames) /\ Len(frames) \in Nat
  BY <1>3, MachineTypes
<1>5. FrameShaped(f) /\ f.act = code
  BY DEF FrameShaped, Frame
<1>6. Extended(frames, f, below)
  BY <1>4, AppendExtends
<1> HIDE DEF f, below
<1>7. /\ Len(below) = Len(frames) + 1 /\ below[Len(frames) + 1] = f /\ IsSeq(below)
      /\ Len(below) \in Nat
  BY <1>4, <1>6 DEF Extended
<1>8. Machine(native, below, traps, s, m)
  <2>1. Height(f.act) <= s
    BY <1>5
  <2> QED BY <1>3, <1>5, <1>6, <2>1, PushFrame
<1>9. Used' <= size'
  <2>1. Used' = 4 * (Len(frames) + 1) + s
    BY <1>1, <1>7 DEF Used, FrameSlots
  <2>2. Used' = 4 * Len(frames) + 4 + s
    BY <1>4, <2>1
  <2> QED BY <2>2
<1>10. mode' = "run" /\ why' = "none"
  BY <1>3 DEF Quiet
<1>11. Top.floor.csp \in Nat /\ Top.floor.csp <= Len(frames)
  BY <1>3, MachineTypes
<1>12. CASE native' = WithAct(Code("fun", s - n, n, t, e))
  <2> DEFINE c == Code("fun", s - n, n, t, e)
  <2>1. s - n = b
    OBVIOUS
  <2>2. /\ CodePoint(c) /\ Height(c) = b + n /\ c.where = "fun" /\ c.base = b
        /\ c.vthis = t /\ c.env = e /\ Placed(c, m, traps)
    <3>1. c = Code("fun", b, n, t, e)
      BY <2>1
    <3> HIDE DEF c
    <3>2. IsSeq(traps) /\ \A k \in 1..Len(traps) : traps[k].pos <= b
      BY <1>3
    <3>3. /\ CodePoint(c) /\ Height(c) = b + n /\ c.where = "fun" /\ c.base = b
          /\ c.vthis = t /\ c.env = e
      BY <3>1, FreshCode
    <3>4. \A i, T : IsSeq(T) /\ (\A k \in 1..Len(T) : T[k].pos <= b) => Placed(c, i, T)
      BY <3>1, FreshCode
    <3>5. Placed(c, m, traps)
      BY <3>2, <3>4
    <3> QED BY <3>3, <3>5
  <2> HIDE DEF c
  <2>3. Stands(c, Len(below), Top, below)
    <3>1. Len(below) > Top.floor.csp
      BY <1>4, <1>7, <1>11
    <3>2. Height(below[Len(below)].act) = b
      BY <1>5, <1>7
    <3> QED BY <2>2, <3>1, <3>2 DEF Stands
  <2>4. native' = WithAct(c) /\ sp' = Height(c) /\ vthis' = c.vthis /\ env' = c.env
    BY <1>1, <1>2, <1>12, <2>2 DEF c
  <2> QED BY <1>1, <1>3, <1>8, <1>9, <2>2, <2>3, <2>4, RunsOn
<1>13. CASE native' = Append(WithAct(code), Prim(n, Snapshot(s, below, t, e)))
  <2> DEFINE M == WithAct(code)
             a == Prim(n, Snapshot(s, below, t, e))
  <2>1. /\ IsSeq(M) /\ Len(M) = m /\ M[m].kind = "interp" /\ M[m].act = code
        /\ M[m].floor = Top.floor /\ Machine(M, below, traps, s, m)
    <3>1. M = [native EXCEPT ![Len(native)].act = code]
      BY DEF WithAct
    <3> HIDE DEF M
    <3>2. Shaped(native[Len(native)]) /\ native[Len(native)].kind = "interp"
      BY <1>3
    <3> QED BY <1>3, <1>8, <3>1, <3>2, ActMoved, ZenonT(20)
  <2>2. /\ a.kind = "prim" /\ a.args = n
        /\ a.at = [sp |-> s, csp |-> below, traps |-> traps, start |-> start,
                   vthis |-> t, env |-> e]
        /\ a.floor = Mark(s, below, traps)
    BY DEF Prim, Snapshot
  <2>3. a.floor = [sp |-> s, csp |-> Len(below), traps |-> Len(traps)]
    BY <2>2 DEF Mark
  <2> HIDE DEF M, a
  <2>4. native' = Append(M, a)
    BY <1>13 DEF M, a
  <2>5. Extended(M, a, native')
    BY <2>1, <2>4, AppendExtends
  <2>6. Len(native') = m + 1 /\ native'[m + 1] = a /\ IsSeq(native')
    BY <2>1, <2>5 DEF Extended
  <2>7. Waits(M[m], a, m, below, traps)
    <3>1. a.floor.sp = Height(code) + a.args
      BY <2>2, <2>3
    <3>2. M[m].floor.csp < a.floor.csp
      BY <1>4, <1>7, <1>11, <2>1, <2>3
    <3>3. below[a.floor.csp].act = code
      BY <1>5, <1>7, <2>3
    <3>4. \A k \in 1..a.floor.traps : traps[k].pos <= Height(code)
      BY <2>3
    <3> QED BY <2>1, <2>2, <3>1, <3>2, <3>3, <3>4 DEF Waits
  <2>8. Kept(a, m + 1, native', below, traps)
    <3>1. InnermostIn(start, native', m + 1)
      BY <1>10, <2>6 DEF HandlerInv
    <3>2. Snapped(a.at) /\ a.at.csp = below /\ a.at.traps = traps /\ a.at.sp = s
          /\ a.at.start = start
      BY <2>2 DEF Snapped
    <3> QED BY <1>3, <1>7, <2>2, <3>1, <3>2 DEF Kept
  <2>9. Machine(native', below, traps, s, m)
    BY <1>3, <2>1, <2>2, <2>3, <2>5, <2>7, <2>8, PushAct
  <2>10. Floor' = a.floor /\ vthis' = a.at.vthis /\ env' = a.at.env
    BY <1>1, <1>2, <2>2 DEF Floor
  <2>11. native'[Len(native')] = a /\ start' = m
    BY <1>3, <2>6
  <2>12. Machine(native', csp', traps', sp', start')
    BY <1>1, <2>9, <2>11
  <2> QED BY <1>9, <1>10, <2>2, <2>6, <2>10, <2>11, <2>12, CRuns
<1> QED BY <1>2, <1>12, <1>13

LEMMA CallSound == ASSUME VMInv, HandlerInv', Call PROVE Sound'
<1>1. InCode
  BY DEF Call
<1>2. PICK n \in 0..MaxArgs :
        /\ n <= Free
        /\ IF Room(FrameSlots)
             THEN /\ Reserve(FrameSlots)
                  /\ DoCall([Here EXCEPT !.d = @ - n], csp, sp, n, vthis, vthis, env)
                  /\ UNCHANGED <<traps, start>> /\ Quiet
             ELSE Overflow(0)
  BY DEF Call
<1>3. CASE ~Room(FrameSlots)
  <2>1. Overflow(0) /\ 0 \in 0..TrapSlots
    BY <1>2, <1>3 DEF TrapSlots
  <2> QED BY <1>1, <2>1, OverflowSound
<1>4. CASE Room(FrameSlots)
  <2> DEFINE e == [Here EXCEPT !.d = @ - n]
             b == sp - n
  <2>1. /\ Reserve(FrameSlots) /\ DoCall(e, csp, sp, n, vthis, vthis, env)
        /\ UNCHANGED <<traps, start>> /\ Quiet
    BY <1>2, <1>4
  <2>2. n \in Nat /\ n <= Free
    BY <1>2, SizesAssumption
  <2>3. /\ CodePoint(e) /\ Height(e) = b /\ Placed(e, Len(native), traps)
        /\ Stands(e, Len(csp), Top, csp) /\ e.vthis = Here.vthis /\ e.env = Here.env
        /\ b \in Nat
        /\ \A j \in 1..Len(csp) : Height(csp[j].act) <= b
        /\ \A i \in 1..Len(native) : native[i].floor.sp <= b
        /\ \A k \in 1..Len(traps) : traps[k].pos <= b
    BY <1>1, <2>2, Popped
  <2>4. /\ vthis = Here.vthis /\ env = Here.env /\ Machine(native, csp, traps, sp, Len(native))
        /\ Used \in Nat /\ Used <= size
        /\ Used = 4 * Len(csp) + sp /\ Len(csp) \in Nat /\ sp \in Nat /\ Bounds
    BY <1>1, CodeFacts
  <2>5. sp = b + n
    BY <2>2, <2>4
  <2> HIDE DEF b, e
  <2>6. size' \in Nat /\ InitSize <= size' /\ Used + 4 <= size'
    <3>1. FrameSlots \in 0..TrapSlots
      BY DEF TrapSlots, FrameSlots
    <3> QED BY <2>1, <2>4, <3>1, Roomier DEF FrameSlots
  <2>7. 4 * Len(csp) + 4 + sp <= size'
    <3>1. 4 * Len(csp) + 4 + sp = Used + 4
      BY <2>4
    <3> QED BY <2>6, <3>1
  <2>8. DoCall(e, csp, sp, n, vthis, e.vthis, e.env)
    BY <2>1, <2>3, <2>4
  <2> QED BY <1>1, <2>1, <2>2, <2>3, <2>4, <2>5, <2>6, <2>7, <2>8, DoCallSound
<1> QED BY <1>3, <1>4

LEMMA ObjCallSound == ASSUME VMInv, HandlerInv', ObjCall PROVE Sound'
<1>1. InCode
  BY DEF ObjCall
<1>2. PICK n \in 0..MaxArgs, t \in This :
        /\ n + 1 <= Free
        /\ IF Room(FrameSlots - 1)
             THEN /\ Reserve(FrameSlots - 1)
                  /\ DoCall([Here EXCEPT !.d = @ - n - 1], csp, sp - 1, n, t, vthis, env)
                  /\ UNCHANGED <<traps, start>> /\ Quiet
             ELSE /\ sp' = sp - 1 /\ Throw("overflow")
                  /\ UNCHANGED <<size, csp, traps, start, env, native, damage>>
  BY DEF ObjCall
<1>3. /\ vthis = Here.vthis /\ env = Here.env /\ start = Len(native)
      /\ Used \in Nat /\ Used <= size
      /\ Used = 4 * Len(csp) + sp /\ Len(csp) \in Nat /\ sp \in Nat /\ Bounds
  BY <1>1, CodeFacts
<1>4. n \in Nat /\ n + 1 \in Nat /\ n + 1 <= Free /\ Free \in Nat /\ Here.d \in Nat
  BY <1>1, <1>2, SizesAssumption, FreeSlots
<1>5. sp - 1 \in Nat /\ Machine(native, csp, traps, sp - 1, Len(native))
  <2>1. 1 <= Free
    BY <1>4
  <2> QED BY <1>1, <2>1, Popped
<1>6. CASE ~Room(FrameSlots - 1)
  <2>1. /\ sp' = sp - 1 /\ mode' = "throw" /\ why' = "overflow"
        /\ UNCHANGED <<size, csp, traps, start, native>>
    BY <1>2, <1>6 DEF Throw
  <2>2. Used' = 4 * Len(csp) + (sp - 1)
    BY <2>1 DEF Used, FrameSlots
  <2>3. size \in Nat /\ size' = size /\ InitSize <= size'
    BY <1>3, <2>1 DEF Bounds
  <2>4. Used' <= size + 6
    BY <1>3, <1>5, <2>2, <2>3
  <2>5. Machine(native', csp', traps', sp', start')
    BY <1>3, <1>5, <2>1
  <2> QED BY <2>1, <2>3, <2>4, <2>5, Throws DEF TrapSlots
<1>7. CASE Room(FrameSlots - 1)
  <2> DEFINE e == [Here EXCEPT !.d = @ - (n + 1)]
             b == sp - (n + 1)
             s == sp - 1
  <2>1. /\ Reserve(FrameSlots - 1)
        /\ DoCall([Here EXCEPT !.d = @ - n - 1], csp, s, n, t, vthis, env)
        /\ UNCHANGED <<traps, start>> /\ Quiet
    BY <1>2, <1>7
  <2>2. [Here EXCEPT !.d = @ - n - 1] = e
    <3>1. PICK x \in Nat : x = Here.d
      BY <1>4
    <3>2. x - n - 1 = x - (n + 1)
      BY <1>4
    <3>3. Here.d - n - 1 = Here.d - (n + 1)
      BY <3>1, <3>2
    <3> QED BY <3>3
  <2>3. /\ CodePoint(e) /\ Height(e) = b /\ Placed(e, Len(native), traps)
        /\ Stands(e, Len(csp), Top, csp) /\ e.vthis = Here.vthis /\ e.env = Here.env
        /\ b \in Nat
        /\ \A j \in 1..Len(csp) : Height(csp[j].act) <= b
        /\ \A i \in 1..Len(native) : native[i].floor.sp <= b
        /\ \A k \in 1..Len(traps) : traps[k].pos <= b
    BY <1>1, <1>4, Popped
  <2>4. s \in Nat /\ s = b + n /\ Machine(native, csp, traps, s, Len(native))
    BY <1>3, <1>4, <1>5
  <2>5. size' \in Nat /\ InitSize <= size' /\ Used + 3 <= size'
    <3>1. FrameSlots - 1 \in 0..TrapSlots /\ FrameSlots - 1 = 3
      BY DEF TrapSlots, FrameSlots
    <3>2. Used + (FrameSlots - 1) <= size' /\ size' \in Nat /\ InitSize <= size'
      BY <1>3, <2>1, <3>1, Roomier
    <3> QED BY <3>1, <3>2
  <2>6. 4 * Len(csp) + 4 + s <= size'
    <3>1. 4 * Len(csp) + 4 + s = Used + 3
      BY <1>3
    <3> QED BY <2>5, <3>1
  <2> HIDE DEF b, e, s
  <2>7. DoCall(e, csp, s, n, t, e.vthis, e.env)
    BY <1>3, <2>1, <2>2, <2>3
  <2> QED BY <1>1, <1>4, <2>1, <2>3, <2>4, <2>5, <2>6, <2>7, DoCallSound
<1> QED BY <1>6, <1>7

\* The frame through which a function returns.
LEMMA Returning ==
    ASSUME VMInv, InCode, Here.where = "fun", Here.open = <<>>
    PROVE  LET e == Last(csp).act
               G == Front(csp)
           IN  /\ Len(csp) >= 1 /\ IsSeq(G) /\ Len(G) = Len(csp) - 1
               /\ CodePoint(e) /\ Height(e) = Here.base
               /\ Stands(e, Len(G), Top, G) /\ Placed(e, Len(native), traps)
               /\ e.vthis = Last(csp).vthis /\ e.env = Last(csp).env
               /\ Machine(native, G, traps, sp, Len(native))
               /\ \A j \in 1..Len(G) : Height(G[j].act) <= Here.base
               /\ \A i \in 1..Len(native) : native[i].floor.sp <= Here.base
               /\ \A k \in 1..Len(traps) : traps[k].pos <= Here.base
<1> DEFINE e == Last(csp).act
           G == Front(csp)
           n == Len(native)
           m == Len(csp)
<1>1. /\ IsSeq(native) /\ n >= 1 /\ n \in Nat /\ Top = native[n] /\ Top.kind = "interp"
      /\ Machine(native, csp, traps, sp, n) /\ Stands(Here, m, Top, csp)
      /\ IsSeq(csp) /\ m \in Nat /\ IsSeq(traps) /\ Len(traps) \in Nat
      /\ CodePoint(Here) /\ sp = Height(Here) /\ Placed(Here, n, traps)
  BY CodeFacts
<1>2. /\ Here.base \in Nat
      /\ \A j \in 1..m : Height(csp[j].act) \in Nat /\ Height(csp[j].act) <= Here.base
      /\ \A i \in 1..n : native[i].floor.sp \in Nat /\ native[i].floor.sp <= Here.base
  BY FreeSlots
<1>3. \A k \in 1..Len(traps) : traps[k].pos \in Nat /\ traps[k].pos <= Here.base
  <2>1. Stands(Here, m, native[n], csp)
    BY <1>1
  <2> QED BY <1>1, <2>1, CodeLies
<1>4. m > Top.floor.csp /\ Height(csp[m].act) = Here.base /\ Top.floor.csp \in Nat
  BY <1>1, MachineTypes DEF Stands
<1>5. m >= 1 /\ csp # <<>> /\ m \in (Top.floor.csp + 1)..m /\ m - 1 \in Nat
  <2>1. m >= 1 /\ m \in (Top.floor.csp + 1)..m /\ m - 1 \in Nat
    BY <1>1, <1>4
  <2> QED BY <1>1, <2>1, NonemptySeq
<1>6. e = csp[m].act /\ CutTo(csp, m - 1, G)
  BY <1>1, <1>5, FrontCuts DEF Last
<1>7. IsSeq(G) /\ Len(G) = m - 1 /\ \A j \in 1..(m - 1) : G[j] = csp[j]
  BY <1>6 DEF CutTo
<1> HIDE DEF e, G
<1>8. CodePoint(e) /\ Height(e) = Here.base
  <2>1. m \in 1..m
    BY <1>1, <1>5
  <2> QED BY <1>1, <1>4, <1>6, <2>1, MachineTypes
<1>9. Last(csp).vthis = e.vthis /\ Last(csp).env = e.env
  <2>1. FrameShaped(csp[m])
    BY <1>1, <1>5 DEF Machine, FramesFit
  <2>2. Last(csp) = csp[m]
    BY DEF Last
  <2> QED BY <1>6, <2>1, <2>2 DEF FrameShaped
<1>10. Stands(e, m - 1, Top, csp) /\ Placed(e, n, traps)
  <2>1. Own(n, m, native, csp, traps)
    BY <1>1 DEF Machine, OwnAll, FramesOf
  <2> QED BY <1>1, <1>5, <1>6, <2>1 DEF Own
<1>11. Stands(e, m - 1, Top, G)
  <2>1. CASE e.where # "fun"
    BY <1>10, <2>1, StandsSame
  <2>2. CASE e.where = "fun"
    <3>1. m - 1 > Top.floor.csp
      BY <1>10, <2>2 DEF Stands
    <3>2. m - 1 \in 1..(m - 1)
      BY <1>4, <1>5, <3>1
    <3>3. G[m - 1].act = csp[m - 1].act
      BY <1>7, <3>2
    <3> QED BY <1>10, <3>3, StandsSame
  <2> QED BY <2>1, <2>2
<1>12. \A k \in 1..Len(traps) : traps[k].csp <= m - 1
  <2> SUFFICES ASSUME NEW k \in 1..Len(traps), ~(traps[k].csp <= m - 1) PROVE FALSE
    OBVIOUS
  <2>1. traps[k].csp \in Nat /\ traps[k].csp <= m
    BY <1>1, MachineTypes
  <2>2. traps[k].csp = m /\ m \in 1..traps[k].csp
    BY <1>1, <1>5, <2>1
  <2>3. Height(csp[m].act) + TrapSlots <= traps[k].pos
    BY <1>1, <2>2 DEF Machine, TrapsFit
  <2>4. traps[k].pos \in Nat /\ traps[k].pos <= Here.base
    BY <1>3
  <2> QED BY <1>2, <1>4, <2>3, <2>4 DEF TrapSlots
<1>13. \A i \in 1..n : native[i].floor.csp <= m - 1
  <2> TAKE i \in 1..n
  <2>1. native[i].floor.csp \in Nat
    BY <1>1, MachineTypes
  <2>2. native[i].floor.csp <= native[n].floor.csp
    <3>1. i <= n /\ n \in 1..n
      BY <1>1
    <3> QED BY <1>1, <3>1 DEF Machine, Floors
  <2>3. native[n].floor.csp < m /\ native[n].floor.csp \in Nat
    BY <1>1, <1>4
  <2> QED BY <1>1, <2>1, <2>2, <2>3
<1>14. Machine(native, G, traps, sp, n)
  <2>1. Agrees(csp, m - 1, G)
    <3>1. m - 1 \in 0..m
      BY <1>1, <1>5
    <3>2. \A j \in 1..(m - 1) : FrameShaped(G[j]) /\ G[j].act = csp[j].act /\ Bare(G[j]) = Bare(csp[j])
      <4> TAKE j \in 1..(m - 1)
      <4>1. j \in 1..m /\ G[j] = csp[j]
        BY <1>1, <1>7
      <4>2. FrameShaped(csp[j])
        BY <1>1, <4>1 DEF Machine, FramesFit
      <4> QED BY <4>1, <4>2
    <3> QED BY <1>7, <3>1, <3>2 DEF Agrees
  <2>2. CutTo(native, n, native)
    BY <1>1 DEF CutTo
  <2>3. FramesOf(n, native, csp) = m /\ m - 1 <= m
    BY <1>1 DEF FramesOf
  <2>4. n \in 1..n /\ n <= n
    BY <1>1
  <2> QED BY <1>1, <1>12, <1>13, <2>1, <2>2, <2>3, <2>4, CutBack
<1>15. \A j \in 1..Len(G) : Height(G[j].act) <= Here.base
  <2> SUFFICES ASSUME NEW j \in 1..(m - 1) PROVE Height(G[j].act) <= Here.base
    BY <1>7
  <2>1. j \in 1..m /\ G[j] = csp[j]
    BY <1>1, <1>7
  <2> QED BY <1>2, <2>1
<1> QED BY <1>2, <1>3, <1>5, <1>7, <1>8, <1>9, <1>10, <1>11, <1>14, <1>15 DEF e, G

LEMMA RetSound == ASSUME VMInv, Ret, damage' = "none" PROVE Sound'
<1> DEFINE e == Last(csp).act
           G == Front(csp)
<1>1. InCode /\ Here.where = "fun" /\ Here.open = <<>>
  BY DEF Ret
<1>2. /\ sp' = sp - Here.d /\ csp' = G /\ vthis' = Last(csp).vthis /\ env' = Last(csp).env
      /\ native' = WithAct(e) /\ UNCHANGED <<size, traps, start>> /\ Quiet
  <2>1. Readable(Last(csp))
    BY DEF Ret, Lost
  <2> QED BY <2>1 DEF Ret
<1>3. /\ Len(csp) >= 1 /\ IsSeq(G) /\ Len(G) = Len(csp) - 1
      /\ CodePoint(e) /\ Height(e) = Here.base
      /\ Stands(e, Len(G), Top, G) /\ Placed(e, Len(native), traps)
      /\ e.vthis = Last(csp).vthis /\ e.env = Last(csp).env
      /\ Machine(native, G, traps, sp, Len(native))
      /\ \A j \in 1..Len(G) : Height(G[j].act) <= Here.base
      /\ \A i \in 1..Len(native) : native[i].floor.sp <= Here.base
      /\ \A k \in 1..Len(traps) : traps[k].pos <= Here.base
  BY <1>1, Returning
<1>4. Here.base \in Nat /\ Here.d \in Nat /\ sp = Here.base + Here.d
  BY <1>1, FreeSlots
<1>5. /\ IsSeq(native) /\ Used \in Nat /\ Used <= size
      /\ Used = 4 * Len(csp) + sp /\ Len(csp) \in Nat /\ sp \in Nat /\ Bounds
  BY <1>1, CodeFacts
<1> HIDE DEF e, G
<1>6. sp' = Here.base
  <2>1. PICK x \in Nat, y \in Nat : x = Here.base /\ y = Here.d
    BY <1>4
  <2>2. sp - Here.d = x
    BY <1>4, <2>1
  <2> QED BY <1>2, <2>1, <2>2
<1>7. Machine(native, G, traps, Here.base, Len(native))
  BY <1>3, <1>4, <1>5, SetHeight
<1>8. Used' <= size' /\ size' \in Nat /\ InitSize <= size'
  <2>1. size \in Nat /\ size' = size /\ InitSize <= size'
    BY <1>2, <1>5 DEF Bounds
  <2>2. Used' = 4 * (Len(csp) - 1) + Here.base
    BY <1>2, <1>3, <1>6 DEF Used, FrameSlots
  <2>3. Here.base <= sp
    BY <1>4
  <2>4. PICK x \in Nat : x = Here.base /\ x <= sp /\ Used' = 4 * (Len(csp) - 1) + x
    BY <1>4, <2>2, <2>3
  <2>5. Used' <= size
    BY <1>3, <1>5, <2>1, <2>4
  <2> QED BY <2>1, <2>5
<1> QED BY <1>1, <1>2, <1>3, <1>6, <1>7, <1>8, RunsOn

LEMMA TailCallSound == ASSUME VMInv, HandlerInv', TailCall, damage' = "none" PROVE Sound'
<1> DEFINE e == Last(csp).act
           G == Front(csp)
           b == Here.base
<1>1. InCode /\ Here.where = "fun" /\ Here.open = <<>>
  BY DEF TailCall
<1>2. PICK n \in 0..MaxArgs :
        /\ n <= Free
        /\ DoCall(e, G, b + n, n, vthis, Last(csp).vthis, Last(csp).env)
        /\ UNCHANGED <<size, traps, start>> /\ Quiet
  BY DEF TailCall, Lost
<1>3. /\ Len(csp) >= 1 /\ IsSeq(G) /\ Len(G) = Len(csp) - 1
      /\ CodePoint(e) /\ Height(e) = b
      /\ Stands(e, Len(G), Top, G) /\ Placed(e, Len(native), traps)
      /\ e.vthis = Last(csp).vthis /\ e.env = Last(csp).env
      /\ Machine(native, G, traps, sp, Len(native))
      /\ \A j \in 1..Len(G) : Height(G[j].act) <= b
      /\ \A i \in 1..Len(native) : native[i].floor.sp <= b
      /\ \A k \in 1..Len(traps) : traps[k].pos <= b
  BY <1>1, Returning
<1>4. /\ b \in Nat /\ Here.d \in Nat /\ sp = b + Here.d
      /\ Free \in Nat /\ Here.args \in Nat /\ Here.args + Free <= Here.d
  BY <1>1, FreeSlots
<1>5. /\ IsSeq(native) /\ Used \in Nat /\ Used <= size
      /\ Used = 4 * Len(csp) + sp /\ Len(csp) \in Nat /\ sp \in Nat /\ Bounds
  BY <1>1, CodeFacts
<1> HIDE DEF e, G, b
<1>6. n \in Nat /\ b + n \in Nat /\ b <= b + n /\ b + n <= sp
  <2>1. n \in Nat /\ n <= Free
    BY <1>2, SizesAssumption
  <2> QED BY <1>4, <2>1
<1>7. Machine(native, G, traps, b + n, Len(native))
  <2>1. \A j \in 1..Len(G) : Height(G[j].act) <= b + n
    <3> TAKE j \in 1..Len(G)
    <3>1. Height(G[j].act) \in Nat /\ Height(G[j].act) <= b
      BY <1>3, <1>5, MachineTypes
    <3> QED BY <1>4, <1>6, <3>1
  <2>2. \A i \in 1..Len(native) : native[i].floor.sp <= b + n
    <3> TAKE i \in 1..Len(native)
    <3>1. native[i].floor.sp \in Nat /\ native[i].floor.sp <= b
      BY <1>3, <1>5, MachineTypes
    <3> QED BY <1>4, <1>6, <3>1
  <2>3. \A k \in 1..Len(traps) : traps[k].pos <= b + n
    <3> TAKE k \in 1..Len(traps)
    <3>1. traps[k].pos \in Nat /\ traps[k].pos <= b
      BY <1>3, <1>5, MachineTypes
    <3> QED BY <1>4, <1>6, <3>1
  <2> QED BY <1>3, <1>5, <1>6, <2>1, <2>2, <2>3, SetHeight
<1>8. size' \in Nat /\ InitSize <= size' /\ 4 * Len(G) + 4 + (b + n) <= size'
  <2>1. size \in Nat /\ size' = size /\ InitSize <= size'
    BY <1>2, <1>5 DEF Bounds
  <2>2. 4 * Len(G) + 4 + (b + n) <= 4 * Len(csp) + sp
    BY <1>3, <1>5, <1>6
  <2>3. 4 * Len(G) + 4 + (b + n) <= size
    BY <1>3, <1>5, <1>6, <2>1, <2>2
  <2> QED BY <2>1, <2>3
<1>9. DoCall(e, G, b + n, n, vthis, e.vthis, e.env)
  BY <1>2, <1>3
<1> QED BY <1>1, <1>2, <1>3, <1>4, <1>6, <1>7, <1>8, <1>9, DoCallSound

-----------------------------------------------------------------------------
(* val_callEx. *)

\* A machine that runs.
LEMMA RunFacts ==
    ASSUME VMInv, Ready
    PROVE  /\ IsSeq(native) /\ Len(native) >= 1 /\ Len(native) \in Nat /\ Chain(native)
           /\ Top = native[Len(native)] /\ Shaped(Top) /\ InControl(Top)
           /\ start \in 0..Len(native) /\ InnermostIn(start, native, Len(native))
           /\ Machine(native, csp, traps, sp, start)
           /\ IsSeq(csp) /\ IsSeq(traps) /\ Used \in Nat /\ Used <= size
           /\ Used = 4 * Len(csp) + sp /\ Len(csp) \in Nat /\ Len(traps) \in Nat /\ sp \in Nat
           /\ mode = "run" /\ why = "none" /\ Bounds
           /\ Floor = [sp |-> sp, csp |-> Len(csp), traps |-> Len(traps)]
<1>1. HandlerInv /\ Bounds /\ Healthy /\ mode = "run"
  BY DEF VMInv, Ready
<1>2. /\ Chain(native) /\ Len(native) \in 1..Len(native) /\ Len(native) \in Nat
      /\ Top = native[Len(native)] /\ Shaped(Top) /\ InnermostIn(start, native, Len(native))
  BY <1>1, Running
<1>3. why = "none" /\ InControl(Top) /\ Used <= size /\ Machine(native, csp, traps, sp, start)
  BY <1>1 DEF Healthy, LastArmed
<1>4. IsSeq(native) /\ start \in 0..Len(native) /\ Len(native) >= 1
  BY <1>2 DEF Chain, InnermostIn
<1>5. IsSeq(csp) /\ IsSeq(traps) /\ sp \in Nat /\ Len(csp) \in Nat /\ Len(traps) \in Nat
  BY <1>3, <1>4, MachineTypes
<1>6. Used \in Nat /\ Used = 4 * Len(csp) + sp
  BY <1>5, UsedNat
<1> QED BY <1>1, <1>2, <1>3, <1>4, <1>5, <1>6 DEF Floor, Mark

\* A throw that leaves both stacks alone.
LEMMA PlainThrow ==
    ASSUME VMInv, Ready, Throw("error"), UNCHANGED <<stacks, start, env, native, damage>>
    PROVE  Sound'
<1>1. /\ Machine(native, csp, traps, sp, start) /\ Used \in Nat /\ Used <= size /\ Bounds
  BY RunFacts
<1>2. mode' = "throw" /\ why' = "error" /\ UNCHANGED <<size, csp, sp, traps, start, native>>
  BY DEF Throw, stacks
<1>3. Machine(native', csp', traps', sp', start') /\ Used' = Used
  BY <1>1, <1>2 DEF Used
<1>4. size' \in Nat /\ InitSize <= size' /\ Used' <= size' + TrapSlots
  BY <1>1, <1>2, <1>3 DEF Bounds
<1> QED BY <1>2, <1>3, <1>4, Throws

\* No activation above the innermost handler has a trap of its own.
LEMMA NoneAbove ==
    ASSUME NEW N, NEW h, NEW n \in Nat, InnermostIn(h, N, n)
    PROVE  h \in 0..n /\ \A i \in (h + 1)..n : ~IsHandler(N[i]) /\ ~CallsBack(N[i])
<1>1. h \in 0..n /\ \A j \in 1..n : IsHandler(N[j]) => j <= h
  BY DEF InnermostIn
<1>2. ASSUME NEW i \in (h + 1)..n PROVE ~IsHandler(N[i])
  <2>1. i \in 1..n /\ ~(i <= h)
    BY <1>1
  <2> QED BY <1>1, <2>1
<1> QED BY <1>1, <1>2 DEF CallsBack, IsHandler

\* The caller val_callEx has, and what it will find again.
LEMMA MayCallBack ==
    ASSUME VMInv, Ready, NEW exc \in BOOLEAN,
           InC \/ (InCode /\ Free > 0 /\ ~exc),
           NEW a, a = [kind |-> "callex", exc |-> exc, called |-> FALSE, old |-> start,
                       vthis |-> vthis, env |-> env, floor |-> Floor]
    PROVE  Waits(Top, a, Len(native), csp, traps)
<1>1. /\ a.kind = "callex" /\ a.exc = exc /\ a.vthis = vthis /\ a.env = env /\ a.floor = Floor
  OBVIOUS
<1>2. InControl(Top) /\ Floor = [sp |-> sp, csp |-> Len(csp), traps |-> Len(traps)]
  BY RunFacts
<1>3. CASE InC
  <2>1. Top.kind \in {"host", "prim"} /\ Floor = Top.floor /\ vthis = Top.at.vthis
        /\ env = Top.at.env
    BY <1>2, <1>3 DEF InC, InControl
  <2> QED BY <1>1, <2>1 DEF Waits
<1>4. CASE InCode /\ Free > 0 /\ ~exc
  <2>1. /\ Top.kind = "interp" /\ Here = Top.act /\ CodePoint(Here) /\ sp = Height(Here)
        /\ Stands(Here, Len(csp), Top, csp) /\ Placed(Here, Len(native), traps)
        /\ vthis = Here.vthis /\ env = Here.env
    BY <1>4, CodeFacts
  <2>2. CodePoint([Here EXCEPT !.d = @ - 1])
    <3>1. 1 <= Free
      BY <1>4, FreeSlots
    <3> QED BY <1>4, <3>1, Popped
  <2>3. Here.d > 0
    <3>1. PICK x \in Nat, y \in Nat : x = Here.d /\ y = Here.args /\ y + Free <= x
      BY <1>4, FreeSlots
    <3>2. Free \in Nat
      BY <1>4, FreeSlots
    <3>3. x > 0
      BY <1>4, <3>1, <3>2
    <3> QED BY <3>1, <3>3
  <2>4. a.floor.sp = sp /\ a.floor.csp = Len(csp)
    BY <1>1, <1>2
  <2> QED BY <1>1, <1>4, <2>1, <2>2, <2>3, <2>4 DEF Waits
<1> QED BY <1>3, <1>4

LEMMA EnterSound ==
    ASSUME VMInv, Ready, NEW exc \in BOOLEAN, NEW t, EnterCallEx(exc, t),
           InC \/ (InCode /\ Free > 0 /\ ~exc)
    PROVE  Sound'
<1> DEFINE n == Len(native)
           a == [kind |-> "callex", exc |-> exc, called |-> FALSE, old |-> start,
                 vthis |-> vthis, env |-> env, floor |-> Floor]
<1>1. /\ IsSeq(native) /\ n >= 1 /\ n \in Nat /\ Top = native[n]
      /\ start \in 0..n /\ InnermostIn(start, native, n)
      /\ Machine(native, csp, traps, sp, start)
      /\ IsSeq(csp) /\ IsSeq(traps) /\ Used \in Nat /\ Used <= size
      /\ Used = 4 * Len(csp) + sp /\ Len(csp) \in Nat /\ Len(traps) \in Nat /\ sp \in Nat
      /\ mode = "run" /\ why = "none" /\ Bounds
      /\ Floor = [sp |-> sp, csp |-> Len(csp), traps |-> Len(traps)]
  BY RunFacts
<1>2. Waits(Top, a, n, csp, traps)
  BY MayCallBack
<1>3. /\ a.kind = "callex" /\ a.exc = exc
      /\ a.floor = [sp |-> sp, csp |-> Len(csp), traps |-> Len(traps)]
  BY <1>1
<1>4. native' = Append(native, a) /\ csp' = csp
  BY DEF EnterCallEx
<1> HIDE DEF a
<1>5. Extended(native, a, native')
  BY <1>1, <1>4, AppendExtends
<1>6. Machine(native', csp, traps, sp, start)
  BY <1>1, <1>2, <1>3, <1>5, PushAct
<1>7. IsSeq(native') /\ Len(native') = n + 1 /\ native'[n + 1] = a
      /\ \A i \in 1..n : native'[i] = native[i]
  BY <1>5 DEF Extended
<1>8. CASE ~exc
  <2>1. UNCHANGED <<size, sp, traps, start, mode, why>>
    BY <1>8 DEF EnterCallEx
  <2>2. Floor' = Entered(a)
    <3>1. Floor' = [sp |-> sp, csp |-> Len(csp), traps |-> Len(traps)]
      BY <1>4, <2>1 DEF Floor, Mark
    <3>2. Entered(a) = [sp |-> sp + 0, csp |-> Len(csp), traps |-> Len(traps) + 0]
      BY <1>3, <1>8 DEF Entered
    <3>3. sp + 0 = sp /\ Len(traps) + 0 = Len(traps)
      BY <1>1
    <3> QED BY <3>1, <3>2, <3>3
  <2>3. Used' = Used
    BY <1>4, <2>1 DEF Used
  <2>4. size' \in Nat /\ InitSize <= size' /\ Used' <= size'
    BY <1>1, <2>1, <2>3 DEF Bounds
  <2>5. Machine(native', csp', traps', sp', start')
    BY <1>4, <1>6, <2>1
  <2>6. mode' = "run" /\ why' = "none" /\ native'[Len(native')] = a
    BY <1>1, <1>7, <2>1
  <2> QED BY <1>3, <1>7, <2>2, <2>4, <2>5, <2>6, CRuns
<1>9. CASE exc
  <2>1. start' = n + 1 /\ sp' = sp + TrapSlots
    BY <1>9 DEF EnterCallEx
  <2>2. sp + TrapSlots \in Nat /\ sp <= sp + TrapSlots /\ TrapSlots <= sp + TrapSlots
    BY <1>1 DEF TrapSlots
  <2>3. Machine(native', csp, traps, sp + TrapSlots, n)
    <3>1. Machine(native', csp, traps, sp + TrapSlots, start)
      BY <1>6, <1>7, <2>2, Grow
    <3>2. \A i \in (start + 1)..n : ~CallsBack(native'[i])
      <4> TAKE i \in (start + 1)..n
      <4>1. i \in 1..n
        BY <1>1
      <4> QED BY <1>1, <1>7, <4>1, NoneAbove
    <3>3. \A k \in 1..Len(traps) : traps[k].owner <= n
      BY <1>1, MachineTypes
    <3>4. n \in 0..Len(native')
      BY <1>1, <1>7
    <3> QED BY <1>7, <3>1, <3>2, <3>3, <3>4, SetArmed
  <2>4. CASE ~Room(TrapSlots)
    <3>1. mode' = "throw" /\ why' = "setup_trap" /\ size' = size /\ traps' = traps
      BY <1>9, <2>4 DEF EnterCallEx
    <3>2. LastArmed' = n
      BY <1>1, <2>1, <3>1 DEF LastArmed
    <3>3. Machine(native', csp', traps', sp', LastArmed')
      BY <1>4, <2>1, <2>3, <3>1, <3>2
    <3>4. Top' = a
      BY <1>7 DEF Top, Last
    <3>5. start' = Len(native') /\ Len(traps') = a.floor.traps
      BY <1>3, <1>7, <2>1, <3>1
    <3>6. Healthy'
      BY <1>3, <1>9, <3>1, <3>3, <3>4, <3>5 DEF Healthy
    <3>7. Bounds'
      <4>1. size \in Nat /\ size' = size /\ InitSize <= size
        BY <1>1, <3>1 DEF Bounds
      <4>2. Used' = 4 * Len(csp) + (sp + TrapSlots)
        BY <1>4, <2>1 DEF Used, FrameSlots
      <4>3. Used' <= size + 6
        BY <1>1, <4>1, <4>2 DEF TrapSlots
      <4> QED BY <4>1, <4>3 DEF Bounds, TrapSlots
    <3> QED BY <3>6, <3>7 DEF Sound
  <2>5. CASE Room(TrapSlots)
    <3> DEFINE tr == [pos |-> sp + TrapSlots, csp |-> Len(csp), vthis |-> t,
                      env |-> env, owner |-> n + 1, act |-> CallbackReturn(sp)]
    <3>1. /\ Reserve(TrapSlots) /\ traps' = Append(traps, tr) /\ UNCHANGED <<mode, why>>
      BY <1>9, <2>5 DEF EnterCallEx
    <3>2. tr.pos = sp + TrapSlots /\ tr.csp = Len(csp) /\ tr.owner = n + 1
      OBVIOUS
    <3> HIDE DEF tr
    <3>3. Extended(traps, tr, traps') /\ Len(traps') = Len(traps) + 1
      BY <1>1, <3>1, AppendExtends DEF Extended
    <3>4. CallsBack(a) /\ IsHandler(a)
      BY <1>3, <1>9 DEF CallsBack, IsHandler
    <3>5. Leads(tr, Len(traps) + 1, native', csp, traps')
      <4>1. tr.owner \in 1..Len(native') /\ native'[tr.owner] = a
        BY <1>1, <1>7, <3>2
      <4>2. tr.pos = a.floor.sp + TrapSlots /\ tr.csp = a.floor.csp
            /\ Len(traps) + 1 = a.floor.traps + 1
        BY <1>3, <3>2
      <4> QED BY <1>3, <3>4, <4>1, <4>2 DEF Leads
    <3>6. Machine(native', csp, traps', sp + TrapSlots, n + 1)
      <4>1. \A j \in 1..Len(csp) : Height(csp[j].act) + TrapSlots <= tr.pos
        <5> TAKE j \in 1..Len(csp)
        <5>1. Height(csp[j].act) \in Nat /\ Height(csp[j].act) <= sp
          BY <1>1, MachineTypes
        <5>2. sp \in Nat /\ tr.pos = sp + TrapSlots
          BY <1>1, <3>2
        <5> QED BY <5>1, <5>2, RoomForTrap
      <4>2. \A k \in 1..Len(traps) : traps[k].pos + TrapSlots <= tr.pos
        <5> TAKE k \in 1..Len(traps)
        <5>1. traps[k].pos \in Nat /\ traps[k].pos <= sp
          BY <1>1, MachineTypes
        <5>2. sp \in Nat /\ tr.pos = sp + TrapSlots
          BY <1>1, <3>2
        <5> QED BY <5>1, <5>2, RoomForTrap
      <4>3. \A i \in 1..Len(native') : native'[i].floor.sp + TrapSlots <= tr.pos
        <5> TAKE i \in 1..Len(native')
        <5>1. native'[i].floor.sp \in Nat /\ native'[i].floor.sp <= sp
          BY <1>6, <1>7, MachineTypes
        <5>2. sp \in Nat /\ tr.pos = sp + TrapSlots
          BY <1>1, <3>2
        <5> QED BY <5>1, <5>2, RoomForTrap
      <4>4. n \in {Len(native') - 1, Len(native')} /\ Len(native') >= 1
            /\ tr.owner = Len(native')
        BY <1>1, <1>7, <3>2
      <4>5. tr.pos \in Nat /\ tr.pos <= sp + TrapSlots /\ TrapSlots <= tr.pos
        BY <2>2, <3>2
      <4>6. native'[Len(native')].floor.traps = Len(traps)
        BY <1>3, <1>7
      <4>7. Machine(native', csp, traps', sp + TrapSlots, Len(native'))
        BY <1>7, <2>3, <3>2, <3>3, <3>5, <4>1, <4>2, <4>3, <4>4, <4>5, <4>6, PushTrap
      <4> QED BY <1>7, <4>7
    <3>7. size' \in Nat /\ InitSize <= size' /\ Used + TrapSlots <= size'
      <4>1. TrapSlots \in 0..TrapSlots
        BY DEF TrapSlots
      <4> QED BY <1>1, <3>1, <4>1, Roomier
    <3>8. Used' <= size'
      <4>1. Used' = 4 * Len(csp) + (sp + TrapSlots)
        BY <1>4, <2>1 DEF Used, FrameSlots
      <4>2. Used' = Used + TrapSlots
        BY <1>1, <4>1 DEF TrapSlots
      <4> QED BY <3>7, <4>2
    <3>9. Floor' = Entered(a)
      <4>1. Floor' = [sp |-> sp + TrapSlots, csp |-> Len(csp), traps |-> Len(traps) + 1]
        BY <1>4, <2>1, <3>3 DEF Floor, Mark
      <4> QED BY <1>3, <1>9, <4>1 DEF Entered
    <3>10. native'[Len(native')] = a /\ mode' = "run" /\ why' = "none"
      BY <1>1, <1>7, <3>1
    <3>11. Machine(native', csp', traps', sp', start')
      BY <1>4, <2>1, <3>6
    <3> QED BY <1>3, <1>7, <3>7, <3>8, <3>9, <3>10, <3>11, CRuns
  <2> QED BY <2>4, <2>5
<1> QED BY <1>8, <1>9

LEMMA CallExSound == ASSUME VMInv, CallEx \/ OperatorCall PROVE Sound'
<1>1. CASE CallEx
  <2>1. InC /\ \E exc \in BOOLEAN, t \in This \cup {vthis} : EnterCallEx(exc, t)
    BY <1>1 DEF CallEx
  <2> QED BY <2>1, EnterSound DEF InC
<1>2. CASE OperatorCall
  <2>1. InCode /\ Free > 0 /\ \E t \in This : EnterCallEx(FALSE, t)
    BY <1>2 DEF OperatorCall
  <2> QED BY <2>1, EnterSound DEF InCode
<1> QED BY <1>1, <1>2

\* val_callEx has looked at its function.
LEMMA CalledMoved ==
    ASSUME VMInv, Dispatching
    PROVE  /\ IsSeq(Called) /\ Len(Called) = Len(native)
           /\ Called[Len(native)].kind = "callex" /\ Called[Len(native)].called
           /\ Called[Len(native)].exc = Top.exc /\ Called[Len(native)].floor = Top.floor
           /\ Machine(Called, csp, traps, sp, start)
           /\ Chain(Called) /\ InnermostIn(start, Called, Len(native))
<1> DEFINE n == Len(native)
           a == native[n]
           b == [a EXCEPT !.called = TRUE]
<1>1. Ready /\ Top.kind = "callex"
  BY DEF Dispatching
<1>2. /\ IsSeq(native) /\ n >= 1 /\ n \in Nat /\ Top = a /\ Shaped(a) /\ a.kind = "callex"
      /\ Machine(native, csp, traps, sp, start) /\ HandlerInv
  BY <1>1, RunFacts DEF VMInv
<1>3. a \in [kind : {"callex"}, exc : BOOLEAN, called : BOOLEAN, old : {a.old},
             vthis : {a.vthis}, env : {a.env}, floor : {a.floor}]
  BY <1>2 DEF Shaped
<1>4. /\ b.kind = "callex" /\ b.exc = a.exc /\ b.called /\ b.floor = a.floor
      /\ b.vthis = a.vthis /\ b.env = a.env
  BY <1>3
<1> HIDE DEF b
<1>5. Progress(a, b)
  BY <1>2, <1>4 DEF Progress, Similar, IsHandler, CallsBack
<1>6. Chain(Called) /\ Len(Called) = n /\ InnermostIn(start, Called, Len(Called))
  BY <1>1, <1>2, CalledChain
<1>7. Called[n] = b /\ \A i \in 1..(n - 1) : Called[i] = native[i]
  <2>1. n \in 1..n /\ DOMAIN native = 1..n
    BY <1>2, SeqLen
  <2>2. Called = [native EXCEPT ![n] = b]
    BY DEF Called, b
  <2>3. Called[n] = b
    BY <2>1, <2>2
  <2>4. \A i \in 1..(n - 1) : Called[i] = native[i]
    <3> TAKE i \in 1..(n - 1)
    <3>1. i \in 1..n /\ i # n
      <4> HIDE DEF n
      <4> QED BY <1>2
    <3>2. i \in DOMAIN native
      BY <2>1, <3>1
    <3> QED BY <2>2, <3>1, <3>2
  <2> QED BY <2>3, <2>4
<1>8. IsSeq(Called)
  BY <1>6 DEF Chain
<1>9. Machine(Called, csp, traps, sp, start)
  BY <1>2, <1>5, <1>6, <1>7, <1>8, MoveOn
<1> QED BY <1>2, <1>4, <1>6, <1>7, <1>8, <1>9

LEMMA CallExPrimitiveSound == ASSUME VMInv, HandlerInv', CallExPrimitive PROVE Sound'
<1> DEFINE n == Len(native)
<1>1. Ready /\ Top.kind = "callex" /\ Dispatching
  BY DEF CallExPrimitive, Dispatching
<1>2. /\ n >= 1 /\ n \in Nat /\ InControl(Top) /\ Used \in Nat /\ Used <= size /\ Bounds
      /\ IsSeq(csp) /\ IsSeq(traps) /\ mode = "run" /\ why = "none" /\ sp \in Nat
      /\ Floor = [sp |-> sp, csp |-> Len(csp), traps |-> Len(traps)]
  BY <1>1, RunFacts
<1>3. /\ IsSeq(Called) /\ Len(Called) = n
      /\ Called[n].kind = "callex" /\ Called[n].called
      /\ Called[n].exc = Top.exc /\ Called[n].floor = Top.floor
      /\ Machine(Called, csp, traps, sp, start)
  BY <1>1, CalledMoved
<1>4. PICK e : env' = e /\ native' = Append(Called, Prim(0, Snapshot(sp, csp, vthis, e)))
  BY DEF CallExPrimitive
<1>5. UNCHANGED <<size, csp, sp, traps, start, vthis, mode, why>>
  BY DEF CallExPrimitive, stacks, Quiet
<1> DEFINE a == Prim(0, Snapshot(sp, csp, vthis, e))
<1>6. /\ a.kind = "prim" /\ a.args = 0
      /\ a.at = [sp |-> sp, csp |-> csp, traps |-> traps, start |-> start,
                 vthis |-> vthis, env |-> e]
      /\ a.floor = Mark(sp, csp, traps)
  BY DEF Prim, Snapshot
<1>7. a.floor = [sp |-> sp, csp |-> Len(csp), traps |-> Len(traps)]
  BY <1>6 DEF Mark
<1> HIDE DEF a
<1>8. Extended(Called, a, native')
  <2>1. native' = Append(Called, a)
    BY <1>4 DEF a
  <2> QED BY <1>3, <2>1, AppendExtends
<1>9. Len(native') = n + 1 /\ native'[n + 1] = a /\ IsSeq(native')
  BY <1>3, <1>8 DEF Extended
<1>10. Waits(Called[n], a, n, csp, traps)
  <2>1. Floor = Entered(Top)
    BY <1>1, <1>2 DEF InControl
  <2>2. Entered(Called[n]) = Entered(Top)
    BY <1>3 DEF Entered
  <2> QED BY <1>2, <1>3, <1>6, <1>7, <2>1, <2>2 DEF Waits
<1>11. Kept(a, n + 1, native', csp, traps)
  <2>1. InnermostIn(start, native', n + 1)
    BY <1>2, <1>5, <1>9 DEF HandlerInv
  <2>2. Snapped(a.at) /\ a.at.csp = csp /\ a.at.traps = traps /\ a.at.sp = sp
        /\ a.at.start = start
    BY <1>6 DEF Snapped
  <2> QED BY <1>2, <1>6, <2>1, <2>2 DEF Kept
<1>12. Machine(native', csp, traps, sp, start)
  BY <1>2, <1>3, <1>6, <1>7, <1>8, <1>10, <1>11, PushAct
<1>13. Used' = Used
  BY <1>5 DEF Used
<1>14. size' \in Nat /\ InitSize <= size' /\ Used' <= size'
  BY <1>2, <1>5, <1>13 DEF Bounds
<1>15. Machine(native', csp', traps', sp', start')
  BY <1>5, <1>12
<1>16. Floor' = a.floor /\ vthis' = a.at.vthis /\ env' = a.at.env /\ native'[Len(native')] = a
       /\ mode' = "run" /\ why' = "none"
  BY <1>2, <1>4, <1>5, <1>6, <1>9 DEF Floor
<1> QED BY <1>6, <1>9, <1>14, <1>15, <1>16, CRuns

\* The trap of a val_callEx on top is the innermost.
LEMMA OwnTrap ==
    ASSUME NEW N, IsSeq(N), Len(N) >= 1, NEW F, NEW T, NEW h, Machine(N, F, T, h, Len(N)),
           CallsBack(N[Len(N)]), N[Len(N)].kind = "callex"
    PROVE  LET a == N[Len(N)]
               t == T[Len(T)]
           IN  /\ Len(T) = a.floor.traps + 1 /\ Len(T) >= 1
               /\ t.owner = Len(N) /\ t.pos = a.floor.sp + TrapSlots /\ t.csp = a.floor.csp
               /\ a.floor.sp + TrapSlots <= h
<1> DEFINE n == Len(N)
           a == N[n]
           m == Len(T)
           f == a.floor.traps
<1>1. /\ n \in Nat /\ m \in Nat /\ h \in Nat /\ f \in Nat /\ f <= m
      /\ \A k \in 1..m : T[k].owner \in 1..n /\ T[k].owner <= n /\ T[k].pos <= h
  BY MachineTypes
<1>2. f < m
  BY <1>1 DEF Machine, ArmedAll, Armed
<1>3. \A k \in 1..m : k > f => T[k].owner >= n
  <2> TAKE k \in 1..m
  <2>1. Below(a.floor, n, F, T, h)
    BY <1>1 DEF Machine, Floors
  <2> QED BY <1>1, <2>1 DEF Below
<1>4. m \in 1..m /\ m > f
  BY <1>1, <1>2
<1>5. T[m].owner = n
  BY <1>1, <1>3, <1>4
<1>6. Leads(T[m], m, N, F, T)
  BY <1>4 DEF Machine, LeadsAll
<1>7. m = f + 1 /\ T[m].pos = a.floor.sp + TrapSlots /\ T[m].csp = a.floor.csp
  BY <1>5, <1>6 DEF Leads
<1>8. a.floor.sp + TrapSlots <= h
  BY <1>1, <1>4, <1>7
<1> QED BY <1>1, <1>4, <1>5, <1>7, <1>8

\* val_callEx takes its trap down: both stacks and vm->start are what they
\* were when it was entered.
LEMMA TakeDown ==
    ASSUME NEW N, Chain(N), NEW F, NEW T, NEW h, Machine(N, F, T, h, Len(N)),
           CallsBack(N[Len(N)]), NEW U, CutTo(T, Len(T) - 1, U),
           NEW G, Agrees(F, N[Len(N)].floor.csp, G)
    PROVE  /\ Machine(N, G, U, N[Len(N)].floor.sp, N[Len(N)].old)
           /\ Len(U) = N[Len(N)].floor.traps
           /\ N[Len(N)].old \in 0..(Len(N) - 1)
<1> DEFINE n == Len(N)
           a == N[n]
           m == Len(T)
           x == a.floor.sp
           q == a.floor.csp
           v == a.old
<1>1. /\ IsSeq(N) /\ n >= 1 /\ n \in Nat /\ a.kind = "callex" /\ IsHandler(a)
      /\ InnermostIn(v, N, n - 1)
  <2>1. n \in Nat /\ n >= 1
    BY ChainLength
  <2>2. a.kind = "callex" /\ IsHandler(a)
    BY DEF CallsBack, IsHandler
  <2>3. n \in 1..n
    BY <2>1
  <2>4. InnermostIn(v, N, n - 1)
    BY <2>2, <2>3 DEF Chain
  <2> QED BY <2>1, <2>2, <2>4 DEF Chain
<1>2. /\ m = a.floor.traps + 1 /\ m >= 1
      /\ T[m].owner = n /\ T[m].pos = x + TrapSlots /\ T[m].csp = q
  BY <1>1, OwnTrap
<1>3. /\ m \in Nat /\ h \in Nat /\ x \in Nat /\ q \in Nat /\ q <= Len(F) /\ Len(F) \in Nat
      /\ \A j \in 1..Len(F) : Height(F[j].act) \in Nat /\ Height(F[j].act) <= h
      /\ \A k \in 1..m : T[k].pos \in Nat /\ T[k].csp \in Nat /\ T[k].owner \in 1..n
      /\ \A i \in 1..n : N[i].floor.sp \in Nat /\ N[i].floor.csp \in Nat
      /\ a.floor.traps \in Nat
  BY <1>1, MachineTypes
<1>4. v \in 0..(n - 1) /\ \A j \in 1..(n - 1) : IsHandler(N[j]) => j <= v
  BY <1>1 DEF InnermostIn
<1>5. Len(U) = m - 1 /\ IsSeq(U) /\ \A k \in 1..(m - 1) : U[k] = T[k]
  BY DEF CutTo
<1>6. \A i \in 1..n : N[i].floor.sp <= x /\ N[i].floor.csp <= q
  <2> TAKE i \in 1..n
  <2>1. i <= n /\ n \in 1..n
    BY <1>1
  <2> QED BY <2>1 DEF Machine, Floors
<1>7. \A k \in 1..(m - 1) : T[k].owner < n /\ T[k].pos <= x /\ T[k].csp <= q
  <2> TAKE k \in 1..(m - 1)
  <2>1. k \in 1..m /\ k <= a.floor.traps
    BY <1>2, <1>3
  <2>2. Below(a.floor, n, F, T, h)
    BY <1>1 DEF Machine, Floors
  <2> QED BY <2>1, <2>2 DEF Below
<1>8. \A k \in 1..(m - 1) : T[k].owner <= v
  <2> TAKE k \in 1..(m - 1)
  <2>1. k \in 1..m
    BY <1>3
  <2>2. IsHandler(N[T[k].owner]) /\ T[k].owner \in 1..n
    BY <2>1 DEF Machine, LeadsAll, Leads
  <2>3. T[k].owner \in 1..(n - 1)
    BY <1>1, <1>7, <2>2
  <2> QED BY <1>4, <2>2, <2>3
<1> HIDE DEF x, q, v
\* The frames above the floor go first, then the trap.
<1>9. Machine(N, G, T, h, n)
  <2>1. \A k \in 1..m : T[k].csp <= q
    <3> TAKE k \in 1..m
    <3>1. CASE k = m
      <4>1. T[k].csp = q /\ q \in Nat
        BY <1>2, <1>3, <3>1
      <4> QED BY <4>1
    <3>2. CASE k # m
      <4>1. k \in 1..(m - 1)
        BY <1>3, <3>2
      <4> QED BY <1>7, <4>1
    <3> QED BY <3>1, <3>2
  <2>2. n \in 1..n /\ n <= n
    BY <1>1
  <2>3. CutTo(N, n, N)
    BY <1>1 DEF CutTo
  <2>4. a.kind # "interp"
    BY <1>1
  <2>5. Agrees(F, q, G)
    BY DEF q
  <2> QED BY <1>1, <1>6, <2>1, <2>2, <2>3, <2>4, <2>5, CutBack
<1>10. /\ Len(G) = q /\ \A j \in 1..q : G[j].act = F[j].act
  BY DEF Agrees, q
<1>11. \A j \in 1..q : Height(F[j].act) <= x
  <2> TAKE j \in 1..q
  <2>1. j \in 1..Len(F) /\ j <= a.floor.csp
    BY <1>3 DEF q
  <2>2. Below(a.floor, n, F, T, h)
    BY <1>1 DEF Machine, Floors
  <2> QED BY <2>1, <2>2 DEF Below, x
<1>12. Machine(N, G, U, h, v)
  <2>1. \A j \in 1..Len(G) : Height(G[j].act) < T[m].pos
    <3> SUFFICES ASSUME NEW j \in 1..q PROVE Height(G[j].act) < T[m].pos
      BY <1>10
    <3>1. Height(F[j].act) <= x /\ G[j].act = F[j].act /\ j \in 1..Len(F)
      BY <1>3, <1>10, <1>11
    <3>2. Height(F[j].act) \in Nat
      BY <1>3, <3>1
    <3> QED BY <1>2, <1>3, <3>1, <3>2 DEF TrapSlots
  <2>2. v \in 0..n /\ v < n
    BY <1>1, <1>4
  <2> QED BY <1>1, <1>2, <1>8, <1>9, <2>1, <2>2, DropTrap
<1>13. Machine(N, G, U, x, v)
  <2>1. \A j \in 1..Len(G) : Height(G[j].act) <= x
    BY <1>10, <1>11
  <2>2. \A k \in 1..Len(U) : U[k].pos <= x
    BY <1>5, <1>7
  <2>3. x \in Nat /\ \A i \in 1..n : N[i].floor.sp <= x
    BY <1>3, <1>6
  <2> QED BY <1>1, <1>12, <2>1, <2>2, <2>3, SetHeight
<1>14. Len(U) = a.floor.traps
  BY <1>2, <1>3, <1>5
<1> QED BY <1>4, <1>13, <1>14 DEF x, v

\* Popping frames erases slots of the others at worst.
LEMMA ClobberAgrees ==
    ASSUME NEW F, NEW h, FramesFit(F, h), NEW q \in 0..Len(F), NEW k
    PROVE  Agrees(F, q, Clobber(Prefix(F, q), k))
<1> DEFINE P == Prefix(F, q)
           G == Clobber(P, k)
<1>1. CutTo(F, q, P) /\ Len(F) \in Nat
  BY PrefixCuts, SeqLen DEF FramesFit
<1>2. IsSeq(P) /\ Len(P) = q /\ q \in Nat /\ \A j \in 1..q : P[j] = F[j]
  BY <1>1 DEF CutTo
<1> HIDE DEF P
<1>3. DOMAIN P = 1..q
  BY <1>2, SeqLen
<1>4. DOMAIN G = 1..q /\ \A j \in 1..q : \E l : G[j] = [P[j] EXCEPT !.live = l]
  BY <1>3 DEF Clobber
<1>5. IsSeq(G) /\ Len(G) = q
  <2>1. G = [i \in 1..q |-> G[i]]
    BY <1>3 DEF Clobber
  <2> HIDE DEF G
  <2>2. G \in Seq({G[i] : i \in 1..q})
    BY <1>2, <2>1
  <2>3. Len(G) = q
    BY <1>2, <2>1
  <2> QED BY <2>2, <2>3 DEF IsSeq
<1> HIDE DEF G
<1>6. \A j \in 1..q : FrameShaped(G[j]) /\ G[j].act = F[j].act /\ Bare(G[j]) = Bare(F[j])
  <2> TAKE j \in 1..q
  <2>1. j \in 1..Len(F) /\ P[j] = F[j]
    BY <1>1, <1>2
  <2>2. F[j] = [act |-> F[j].act, vthis |-> F[j].act.vthis, env |-> F[j].act.env,
                live |-> F[j].live]
    BY <2>1 DEF FramesFit, FrameShaped
  <2>3. PICK l : G[j] = [F[j] EXCEPT !.live = l]
    BY <1>4, <2>1
  <2>4. PICK c, y, z, w : F[j] = [act |-> c, vthis |-> y, env |-> z, live |-> w]
                            /\ y = c.vthis /\ z = c.env
    BY <2>2
  <2>5. G[j] = [act |-> c, vthis |-> y, env |-> z, live |-> l]
    BY <2>3, <2>4
  <2> QED BY <2>4, <2>5 DEF FrameShaped, Bare
<1> QED BY <1>1, <1>5, <1>6 DEF Agrees, G, P

LEMMA CallExFunctionSound == ASSUME VMInv, HandlerInv', CallExFunction PROVE Sound'
<1> DEFINE n == Len(native)
<1>1. Ready /\ Top.kind = "callex" /\ Dispatching
  BY DEF CallExFunction, Dispatching
<1>2. /\ IsSeq(native) /\ n >= 1 /\ n \in Nat /\ Top = native[n] /\ Chain(native)
      /\ start \in 0..n /\ InnermostIn(start, native, n)
      /\ Machine(native, csp, traps, sp, start) /\ InControl(Top)
      /\ IsSeq(csp) /\ IsSeq(traps) /\ Used \in Nat /\ Used <= size
      /\ Used = 4 * Len(csp) + sp /\ Len(csp) \in Nat /\ Len(traps) \in Nat /\ sp \in Nat
      /\ mode = "run" /\ why = "none" /\ Bounds
      /\ Floor = [sp |-> sp, csp |-> Len(csp), traps |-> Len(traps)]
  BY <1>1, RunFacts
<1>3. Floor = Entered(Top)
  BY <1>1, <1>2 DEF InControl
<1>4. PICK m \in 0..CallbackArgs, e \in Envs :
        IF Room(FrameSlots + m)
          THEN /\ Reserve(FrameSlots + m)
               /\ sp' = sp + m
               /\ csp' = Append(csp, Frame(CallbackReturn(sp), NoThis, NoEnv))
               /\ env' = e
               /\ native' = Append(Called, Interp(sp + m, start, Code("fun", sp, m, vthis, e)))
               /\ start' = Len(native) + 1
               /\ UNCHANGED <<traps, vthis>> /\ Quiet
          ELSE /\ IF Top.exc
                    THEN PopTrap(Last(traps)) /\ env' = Last(traps).env
                    ELSE UNCHANGED <<csp, sp, traps, env>>
               /\ Leave(Top)
               /\ vthis' = Thrown /\ mode' = "throw" /\ why' = "callex"
               /\ UNCHANGED <<size, native, damage>>
  BY DEF CallExFunction
<1>5. m \in Nat /\ m <= CallbackArgs /\ CallbackArgs \in Nat
  BY SizesAssumption
<1>6. CASE Room(FrameSlots + m)
  <2> DEFINE c == Code("fun", sp, m, vthis, e)
             a == Interp(sp + m, start, c)
             f == Frame(CallbackReturn(sp), NoThis, NoEnv)
             p == n + 1
  <2>1. /\ Reserve(FrameSlots + m) /\ sp' = sp + m /\ csp' = Append(csp, f) /\ env' = e
        /\ native' = Append(Called, a) /\ start' = p
        /\ UNCHANGED <<traps, vthis, mode, why>>
    BY <1>4, <1>6 DEF Quiet
  <2>2. /\ IsSeq(Called) /\ Len(Called) = n
        /\ Called[n].kind = "callex" /\ Called[n].called
        /\ Called[n].exc = Top.exc /\ Called[n].floor = Top.floor
        /\ Machine(Called, csp, traps, sp, start) /\ InnermostIn(start, Called, n)
    BY <1>1, CalledMoved
  <2>3. /\ a.kind = "interp" /\ a.init = sp + m /\ a.act = c
        /\ a.floor = [sp |-> sp, csp |-> Len(csp), traps |-> Len(traps)]
    BY <1>2 DEF Interp
  <2>4. /\ CodePoint(c) /\ Height(c) = sp + m /\ c.where = "fun" /\ c.base = sp
        /\ c.vthis = vthis /\ c.env = e
    BY <1>2, <1>5, FreshCode
  <2>5. \A i, T : IsSeq(T) /\ (\A k \in 1..Len(T) : T[k].pos <= sp) => Placed(c, i, T)
    BY <1>2, <1>5, FreshCode
  <2>6. /\ CodePoint(f.act) /\ f.act = CallbackReturn(sp) /\ f.act.where = "callback"
        /\ f.act.base = sp /\ f.act.d = 0 /\ f.act.open = <<>> /\ FrameShaped(f)
    <3>1. f = [act |-> CallbackReturn(sp), vthis |-> NoThis, env |-> NoEnv, live |-> FrameSlots]
      BY DEF Frame
    <3>2. /\ CallbackReturn(sp) = Code("callback", sp, 0, NoThis, NoEnv)
          /\ CallbackReturn(sp).vthis = NoThis /\ CallbackReturn(sp).env = NoEnv
          /\ CallbackReturn(sp).where = "callback" /\ CallbackReturn(sp).base = sp
          /\ CallbackReturn(sp).d = 0 /\ CallbackReturn(sp).open = <<>>
      BY DEF CallbackReturn, Code
    <3>3. CodePoint(CallbackReturn(sp))
      BY <1>2, <3>2, FreshCode
    <3> QED BY <3>1, <3>2, <3>3 DEF FrameShaped
  <2>7. Height(f.act) = sp
    BY <1>2, <2>6 DEF Height
  <2>8. \A i, T : IsSeq(T) /\ (\A k \in 1..Len(T) : T[k].pos <= sp) => Placed(f.act, i, T)
    <3>1. f.act = Code("callback", sp, 0, NoThis, NoEnv)
      BY <2>6 DEF CallbackReturn
    <3> HIDE DEF f
    <3>2. \A i, T : IsSeq(T) /\ (\A k \in 1..Len(T) : T[k].pos <= sp)
                     => Placed(Code("callback", sp, 0, NoThis, NoEnv), i, T)
      BY <1>2, FreshCode
    <3> QED BY <3>1, <3>2
  <2> HIDE DEF a, c, f
  <2>9. Extended(Called, a, native')
    BY <2>1, <2>2, AppendExtends
  <2>10. IsSeq(native') /\ Len(native') = p /\ native'[p] = a
         /\ \A i \in 1..n : native'[i] = Called[i]
    BY <2>2, <2>9 DEF Extended
  <2>11. p \in Nat /\ p >= 1
    BY <1>2
  <2> HIDE DEF p
  <2>12. Machine(native', csp, traps, sp, start)
    <3>1. Waits(Called[n], a, n, csp, traps)
      <4>1. Entered(Called[n]) = Entered(Top)
        BY <2>2 DEF Entered
      <4> QED BY <1>2, <1>3, <2>2, <2>3, <4>1 DEF Waits
    <3>2. a.init \in Nat /\ sp <= a.init /\ a.init <= sp + CallbackArgs
      BY <1>2, <1>5, <2>3
    <3> QED BY <1>2, <2>2, <2>3, <2>9, <3>1, <3>2, PushAct
  <2>13. /\ \A j \in 1..Len(csp) : Height(csp[j].act) <= sp
         /\ \A i \in 1..p : native'[i].floor.sp <= sp
         /\ \A k \in 1..Len(traps) : traps[k].pos <= sp /\ traps[k].owner <= start
    BY <2>10, <2>12, MachineTypes
  <2>14. Extended(csp, f, csp')
    BY <1>2, <2>1, AppendExtends
  <2>15. Machine(native', csp', traps, sp, start)
    <3>1. Stands(f.act, Len(csp), a, csp)
      BY <2>3, <2>6 DEF Stands
    <3>2. Placed(f.act, p, traps)
      BY <1>2, <2>8, <2>13
    <3>3. native'[Len(native')].kind = "interp" =>
            Stands(f.act, Len(csp), native'[Len(native')], csp)
              /\ Placed(f.act, Len(native'), traps)
      BY <2>10, <3>1, <3>2
    <3>4. Height(f.act) <= sp /\ Len(native') >= 1
      BY <1>2, <2>7, <2>10, <2>11
    <3>5. /\ \A j \in 1..Len(csp) : Height(csp[j].act) <= Height(f.act)
          /\ \A i \in 1..Len(native') : native'[i].floor.sp <= Height(f.act)
      BY <2>7, <2>10, <2>13
    <3> QED BY <2>6, <2>10, <2>12, <2>14, <3>3, <3>4, <3>5, PushFrame
  <2>16. Machine(native', csp', traps, sp + m, p)
    <3>1. sp + m \in Nat /\ sp <= sp + m
      BY <1>2, <1>5
    <3>2. Machine(native', csp', traps, sp + m, start)
      BY <2>10, <2>15, <3>1, Grow
    <3>3. \A i \in (start + 1)..p : ~CallsBack(native'[i])
      <4> TAKE i \in (start + 1)..p
      <4>1. CASE i = p
        BY <2>3, <2>10, <4>1 DEF CallsBack
      <4>2. CASE i # p
        <5>1. i \in (start + 1)..n /\ i \in 1..n
          BY <1>2, <4>2 DEF p
        <5> QED BY <1>2, <2>2, <2>10, <5>1, NoneAbove
      <4> QED BY <4>1, <4>2
    <3>4. \A k \in 1..Len(traps) : traps[k].owner <= p
      <4> TAKE k \in 1..Len(traps)
      <4>1. traps[k].owner \in 1..p
        BY <2>10, <2>12, MachineTypes
      <4> QED BY <2>11, <4>1
    <3>5. p \in 0..Len(native')
      BY <2>10, <2>11
    <3> QED BY <2>10, <3>2, <3>3, <3>4, <3>5, SetArmed
  <2>17. Stands(c, Len(csp'), native'[p], csp')
    <3>1. Len(csp') = Len(csp) + 1 /\ csp'[Len(csp')] = f
      BY <2>14 DEF Extended
    <3>2. Len(csp') > a.floor.csp
      BY <1>2, <2>3, <3>1
    <3> QED BY <2>4, <2>7, <2>10, <3>1, <3>2 DEF Stands
  <2>18. Placed(c, p, traps')
    BY <1>2, <2>1, <2>5, <2>13
  <2>19. size' \in Nat /\ InitSize <= size' /\ Used + (4 + m) <= size'
    <3>1. 4 + m \in Nat /\ 4 + m <= InitSize
      BY <1>5, SizesAssumption DEF FrameSlots
    <3> QED BY <1>2, <2>1, <3>1, ReserveFits DEF FrameSlots
  <2>20. Used' <= size'
    <3>1. Len(csp') = Len(csp) + 1
      BY <2>14 DEF Extended
    <3>2. Used' = 4 * (Len(csp) + 1) + (sp + m)
      BY <2>1, <3>1 DEF Used, FrameSlots
    <3>3. Used' = Used + (4 + m)
      BY <1>2, <1>5, <3>2
    <3> QED BY <2>19, <3>3
  <2>21. Machine(native', csp', traps', sp', p) /\ start' = p /\ mode' = "run" /\ why' = "none"
    BY <1>2, <2>1, <2>16
  <2>22. native'[p].kind = "interp" /\ native'[p].act = c /\ p = Len(native')
    BY <2>3, <2>10
  <2>23. sp' = Height(c) /\ vthis' = c.vthis /\ env' = c.env
    BY <2>1, <2>4
  <2> QED BY <2>4, <2>10, <2>17, <2>18, <2>19, <2>20, <2>21, <2>22, <2>23, TopRuns
<1>7. CASE ~Room(FrameSlots + m)
  <2>1. /\ Top.exc => PopTrap(Last(traps))
        /\ ~Top.exc => UNCHANGED <<csp, sp, traps>>
        /\ Leave(Top) /\ mode' = "throw" /\ why' = "callex" /\ size' = size /\ native' = native
    BY <1>4, <1>7
  <2>2. size \in Nat /\ InitSize <= size
    BY <1>2 DEF Bounds
  <2>3. CASE ~Top.exc
    <3>1. start' = start
      BY <1>1, <2>1, <2>3 DEF Leave, IsHandler
    <3>2. Used' = Used /\ Machine(native', csp', traps', sp', start')
      BY <1>2, <2>1, <2>3, <3>1 DEF Used
    <3>3. Used' <= size + 6
      BY <1>2, <2>2, <3>2
    <3> QED BY <2>1, <2>2, <3>2, <3>3, Throws DEF TrapSlots
  <2>4. CASE Top.exc
    <3> DEFINE q == Len(csp)
               t == Last(traps)
    <3>1. CallsBack(native[n]) /\ IsHandler(Top) /\ native[n].kind = "callex"
      BY <1>1, <1>2, <2>4 DEF CallsBack, IsHandler
    <3>2. start = n
      BY <1>2, <3>1 DEF InnermostIn
    <3>3. /\ t.pos = Top.floor.sp + TrapSlots /\ t.csp = Top.floor.csp
          /\ Len(traps) >= 1
      BY <1>2, <3>1, <3>2, OwnTrap DEF Last
    <3>4. Top.floor.sp + TrapSlots = sp /\ Top.floor.csp = q /\ Top.floor.sp \in Nat
      <4>1. Floor.sp = Top.floor.sp + TrapSlots /\ Floor.csp = Top.floor.csp
        BY <1>3, <2>4 DEF Entered
      <4>2. Top.floor.sp \in Nat
        BY <1>2, MachineTypes
      <4> QED BY <1>2, <4>1, <4>2
    <3>5. /\ \E k : csp' = Clobber(Prefix(csp, q), k)
          /\ sp' = t.pos - TrapSlots /\ traps' = Front(traps)
      BY <2>1, <2>4, <3>3, <3>4 DEF PopTrap
    <3>6. sp' = Top.floor.sp
      <4>1. PICK x \in Nat : x = Top.floor.sp /\ t.pos = x + 6
        BY <3>3, <3>4 DEF TrapSlots
      <4>2. t.pos - 6 = x
        BY <4>1
      <4> QED BY <3>5, <4>1, <4>2 DEF TrapSlots
    <3>7. CutTo(traps, Len(traps) - 1, traps')
      <4>1. traps # <<>>
        BY <1>2, <3>3, NonemptySeq
      <4> QED BY <1>2, <3>5, <4>1, FrontCuts
    <3>8. Agrees(csp, q, csp')
      <4>1. FramesFit(csp, sp) /\ q \in 0..q
        BY <1>2 DEF Machine
      <4> QED BY <3>5, <4>1, ClobberAgrees
    <3> HIDE DEF q, t
    <3>9. Machine(native, csp', traps', Top.floor.sp, Top.old)
      <4>1. Agrees(csp, native[Len(native)].floor.csp, csp')
        BY <1>2, <3>4, <3>8
      <4>2. Machine(native, csp, traps, sp, Len(native)) /\ CallsBack(native[Len(native)])
        BY <1>2, <3>1, <3>2
      <4>3. Machine(native, csp', traps', native[Len(native)].floor.sp, native[Len(native)].old)
        BY <1>2, <3>7, <4>1, <4>2, TakeDown
      <4> QED BY <1>2, <4>3
    <3>10. start' = Top.old
      BY <2>1, <3>1 DEF Leave
    <3>11. Used' <= size + 6
      <4>1. Len(csp') = Len(csp)
        BY <3>8 DEF Agrees, q
      <4>2. PICK x \in Nat : x = Top.floor.sp /\ x + 6 = sp
        BY <3>4 DEF TrapSlots
      <4>3. PICK y \in Nat, z \in Nat : y = Len(csp) /\ z = size
        BY <1>2, <2>2
      <4>4. Used' = 4 * y + x
        BY <3>6, <4>1, <4>2, <4>3 DEF Used, FrameSlots
      <4>5. Used = 4 * y + (x + 6)
        BY <1>2, <4>2, <4>3
      <4>6. 4 * y + (x + 6) <= z
        BY <1>2, <4>3, <4>5
      <4>7. 4 * y + x <= z + 6
        BY <4>6
      <4> QED BY <4>3, <4>4, <4>7
    <3>12. Machine(native', csp', traps', sp', start')
      BY <2>1, <3>6, <3>9, <3>10
    <3> QED BY <2>1, <2>2, <3>11, <3>12, Throws DEF TrapSlots
  <2> QED BY <2>3, <2>4
<1> QED BY <1>6, <1>7

\* Taking a trap down makes up for the push that could not be made.
LEMMA UsedCut ==
    ASSUME IsSeq(csp), sp \in Nat, size \in Nat, Used <= size + TrapSlots, sp' \in Nat,
           sp' + TrapSlots <= sp, Len(csp') \in Nat, Len(csp') <= Len(csp)
    PROVE  Used' \in Nat /\ Used' <= size
<1>1. PICK x \in Nat, y \in Nat : x = sp' /\ y = Len(csp')
  OBVIOUS
<1>2. PICK h \in Nat, q \in Nat, s \in Nat : h = sp /\ q = Len(csp) /\ s = size
  BY SeqLen
<1>3. Used' = 4 * y + x
  BY <1>1 DEF Used, FrameSlots
<1>4. Used = 4 * q + h
  BY <1>2 DEF Used, FrameSlots
<1>5. x + 6 <= h /\ y <= q /\ 4 * q + h <= s + 6
  BY <1>1, <1>2, <1>4 DEF TrapSlots
<1>6. 4 * y + x \in Nat /\ 4 * y + x <= s
  BY <1>5
<1> QED BY <1>2, <1>3, <1>6

\* The trap of a val_callEx that returns goes with everything above it.
LEMMA CallExReturnsSound == ASSUME VMInv, HandlerInv', CallExReturns PROVE Sound'
<1> DEFINE n == Len(native)
           a == native[n]
           below == Front(native)
           m == n - 1
           caller == native[m]
<1>1. Ready /\ Top.kind = "callex" /\ Top.called
  BY DEF CallExReturns
<1>2. /\ IsSeq(native) /\ n >= 1 /\ n \in Nat /\ Top = a /\ Chain(native)
      /\ start \in 0..n /\ InnermostIn(start, native, n)
      /\ Machine(native, csp, traps, sp, start) /\ InControl(Top)
      /\ IsSeq(csp) /\ IsSeq(traps) /\ Used \in Nat /\ Used <= size
      /\ Used = 4 * Len(csp) + sp /\ Len(csp) \in Nat /\ Len(traps) \in Nat /\ sp \in Nat
      /\ mode = "run" /\ why = "none" /\ Bounds
      /\ Floor = [sp |-> sp, csp |-> Len(csp), traps |-> Len(traps)]
  BY <1>1, RunFacts
<1>3. Floor = Entered(a)
  BY <1>1, <1>2 DEF InControl
<1>4. m \in 1..n /\ m \in Nat /\ m >= 1
  <2>1. m \in 1..n
    BY <1>1, BelowTop DEF VMInv
  <2> QED BY <1>2, <2>1
<1>5. CutTo(native, m, below) /\ IsSeq(below) /\ Len(below) = m
      /\ \A i \in 1..m : below[i] = native[i]
  <2>1. native # <<>>
    BY <1>2, NonemptySeq
  <2>2. CutTo(native, m, below)
    BY <1>2, <2>1, FrontCuts
  <2> QED BY <2>2 DEF CutTo
<1>6. Last(below) = caller
  BY <1>4, <1>5 DEF Last
<1>7. /\ Leave(Top) /\ vthis' = a.vthis /\ env' = a.env /\ size' = size
      /\ mode' = "run" /\ why' = "none"
  BY <1>2 DEF CallExReturns, RestoreCaller, Quiet
<1>8. IF Top.exc
        THEN /\ csp' = Prefix(csp, Last(traps).csp)
             /\ sp' = Last(traps).pos - TrapSlots - (IF caller.kind = "interp" THEN 1 ELSE 0)
             /\ traps' = Front(traps)
        ELSE sp' = sp - (IF caller.kind = "interp" THEN 1 ELSE 0) /\ UNCHANGED <<csp, traps>>
  BY <1>6 DEF CallExReturns
<1>9. native' = IF caller.kind = "interp"
                  THEN [below EXCEPT ![Len(below)].act.d = @ - 1] ELSE below
  BY <1>6 DEF CallExReturns
<1>10. size \in Nat /\ InitSize <= size /\ size' = size
  BY <1>2, <1>7 DEF Bounds
<1>11. Waits(caller, a, m, csp, traps)
  <2>1. m \in 1..(n - 1) /\ m + 1 = n
    BY <1>2, <1>4
  <2> QED BY <1>2, <2>1 DEF Machine, WaitsAll
<1>12. a.floor.sp \in Nat /\ a.floor.csp \in Nat /\ a.floor.traps \in Nat
  BY <1>2, <1>4, MachineTypes
<1> HIDE DEF below, m, caller
<1>13. a.kind = "callex" /\ a.kind # "interp"
  BY <1>1, <1>2
<1>14. CASE caller.kind # "interp"
  <2>1. caller.kind \in {"host", "prim"} /\ a.floor = caller.floor /\ a.vthis = caller.at.vthis
        /\ a.env = caller.at.env
    BY <1>11, <1>13, <1>14 DEF Waits
  <2>2. native' = below
    BY <1>9, <1>14
  \* Both stacks are put back, and what is above the caller is gone.
  <2>3. /\ sp' = a.floor.sp /\ Len(csp') = a.floor.csp /\ Len(traps') = a.floor.traps
        /\ Machine(native', csp', traps', sp', start')
        /\ Used' <= size
    <3>1. CASE ~a.exc
      <4>1. Floor = [sp |-> a.floor.sp + 0, csp |-> a.floor.csp, traps |-> a.floor.traps + 0]
        BY <1>3, <3>1 DEF Entered
      <4>2. sp = a.floor.sp /\ Len(csp) = a.floor.csp /\ Len(traps) = a.floor.traps
        BY <1>2, <1>12, <4>1
      <4>3. csp' = csp /\ traps' = traps /\ sp' = sp
        <5>1. sp' = sp - 0 /\ UNCHANGED <<csp, traps>>
          BY <1>2, <1>8, <1>14, <3>1
        <5> QED BY <1>2, <5>1
      <4>4. start' = start /\ ~IsHandler(a)
        BY <1>2, <1>7, <1>13, <3>1 DEF Leave, IsHandler
      <4>5. start <= m
        <5>1. start # n
          BY <1>2, <4>4 DEF InnermostIn
        <5> QED BY <1>2, <5>1 DEF m
      <4>6. Machine(below, csp, traps, sp, start)
        <5>1. Agrees(csp, Len(csp), csp)
          <6>1. \A j \in 1..Len(csp) : FrameShaped(csp[j])
            BY <1>2 DEF Machine, FramesFit
          <6>2. Len(csp) \in 0..Len(csp)
            BY <1>2
          <6> QED BY <1>2, <6>1, <6>2 DEF Agrees
        <5>2. \A k \in 1..Len(traps) : traps[k].csp <= Len(csp)
          BY <1>2, MachineTypes
        <5>3. \A i \in 1..m : native[i].floor.csp <= Len(csp)
          <6> TAKE i \in 1..m
          <6>1. i \in 1..n
            BY <1>2, <1>4
          <6> QED BY <1>2, <6>1, MachineTypes
        <5>4. native[m].kind # "interp"
          BY <1>14 DEF caller
        <5> QED BY <1>2, <1>4, <1>5, <4>5, <5>1, <5>2, <5>3, <5>4, CutBack
      <4>7. Used' = Used
        BY <4>3 DEF Used
      <4> QED BY <1>2, <2>2, <4>2, <4>3, <4>4, <4>6, <4>7
    <3>2. CASE a.exc
      <4> DEFINE t == Last(traps)
                 q == a.floor.csp
      <4>1. CallsBack(a) /\ IsHandler(a)
        BY <1>13, <3>2 DEF CallsBack, IsHandler
      <4>2. start = n
        BY <1>2, <4>1 DEF InnermostIn
      <4>3. /\ t.pos = a.floor.sp + TrapSlots /\ t.csp = q /\ Len(traps) >= 1
            /\ a.floor.sp + TrapSlots <= sp
        BY <1>2, <1>13, <4>1, <4>2, OwnTrap DEF Last
      <4>4. q \in 0..Len(csp)
        <5>1. q <= Len(csp)
          BY <1>2, <1>4, MachineTypes
        <5> QED BY <1>2, <1>12, <5>1
      <4>5. csp' = Prefix(csp, q) /\ traps' = Front(traps)
        BY <1>2, <1>8, <3>2, <4>3
      <4>6. sp' = a.floor.sp
        <5>1. PICK x \in Nat : x = a.floor.sp /\ t.pos = x + 6
          BY <1>12, <4>3 DEF TrapSlots
        <5>2. sp' = t.pos - 6 - 0
          BY <1>2, <1>8, <1>14, <3>2 DEF TrapSlots
        <5>3. x + 6 - 6 - 0 = x
          OBVIOUS
        <5> QED BY <5>1, <5>2, <5>3
      <4>7. CutTo(traps, Len(traps) - 1, traps')
        <5>1. traps # <<>>
          BY <1>2, <4>3, NonemptySeq
        <5> QED BY <1>2, <4>5, <5>1, FrontCuts
      <4> HIDE DEF t
      <4>8. Agrees(csp, q, csp') /\ Len(csp') = q
        <5>1. IsSeq(csp') /\ Len(csp') = q /\ \A j \in 1..q : csp'[j] = csp[j]
          BY <1>2, <4>4, <4>5, PrefixCuts DEF CutTo
        <5>2. \A j \in 1..q : FrameShaped(csp'[j])
          <6> TAKE j \in 1..q
          <6>1. j \in 1..Len(csp) /\ csp'[j] = csp[j]
            BY <1>2, <4>4, <5>1
          <6>2. FramesFit(csp, sp)
            BY <1>2 DEF Machine
          <6>3. FrameShaped(csp[j])
            BY <6>1, <6>2 DEF FramesFit
          <6> QED BY <6>1, <6>3
        <5>3. \A j \in 1..q : csp'[j].act = csp[j].act /\ Bare(csp'[j]) = Bare(csp[j])
          BY <5>1
        <5> QED BY <4>4, <5>1, <5>2, <5>3 DEF Agrees
      <4>9. /\ Machine(native, csp', traps', a.floor.sp, a.old)
            /\ Len(traps') = a.floor.traps /\ a.old \in 0..m
        <5>1. Machine(native, csp, traps, sp, Len(native)) /\ CallsBack(native[Len(native)])
          BY <1>2, <4>1, <4>2
        <5>2. Agrees(csp, native[Len(native)].floor.csp, csp')
          BY <4>8
        <5> QED BY <1>2, <4>7, <5>1, <5>2, TakeDown DEF m
      <4>10. Machine(below, csp', traps', a.floor.sp, a.old)
        <5>1. Agrees(csp', q, csp')
          BY <4>8, <1>12 DEF Agrees
        <5>2. \A k \in 1..Len(traps') : traps'[k].csp <= q
          BY <1>2, <4>8, <4>9, MachineTypes
        <5>3. \A i \in 1..m : native[i].floor.csp <= q
          <6> TAKE i \in 1..m
          <6>1. i \in 1..n
            BY <1>2, <1>4
          <6> QED BY <1>2, <4>8, <4>9, <6>1, MachineTypes
        <5>4. native[m].kind # "interp"
          BY <1>14 DEF caller
        <5>5. a.old <= m
          BY <1>4, <4>9
        <5> QED BY <1>2, <1>4, <1>5, <4>9, <5>1, <5>2, <5>3, <5>4, <5>5, CutBack
      <4>11. start' = a.old
        BY <1>2, <1>7, <4>1 DEF Leave
      <4>12. Used' <= size
        <5>1. sp' \in Nat /\ sp' + TrapSlots <= sp
          BY <1>12, <4>3, <4>6
        <5>2. Len(csp') \in Nat /\ Len(csp') <= Len(csp)
          BY <1>2, <1>12, <4>4, <4>8
        <5>3. Used <= size + TrapSlots
          BY <1>2 DEF Bounds
        <5> QED BY <1>2, <1>10, <5>1, <5>2, <5>3, UsedCut
      <4> QED BY <2>2, <4>6, <4>8, <4>9, <4>10, <4>11, <4>12
    <3> QED BY <3>1, <3>2
  <2>4. Floor' = caller.floor
    <3>1. Floor' = [sp |-> a.floor.sp, csp |-> a.floor.csp, traps |-> a.floor.traps]
      BY <2>3 DEF Floor, Mark
    <3>2. a.floor = [sp |-> a.floor.sp, csp |-> a.floor.csp, traps |-> a.floor.traps]
      <4>1. n \in 1..n
        BY <1>2
      <4> QED BY <1>2, <4>1 DEF Machine, Floors, Below
    <3> QED BY <2>1, <3>1, <3>2
  <2>5. native'[Len(native')] = caller
    BY <1>4, <1>5, <2>2 DEF caller
  <2>6. vthis' = caller.at.vthis /\ env' = caller.at.env /\ caller.kind # "callex"
    BY <1>7, <2>1
  <2>7. IsSeq(native') /\ size' \in Nat /\ InitSize <= size' /\ Used' <= size'
    BY <1>5, <1>10, <2>2, <2>3
  <2> QED BY <1>7, <2>1, <2>3, <2>4, <2>5, <2>6, <2>7, CRuns
<1>15. CASE caller.kind = "interp"
  <2> DEFINE c == caller.act
             x == c.d - 1
             e == [c EXCEPT !.d = x]
  <2>1. /\ ~a.exc /\ a.floor.sp = Height(c) /\ a.vthis = c.vthis /\ a.env = c.env
        /\ CodePoint(c) /\ CodePoint(e) /\ c.d > 0
        /\ Stands(c, a.floor.csp, caller, csp) /\ Placed(c, m, traps)
    BY <1>11, <1>13, <1>15 DEF Waits
  <2>2. sp = Height(c) /\ Len(csp) = a.floor.csp
    <3>1. Floor = [sp |-> a.floor.sp + 0, csp |-> a.floor.csp, traps |-> a.floor.traps + 0]
      BY <1>3, <2>1 DEF Entered
    <3> QED BY <1>2, <1>12, <2>1, <3>1
  <2>3. sp' = sp - 1 /\ csp' = csp /\ traps' = traps
    BY <1>2, <1>8, <1>15, <2>1
  <2>4. ~IsHandler(a) /\ start' = start
    BY <1>2, <1>7, <1>13, <2>1 DEF Leave, IsHandler
  <2>5. start = m
    <3>1. IsHandler(native[m])
      BY <1>15 DEF IsHandler, caller
    <3>2. start # n
      BY <1>2, <2>4 DEF InnermostIn
    <3>3. m <= start
      BY <1>2, <1>4, <3>1 DEF InnermostIn
    <3> QED BY <1>2, <3>2, <3>3 DEF m
  <2>6. Machine(below, csp, traps, sp, m)
    <3>1. Agrees(csp, Len(csp), csp)
      <4>1. \A j \in 1..Len(csp) : FrameShaped(csp[j])
        BY <1>2 DEF Machine, FramesFit
      <4>2. Len(csp) \in 0..Len(csp)
        BY <1>2
      <4> QED BY <1>2, <4>1, <4>2 DEF Agrees
    <3>2. \A k \in 1..Len(traps) : traps[k].csp <= Len(csp)
      BY <1>2, MachineTypes
    <3>3. \A i \in 1..m : native[i].floor.csp <= Len(csp)
      <4> TAKE i \in 1..m
      <4>1. i \in 1..n
        BY <1>2, <1>4
      <4> QED BY <1>2, <4>1, MachineTypes
    <3>4. Len(csp) <= FramesOf(m, native, csp)
      <4>1. m # n /\ m + 1 = n
        BY <1>2 DEF m
      <4> QED BY <1>2, <2>2, <4>1 DEF FramesOf
    <3>5. m <= m
      BY <1>4
    <3> QED BY <1>2, <1>4, <1>5, <2>5, <3>1, <3>2, <3>3, <3>4, <3>5, CutBack
  <2>7. caller = below[m] /\ Stands(c, Len(csp), below[Len(below)], csp)
    BY <1>4, <1>5, <2>1, <2>2 DEF caller
  <2>8. /\ c.base \in Nat /\ c.d \in Nat /\ sp = c.base + c.d
        /\ \A j \in 1..Len(csp) : Height(csp[j].act) <= c.base
        /\ \A i \in 1..m : below[i].floor.sp <= c.base
        /\ \A k \in 1..Len(traps) :
             /\ traps[k].pos \in Nat /\ traps[k].pos <= c.base + c.d
             /\ c.open = <<>> => traps[k].pos <= c.base
             /\ c.open # <<>> => traps[k].pos <= c.base + c.open[Len(c.open)] + TrapSlots
        /\ c.open # <<>> => Len(c.open) > 0
        /\ c.open = <<>> => Len(c.open) = 0
    <3> HIDE DEF c
    <3>1. IsSeq(below) /\ Len(below) >= 1 /\ Len(below) = m
      BY <1>4, <1>5
    <3>2. CodePoint(c) /\ sp = Height(c)
      BY <2>1, <2>2
    <3>3. Stands(c, Len(csp), below[Len(below)], csp)
      BY <2>7
    <3>4. Placed(c, Len(below), traps)
      BY <2>1, <3>1
    <3>5. /\ c.base \in Nat /\ c.d \in Nat /\ sp = c.base + c.d
          /\ \A j \in 1..Len(csp) : Height(csp[j].act) <= c.base
          /\ c.open # <<>> => Len(c.open) > 0
          /\ c.open = <<>> => Len(c.open) = 0
      BY <2>6, <3>1, <3>2, <3>3, <3>4, CodeLies
    <3>6. \A i \in 1..Len(below) : below[i].floor.sp <= c.base
      BY <2>6, <3>1, <3>2, <3>3, <3>4, CodeLies
    <3>7. \A k \in 1..Len(traps) :
             /\ traps[k].pos \in Nat /\ traps[k].pos <= c.base + c.d
             /\ c.open = <<>> => traps[k].pos <= c.base
             /\ c.open # <<>> => traps[k].pos <= c.base + c.open[Len(c.open)] + TrapSlots
      BY <2>6, <3>1, <3>2, <3>3, <3>4, CodeLies
    <3> QED BY <3>1, <3>5, <3>6, <3>7
  <2>9. x \in Nat /\ c.base + x = sp - 1 /\ c.base <= sp - 1 /\ sp - 1 \in Nat
    <3>1. PICK y \in Nat : y = c.d /\ y > 0
      BY <2>1, <2>8
    <3> QED BY <2>8, <3>1
  <2> HIDE DEF c
  <2>10. Len(c.open) > 0 => c.open[Len(c.open)] \in Nat /\ c.open[Len(c.open)] + TrapSlots <= x
    <3>1. e.open = c.open /\ e.d = x
      <4>1. e = [where |-> c.where, base |-> c.base, args |-> c.args, d |-> x,
                 open |-> c.open, vthis |-> c.vthis, env |-> c.env]
        BY <2>1, CodeWith
      <4> QED BY <4>1
    <3> HIDE DEF e
    <3>2. Len(e.open) \in Nat /\ \A k \in 1..Len(e.open) : e.open[k] \in Nat
      BY <2>1, CodeSlots
    <3>3. Len(e.open) > 0 => e.open[Len(e.open)] + TrapSlots <= e.d
      BY <2>1, CodeSlots
    <3>4. Len(e.open) > 0 => e.open[Len(e.open)] \in Nat
      BY <3>2
    <3> QED BY <3>1, <3>3, <3>4
  <2>11. \A k \in 1..Len(traps) : /\ traps[k].pos \in Nat /\ traps[k].pos <= c.base + c.d
                                  /\ traps[k].pos <= c.base + x
    <3> TAKE k \in 1..Len(traps)
    <3>1. traps[k].pos \in Nat /\ traps[k].pos <= c.base + c.d
      BY <2>8
    <3>2. CASE c.open = <<>>
      <4>1. traps[k].pos <= c.base
        BY <2>8, <3>2
      <4> QED BY <2>8, <2>9, <3>1, <4>1
    <3>3. CASE c.open # <<>>
      <4>1. PICK y \in Nat : y = c.open[Len(c.open)] /\ y + 6 <= x
        BY <2>8, <2>10, <3>3 DEF TrapSlots
      <4>2. PICK b \in Nat, p \in Nat, z \in Nat : b = c.base /\ p = traps[k].pos /\ z = x
        BY <2>8, <2>9, <3>1
      <4>3. p <= b + y + 6
        BY <2>8, <3>3, <4>1, <4>2 DEF TrapSlots
      <4>4. y + 6 <= z
        BY <4>1, <4>2
      <4>5. p <= b + z
        BY <4>3, <4>4
      <4> QED BY <3>1, <4>2, <4>5
    <3> QED BY <3>2, <3>3
  <2>12. Machine(below, csp, traps, sp - 1, m)
    <3>1. \A j \in 1..Len(csp) : Height(csp[j].act) <= sp - 1
      <4> TAKE j \in 1..Len(csp)
      <4>1. Height(csp[j].act) \in Nat /\ Height(csp[j].act) <= c.base
        BY <1>2, <2>8, MachineTypes
      <4> QED BY <2>8, <2>9, <4>1
    <3>2. \A i \in 1..Len(below) : below[i].floor.sp <= sp - 1
      <4> TAKE i \in 1..Len(below)
      <4>1. below[i].floor.sp \in Nat /\ below[i].floor.sp <= c.base
        BY <1>5, <2>6, <2>8, MachineTypes
      <4> QED BY <2>8, <2>9, <4>1
    <3>3. \A k \in 1..Len(traps) : traps[k].pos <= sp - 1
      BY <2>9, <2>11
    <3> QED BY <1>5, <2>6, <2>9, <3>1, <3>2, <3>3, SetHeight
  <2> HIDE DEF x
  <2>13. /\ CodePoint(e) /\ Height(e) = c.base + x /\ Placed(e, m, traps)
         /\ e.where = c.where /\ e.base = c.base
         /\ e.vthis = c.vthis /\ e.env = c.env
    <3>1. Len(c.open) > 0 => c.open[Len(c.open)] + TrapSlots <= x
      BY <2>10
    <3>2. CodePoint(c) /\ IsSeq(traps) /\ Placed(c, m, traps) /\ x \in Nat
      BY <1>2, <2>1, <2>9
    <3>3. \A k \in 1..Len(traps) :
            traps[k].pos \in Nat /\ traps[k].pos <= c.base + c.d /\ traps[k].pos <= c.base + x
      BY <2>11
    <3>4. c.args <= x
      <4>1. e.args = c.args /\ e.d = x
        <5>1. e = [where |-> c.where, base |-> c.base, args |-> c.args, d |-> x,
                   open |-> c.open, vthis |-> c.vthis, env |-> c.env]
          BY <2>1, CodeWith
        <5> QED BY <5>1
      <4> HIDE DEF e
      <4> QED BY <2>1, <4>1 DEF CodePoint, KeepsArgs
    <3> HIDE DEF m
    <3> QED BY <3>1, <3>2, <3>3, <3>4, ResizeCode
  <2>14. e.d = x /\ e.open = c.open
    <3>1. e = [where |-> c.where, base |-> c.base, args |-> c.args, d |-> x,
               open |-> c.open, vthis |-> c.vthis, env |-> c.env]
      BY <2>1, CodeWith
    <3> QED BY <3>1
  <2>15. native' = [below EXCEPT ![Len(below)].act = e]
    <3>1. native' = [below EXCEPT ![m].act.d = @ - 1]
      BY <1>5, <1>9, <1>15
    <3>2. caller = below[m]
      BY <2>7
    <3>3. [below EXCEPT ![m].act.d = @ - 1] = [below EXCEPT ![m].act = [below[m].act EXCEPT !.d = @ - 1]]
      OBVIOUS
    <3>4. [below[m].act EXCEPT !.d = @ - 1] = e
      BY <3>2 DEF c, x
    <3> QED BY <1>5, <3>1, <3>3, <3>4
  <2> HIDE DEF e
  <2>16. Stands(e, Len(csp'), below[Len(below)], csp')
    <3>1. c.where # "callback"
      <4>1. CASE c.where = "callback"
        <5>1. c.d = 0
          BY <2>7, <4>1 DEF Stands
        <5> QED BY <2>1, <5>1
      <4> QED BY <4>1
    <3> QED BY <2>3, <2>7, <2>13, <3>1 DEF Stands
  <2>17. Shaped(below[Len(below)]) /\ below[Len(below)].kind = "interp" /\ Len(below) >= 1
    <3>1. Shaped(native[m])
      BY <1>2, <1>4 DEF Chain
    <3> QED BY <1>4, <1>5, <1>15, <3>1 DEF caller
  <2>18. Used' <= size' /\ size' \in Nat /\ InitSize <= size'
    <3>1. Used' = 4 * Len(csp) + (sp - 1)
      BY <2>3 DEF Used, FrameSlots
    <3>2. Used' <= size
      BY <1>2, <1>10, <2>9, <3>1
    <3> QED BY <1>10, <3>2
  <2>19. Machine(below, csp', traps', sp', Len(below)) /\ start' = Len(below)
    BY <1>5, <2>3, <2>4, <2>5, <2>12
  <2>20. sp' = Height(e) /\ Placed(e, Len(below), traps') /\ vthis' = e.vthis /\ env' = e.env
    <3>1. sp' = Height(e)
      BY <2>3, <2>9, <2>13
    <3> QED BY <1>5, <1>7, <2>1, <2>3, <2>13, <3>1
  <2> QED BY <1>5, <1>7, <2>13, <2>15, <2>16, <2>17, <2>18, <2>19, <2>20, CodeRuns
<1> QED BY <1>14, <1>15

LEMMA CallExFailsSound == ASSUME VMInv, CallExFails PROVE Sound'
BY PlainThrow DEF CallExFails, Dispatching

LEMMA PrimThrowsSound == ASSUME VMInv, PrimThrows PROVE Sound'
BY PlainThrow DEF PrimThrows

LEMMA ExecuteSound == ASSUME VMInv, Execute PROVE Sound'
<1> DEFINE n == Len(native)
<1>1. Ready /\ Top.kind \in {"host", "prim"}
  BY DEF Execute, InC
<1>2. /\ IsSeq(native) /\ n >= 1 /\ n \in Nat /\ Top = native[n] /\ Chain(native)
      /\ start \in 0..n /\ InnermostIn(start, native, n)
      /\ Machine(native, csp, traps, sp, start) /\ InControl(Top)
      /\ IsSeq(csp) /\ IsSeq(traps) /\ Used \in Nat /\ Used <= size
      /\ Used = 4 * Len(csp) + sp /\ Len(csp) \in Nat /\ Len(traps) \in Nat /\ sp \in Nat
      /\ mode = "run" /\ why = "none" /\ Bounds
      /\ Floor = [sp |-> sp, csp |-> Len(csp), traps |-> Len(traps)]
  BY <1>1, RunFacts
<1>3. PICK e \in Envs :
        /\ env' = e
        /\ native' = native \o
              << [kind |-> "execute", vthis |-> vthis, env |-> env, floor |-> Floor],
                 Interp(sp, start, Code("main", sp, 0, NoThis, e)) >>
  BY DEF Execute
<1>4. vthis' = NoThis /\ start' = n + 2 /\ UNCHANGED <<size, csp, sp, traps, mode, why>>
  BY DEF Execute, stacks, Quiet
<1> DEFINE x == [kind |-> "execute", vthis |-> vthis, env |-> env, floor |-> Floor]
           c == Code("main", sp, 0, NoThis, e)
           y == Interp(sp, start, c)
           N == Append(native, x)
           p == n + 2
<1>5. /\ CodePoint(c) /\ Height(c) = sp + 0 /\ c.where = "main" /\ c.base = sp
      /\ c.vthis = NoThis /\ c.env = e
  BY <1>2, FreshCode
<1>6. \A i, T : IsSeq(T) /\ (\A k \in 1..Len(T) : T[k].pos <= sp) => Placed(c, i, T)
  BY <1>2, FreshCode
<1> HIDE DEF c
<1>7. x.kind = "execute" /\ x.vthis = vthis /\ x.env = env /\ x.floor = Floor
  OBVIOUS
<1>8. y.kind = "interp" /\ y.init = sp /\ y.act = c /\ y.floor = Floor
  BY DEF Interp
<1>9. native' = Append(N, y)
  <2>1. PICK S : native \in Seq(S)
    BY <1>2 DEF IsSeq
  <2> HIDE DEF x, y
  <2>2. native \in Seq(S \cup {x, y})
    BY <2>1
  <2>3. native' = native \o <<x, y>>
    BY <1>3 DEF x, y, c
  <2> QED BY <2>2, <2>3
<1> HIDE DEF x, y
<1>10. Extended(native, x, N)
  BY <1>2, AppendExtends
<1>11. IsSeq(N) /\ Len(N) = n + 1 /\ N[n + 1] = x /\ \A i \in 1..n : N[i] = native[i]
  BY <1>10 DEF Extended
<1> HIDE DEF N
<1>12. Extended(N, y, native')
  BY <1>9, <1>11, AppendExtends
<1>13. /\ IsSeq(native') /\ Len(native') = p /\ native'[p] = y /\ p \in Nat /\ p >= 1
       /\ \A i \in 1..(n + 1) : native'[i] = N[i]
  <2>1. Len(N) + 1 = p
    BY <1>2, <1>11
  <2> QED BY <1>2, <1>11, <1>12, <2>1 DEF Extended
<1> HIDE DEF p
<1>14. Machine(N, csp, traps, sp, start)
  <2>1. Waits(native[n], x, n, csp, traps)
    BY <1>1, <1>2, <1>7 DEF Waits, InControl
  <2> QED BY <1>2, <1>7, <1>10, <2>1, PushAct
<1>15. Machine(native', csp, traps, sp, start)
  <2>1. Waits(N[n + 1], y, n + 1, csp, traps)
    BY <1>7, <1>8, <1>11 DEF Waits
  <2>2. Len(N) >= 1 /\ sp <= sp + CallbackArgs
    BY <1>2, <1>11, SizesAssumption
  <2> QED BY <1>2, <1>8, <1>11, <1>12, <1>14, <2>1, <2>2, PushAct
<1>16. Machine(native', csp, traps, sp, p)
  <2>1. \A i \in (start + 1)..p : ~CallsBack(native'[i])
    <3> TAKE i \in (start + 1)..p
    <3>1. CASE i = p
      BY <1>8, <1>13, <3>1 DEF CallsBack
    <3>2. CASE i = n + 1
      <4>1. native'[i] = x
        BY <1>2, <1>11, <1>13, <3>2
      <4> QED BY <1>7, <4>1 DEF CallsBack
    <3>3. CASE i # p /\ i # n + 1
      <4>1. i \in (start + 1)..n /\ i \in 1..n /\ i \in 1..(n + 1)
        BY <1>2, <3>3 DEF p
      <4> QED BY <1>2, <1>11, <1>13, <4>1, NoneAbove
    <3> QED BY <3>1, <3>2, <3>3
  <2>2. \A k \in 1..Len(traps) : traps[k].owner <= p
    <3> TAKE k \in 1..Len(traps)
    <3>1. traps[k].owner \in 1..p
      BY <1>13, <1>15, MachineTypes
    <3> QED BY <1>13, <3>1
  <2>3. p \in 0..Len(native')
    BY <1>13
  <2> QED BY <1>13, <1>15, <2>1, <2>2, <2>3, SetArmed
<1>17. Placed(c, p, traps)
  <2>1. \A k \in 1..Len(traps) : traps[k].pos <= sp
    BY <1>13, <1>15, MachineTypes
  <2> QED BY <1>2, <1>6, <2>1
<1>18. Stands(c, Len(csp), y, csp)
  BY <1>2, <1>5, <1>8 DEF Stands
<1>19. Used' = Used
  BY <1>4 DEF Used
<1>20. size' \in Nat /\ InitSize <= size' /\ Used' <= size'
  BY <1>2, <1>4, <1>19 DEF Bounds
<1>21. Machine(native', csp', traps', sp', p) /\ Placed(c, p, traps')
       /\ Stands(c, Len(csp'), native'[p], csp')
  BY <1>4, <1>13, <1>16, <1>17, <1>18
<1>22. native'[p].kind = "interp" /\ native'[p].act = c /\ start' = p /\ sp' = Height(c)
       /\ vthis' = c.vthis /\ env' = c.env /\ mode' = "run" /\ why' = "none"
  <2>1. sp' = Height(c)
    BY <1>2, <1>4, <1>5
  <2> QED BY <1>2, <1>3, <1>4, <1>5, <1>8, <1>13, <2>1 DEF p
<1> QED BY <1>5, <1>13, <1>20, <1>21, <1>22, TopRuns

\* A neko_interp that returns leaves no frame, no slot and no trap.
LEMMA Cleared ==
    ASSUME VMInv, Ready, Top.kind = "interp", Here.where # "fun", Here.d = 0
    PROVE  LET a == native[Len(native)]
           IN  /\ Floor = a.floor /\ start = Len(native)
               /\ Len(native) - 1 \in 1..Len(native)
               /\ InnermostIn(a.old, native, Len(native) - 1)
               /\ Machine(native, csp, traps, sp, a.old)
<1> DEFINE n == Len(native)
           a == native[n]
           c == a.act
<1>1. /\ IsSeq(native) /\ n >= 1 /\ n \in Nat /\ Top = a /\ Chain(native)
      /\ start \in 0..n /\ InnermostIn(start, native, n)
      /\ Machine(native, csp, traps, sp, start) /\ InControl(Top)
      /\ Len(csp) \in Nat /\ Len(traps) \in Nat /\ sp \in Nat
      /\ Floor = [sp |-> sp, csp |-> Len(csp), traps |-> Len(traps)]
  BY RunFacts
<1>2. n - 1 \in 1..n /\ InnermostIn(a.old, native, n - 1) /\ IsHandler(a)
  <2>1. IsHandler(Top) /\ Top.kind # "host"
    BY DEF IsHandler
  <2> QED BY <1>1, <2>1, BelowTop DEF VMInv
<1>3. start = n
  BY <1>1, <1>2 DEF InnermostIn
<1>4. a.kind = "interp" /\ c.where # "fun" /\ c.d = 0 /\ Here = c
  BY <1>1 DEF Here
<1>5. CodePoint(c) /\ sp = Height(c) /\ Stands(c, Len(csp), a, csp)
  BY <1>1, <1>4 DEF InControl
<1>6. Len(csp) = a.floor.csp /\ sp = a.floor.sp
  <2>1. Len(csp) = a.floor.csp /\ c.base = a.floor.sp
    BY <1>4, <1>5 DEF Stands
  <2>2. c.base \in Nat /\ Height(c) = c.base + 0
    BY <1>4, <1>5, CodeSlots
  <2> QED BY <1>5, <2>1, <2>2
<1> HIDE DEF c
<1>7. \A k \in 1..Len(traps) : IsHandler(native[traps[k].owner]) /\ traps[k].owner \in 1..n
                               /\ traps[k].owner # n
  <2> TAKE k \in 1..Len(traps)
  <2> DEFINE t == traps[k]
  <2>1. Leads(t, k, native, csp, traps)
    BY <1>1 DEF Machine, LeadsAll
  <2>2. t.owner \in 1..n /\ IsHandler(native[t.owner])
    BY <2>1 DEF Leads
  <2>3. ASSUME t.owner = n PROVE FALSE
    <3>1. a.init < t.pos
      BY <1>4, <2>1, <2>3 DEF Leads
    <3>2. a.init \in Nat /\ a.floor.sp <= a.init
      <4>1. n \in 1..n
        BY <1>1
      <4> QED BY <1>1, <1>4, <4>1 DEF Machine, OwnAll, Own
    <3>3. t.pos \in Nat /\ t.pos <= sp
      BY <1>1, MachineTypes
    <3> QED BY <1>1, <1>6, <3>1, <3>2, <3>3
  <2> QED BY <2>2, <2>3
<1>8. \A k \in 1..Len(traps) : traps[k].owner <= a.old
  <2> TAKE k \in 1..Len(traps)
  <2>1. traps[k].owner \in 1..(n - 1)
    BY <1>1, <1>7
  <2> QED BY <1>7, <2>1, <1>2 DEF InnermostIn
<1>9. a.floor.traps = Len(traps)
  <2>1. n \in 1..n
    BY <1>1
  <2>2. Below(a.floor, n, csp, traps, sp)
    BY <1>1, <2>1 DEF Machine, Floors
  <2>3. a.floor.traps \in Nat /\ a.floor.traps <= Len(traps)
    BY <2>2 DEF Below
  <2>4. ASSUME a.floor.traps < Len(traps) PROVE FALSE
    <3>1. Len(traps) \in 1..Len(traps) /\ ~(Len(traps) <= a.floor.traps)
      BY <1>1, <2>3, <2>4
    <3>2. traps[Len(traps)].owner >= n
      BY <2>2, <3>1 DEF Below
    <3>3. traps[Len(traps)].owner \in 1..n /\ traps[Len(traps)].owner # n
      BY <1>7, <3>1
    <3> QED BY <1>1, <3>2, <3>3
  <2> QED BY <1>1, <2>3, <2>4
<1>10. Machine(native, csp, traps, sp, a.old)
  <2>1. a.old \in 0..n /\ a.old <= n - 1
    BY <1>1, <1>2 DEF InnermostIn
  <2>2. \A i \in (n + 1)..a.old : ~CallsBack(native[i])
    BY <1>1, <2>1
  <2> QED BY <1>1, <1>3, <1>8, <2>1, <2>2, SetArmed
<1>11. a.floor = [sp |-> sp, csp |-> Len(csp), traps |-> Len(traps)]
  <2>1. a.floor = [sp |-> a.floor.sp, csp |-> a.floor.csp, traps |-> a.floor.traps]
    <3>1. n \in 1..n
      BY <1>1
    <3> QED BY <1>1, <3>1 DEF Machine, Floors, Below
  <2> QED BY <1>6, <1>9, <2>1
<1> QED BY <1>1, <1>2, <1>3, <1>10, <1>11

\* The C stack alone is cut back.
LEMMA CutNative ==
    ASSUME NEW N, IsSeq(N), NEW F, NEW T, NEW h, NEW u, Machine(N, F, T, h, u),
           NEW n \in 1..Len(N), NEW M, CutTo(N, n, M), u <= n,
           N[n].kind = "interp" => Len(F) <= FramesOf(n, N, F)
    PROVE  Machine(M, F, T, h, u)
<1>1. Agrees(F, Len(F), F)
  <2>1. \A j \in 1..Len(F) : FrameShaped(F[j])
    BY DEF Machine, FramesFit
  <2>2. Len(F) \in 0..Len(F) /\ IsSeq(F)
    BY MachineTypes
  <2> QED BY <2>1, <2>2 DEF Agrees
<1>2. \A k \in 1..Len(T) : T[k].csp <= Len(F)
  BY MachineTypes
<1>3. \A i \in 1..n : N[i].floor.csp <= Len(F)
  <2> TAKE i \in 1..n
  <2>1. i \in 1..Len(N)
    BY MachineTypes
  <2> QED BY <2>1, MachineTypes
<1> QED BY <1>1, <1>2, <1>3, CutBack

LEMMA ReturnFromInterpSound == ASSUME VMInv, ReturnFromInterp PROVE Sound'
<1> DEFINE n == Len(native)
           a == native[n]
           m == n - 1
           below == Front(native)
           caller == native[m]
<1>1. Ready /\ Top.kind = "interp" /\ Here.where # "fun" /\ Here.d = 0
  BY DEF ReturnFromInterp
<1>2. /\ IsSeq(native) /\ n >= 1 /\ n \in Nat /\ Top = a /\ Chain(native)
      /\ Used \in Nat /\ Used <= size /\ mode = "run" /\ why = "none" /\ Bounds
  BY <1>1, RunFacts
<1>3. /\ Floor = a.floor /\ start = n /\ m \in 1..n
      /\ InnermostIn(a.old, native, m) /\ Machine(native, csp, traps, sp, a.old)
  BY <1>1, Cleared
<1>4. a.kind = "interp" /\ IsHandler(a)
  BY <1>1, <1>2 DEF IsHandler
<1>5. /\ start' = a.old /\ UNCHANGED <<size, csp, sp, traps, mode, why>>
      /\ IF Last(below).kind = "execute"
           THEN native' = Front(below) /\ RestoreCaller(Last(below))
           ELSE native' = below /\ UNCHANGED <<vthis, env>>
  BY <1>2, <1>4 DEF ReturnFromInterp, Leave, stacks, Quiet
<1>6. CutTo(native, m, below) /\ IsSeq(below) /\ Len(below) = m
      /\ \A i \in 1..m : below[i] = native[i]
  <2>1. native # <<>>
    BY <1>2, NonemptySeq
  <2>2. CutTo(native, m, below)
    BY <1>2, <2>1, FrontCuts
  <2> QED BY <2>2 DEF CutTo
<1>7. Last(below) = caller /\ m \in Nat /\ m >= 1
  BY <1>2, <1>3, <1>6 DEF Last
<1>8. Waits(caller, a, m, csp, traps)
  <2>1. m \in 1..(n - 1) /\ m + 1 = n
    BY <1>2, <1>7
  <2> QED BY <1>3, <2>1 DEF Machine, WaitsAll
<1>9. caller.kind \in {"callex", "execute"}
  BY <1>4, <1>8 DEF Waits
<1>10. Floor' = Floor /\ Used' = Used
  BY <1>5 DEF Floor, Mark, Used
<1>11. size' \in Nat /\ InitSize <= size' /\ Used' <= size' /\ mode' = "run" /\ why' = "none"
  BY <1>2, <1>5, <1>10 DEF Bounds
<1> HIDE DEF below, m, caller
<1>12. CASE caller.kind = "callex"
  <2>1. native' = below
    BY <1>5, <1>7, <1>12
  <2>2. a.old <= m
    BY <1>3 DEF InnermostIn
  <2>3. native[m].kind # "interp"
    BY <1>12 DEF caller
  <2>4. Machine(below, csp, traps, sp, a.old)
    BY <1>2, <1>3, <1>6, <2>2, <2>3, CutNative
  <2>5. native'[Len(native')] = caller
    BY <1>6, <1>7, <2>1 DEF caller
  <2>6. a.floor = Entered(caller)
    BY <1>4, <1>8, <1>12 DEF Waits
  <2>7. Machine(native', csp', traps', sp', start') /\ IsSeq(native')
    BY <1>5, <1>6, <2>1, <2>4
  <2>8. Floor' = Entered(caller)
    BY <1>3, <1>10, <2>6
  <2> QED BY <1>11, <1>12, <2>5, <2>7, <2>8, CRuns
<1>13. CASE caller.kind = "execute"
  <2> DEFINE l == m - 1
             under == native[l]
  <2>1. native' = Front(below) /\ vthis' = caller.vthis /\ env' = caller.env
    BY <1>5, <1>7, <1>13 DEF RestoreCaller
  <2>2. m # 1 /\ l \in Nat /\ l >= 1 /\ l \in 1..m /\ l \in 1..n
    <3>1. m # 1
      BY <1>2, <1>13 DEF Chain, caller
    <3> QED BY <1>2, <1>3, <1>7, <3>1
  <2>3. CutTo(native, l, native') /\ IsSeq(native') /\ Len(native') = l
        /\ native'[l] = under
    <3>1. below # <<>>
      BY <1>6, <1>7, NonemptySeq
    <3>2. CutTo(below, l, native')
      BY <1>6, <2>1, <3>1, FrontCuts
    <3>3. \A i \in 1..l : i \in 1..m
      BY <1>7, <2>2
    <3>4. l \in 0..n
      BY <2>2
    <3> QED BY <1>6, <2>2, <3>2, <3>3, <3>4 DEF CutTo
  <2>4. a.old <= l
    <3>1. ~IsHandler(native[m])
      BY <1>13 DEF IsHandler, caller
    <3>2. a.old \in 0..m /\ a.old # m
      BY <1>3, <1>7, <3>1 DEF InnermostIn
    <3> QED BY <1>7, <3>2
  <2>5. Waits(under, caller, l, csp, traps)
    <3>1. l \in 1..(n - 1) /\ l + 1 = m
      BY <1>2, <1>3, <1>7, <2>2
    <3> QED BY <1>3, <3>1 DEF Machine, WaitsAll, caller
  <2>6. /\ under.kind \in {"host", "prim"} /\ caller.floor = under.floor
        /\ caller.vthis = under.at.vthis /\ caller.env = under.at.env
    BY <1>13, <2>5 DEF Waits
  <2>7. a.floor = caller.floor
    BY <1>4, <1>8, <1>13 DEF Waits
  <2> HIDE DEF l
  <2>8. native[l].kind # "interp"
    BY <2>6
  <2>9. Machine(native', csp, traps, sp, a.old)
    BY <1>2, <1>3, <2>2, <2>3, <2>4, <2>8, CutNative
  <2>10. Machine(native', csp', traps', sp', start')
    BY <1>5, <2>9
  <2>11. Floor' = under.floor /\ vthis' = under.at.vthis /\ env' = under.at.env
    BY <1>3, <1>10, <2>1, <2>6, <2>7
  <2>12. native'[Len(native')] = under
    BY <2>3
  <2> HIDE DEF under
  <2> QED BY <1>11, <2>3, <2>6, <2>10, <2>11, <2>12, CRuns
<1> QED BY <1>9, <1>12, <1>13

LEMMA CutAgrees ==
    ASSUME NEW F, NEW h, FramesFit(F, h), NEW q, NEW G, CutTo(F, q, G)
    PROVE  Agrees(F, q, G)
<1>1. IsSeq(G) /\ q \in 0..Len(F) /\ Len(G) = q /\ \A j \in 1..q : G[j] = F[j]
  BY DEF CutTo
<1>2. \A j \in 1..q : FrameShaped(G[j])
  <2> TAKE j \in 1..q
  <2>1. j \in 1..Len(F)
    BY <1>1, SeqLen DEF FramesFit
  <2> QED BY <1>1, <2>1 DEF FramesFit
<1> QED BY <1>1, <1>2 DEF Agrees

LEMMA PrimReturnsSound == ASSUME VMInv, PrimReturns PROVE Sound'
<1> DEFINE n == Len(native)
           a == native[n]
           m == n - 1
           below == Front(native)
           caller == native[m]
<1>1. Ready /\ Top.kind = "prim"
  BY DEF PrimReturns
<1>2. /\ IsSeq(native) /\ n >= 1 /\ n \in Nat /\ Top = a /\ Chain(native)
      /\ start \in 0..n /\ InnermostIn(start, native, n)
      /\ Machine(native, csp, traps, sp, start) /\ InControl(Top)
      /\ IsSeq(csp) /\ IsSeq(traps) /\ Used \in Nat /\ Used <= size
      /\ Used = 4 * Len(csp) + sp /\ Len(csp) \in Nat /\ Len(traps) \in Nat /\ sp \in Nat
      /\ mode = "run" /\ why = "none" /\ Bounds
      /\ Floor = [sp |-> sp, csp |-> Len(csp), traps |-> Len(traps)]
  BY <1>1, RunFacts
<1>3. m \in 1..n /\ m \in Nat /\ m >= 1
  <2>1. m \in 1..n
    BY <1>1, BelowTop DEF VMInv
  <2> QED BY <1>2, <2>1
<1>4. a.kind = "prim" /\ a.floor = Floor /\ ~IsHandler(a)
  BY <1>1, <1>2 DEF InControl, IsHandler
<1>5. CutTo(native, m, below) /\ IsSeq(below) /\ Len(below) = m
      /\ \A i \in 1..m : below[i] = native[i]
  <2>1. native # <<>>
    BY <1>2, NonemptySeq
  <2>2. CutTo(native, m, below)
    BY <1>2, <2>1, FrontCuts
  <2> QED BY <2>2 DEF CutTo
<1>6. Last(below) = caller
  BY <1>3, <1>5 DEF Last
<1>7. /\ native' = below /\ UNCHANGED <<size, traps, start, mode, why>>
      /\ IF caller.kind = "callex"
           THEN UNCHANGED <<sp, csp, vthis, env>>
           ELSE /\ vthis' = Last(csp).vthis /\ env' = Last(csp).env
                /\ csp' = Front(csp) /\ sp' = sp - a.args
  BY <1>2, <1>6 DEF PrimReturns, PopArgs, Quiet
<1>8. Waits(caller, a, m, csp, traps)
  <2>1. m \in 1..(n - 1) /\ m + 1 = n
    BY <1>2, <1>3
  <2> QED BY <1>2, <2>1 DEF Machine, WaitsAll
<1>9. caller.kind \in {"callex", "interp"}
  BY <1>4, <1>8 DEF Waits
<1>10. start <= m
  <2>1. start # n
    BY <1>2, <1>4 DEF InnermostIn
  <2> QED BY <1>2, <2>1
<1>11. size \in Nat /\ InitSize <= size /\ size' = size /\ mode' = "run" /\ why' = "none"
  BY <1>2, <1>7 DEF Bounds
<1> HIDE DEF below, m, caller
<1>12. CASE caller.kind = "callex"
  <2>1. UNCHANGED <<sp, csp, vthis, env>>
    BY <1>7, <1>12
  <2>2. native[m].kind # "interp"
    BY <1>12 DEF caller
  <2>3. Machine(below, csp, traps, sp, start)
    BY <1>2, <1>3, <1>5, <1>10, <2>2, CutNative
  <2>4. native'[Len(native')] = caller
    BY <1>3, <1>5, <1>7 DEF caller
  <2>5. Floor' = Floor /\ Used' = Used
    BY <1>7, <2>1 DEF Floor, Mark, Used
  <2>6. a.floor = Entered(caller)
    BY <1>4, <1>8, <1>12 DEF Waits
  <2>7. Machine(native', csp', traps', sp', start') /\ IsSeq(native')
    BY <1>5, <1>7, <2>1, <2>3
  <2>8. Floor' = Entered(caller) /\ Used' <= size'
    BY <1>2, <1>4, <1>11, <2>5, <2>6
  <2> QED BY <1>11, <1>12, <2>4, <2>7, <2>8, CRuns
<1>13. CASE caller.kind = "interp"
  <2> DEFINE e == caller.act
             q == Len(csp) - 1
  <2>1. /\ a.args \in Nat /\ sp = Height(e) + a.args
        /\ caller.floor.csp < Len(csp) /\ csp[Len(csp)].act = e
        /\ \A k \in 1..Len(traps) : traps[k].pos <= Height(e)
    BY <1>2, <1>4, <1>8, <1>13 DEF Waits
  <2>2. caller.floor.csp \in Nat /\ caller.floor.csp + 1 <= Len(csp) /\ Len(csp) >= 1
        /\ Len(csp) \in 1..Len(csp) /\ q \in Nat /\ q + 1 = Len(csp)
    <3>1. caller.floor.csp \in Nat
      BY <1>2, <1>3, MachineTypes DEF caller
    <3> QED BY <1>2, <2>1, <3>1
  <2>3. CodePoint(e) /\ Height(e) \in Nat
    BY <1>2, <2>1, <2>2, MachineTypes
  <2>4. Last(csp).vthis = e.vthis /\ Last(csp).env = e.env
    <3>1. FrameShaped(csp[Len(csp)])
      BY <1>2, <2>2 DEF Machine, FramesFit
    <3>2. csp[Len(csp)].vthis = csp[Len(csp)].act.vthis
          /\ csp[Len(csp)].env = csp[Len(csp)].act.env
      BY <3>1 DEF FrameShaped
    <3> QED BY <2>1, <3>2 DEF Last
  <2>5. vthis' = e.vthis /\ env' = e.env /\ csp' = Front(csp) /\ sp' = Height(e)
    <3>1. vthis' = Last(csp).vthis /\ env' = Last(csp).env /\ csp' = Front(csp)
          /\ sp' = sp - a.args
      BY <1>7, <1>13
    <3>2. sp - a.args = Height(e)
      BY <2>1, <2>3
    <3> QED BY <2>4, <3>1, <3>2
  <2>6. start = m
    <3>1. IsHandler(native[m])
      BY <1>13 DEF IsHandler, caller
    <3>2. m <= start
      BY <1>2, <1>3, <3>1 DEF InnermostIn
    <3> QED BY <1>2, <1>3, <1>10, <3>2
  <2>7. FramesOf(m, native, csp) = Len(csp)
    <3>1. m # n /\ m + 1 = n
      BY <1>2 DEF m
    <3> QED BY <1>2, <1>4, <3>1 DEF FramesOf
  <2>8. Stands(e, q, caller, csp) /\ Placed(e, m, traps)
    <3>1. Own(m, Len(csp), native, csp, traps)
      BY <1>2, <1>3, <1>13, <2>7 DEF Machine, OwnAll, caller
    <3>2. Len(csp) \in (native[m].floor.csp + 1)..Len(csp)
      BY <2>2 DEF caller
    <3>3. Stands(csp[Len(csp)].act, Len(csp) - 1, native[m], csp)
          /\ Placed(csp[Len(csp)].act, m, traps)
      BY <3>1, <3>2 DEF Own
    <3> QED BY <2>1, <3>3 DEF caller
  <2>9. CutTo(csp, q, csp') /\ Len(csp') = q /\ \A j \in 1..q : csp'[j] = csp[j]
    <3>1. csp # <<>>
      BY <1>2, <2>2, NonemptySeq
    <3>2. CutTo(csp, q, csp')
      BY <1>2, <2>5, <3>1, FrontCuts
    <3> QED BY <3>2 DEF CutTo
  <2> HIDE DEF q, e
  <2>10. Machine(below, csp', traps, sp, m)
    <3>1. Agrees(csp, q, csp')
      BY <1>2, <2>9, CutAgrees DEF Machine
    <3>2. \A k \in 1..Len(traps) : traps[k].csp <= q
      <4> TAKE k \in 1..Len(traps)
      <4>1. traps[k].csp \in Nat /\ traps[k].csp <= Len(csp) /\ traps[k].pos \in Nat
        BY <1>2, MachineTypes
      <4>2. \A j \in 1..traps[k].csp : Height(csp[j].act) + TrapSlots <= traps[k].pos
        BY <1>2 DEF Machine, TrapsFit
      <4>3. traps[k].pos <= Height(e)
        BY <2>1
      <4>4. ASSUME traps[k].csp = Len(csp) PROVE FALSE
        <5>1. Len(csp) \in 1..traps[k].csp
          BY <2>2, <4>4
        <5>2. Height(e) + 6 <= traps[k].pos
          BY <2>1, <4>2, <5>1 DEF TrapSlots
        <5> QED BY <2>3, <4>1, <4>3, <5>2
      <4> QED BY <1>2, <2>2, <4>1, <4>4
    <3>3. \A i \in 1..m : native[i].floor.csp <= q
      <4> TAKE i \in 1..m
      <4>1. i \in 1..n /\ i <= m
        BY <1>2, <1>3
      <4>2. native[i].floor.csp <= caller.floor.csp
        BY <1>2, <1>3, <4>1 DEF Machine, Floors, caller
      <4>3. native[i].floor.csp \in Nat
        BY <1>2, <4>1, MachineTypes
      <4> QED BY <2>2, <4>2, <4>3
    <3>4. q <= FramesOf(m, native, csp)
      BY <2>2, <2>7
    <3>5. m <= m
      BY <1>3
    <3> QED BY <1>2, <1>3, <1>5, <2>6, <3>1, <3>2, <3>3, <3>4, <3>5, CutBack
  <2>11. Machine(below, csp', traps, Height(e), m)
    <3>1. \A j \in 1..Len(csp') : Height(csp'[j].act) <= Height(e)
      <4> TAKE j \in 1..Len(csp')
      <4>1. j \in 1..Len(csp) /\ j <= Len(csp) /\ csp'[j] = csp[j]
        BY <2>2, <2>9
      <4>2. Height(csp[j].act) <= Height(csp[Len(csp)].act)
        BY <1>2, <2>2, <4>1 DEF Machine, FramesFit
      <4> QED BY <2>1, <4>1, <4>2
    <3>2. \A i \in 1..Len(below) : below[i].floor.sp <= Height(e)
      <4> TAKE i \in 1..Len(below)
      <4>1. i \in 1..n /\ i <= m /\ below[i] = native[i]
        BY <1>2, <1>3, <1>5
      <4>2. native[i].floor.csp <= caller.floor.csp
        BY <1>2, <1>3, <4>1 DEF Machine, Floors, caller
      <4>3. native[i].floor.csp \in Nat
        BY <1>2, <4>1, MachineTypes
      <4>4. ~(Len(csp) <= native[i].floor.csp)
        <5>1. PICK x \in Nat, y \in Nat, z \in Nat :
                x = native[i].floor.csp /\ y = caller.floor.csp /\ z = Len(csp)
          BY <1>2, <2>2, <4>3
        <5>2. x <= y /\ y + 1 <= z
          BY <2>2, <4>2, <5>1
        <5>3. ~(z <= x)
          BY <5>2
        <5> QED BY <5>1, <5>3
      <4>5. native[i].floor.sp <= Height(csp[Len(csp)].act)
        BY <1>2, <2>2, <4>1, <4>4 DEF Machine, Floors, Below
      <4> QED BY <2>1, <4>1, <4>5
    <3> QED BY <1>5, <2>1, <2>3, <2>10, <3>1, <3>2, SetHeight
  <2>12. Stands(e, q, caller, csp')
    <3>1. csp'[q].act = csp[q].act \/ e.where # "fun"
      <4>1. CASE e.where = "fun"
        <5>1. q > caller.floor.csp
          BY <2>8, <4>1 DEF Stands
        <5>2. q \in 1..q
          BY <2>2, <5>1
        <5> QED BY <2>9, <5>2
      <4> QED BY <4>1
    <3> QED BY <2>8, <3>1, StandsSame
  <2>13. Used' <= size'
    <3>1. PICK x \in Nat, y \in Nat, z \in Nat : x = Height(e) /\ y = q /\ z = a.args
      BY <2>1, <2>2, <2>3
    <3>2. Used' = 4 * y + x
      BY <2>5, <2>9, <3>1 DEF Used, FrameSlots
    <3>3. Used = 4 * (y + 1) + (x + z)
      BY <1>2, <2>1, <2>2, <3>1
    <3>4. PICK s \in Nat : s = size
      BY <1>11
    <3>5. 4 * (y + 1) + (x + z) <= s
      BY <1>2, <3>3, <3>4
    <3>6. 4 * y + x <= s
      BY <3>5
    <3> QED BY <1>11, <3>2, <3>4, <3>6
  <2>14. IsSeq(native') /\ m = Len(native') /\ native'[m] = caller
    BY <1>3, <1>5, <1>7 DEF caller
  <2>15. Machine(native', csp', traps', sp', m) /\ start' = m /\ Placed(e, m, traps')
         /\ Stands(e, Len(csp'), native'[m], csp')
    BY <1>7, <2>5, <2>6, <2>8, <2>9, <2>11, <2>12, <2>14
  <2>16. caller.act = e
    BY DEF e
  <2> QED BY <1>11, <1>13, <2>3, <2>5, <2>13, <2>14, <2>15, <2>16, TopRuns
<1> QED BY <1>9, <1>12, <1>13

\* A machine in which a throw lands.
LEMMA LandFacts ==
    ASSUME VMInv, Landing
    PROVE  /\ IsSeq(native) /\ Len(native) \in Nat /\ Chain(native)
           /\ start \in 1..Len(native) /\ start - 1 \in 1..Len(native)
           /\ start \in Nat /\ start - 1 \in Nat
           /\ IsHandler(native[start]) /\ InnermostIn(native[start].old, native, start - 1)
           /\ Machine(native, csp, traps, sp, LastArmed)
           /\ IsSeq(csp) /\ IsSeq(traps) /\ Used \in Nat /\ Used <= size + TrapSlots
           /\ Len(csp) \in Nat /\ Len(traps) \in Nat /\ sp \in Nat
           /\ mode = "throw" /\ size \in Nat /\ InitSize <= size
           /\ why = "setup_trap" => start = Len(native) /\ native[start].kind = "callex"
<1>1. HandlerInv /\ Healthy /\ Bounds /\ mode = "throw"
  BY DEF VMInv, Landing
<1>2. /\ start \in 1..Len(native) /\ start - 1 \in 1..Len(native) /\ start \in Nat
      /\ IsHandler(native[start]) /\ InnermostIn(native[start].old, native, start - 1)
  BY <1>1, LandingPoint
<1>3. Chain(native) /\ IsSeq(native) /\ Len(native) \in Nat
  BY <1>1, ChainLength DEF HandlerInv, Chain
<1>4. Machine(native, csp, traps, sp, LastArmed)
  BY <1>1 DEF Healthy
<1>5. /\ IsSeq(csp) /\ IsSeq(traps) /\ Len(csp) \in Nat /\ Len(traps) \in Nat /\ sp \in Nat
  BY <1>3, <1>4, MachineTypes
<1>6. Used \in Nat
  BY <1>5, UsedNat
<1>7. why = "setup_trap" => start = Len(native) /\ native[start].kind = "callex"
  BY <1>1 DEF Healthy, Top, Last
<1>8. start - 1 \in Nat
  BY <1>2, <1>3
<1> QED BY <1>1, <1>2, <1>3, <1>4, <1>5, <1>6, <1>7, <1>8 DEF Bounds

\* The C stack as a prefix of what it was.
LEMMA PrefixSeq ==
    ASSUME NEW s, IsSeq(s), NEW n \in 1..Len(s)
    PROVE  /\ CutTo(s, n, Prefix(s, n)) /\ IsSeq(Prefix(s, n)) /\ Len(Prefix(s, n)) = n
           /\ \A i \in 1..n : Prefix(s, n)[i] = s[i]
<1>1. n \in 0..Len(s)
  BY SeqLen
<1>2. CutTo(s, n, Prefix(s, n))
  BY <1>1, PrefixCuts
<1> QED BY <1>2 DEF CutTo

\* Reraise: none of the traps is this activation's.
LEMMA Strangers ==
    ASSUME VMInv, LandInInterp, traps = <<>> \/ Last(traps).pos <= native[start].init
    PROVE  \A k \in 1..Len(traps) : traps[k].owner # start
<1> DEFINE a == native[start]
           L == Len(traps)
<1>1. Landing /\ a.kind = "interp"
  BY DEF LandInInterp, Older
<1>2. /\ IsSeq(native) /\ start \in 1..Len(native) /\ IsSeq(traps) /\ L \in Nat
      /\ Machine(native, csp, traps, sp, LastArmed)
  BY <1>1, LandFacts
<1> SUFFICES ASSUME NEW k \in 1..L, traps[k].owner = start PROVE FALSE
  OBVIOUS
<1>3. a.init < traps[k].pos
  BY <1>1, <1>2 DEF Machine, LeadsAll, Leads
<1>4. L \in 1..L /\ L >= 1
  BY <1>2
<1>5. Last(traps).pos <= a.init
  BY <1>2, <1>4, NonemptySeq
<1>6. traps[k].pos \in Nat /\ traps[L].pos \in Nat
  BY <1>2, <1>4, MachineTypes
<1>7. traps[k].pos <= traps[L].pos
  <2>1. CASE k = L
    BY <1>6, <2>1
  <2>2. CASE k < L
    <3>1. traps[k].pos + TrapSlots <= traps[L].pos
      BY <1>2, <1>4, <2>2 DEF Machine, TrapsFit
    <3> QED BY <1>6, <3>1 DEF TrapSlots
  <2> QED BY <1>2, <2>1, <2>2
<1>8. a.init \in Nat
  BY <1>1, <1>2 DEF Machine, OwnAll, Own
<1> QED BY <1>3, <1>5, <1>6, <1>7, <1>8 DEF Last

LEMMA ReraiseSound ==
    ASSUME VMInv, LandInInterp, traps = <<>> \/ Last(traps).pos <= native[start].init
    PROVE  Sound'
<1> DEFINE a == native[start]
           m == start - 1
<1>1. Landing /\ a.kind = "interp"
  BY DEF LandInInterp, Older
<1>2. /\ IsSeq(native) /\ Len(native) \in Nat
      /\ start \in 1..Len(native) /\ m \in 1..Len(native)
      /\ start \in Nat /\ m \in Nat
      /\ IsHandler(a) /\ InnermostIn(a.old, native, m)
      /\ Machine(native, csp, traps, sp, LastArmed)
      /\ IsSeq(traps) /\ Used <= size + TrapSlots
      /\ Len(traps) \in Nat /\ sp \in Nat
      /\ mode = "throw" /\ size \in Nat /\ InitSize <= size
      /\ why = "setup_trap" => a.kind = "callex"
  BY <1>1, LandFacts
<1>3. why # "setup_trap" /\ LastArmed = start
  BY <1>1, <1>2 DEF LastArmed
<1>4. /\ start' = a.old /\ native' = Prefix(native, m)
      /\ UNCHANGED <<size, csp, sp, traps, mode, why>>
  BY <1>2 DEF LandInInterp, Older, Reraise, LeaveByJump, Leave, stacks
<1> HIDE DEF m
<1>5. \A k \in 1..Len(traps) : traps[k].owner <= a.old
  <2> TAKE k \in 1..Len(traps)
  <2>1. Leads(traps[k], k, native, csp, traps) /\ traps[k].owner <= start
    BY <1>2, <1>3 DEF Machine, LeadsAll
  <2>2. traps[k].owner \in 1..Len(native) /\ IsHandler(native[traps[k].owner])
    BY <2>1 DEF Leads
  <2>3. traps[k].owner # start
    BY Strangers
  <2>4. traps[k].owner \in 1..m
    BY <1>2, <2>1, <2>2, <2>3 DEF m
  <2> QED BY <1>2, <2>2, <2>4 DEF InnermostIn
<1>6. a.old \in 0..m /\ a.old <= m /\ a.old \in 0..Len(native)
  <2>1. a.old \in 0..m
    BY <1>2 DEF InnermostIn
  <2> QED BY <1>2, <2>1
<1>7. Machine(native, csp, traps, sp, a.old)
  <2>1. \A i \in (start + 1)..a.old : ~CallsBack(native[i])
    BY <1>2, <1>6 DEF m
  <2> QED BY <1>2, <1>3, <1>5, <1>6, <2>1, SetArmed
<1>8. Waits(native[m], a, m, csp, traps)
  <2>1. m \in 1..(Len(native) - 1) /\ m + 1 = start
    BY <1>2 DEF m
  <2> QED BY <1>2, <2>1 DEF Machine, WaitsAll
<1>9. native[m].kind # "interp"
  BY <1>1, <1>8 DEF Waits
<1>10. Machine(native', csp, traps, sp, a.old)
  <2>1. CutTo(native, m, native')
    BY <1>2, <1>4, PrefixSeq DEF m
  <2> QED BY <1>2, <1>6, <1>7, <1>9, <2>1, CutNative
<1>11. Used' = Used
  BY <1>4 DEF Used
<1>12. Machine(native', csp', traps', sp', start') /\ mode' = "throw" /\ why' # "setup_trap"
       /\ size' \in Nat /\ InitSize <= size' /\ Used' <= size' + TrapSlots
  BY <1>2, <1>3, <1>4, <1>10, <1>11
<1> QED BY <1>12, Throws

\* The innermost trap is this activation's: it unwinds to it and runs on.
LEMMA CatchSound ==
    ASSUME VMInv, LandInInterp, ~(traps = <<>> \/ Last(traps).pos <= native[start].init)
    PROVE  Sound'
<1> DEFINE a == native[start]
           L == Len(traps)
           t == traps[L]
           q == t.csp
           e == t.act
           M == Prefix(native, start)
<1>1. Landing /\ a.kind = "interp"
  BY DEF LandInInterp, Older
<1>2. /\ IsSeq(native) /\ Len(native) \in Nat /\ Chain(native)
      /\ start \in 1..Len(native) /\ start \in Nat
      /\ Machine(native, csp, traps, sp, LastArmed)
      /\ IsSeq(csp) /\ IsSeq(traps) /\ Used <= size + TrapSlots
      /\ Len(csp) \in Nat /\ L \in Nat /\ sp \in Nat
      /\ size \in Nat /\ InitSize <= size
      /\ why = "setup_trap" => a.kind = "callex"
  BY <1>1, LandFacts
<1>3. LastArmed = start /\ Last(traps) = t
  BY <1>1, <1>2 DEF LastArmed, Last
<1>4. L >= 1 /\ L \in 1..L
  <2>1. L # 0
    <3>1. PICK S : traps \in Seq(S)
      BY <1>2 DEF IsSeq
    <3>2. traps # <<>>
      OBVIOUS
    <3> QED BY <3>1, <3>2
  <2> QED BY <1>2, <2>1
<1>5. /\ t.pos \in Nat /\ t.pos <= sp /\ t.csp \in Nat /\ t.csp <= Len(csp)
      /\ t.owner \in Nat /\ t.owner <= start
  BY <1>2, <1>3, <1>4, MachineTypes
<1>6. /\ a.init \in Nat /\ a.floor.sp \in Nat /\ a.floor.csp \in Nat /\ a.floor.traps \in Nat
      /\ a.floor.sp <= a.init /\ a.init < t.pos
  <2>1. a.init \in Nat /\ a.floor.sp <= a.init
    BY <1>1, <1>2 DEF Machine, OwnAll, Own
  <2>2. a.floor.sp \in Nat /\ a.floor.csp \in Nat /\ a.floor.traps \in Nat
    BY <1>2, MachineTypes
  <2>3. ~(t.pos <= a.init)
    BY <1>3
  <2> QED BY <1>5, <2>1, <2>2, <2>3
<1>7. Below(a.floor, start, csp, traps, sp)
  BY <1>2 DEF Machine, Floors
<1>8. ~(L <= a.floor.traps)
  <2>1. ASSUME L <= a.floor.traps PROVE FALSE
    <3>1. t.pos <= a.floor.sp
      BY <1>4, <1>7, <2>1 DEF Below
    <3> QED BY <1>5, <1>6, <3>1
  <2> QED BY <2>1
<1>9. t.owner = start /\ a.floor.sp + TrapSlots <= t.pos /\ a.floor.csp <= q
  <2>1. t.owner >= start /\ a.floor.sp + TrapSlots <= t.pos /\ a.floor.csp <= t.csp
    BY <1>4, <1>7, <1>8 DEF Below
  <2> QED BY <1>2, <1>5, <2>1
<1>10. /\ q <= FramesOf(start, native, csp) /\ CodePoint(e)
       /\ t.vthis = e.vthis /\ t.env = e.env /\ Height(e) + TrapSlots = t.pos
       /\ Stands(e, q, a, csp) /\ Placed(e, start, traps)
  <2>1. Leads(t, L, native, csp, traps)
    BY <1>2, <1>4 DEF Machine, LeadsAll
  <2> QED BY <1>1, <1>9, <2>1 DEF Leads
<1>11. Height(e) \in Nat /\ t.pos - TrapSlots = Height(e) /\ Height(e) < t.pos
  <2>1. PICK x \in Nat : x = Height(e)
    BY <1>10, CodeSlots
  <2>2. t.pos = x + 6
    BY <1>10, <2>1 DEF TrapSlots
  <2> QED BY <2>1, <2>2 DEF TrapSlots
<1>12. /\ \E k : csp' = Clobber(Prefix(csp, q), k)
       /\ sp' = t.pos - TrapSlots /\ traps' = Front(traps)
       /\ vthis' = e.vthis /\ env' = e.env
       /\ native' = [M EXCEPT ![start].act = e]
       /\ mode' = "run" /\ why' = "none" /\ size' = size /\ start' = start
  <2>1. ~(t.pos > sp)
    BY <1>2, <1>5
  <2>2. /\ PopTrap(t) /\ RestoreFrom(t)
        /\ native' = [M EXCEPT ![start].act = e]
        /\ mode' = "run" /\ why' = "none" /\ UNCHANGED <<size, start, damage>>
    BY <1>3, <2>1 DEF LandInInterp, Older
  <2> QED BY <1>10, <2>2 DEF PopTrap, RestoreFrom
<1>13. /\ CutTo(native, start, M) /\ IsSeq(M) /\ Len(M) = start /\ start >= 1
       /\ \A i \in 1..start : M[i] = native[i]
  BY <1>2, PrefixSeq
<1>14. M[start] = a /\ Shaped(a)
  BY <1>2, <1>13 DEF Chain
<1>15. CutTo(traps, L - 1, traps') /\ Len(traps') = L - 1
       /\ \A k \in 1..(L - 1) : traps'[k] = traps[k]
  <2>1. traps # <<>>
    OBVIOUS
  <2>2. CutTo(traps, L - 1, traps')
    BY <1>2, <1>12, <2>1, FrontCuts
  <2> QED BY <2>2 DEF CutTo
<1> HIDE DEF M, q, e
<1>16. Agrees(csp, q, csp')
  <2>1. FramesFit(csp, sp) /\ q \in 0..Len(csp)
    BY <1>2, <1>5 DEF Machine, q
  <2> QED BY <1>12, <2>1, ClobberAgrees
<1>17. IsSeq(csp') /\ Len(csp') = q /\ \A j \in 1..q : csp'[j].act = csp[j].act
  BY <1>16 DEF Agrees
<1>18. \A i \in 1..start : native[i].floor.csp <= q /\ native[i].floor.sp <= Height(e)
  <2> TAKE i \in 1..start
  <2>1. i \in 1..Len(native) /\ i <= start
    BY <1>2
  <2>2. native[i].floor.csp <= a.floor.csp /\ native[i].floor.sp <= a.floor.sp
    BY <1>2, <2>1 DEF Machine, Floors
  <2>3. native[i].floor.csp \in Nat /\ native[i].floor.sp \in Nat
    BY <1>2, <2>1, MachineTypes
  <2>4. PICK x \in Nat, y \in Nat, z \in Nat :
          x = native[i].floor.sp /\ y = a.floor.sp /\ z = Height(e)
    BY <1>6, <1>11, <2>3
  <2>5. y + 6 <= z + 6
    BY <1>9, <1>10, <2>4 DEF TrapSlots
  <2>6. x <= z
    BY <2>2, <2>4, <2>5
  <2>7. native[i].floor.csp <= q
    BY <1>5, <1>6, <1>9, <2>2, <2>3 DEF q
  <2> QED BY <2>4, <2>6, <2>7
<1>19. \A k \in 1..(L - 1) : traps[k].pos <= Height(e)
  <2> TAKE k \in 1..(L - 1)
  <2>1. k \in 1..L /\ k < L
    BY <1>2
  <2>2. traps[k].pos + TrapSlots <= t.pos
    BY <1>2, <1>4, <2>1 DEF Machine, TrapsFit
  <2>3. traps[k].pos \in Nat
    BY <1>2, <2>1, MachineTypes
  <2>4. PICK x \in Nat, z \in Nat : x = traps[k].pos /\ z = Height(e)
    BY <1>11, <2>3
  <2>5. x + 6 <= z + 6
    BY <1>10, <2>2, <2>4 DEF TrapSlots
  <2> QED BY <2>4, <2>5
\* The activations and the frames above go first, then the trap.
<1>20. Machine(M, csp', traps, sp, start)
  <2>1. \A k \in 1..L : traps[k].csp <= q
    <3> TAKE k \in 1..L
    <3>1. CASE k = L
      BY <1>5, <3>1 DEF q
    <3>2. CASE k < L
      BY <1>2, <1>4, <3>2 DEF Machine, TrapsFit, q
    <3> QED BY <1>2, <3>1, <3>2
  <2>2. \A i \in 1..start : native[i].floor.csp <= q
    BY <1>18
  <2>3. Machine(native, csp, traps, sp, start) /\ start <= start
    BY <1>2, <1>3
  <2> QED BY <1>2, <1>10, <1>13, <1>16, <2>1, <2>2, <2>3, CutBack
<1>21. Machine(M, csp', traps', sp, start)
  <2>1. \A j \in 1..Len(csp') : Height(csp'[j].act) < t.pos
    <3> TAKE j \in 1..Len(csp')
    <3>1. j \in 1..q /\ csp'[j].act = csp[j].act
      BY <1>17
    <3>2. Height(csp[j].act) + TrapSlots <= t.pos
      BY <1>2, <1>4, <3>1 DEF Machine, TrapsFit, q
    <3>3. Height(csp'[j].act) \in Nat
      BY <1>13, <1>20, MachineTypes
    <3> QED BY <1>5, <3>1, <3>2, <3>3 DEF TrapSlots
  <2>2. start \in 0..start /\ ~CallsBack(M[Len(M)])
    BY <1>1, <1>2, <1>13, <1>14 DEF CallsBack
  <2>3. \A k \in 1..(L - 1) : traps[k].owner <= start
    <3> TAKE k \in 1..(L - 1)
    <3>1. k \in 1..L
      BY <1>2
    <3> QED BY <1>2, <1>3, <3>1, MachineTypes
  <2>4. traps[Len(traps)].owner = Len(M)
    BY <1>9, <1>13
  <2> QED BY <1>13, <1>15, <1>20, <2>1, <2>2, <2>3, <2>4, DropTrap
<1>22. Machine(M, csp', traps', Height(e), start)
  <2>1. \A j \in 1..Len(csp') : Height(csp'[j].act) <= Height(e)
    <3> TAKE j \in 1..Len(csp')
    <3>1. j \in 1..q /\ csp'[j].act = csp[j].act
      BY <1>17
    <3>2. Height(csp[j].act) + TrapSlots <= t.pos
      BY <1>2, <1>4, <3>1 DEF Machine, TrapsFit, q
    <3>3. Height(csp'[j].act) \in Nat
      BY <1>13, <1>20, MachineTypes
    <3>4. PICK x \in Nat, z \in Nat : x = Height(csp'[j].act) /\ z = Height(e)
      BY <1>11, <3>3
    <3>5. x + 6 <= z + 6
      BY <1>10, <3>1, <3>2, <3>4 DEF TrapSlots
    <3> QED BY <3>4, <3>5
  <2>2. \A k \in 1..Len(traps') : traps'[k].pos <= Height(e)
    BY <1>15, <1>19
  <2>3. \A i \in 1..Len(M) : M[i].floor.sp <= Height(e)
    BY <1>13, <1>18
  <2> QED BY <1>11, <1>13, <1>21, <2>1, <2>2, <2>3, SetHeight
<1>23. Stands(e, Len(csp'), a, csp')
  <2>1. csp'[q].act = csp[q].act \/ e.where # "fun"
    <3>1. CASE e.where = "fun"
      <4>1. q > a.floor.csp
        BY <1>10, <3>1 DEF Stands
      <4>2. q \in Nat
        BY <1>5 DEF q
      <4>3. q \in 1..q
        BY <1>6, <4>1, <4>2
      <4> QED BY <1>17, <4>3
    <3> QED BY <3>1
  <2>2. Stands(e, q, a, csp')
    BY <1>10, <2>1, StandsSame
  <2> QED BY <1>17, <2>2
<1>24. Placed(e, start, traps')
  BY <1>2, <1>5, <1>10, <1>11, <1>15, PlacedCut
<1>25. sp' = Height(e)
  BY <1>11, <1>12
<1>26. size' \in Nat /\ InitSize <= size' /\ Used' <= size'
  <2>1. sp' + TrapSlots <= sp
    BY <1>5, <1>10, <1>25
  <2>2. Len(csp') \in Nat /\ Len(csp') <= Len(csp)
    BY <1>5, <1>17 DEF q
  <2>3. Used' <= size
    BY <1>2, <1>11, <1>25, <2>1, <2>2, UsedCut
  <2> QED BY <1>2, <1>12, <2>3
<1>27. native' = [M EXCEPT ![Len(M)].act = e] /\ M[Len(M)] = a /\ Len(M) >= 1
  BY <1>12, <1>13, <1>14
<1>28. Machine(M, csp', traps', sp', Len(M)) /\ start' = Len(M) /\ Placed(e, Len(M), traps')
  BY <1>12, <1>13, <1>22, <1>24, <1>25
<1>29. Shaped(M[Len(M)]) /\ M[Len(M)].kind = "interp" /\ Stands(e, Len(csp'), M[Len(M)], csp')
  BY <1>1, <1>14, <1>23, <1>27
<1> QED BY <1>10, <1>12, <1>13, <1>25, <1>26, <1>27, <1>28, <1>29, CodeRuns

LEMMA LandInInterpSound == ASSUME VMInv, LandInInterp PROVE Sound'
BY ReraiseSound, CatchSound

\* val_callEx catches: what it left on the stacks and its trap go with it.
LEMMA LandInCallExSound ==
    ASSUME VMInv, LandInCallEx, why # "setup_trap"
    PROVE  Sound'
<1> DEFINE a == native[start]
           m == start - 1
           M == Prefix(native, start)
           caller == native[m]
           q == a.floor.csp
<1>1. Landing /\ a.kind = "callex"
  BY DEF LandInCallEx
<1>2. /\ IsSeq(native) /\ Len(native) \in Nat /\ Chain(native)
      /\ start \in 1..Len(native) /\ m \in 1..Len(native)
      /\ start \in Nat /\ m \in Nat /\ IsHandler(a)
      /\ Machine(native, csp, traps, sp, LastArmed)
      /\ IsSeq(csp) /\ IsSeq(traps) /\ Used <= size + TrapSlots
      /\ Len(csp) \in Nat /\ Len(traps) \in Nat /\ sp \in Nat
      /\ size \in Nat /\ InitSize <= size
  BY <1>1, LandFacts
<1>3. LastArmed = start /\ CallsBack(a)
  BY <1>1, <1>2 DEF LastArmed, IsHandler, CallsBack
<1>4. /\ CutTo(native, start, M) /\ IsSeq(M) /\ Len(M) = start /\ start >= 1
      /\ \A i \in 1..start : M[i] = native[i]
  BY <1>2, PrefixSeq
<1>5. Chain(M) /\ M[start] = a
  BY <1>2, <1>4, PrefixChain
<1> HIDE DEF M
<1>6. Machine(M, csp, traps, sp, start)
  <2>1. native[start].kind # "interp" /\ start <= start
    BY <1>1, <1>2
  <2> QED BY <1>2, <1>3, <1>4, <2>1, CutNative
<1>7. /\ Len(traps) >= 1 /\ Last(traps).pos = a.floor.sp + TrapSlots /\ Last(traps).csp = q
      /\ a.floor.sp + TrapSlots <= sp
  <2>1. Machine(M, csp, traps, sp, Len(M)) /\ CallsBack(M[Len(M)]) /\ Len(M) >= 1
        /\ M[Len(M)].kind = "callex" /\ M[Len(M)] = a
    BY <1>1, <1>3, <1>4, <1>5, <1>6
  <2> QED BY <1>4, <2>1, OwnTrap DEF Last
<1>8. traps # <<>>
  BY <1>2, <1>7, NonemptySeq
<1>9. /\ \E k : csp' = Clobber(Prefix(csp, q), k)
      /\ sp' = (a.floor.sp + TrapSlots) - TrapSlots /\ traps' = Front(traps)
      /\ vthis' = a.vthis /\ env' = a.env
      /\ start' = a.old /\ native' = Prefix(native, m)
      /\ mode' = "run" /\ why' = "none" /\ size' = size
  <2>1. /\ PopTrap(Last(traps)) /\ RestoreCaller(a) /\ LeaveByJump(a)
        /\ mode' = "run" /\ why' = "none" /\ size' = size
    BY <1>8 DEF LandInCallEx
  <2> DEFINE t == Last(traps)
  <2>2. /\ \E k : csp' = Clobber(Prefix(csp, t.csp), k)
        /\ sp' = t.pos - TrapSlots /\ traps' = Front(traps)
    BY <2>1 DEF PopTrap
  <2>3. t.csp = q /\ t.pos = a.floor.sp + TrapSlots
    BY <1>7
  <2>4. vthis' = a.vthis /\ env' = a.env /\ start' = a.old /\ native' = Prefix(native, m)
    BY <1>2, <2>1 DEF RestoreCaller, LeaveByJump, Leave
  <2> HIDE DEF t
  <2> HIDE DEF q
  <2>5. \E k : csp' = Clobber(Prefix(csp, q), k)
    <3>1. PICK k : csp' = Clobber(Prefix(csp, t.csp), k)
      BY <2>2
    <3>2. csp' = Clobber(Prefix(csp, q), k)
      BY <2>3, <3>1, Zenon
    <3> QED BY <3>2
  <2>6. sp' = (a.floor.sp + TrapSlots) - TrapSlots
    BY <2>2, <2>3
  <2> QED BY <2>1, <2>2, <2>4, <2>5, <2>6
<1>10. /\ a.floor.sp \in Nat /\ q \in Nat /\ a.floor.traps \in Nat /\ q <= Len(csp)
       /\ q \in 0..Len(csp)
  <2>1. a.floor.sp \in Nat /\ q \in Nat /\ a.floor.traps \in Nat /\ q <= Len(csp)
    BY <1>2, MachineTypes
  <2> QED BY <1>2, <2>1
<1>11. sp' = a.floor.sp
  <2>1. PICK x \in Nat : x = a.floor.sp
    BY <1>10
  <2>2. (x + 6) - 6 = x
    OBVIOUS
  <2> QED BY <1>9, <2>1, <2>2 DEF TrapSlots
<1>12. CutTo(traps, Len(traps) - 1, traps')
  BY <1>2, <1>8, <1>9, FrontCuts
<1>13. Agrees(csp, q, csp') /\ Len(csp') = q
  <2>1. FramesFit(csp, sp)
    BY <1>2 DEF Machine
  <2>2. Agrees(csp, q, csp')
    BY <1>9, <1>10, <2>1, ClobberAgrees
  <2> QED BY <2>2 DEF Agrees
<1>14. Machine(M, csp', traps', a.floor.sp, a.old) /\ Len(traps') = a.floor.traps
       /\ a.old \in 0..m
  <2>1. Machine(M, csp, traps, sp, Len(M)) /\ CallsBack(M[Len(M)]) /\ M[Len(M)] = a
    BY <1>3, <1>4, <1>5, <1>6
  <2>2. Agrees(csp, M[Len(M)].floor.csp, csp')
    BY <1>13, <2>1
  <2> QED BY <1>4, <1>5, <1>12, <2>1, <2>2, TakeDown
<1>15. Waits(caller, a, m, csp, traps)
  <2>1. m \in 1..(Len(native) - 1) /\ m + 1 = start
    BY <1>2
  <2> QED BY <1>2, <2>1 DEF Machine, WaitsAll
<1>16. /\ caller.kind \in {"host", "prim"} /\ a.floor = caller.floor
       /\ a.vthis = caller.at.vthis /\ a.env = caller.at.env
  BY <1>1, <1>3, <1>15 DEF Waits, CallsBack
<1>17. CutTo(M, m, native') /\ IsSeq(native') /\ Len(native') = m /\ native'[m] = caller
       /\ M[m] = caller
  <2>1. /\ CutTo(native, m, native') /\ IsSeq(native') /\ Len(native') = m /\ m \in 1..m
        /\ \A i \in 1..m : native'[i] = native[i]
    <3>1. m \in 1..m
      BY <1>2
    <3>2. native' = Prefix(native, m)
      BY <1>9
    <3>3. IsSeq(native) /\ m \in 1..Len(native)
      BY <1>2
    <3> HIDE DEF m
    <3> QED BY <3>1, <3>2, <3>3, PrefixSeq
  <2>2. m \in 0..start /\ \A i \in 1..m : i \in 1..start
    BY <1>2
  <2> QED BY <1>4, <2>1, <2>2 DEF CutTo
<1>18. m \in 1..start
  BY <1>2
<1> HIDE DEF m, caller, q, a
<1>19. Machine(native', csp', traps', a.floor.sp, a.old)
  <2>1. M[m].kind # "interp" /\ a.old <= m
    BY <1>14, <1>16, <1>17
  <2> QED BY <1>4, <1>14, <1>17, <1>18, <2>1, CutNative
<1>20. Floor' = caller.floor
  <2>1. Floor' = [sp |-> a.floor.sp, csp |-> a.floor.csp, traps |-> a.floor.traps]
    BY <1>11, <1>13, <1>14 DEF Floor, Mark, q
  <2>2. a.floor = [sp |-> a.floor.sp, csp |-> a.floor.csp, traps |-> a.floor.traps]
    BY <1>2 DEF Machine, Floors, Below, a
  <2> QED BY <1>16, <2>1, <2>2
<1>21. size' \in Nat /\ InitSize <= size' /\ Used' <= size'
  <2>1. sp' \in Nat /\ sp' + TrapSlots <= sp
    BY <1>7, <1>10, <1>11
  <2>2. Len(csp') \in Nat /\ Len(csp') <= Len(csp)
    BY <1>10, <1>13
  <2>3. Used' <= size
    BY <1>2, <2>1, <2>2, UsedCut
  <2> QED BY <1>2, <1>9, <2>3
<1>22. /\ Machine(native', csp', traps', sp', start') /\ native'[Len(native')] = caller
       /\ vthis' = caller.at.vthis /\ env' = caller.at.env
  BY <1>9, <1>11, <1>16, <1>17, <1>19
<1> QED BY <1>9, <1>16, <1>17, <1>20, <1>21, <1>22, CRuns

\* val_callEx catches the "Stack Overflow" of its own trap, which is not there,
\* and takes down another one: whose, is lost, but the others still nest.
LEMMA LandWithoutTrap ==
    ASSUME VMInv, LandInCallEx, why = "setup_trap"
    PROVE  TrapsNest' /\ Bounds'
<1> DEFINE m == start - 1
           L == Len(traps)
<1>1. Landing /\ native[start].kind = "callex"
  BY DEF LandInCallEx
<1>2. /\ IsSeq(native) /\ Len(native) \in Nat
      /\ start \in 1..Len(native) /\ m \in 1..Len(native)
      /\ start \in Nat /\ m \in Nat /\ IsHandler(native[start])
      /\ Machine(native, csp, traps, sp, LastArmed)
      /\ IsSeq(csp) /\ IsSeq(traps) /\ Used \in Nat /\ Used <= size + TrapSlots
      /\ Len(csp) \in Nat /\ L \in Nat /\ sp \in Nat
      /\ size \in Nat /\ InitSize <= size
  BY <1>1, LandFacts
<1>3. LastArmed = m
  BY DEF LastArmed
<1>4. native' = Prefix(native, m) /\ size' = size /\ mode' = "run"
      /\ IF traps = <<>> THEN UNCHANGED <<csp, sp, traps>> ELSE PopTrap(Last(traps))
  BY <1>2 DEF LandInCallEx, LeaveByJump
<1>5. Len(native') = m
  BY <1>2, <1>4, PrefixSeq
<1>6. \A k \in 1..L : /\ traps[k].pos \in Nat /\ traps[k].csp \in Nat
                      /\ traps[k].owner \in Nat /\ traps[k].owner <= m
                      /\ TrapSlots <= traps[k].pos /\ traps[k].csp <= Len(csp)
                      /\ traps[k].pos <= sp
  <2>1. \A k \in 1..L : TrapSlots <= traps[k].pos
    BY <1>2 DEF Machine, TrapsFit
  <2>2. \A k \in 1..L : /\ traps[k].pos \in Nat /\ traps[k].csp \in Nat
                        /\ traps[k].owner \in 1..Len(native) /\ traps[k].owner <= m
                        /\ traps[k].csp <= Len(csp) /\ traps[k].pos <= sp
    BY <1>2, <1>3, MachineTypes
  <2> QED BY <1>2, <2>1, <2>2
<1>7. \A k, l \in 1..L : k < l =>
        /\ traps[k].pos + TrapSlots <= traps[l].pos
        /\ traps[k].csp <= traps[l].csp /\ traps[k].owner <= traps[l].owner
  BY <1>2 DEF Machine, TrapsFit
<1>8. DOMAIN traps = 1..L
  BY <1>2, SeqLen
<1> HIDE DEF m
<1>9. CASE traps = <<>>
  <2>1. UNCHANGED <<csp, sp, traps, size>>
    BY <1>4, <1>9
  <2>2. Used' = Used
    BY <2>1 DEF Used
  <2>3. traps' = <<>> /\ DOMAIN traps' = {}
    BY <1>9, <2>1
  <2>4. TrapsNest'
    BY <2>3 DEF TrapsNest
  <2>5. Bounds'
    BY <1>2, <2>1, <2>2 DEF Bounds
  <2> QED BY <2>4, <2>5
<1>10. CASE traps # <<>>
  <2> DEFINE t == traps[L]
  <2>1. CutTo(traps, L - 1, Front(traps)) /\ L >= 1
    BY <1>2, <1>10, FrontCuts
  <2>2. L \in 1..L
    BY <1>2, <2>1
  <2>3. traps' = Front(traps) /\ sp' = t.pos - TrapSlots
        /\ \E k : csp' = Clobber(Prefix(csp, t.csp), k)
    BY <1>4, <1>10 DEF PopTrap, Last
  <2>4. Len(traps') = L - 1 /\ IsSeq(traps') /\ \A k \in 1..(L - 1) : traps'[k] = traps[k]
    BY <2>1, <2>3 DEF CutTo
  <2>5. t.pos \in Nat /\ t.csp \in Nat /\ t.csp <= Len(csp) /\ TrapSlots <= t.pos /\ t.pos <= sp
    BY <1>6, <2>2
  <2>6. Len(csp') = t.csp
    <3>1. FramesFit(csp, sp) /\ t.csp \in 0..Len(csp)
      BY <1>2, <2>5 DEF Machine
    <3>2. Agrees(csp, t.csp, csp')
      BY <2>3, <3>1, ClobberAgrees
    <3> QED BY <3>2 DEF Agrees
  <2>7. sp' \in Nat /\ sp' + TrapSlots = t.pos
    BY <2>3, <2>5 DEF TrapSlots
  <2>8. Used' <= size /\ Used' \in Nat
    <3>1. sp' + TrapSlots <= sp
      BY <2>5, <2>7
    <3>2. Len(csp') \in Nat /\ Len(csp') <= Len(csp)
      BY <2>5, <2>6
    <3> QED BY <1>2, <2>7, <3>1, <3>2, UsedCut
  <2>9. Bounds'
    BY <1>2, <1>4, <2>8, Fits
  <2>10. DOMAIN traps' = 1..(L - 1)
    BY <2>4, SeqLen
  <2> HIDE DEF t
  <2>11. \A k \in 1..(L - 1) :
           /\ TrapSlots <= traps'[k].pos /\ traps'[k].pos <= sp'
           /\ traps'[k].csp <= Len(csp') /\ traps'[k].owner <= Len(native')
    <3> TAKE k \in 1..(L - 1)
    <3>1. k \in 1..L /\ k < L /\ traps'[k] = traps[k]
      BY <1>2, <2>4
    <3>2. traps[k].pos + TrapSlots <= t.pos /\ traps[k].csp <= t.csp
      BY <1>7, <2>2, <3>1 DEF t
    <3>3. traps[k].pos \in Nat /\ TrapSlots <= traps[k].pos /\ traps[k].owner <= m
      BY <1>6, <3>1
    <3>4. PICK x \in Nat, y \in Nat : x = traps[k].pos /\ y = sp'
      BY <2>7, <3>3
    <3>5. x + 6 <= y + 6
      BY <2>7, <3>2, <3>4 DEF TrapSlots
    <3>6. traps[k].pos <= sp'
      BY <3>4, <3>5
    <3> QED BY <1>5, <2>6, <3>1, <3>2, <3>3, <3>6
  <2>12. \A k, l \in 1..(L - 1) : k < l =>
           /\ traps'[k].pos + TrapSlots <= traps'[l].pos
           /\ traps'[k].csp <= traps'[l].csp /\ traps'[k].owner <= traps'[l].owner
    <3> TAKE k, l \in 1..(L - 1)
    <3>1. k \in 1..L /\ l \in 1..L /\ traps'[k] = traps[k] /\ traps'[l] = traps[l]
      BY <1>2, <2>4
    <3> QED BY <1>7, <3>1
  <2>13. TrapsNest'
    BY <2>10, <2>11, <2>12 DEF TrapsNest
  <2> QED BY <2>9, <2>13
<1> QED BY <1>9, <1>10

\* At first nothing is there but the caller's.
LEMMA InitVMInv == Init => VMInv
<1> SUFFICES ASSUME Init PROVE VMInv
  OBVIOUS
<1> DEFINE at0 == [sp |-> 0, csp |-> <<>>, traps |-> <<>>, start |-> 0,
                   vthis |-> NoThis, env |-> NoEnv]
           host == [kind |-> "host", at |-> at0, floor |-> Mark(0, <<>>, <<>>)]
<1>1. /\ size = InitSize /\ csp = <<>> /\ sp = 0 /\ traps = <<>> /\ start = 0
      /\ vthis = NoThis /\ env = NoEnv /\ native = <<host>>
      /\ mode = "run" /\ why = "none" /\ damage = "none"
  BY DEF Init
<1>2. HandlerInv
  BY InitHandlerInv
<1>3. /\ Len(csp) = 0 /\ Len(traps) = 0 /\ IsSeq(csp) /\ IsSeq(traps)
      /\ Len(native) = 1 /\ native[1] = host /\ DOMAIN traps = {}
  BY <1>1 DEF IsSeq
<1>4. /\ host.kind = "host" /\ host.at = at0
      /\ host.floor = [sp |-> 0, csp |-> 0, traps |-> 0]
  BY <1>1, <1>3 DEF Mark
<1>5. /\ Snapped(at0) /\ at0.csp = <<>> /\ at0.traps = <<>> /\ at0.sp = 0 /\ at0.start = 0
      /\ at0.vthis = NoThis /\ at0.env = NoEnv
  BY DEF Snapped
<1> HIDE DEF host, at0
<1>6. ~IsHandler(host)
  BY <1>4 DEF IsHandler
<1>7. FramesFit(csp, sp) /\ TrapsFit(csp, traps, sp)
  BY <1>1, <1>3 DEF FramesFit, TrapsFit
<1>8. Floors(native, csp, traps, sp)
  <2>1. Below(host.floor, 1, csp, traps, sp)
    BY <1>1, <1>3, <1>4 DEF Below
  <2>2. \A i \in 1..1 : i = 1
    OBVIOUS
  <2> QED BY <1>3, <1>4, <2>1, <2>2 DEF Floors
<1>9. KeptAll(native, csp, traps)
  <2>1. InnermostIn(0, native, 1)
    BY <1>3, <1>6 DEF InnermostIn
  <2>2. host.floor = Mark(at0.sp, at0.csp, at0.traps)
    BY <1>3, <1>4, <1>5, <1>1 DEF Mark
  <2>3. Kept(host, 1, native, csp, traps)
    BY <1>1, <1>3, <1>4, <1>5, <2>1, <2>2 DEF Kept
  <2>4. \A i \in 1..1 : i = 1
    OBVIOUS
  <2> QED BY <1>3, <2>3, <2>4 DEF KeptAll
<1>10. WaitsAll(native, csp, traps) /\ OwnAll(native, csp, traps)
       /\ LeadsAll(native, csp, traps, 0) /\ ArmedAll(native, traps, 0)
  <2>1. \A i \in 1..1 : i = 1
    OBVIOUS
  <2> QED BY <1>3, <1>4, <2>1 DEF WaitsAll, OwnAll, LeadsAll, ArmedAll
<1>11. LastArmed = 0
  BY <1>1 DEF LastArmed
<1>12. Machine(native, csp, traps, sp, LastArmed)
  BY <1>3, <1>7, <1>8, <1>9, <1>10, <1>11 DEF Machine
<1>13. Top = host /\ Floor = host.floor
  BY <1>1, <1>3, <1>4 DEF Top, Last, Floor, Mark
<1>14. Used = 0 /\ 0 <= size /\ size \in Nat /\ InitSize <= size
  BY <1>1, <1>3, SizesAssumption DEF Used, FrameSlots
<1>15. InControl(Top)
  BY <1>1, <1>4, <1>5, <1>13 DEF InControl
<1>16. Healthy
  BY <1>1, <1>12, <1>14, <1>15 DEF Healthy
<1>17. Bounds
  BY <1>14 DEF Bounds, TrapSlots
<1>18. TrapsNest
  BY <1>3 DEF TrapsNest
<1> QED BY <1>2, <1>16, <1>17, <1>18 DEF VMInv

\* In a sound machine the traps nest.
LEMMA SoundNests == ASSUME HandlerInv, Healthy PROVE TrapsNest
<1>1. IsSeq(native) /\ Machine(native, csp, traps, sp, LastArmed)
  BY DEF HandlerInv, Chain, Healthy
<1>2. DOMAIN traps = 1..Len(traps) /\ Len(native) \in Nat
  BY <1>1, MachineTypes, SeqLen
<1>3. \A k \in 1..Len(traps) : TrapSlots <= traps[k].pos
  BY <1>1 DEF Machine, TrapsFit
<1>4. \A k \in 1..Len(traps) : /\ traps[k].pos <= sp /\ traps[k].csp <= Len(csp)
                               /\ traps[k].owner \in 1..Len(native)
  BY <1>1, MachineTypes
<1>5. \A k \in 1..Len(traps) : traps[k].owner <= Len(native)
  BY <1>2, <1>4
<1>6. \A k, l \in 1..Len(traps) : k < l =>
        /\ traps[k].pos + TrapSlots <= traps[l].pos
        /\ traps[k].csp <= traps[l].csp /\ traps[k].owner <= traps[l].owner
  BY <1>1 DEF Machine, TrapsFit
<1> QED BY <1>2, <1>3, <1>4, <1>5, <1>6 DEF TrapsNest

LEMMA SoundInv == HandlerInv /\ Sound => VMInv
BY SoundNests DEF Sound, VMInv

LEMMA SoundInvNext == HandlerInv' /\ Sound' => VMInv'
BY SoundInv, PTL

\* A machine whose damage is done stays as it is.
LEMMA DamagedStep ==
    ASSUME VMInv, UNCHANGED <<stacks, native, mode, start>>, HandlerInv', damage' # "none"
    PROVE  VMInv'
<1>1. Used' = Used
  BY DEF Used, stacks
<1>2. Bounds'
  BY <1>1 DEF VMInv, Bounds, stacks
<1>3. TrapsNest'
  BY DEF VMInv, TrapsNest, stacks
<1> QED BY <1>2, <1>3 DEF VMInv

LEMMA StillInv == ASSUME VMInv, UNCHANGED vars PROVE VMInv'
<1>1. HandlerInv'
  BY HandlerInvStep DEF VMInv
<1>2. Used' = Used /\ Bounds' /\ TrapsNest'
  BY DEF VMInv, vars, Used, Bounds, TrapsNest
<1>3. Healthy' <=> Healthy
  BY DEF vars, Healthy, LastArmed, InControl, Top, Last, Floor, Mark, Used
<1> QED BY <1>1, <1>2, <1>3 DEF VMInv, vars

\* Every action, whatever is on the stacks.
LEMMA BytecodeSound ==
    ASSUME FewArguments, VMInv, HandlerInv', Bytecode PROVE VMInv'
<1>1. CASE damage' = "none"
  <2>1. Sound'
    <3>1. CASE Push \/ Pop \/ SetThis
      BY <3>1, PushSound, PopSound, SetThisSound
    <3>2. CASE Trap \/ EndTrap \/ RuntimeError
      BY <3>2, TrapSound, EndTrapSound, RuntimeErrorSound
    <3>3. CASE Call \/ ObjCall
      BY <3>3, CallSound, ObjCallSound
    <3>4. CASE TailCall \/ Ret
      BY <1>1, <3>4, TailCallSound, RetSound
    <3>5. CASE OperatorCall
      BY <3>5, CallExSound
    <3> QED BY <3>1, <3>2, <3>3, <3>4, <3>5 DEF Bytecode
  <2> QED BY <2>1, SoundInvNext
<1>2. CASE damage' # "none"
  <2>1. Ready
    BY DEF Bytecode, Push, Pop, SetThis, Trap, EndTrap, RuntimeError, Call, ObjCall,
           TailCall, Ret, OperatorCall, InCode
  <2>2. damage = "none"
    BY <2>1 DEF Ready
  <2>3. UNCHANGED <<stacks, native, mode, start>>
    <3>1. CASE TailCall \/ Ret
      BY <1>2, <2>2, <3>1 DEF TailCall, Ret, Lost, Quiet
    <3>2. CASE Push \/ Pop \/ SetThis \/ Trap \/ EndTrap \/ RuntimeError
      BY <1>2, <2>2, <3>2 DEF Push, Pop, SetThis, Trap, EndTrap, RuntimeError, Overflow, Quiet
    <3>3. CASE Call \/ ObjCall \/ OperatorCall
      BY <1>2, <2>2, <3>3 DEF Call, ObjCall, OperatorCall, Overflow, EnterCallEx, Quiet
    <3> QED BY <3>1, <3>2, <3>3 DEF Bytecode
  <2> QED BY <1>2, <2>3, DamagedStep
<1> QED BY <1>1, <1>2

LEMMA CCodeSound == ASSUME VMInv, HandlerInv', CCode PROVE VMInv'
<1>1. CASE CallEx \/ CallExFails
  BY <1>1, CallExSound, CallExFailsSound, SoundInvNext
<1>2. CASE CallExPrimitive \/ CallExFunction \/ CallExReturns
  BY <1>2, CallExPrimitiveSound, CallExFunctionSound, CallExReturnsSound, SoundInvNext
<1>3. CASE Execute \/ ReturnFromInterp
  BY <1>3, ExecuteSound, ReturnFromInterpSound, SoundInvNext
<1>4. CASE PrimReturns \/ PrimThrows
  BY <1>4, PrimReturnsSound, PrimThrowsSound, SoundInvNext
<1> QED BY <1>1, <1>2, <1>3, <1>4 DEF CCode

LEMMA LandSound == ASSUME VMInv, HandlerInv', Land PROVE VMInv'
<1>1. CASE LandInInterp
  BY <1>1, LandInInterpSound, SoundInvNext
<1>2. CASE LandInCallEx /\ why # "setup_trap"
  BY <1>2, LandInCallExSound, SoundInvNext
<1>3. CASE LandInCallEx /\ why = "setup_trap"
  <2>1. damage' = "trap"
    BY <1>3 DEF LandInCallEx
  <2>2. TrapsNest' /\ Bounds'
    BY <1>3, LandWithoutTrap
  <2> QED BY <2>1, <2>2 DEF VMInv
<1> QED BY <1>1, <1>2, <1>3 DEF Land

LEMMA VMInvStep == ASSUME FewArguments, VMInv, [Next]_vars PROVE VMInv'
<1>1. HandlerInv'
  BY HandlerInvStep DEF VMInv
<1> QED BY <1>1, BytecodeSound, CCodeSound, LandSound, StillInv DEF Next, Undefined

-----------------------------------------------------------------------------
(* What the invariant says of the program. *)

LEMMA InvStacksApart == VMInv => StacksApart
BY DEF VMInv, StacksApart, Bounds, Healthy, Ready

LEMMA InvTrapsNest == VMInv => TrapsNest
BY DEF VMInv

LEMMA InvContextAgrees == VMInv => ContextAgrees
<1> SUFFICES ASSUME VMInv, Ready, Top.kind = "interp"
             PROVE  vthis = Here.vthis /\ env = Here.env
  BY DEF ContextAgrees
<1>1. InControl(Top)
  BY RunFacts
<1> QED BY <1>1 DEF InControl, Here

LEMMA InvDepthsAgree == VMInv => DepthsAgree
<1> SUFFICES ASSUME VMInv, Ready, Top.kind = "interp"
             PROVE  /\ sp = Here.base + Here.d
                    /\ Len(Here.open) <= Len(traps)
                    /\ \A i \in DOMAIN Here.open :
                         LET trap == traps[Len(traps) - Len(Here.open) + i]
                         IN  /\ trap.pos = Here.base + Here.open[i] + TrapSlots
                             /\ trap.owner = Len(native)
  BY DEF DepthsAgree
<1> DEFINE c == Here
           n == Len(native)
<1>1. /\ InControl(Top) /\ IsSeq(native) /\ Machine(native, csp, traps, sp, start)
      /\ Len(traps) \in Nat
  BY RunFacts
<1>2. CodePoint(c) /\ sp = Height(c) /\ Placed(c, n, traps)
  BY <1>1 DEF InControl, Here
<1>3. \A k \in 1..Len(traps) : traps[k].pos \in Nat /\ traps[k].pos <= Height(c)
  BY <1>1, <1>2, MachineTypes
<1> HIDE DEF c, n
<1>4. PICK q : OnTop(c, n, traps, q)
  BY <1>1, <1>2, <1>3, PlacedTop
<1>5. /\ q \in Nat /\ q + Len(c.open) = Len(traps) /\ Len(c.open) \in Nat
      /\ \A k \in 1..Len(c.open) :
           /\ traps[q + k].pos = c.base + c.open[k] + TrapSlots
           /\ traps[q + k].owner = n
  BY <1>2, <1>4, CodeSlots DEF OnTop
<1>6. Len(c.open) <= Len(traps) /\ Len(traps) - Len(c.open) = q
  BY <1>1, <1>5
<1>7. DOMAIN c.open = 1..Len(c.open)
  BY <1>2, SeqLen DEF CodePoint, IsSeq
<1>8. sp = c.base + c.d
  BY <1>2 DEF Height
<1>9. ASSUME NEW i \in DOMAIN c.open
      PROVE  LET trap == traps[Len(traps) - Len(c.open) + i]
             IN  trap.pos = c.base + c.open[i] + TrapSlots /\ trap.owner = n
  <2>1. i \in 1..Len(c.open) /\ Len(traps) - Len(c.open) + i = q + i
    BY <1>6, <1>7
  <2> QED BY <1>5, <2>1
<1> QED BY <1>6, <1>8, <1>9 DEF c, n

\* A C function finds both stacks as the machine has kept them for it.
LEMMA InvCallbacksBalance == VMInv => CallbacksBalance
<1> SUFFICES ASSUME VMInv, Ready, Top.kind \in {"host", "prim"}
             PROVE  /\ Snapshot(sp, csp, vthis, env) = [Top.at EXCEPT !.csp = csp]
                    /\ Unerased(csp) = Unerased(Top.at.csp)
  BY DEF CallbacksBalance
<1> DEFINE n == Len(native)
           a == Top
           at == Top.at
<1>1. /\ InControl(a) /\ IsSeq(native) /\ Machine(native, csp, traps, sp, start)
      /\ Len(traps) \in Nat /\ Len(csp) \in Nat /\ IsSeq(csp) /\ IsSeq(traps)
      /\ n \in 1..n /\ a = native[n] /\ InnermostIn(start, native, n) /\ n \in Nat
      /\ Floor = [sp |-> sp, csp |-> Len(csp), traps |-> Len(traps)]
  <2>1. n >= 1 /\ n \in Nat
    BY RunFacts
  <2>2. n \in 1..n
    BY <2>1
  <2> QED BY <2>1, <2>2, RunFacts
<1>2. Kept(a, n, native, csp, traps)
  BY <1>1 DEF Machine, KeptAll
<1>3. Floor = a.floor /\ vthis = at.vthis /\ env = at.env
  BY <1>1 DEF InControl
<1>4. /\ Snapped(at) /\ IsSeq(at.csp) /\ IsSeq(at.traps)
      /\ a.floor = [sp |-> at.sp, csp |-> Len(at.csp), traps |-> Len(at.traps)]
      /\ InnermostIn(at.start, native, n)
  BY <1>2 DEF Kept, Mark
<1>5. sp = at.sp /\ Len(csp) = Len(at.csp) /\ Len(traps) = Len(at.traps)
  <2>1. [sp |-> sp, csp |-> Len(csp), traps |-> Len(traps)]
          = [sp |-> at.sp, csp |-> Len(at.csp), traps |-> Len(at.traps)]
    BY <1>1, <1>3, <1>4
  <2> HIDE DEF at
  <2> QED BY <2>1
<1>6. a.floor.csp = Len(csp) /\ a.floor.traps = Len(traps)
  BY <1>1, <1>3
<1>7. start = at.start
  BY <1>1, <1>4, InnermostUnique
<1>8. traps = at.traps
  <2>1. \A k \in 1..Len(traps) : traps[k] = at.traps[k]
    BY <1>2, <1>6 DEF Kept
  <2>2. PICK S : traps \in Seq(S)
    BY <1>1 DEF IsSeq
  <2>3. PICK U : at.traps \in Seq(U)
    BY <1>4 DEF IsSeq
  <2> DEFINE s == traps
             t == at.traps
  <2>4. s \in Seq(S \cup U) /\ t \in Seq(S \cup U) /\ Len(s) = Len(t)
        /\ \A k \in 1..Len(s) : s[k] = t[k]
    BY <1>5, <2>1, <2>2, <2>3
  <2> HIDE DEF s, t
  <2>5. s = t
    BY <2>4
  <2> QED BY <2>5 DEF s, t
<1>9. Snapshot(sp, csp, vthis, env) = [at EXCEPT !.csp = csp]
  <2>1. at = [sp |-> at.sp, csp |-> at.csp, traps |-> at.traps, start |-> at.start,
              vthis |-> at.vthis, env |-> at.env]
    BY <1>4 DEF Snapped
  <2>2. Snapshot(sp, csp, vthis, env)
          = [sp |-> at.sp, csp |-> csp, traps |-> at.traps, start |-> at.start,
             vthis |-> at.vthis, env |-> at.env]
    BY <1>3, <1>5, <1>7, <1>8 DEF Snapshot
  <2> DEFINE x1 == at.sp
             x2 == at.csp
             x3 == at.traps
             x4 == at.start
             x5 == at.vthis
             x6 == at.env
  <2> HIDE DEF x1, x2, x3, x4, x5, x6
  <2>3. at = [sp |-> x1, csp |-> x2, traps |-> x3, start |-> x4, vthis |-> x5, env |-> x6]
    BY <2>1 DEF x1, x2, x3, x4, x5, x6
  <2> HIDE DEF at
  <2>4. [at EXCEPT !.csp = csp]
          = [sp |-> x1, csp |-> csp, traps |-> x3, start |-> x4, vthis |-> x5, env |-> x6]
    BY <2>3
  <2> QED BY <2>2, <2>4 DEF x1, x2, x3, x4, x5, x6
<1>10. Unerased(csp) = Unerased(at.csp)
  <2>1. \A j \in 1..Len(csp) : Bare(csp[j]) = Bare(at.csp[j])
    BY <1>2, <1>6 DEF Kept
  <2>2. DOMAIN csp = 1..Len(csp) /\ DOMAIN at.csp = 1..Len(csp)
    BY <1>1, <1>4, <1>5, SeqLen
  <2> HIDE DEF at
  <2>3. Unerased(csp) = [i \in 1..Len(csp) |-> Bare(csp[i])]
        /\ Unerased(at.csp) = [i \in 1..Len(csp) |-> Bare(at.csp[i])]
    BY <2>2 DEF Unerased, Bare
  <2> QED BY <2>1, <2>3
<1> QED BY <1>9, <1>10

\* What passes an exception on has no trap of its own, and hands it to an older
\* activation.
LEMMA PassedOn ==
    ASSUME VMInv, [Next]_vars, mode = "throw", mode' = "throw"
    PROVE  \/ UNCHANGED vars
           \/ start' < start /\ \A k \in DOMAIN traps : traps[k].owner # start
<1>1. ~Bytecode /\ ~CCode
  BY DEF Bytecode, Push, Pop, SetThis, Trap, EndTrap, RuntimeError, Call, ObjCall, TailCall,
         Ret, OperatorCall, InCode, CCode, CallEx, CallExFails, CallExPrimitive, CallExFunction,
         CallExReturns, Execute, ReturnFromInterp, PrimReturns, PrimThrows, InC, Dispatching,
         Ready
<1>2. ~LandInCallEx
  BY DEF LandInCallEx
<1>3. CASE LandInInterp
  <2> DEFINE a == native[start]
  <2>1. Landing /\ a.kind = "interp"
    BY <1>3 DEF LandInInterp, Older
  <2>2. /\ start \in Nat /\ start - 1 \in Nat /\ IsHandler(a)
        /\ InnermostIn(a.old, native, start - 1)
        /\ IsSeq(traps) /\ Len(traps) \in Nat /\ IsSeq(native) /\ sp \in Nat
        /\ Machine(native, csp, traps, sp, LastArmed)
    BY <2>1, LandFacts
  <2>3. DOMAIN traps = 1..Len(traps)
    BY <2>2, SeqLen
  <2>4. CASE traps = <<>> \/ Last(traps).pos <= a.init
    <3>1. start' = a.old
      BY <1>3, <2>2, <2>4 DEF LandInInterp, Older, Reraise, LeaveByJump, Leave
    <3>2. a.old \in 0..(start - 1)
      BY <2>2 DEF InnermostIn
    <3>3. \A k \in 1..Len(traps) : traps[k].owner # start
      BY <1>3, <2>4, Strangers
    <3>4. start' < start
      BY <2>2, <3>1, <3>2
    <3> QED BY <2>3, <3>3, <3>4
  <2>5. CASE ~(traps = <<>> \/ Last(traps).pos <= a.init)
    <3>1. Len(traps) \in 1..Len(traps)
      <4>1. PICK S : traps \in Seq(S)
        BY <2>2 DEF IsSeq
      <4> QED BY <2>5, <4>1
    <3>2. Last(traps).pos \in Nat /\ Last(traps).pos <= sp
      BY <2>2, <3>1, MachineTypes DEF Last
    <3>3. ~(Last(traps).pos > sp)
      BY <2>2, <3>2
    <3> QED BY <1>3, <2>5, <3>3 DEF LandInInterp, Older
  <2> QED BY <2>4, <2>5
<1>4. CASE Undefined \/ UNCHANGED vars
  BY <1>4 DEF Undefined
<1> QED BY <1>1, <1>2, <1>3, <1>4 DEF Next, Land

-----------------------------------------------------------------------------
(* The theorems: for every size of the array, C stack and program, as long *)
(* as C code passes fewer arguments to a function than a trap has slots.   *)

\* In every execution the chain of handlers, both stacks and the traps are as
\* VMInv describes, until the VM is damaged: until a function returns through a
\* frame that an overflow erased (FramesSurvive), or val_callEx pops a trap
\* where its own did not fit.
THEOREM InvariantHolds == ASSUME FewArguments PROVE Spec => []VMInv
<1>1. Init => VMInv
  BY InitVMInv
<1>2. VMInv /\ [Next]_vars => VMInv'
  BY VMInvStep
<1> QED BY <1>1, <1>2, PTL DEF Spec

\* The two stacks that grow towards each other in one array overlap at most by
\* the trap that neko_setup_trap could not push, whatever calls, pushes, traps
\* and callbacks the program makes and however often neko_stack_expand fails.
THEOREM StacksStayApart == ASSUME FewArguments PROVE Spec => []StacksApart
BY InvariantHolds, InvStacksApart, PTL

\* The positions in vm->trap and in the traps' own back links always name live
\* traps, in the order of the data stack, each owned by a live handler: setting
\* vm->trap from a trap's slot, as EndTrap, the exception path of neko_interp
\* and neko_process_trap do, never leads below or beside the chain.
THEOREM TrapsAlwaysNest == ASSUME FewArguments PROVE Spec => []TrapsNest
BY InvariantHolds, InvTrapsNest, PTL

\* The depth of the data stack that the compiled code counts on, in vm->sp and
\* in the frames its calls have pushed, is the depth there is, also after an
\* exception, a tail call or a callback.
THEOREM DepthsAlwaysAgree == ASSUME FewArguments PROVE Spec => []DepthsAgree
BY InvariantHolds, InvDepthsAgree, PTL

\* Code never runs under the vthis and env of another function: what Ret, a
\* caught exception and the end of val_callEx put back is what was there.
THEOREM ContextsAlwaysAgree == ASSUME FewArguments PROVE Spec => []ContextAgrees
BY InvariantHolds, InvContextAgrees, PTL

\* A primitive, or the host program, that calls back finds both stacks, the
\* traps, vm->start, vthis and env as they were, however the callback ended.
THEOREM CallbacksAlwaysBalance == ASSUME FewArguments PROVE Spec => []CallbacksBalance
BY InvariantHolds, InvCallbacksBalance, PTL

\* A neko_interp that passes an exception on has no try of its own open: the
\* test of interp.c for "is the innermost trap mine" is right.  It is here that
\* FewArguments is needed; with six arguments or more the test may fail.
THEOREM TriesAlwaysCatch == ASSUME FewArguments PROVE Spec => TriesCatch
<1>1. VMInv /\ [Next]_vars
        => [mode = "throw" /\ mode' = "throw"
              => \A k \in DOMAIN traps : traps[k].owner # start]_vars
  BY PassedOn
<1> QED BY <1>1, InvariantHolds, PTL DEF Spec, TriesCatch

\* An exception that a handler passes on goes to an older activation: no
\* exception is thrown back and forth between handlers, as would be if
\* neko_interp restored vm->start after it jumps instead of before.
THEOREM ExceptionsDescend ==
    ASSUME FewArguments
    PROVE  Spec => [][mode = "throw" /\ mode' = "throw" => start' < start]_vars
<1>1. VMInv /\ [Next]_vars => [mode = "throw" /\ mode' = "throw" => start' < start]_vars
  BY PassedOn
<1> QED BY <1>1, InvariantHolds, PTL DEF Spec

=============================================================================
