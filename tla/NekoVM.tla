------------------------------ MODULE NekoVM ------------------------------
(***************************************************************************)
(* The stacks, traps and native activations of one Neko virtual machine:   *)
(* src/vm/interp.c, src/vm/callback.c and the throwing and stack-growing   *)
(* functions of src/vm/others.c.                                           *)
(*                                                                         *)
(* One array holds two stacks.  The call stack (csp) grows up from its     *)
(* low end, four slots a frame; the data stack (sp) grows down from its    *)
(* high end, one slot a value and six slots a trap.  Values are not told   *)
(* apart, so the data stack is the number of its slots; a trap is a record *)
(* that keeps the data-stack height it was written at, and vm->trap with   *)
(* its chain of saved links is the sequence of the live traps.  The C      *)
(* stack is the sequence native of activations; vm->start is the index of  *)
(* the activation whose jmp_buf it holds.                                  *)
(*                                                                         *)
(* The bytecode is any program the compiler emits and the verifier admits: *)
(* at each point it may execute every instruction its static depth and     *)
(* its open traps allow.                                                   *)
(***************************************************************************)
EXTENDS Naturals, Sequences

CONSTANTS
    InitSize,   \* slots of the array at start       (INIT_STACK_SIZE)
    MaxSize,    \* slots the array may never exceed  (MAX_STACK_SIZE)
    CStackMax,  \* activations the C stack can hold  (vm->c_stack_max)
    MaxArgs,    \* most arguments of a call instruction  (CALL_MAX_ARGS)
    CallbackArgs, \* most arguments C code passes a function
    MaxDepth,   \* most slots of one bytecode activation (124 in the verifier)
    This, Envs, \* values of vm->vthis and vm->env
    NoThis, NoEnv   \* the NULL a callback frame and a fresh module start with

FrameSlots == 4
TrapSlots == 6

ASSUME SizesAssumption ==
    /\ InitSize \in Nat /\ MaxSize \in Nat /\ CStackMax \in Nat
    /\ MaxArgs \in Nat /\ CallbackArgs \in Nat /\ MaxDepth \in Nat
    /\ FrameSlots + CallbackArgs <= InitSize /\ TrapSlots <= InitSize
    /\ InitSize <= MaxSize
    /\ NoThis \notin This /\ NoEnv \notin Envs

VARIABLES
    size,    \* slots of the array
    csp,     \* frames of the call stack, oldest first
    sp,      \* slots in use on the data stack
    traps,   \* the chain vm->trap, oldest first
    start,   \* activation whose setjmp is in vm->start, 0 when none is
    vthis, env,
    native,  \* activations on the C stack, oldest first
    mode,    \* "run", or "throw" between a longjmp and its landing
    why,     \* ghost: what is being thrown
    damage   \* ghost: why the program no longer has a defined behaviour

vars == <<size, csp, sp, traps, start, vthis, env, native, mode, why, damage>>
stacks == <<size, csp, sp, traps>>

Thrown == "exception"    \* the thrown value travels in vm->vthis

Last(s) == s[Len(s)]
Prefix(s, n) == SubSeq(s, 1, n)
Front(s) == Prefix(s, Len(s) - 1)
Top == Last(native)

Used == FrameSlots * Len(csp) + sp

(***************************************************************************)
(* Activations.                                                            *)
(***************************************************************************)

\* What C code finds on entry, kept to say what it must find again.
Snapshot(s, c, t, e) ==
    [sp |-> s, csp |-> c, traps |-> traps, start |-> start, vthis |-> t, env |-> e]

\* Ghost: how full both stacks and the chain of traps are when an activation
\* is entered.
Mark(s, c, t) == [sp |-> s, csp |-> Len(c), traps |-> Len(t)]
Floor == Mark(sp, csp, traps)

\* A point of a bytecode activation: the slots below it (base), the arguments
\* it began with and its slots now (d), the depths of its open traps, and the
\* environment it belongs to.
Code(w, b, n, t, e) ==
    [where |-> w, base |-> b, args |-> n, d |-> n, open |-> <<>>, vthis |-> t, env |-> e]

\* callback_return: the code of the frame that val_callEx pushes.
CallbackReturn(b) == Code("callback", b, 0, NoThis, NoEnv)

Frame(c, t, e) == [act |-> c, vthis |-> t, env |-> e, live |-> FrameSlots]

Prim(n, at) ==
    [kind |-> "prim", args |-> n, at |-> at, floor |-> Mark(at.sp, at.csp, at.traps)]

Interp(i, o, c) ==
    [kind |-> "interp", init |-> i, old |-> o, act |-> c, floor |-> Floor]

IsHandler(a) == a.kind = "interp" \/ (a.kind = "callex" /\ a.exc)

Ready == mode = "run" /\ damage = "none"
InC == Ready /\ Top.kind \in {"host", "prim"}
InCode == Ready /\ Top.kind = "interp" /\ Top.act.where # "callback"
Here == Top.act

\* The slots an instruction may pop: those above the arguments, which only a
\* return or a tail call drops, and above the innermost open trap.
Free == IF Here.open = <<>> THEN Here.d - Here.args ELSE Here.d - Last(Here.open) - TrapSlots

WithAct(c) == [native EXCEPT ![Len(native)].act = c]

(***************************************************************************)
(* Growing the array.  The tests "sp <= csp" after a push of n slots and   *)
(* "csp + 4 >= sp" before a push of a frame both say that Used + n         *)
(* exceeds the array.                                                      *)
(***************************************************************************)
Room(n) == Used + n <= size \/ 2 * size <= MaxSize

\* Mutant: the test before a push is off by one.
ReserveLate(n) == size' = IF Used + n <= size + 1 THEN size ELSE 2 * size

Reserve(n) == size' = IF Used + n <= size THEN size ELSE 2 * size

\* val_throw: the value goes to vm->vthis, control to vm->start.
Throw(reason) ==
    /\ start > 0
    /\ vthis' = Thrown /\ mode' = "throw" /\ why' = reason

Quiet == UNCHANGED <<mode, why, damage>>

\* neko_process_trap and the same code in neko_interp: the frames above the
\* trap's are dropped and the data slots above the trap, and it, erased.
\* Slots that a failed expansion left shared with the surviving frames are
\* erased too.
Clobber(frames, k) ==
    [i \in DOMAIN frames |->
        LET above == FrameSlots * (Len(frames) - i)
        IN  [frames[i] EXCEPT !.live =
                IF k <= above THEN @
                ELSE IF k >= above + FrameSlots THEN 0
                ELSE IF FrameSlots - (k - above) < @ THEN FrameSlots - (k - above) ELSE @]]

\* Mutant: vm->trap keeps naming the trap that was popped.
PopTrapKept(trap) ==
    /\ csp' = Prefix(csp, trap.csp) /\ sp' = trap.pos - TrapSlots
    /\ UNCHANGED traps

PopTrap(trap) ==
    LET kept == FrameSlots * trap.csp + sp
    IN  /\ csp' = Clobber(Prefix(csp, trap.csp), IF kept > size THEN kept - size ELSE 0)
        /\ sp' = trap.pos - TrapSlots
        /\ traps' = Front(traps)

\* Mutant: the environment of the throwing function is kept.
RestoreThisOnly(trap) == vthis' = trap.vthis /\ UNCHANGED env

RestoreFrom(trap) == vthis' = trap.vthis /\ env' = trap.env

\* Mutant: vm->start keeps the jmp_buf of the function that returns.
LeaveStale(a) == IsHandler(a) /\ UNCHANGED start

\* memcpy(&vm->start,&old): a handler leaves the jmp_buf it found.
Leave(a) == start' = IF IsHandler(a) THEN a.old ELSE start

\* The activations down to a handler that is left by a jump go with it.
LeaveByJump(a) == Leave(a) /\ native' = Prefix(native, start - 1)

\* Mutant: vm->start is not put back before the second longjmp.
ReraiseToSelf(a) == IsHandler(a) /\ UNCHANGED <<start, native>>

Reraise(a) == LeaveByJump(a)

\* A frame is readable when no slot that PopInfos needs was erased: of a
\* callback frame only the return address is not zero already.
Readable(f) ==
    IF f.act.where = "callback" THEN f.live > 0 ELSE f.live = FrameSlots

(***************************************************************************)
(* val_callEx.                                                             *)
(***************************************************************************)

\* Its prologue: save vthis, env and, with exc, vm->start; then push a trap.
\* neko_setup_trap moves sp before it knows that the array can grow.
EnterCallEx(exc, t) ==
    LET me == Len(native) + 1
        rec == [kind |-> "callex", exc |-> exc, called |-> FALSE, old |-> start,
                vthis |-> vthis, env |-> env, floor |-> Floor]
    IN  /\ native' = Append(native, rec)
        /\ env' = env
        /\ UNCHANGED <<csp, damage>>
        /\ IF ~exc
             THEN /\ vthis' = t
                  /\ UNCHANGED <<size, sp, traps, start, mode, why>>
             ELSE /\ start' = me
                  /\ sp' = sp + TrapSlots
                  /\ IF Room(TrapSlots)
                       THEN /\ Reserve(TrapSlots)
                            /\ traps' = Append(traps,
                                   [pos |-> sp + TrapSlots, csp |-> Len(csp), vthis |-> t,
                                    env |-> env, owner |-> me, act |-> CallbackReturn(sp)])
                            /\ vthis' = t
                            /\ UNCHANGED <<mode, why>>
                       ELSE /\ vthis' = Thrown /\ mode' = "throw" /\ why' = "setup_trap"
                            /\ UNCHANGED <<size, traps>>

\* A C function calls back into the VM.  The outermost caller always passes
\* exc: without it there would be no handler at all.
CallEx ==
    /\ InC
    /\ \E exc \in BOOLEAN, t \in This \cup {vthis} :
         /\ (Top.kind = "host" => exc)
         /\ EnterCallEx(exc, t)

\* An arithmetic or comparison instruction whose operand is an object calls
\* its __add, __compare..., without a frame; the operand is popped after it.
OperatorCall ==
    /\ InCode /\ Free > 0
    /\ \E t \in This : EnterCallEx(FALSE, t)

Dispatching == Ready /\ Top.kind = "callex" /\ ~Top.called

Called == [native EXCEPT ![Len(native)].called = TRUE]

\* "C Stack Overflow", "Invalid call", "Too many arguments for a call".
CallExFails ==
    /\ Dispatching
    /\ Throw("error")
    /\ UNCHANGED <<stacks, start, env, native, damage>>

CallExPrimitive ==
    /\ Dispatching /\ Len(native) <= CStackMax
    /\ \E e \in Envs :
         /\ env' = e
         /\ native' = Append(Called, Prim(0, Snapshot(sp, csp, vthis, e)))
    /\ UNCHANGED <<stacks, start, vthis>> /\ Quiet

\* The arguments and a callback_return frame are pushed and neko_interp
\* entered; when there is no room the trap is dropped and vm->start put back
\* before "Stack Overflow" is thrown.
CallExFunction ==
    /\ Dispatching /\ Len(native) <= CStackMax
    /\ \E n \in 0..CallbackArgs, e \in Envs :
         LET code == Code("fun", sp, n, vthis, e)
         IN  IF Room(FrameSlots + n)
               THEN /\ Reserve(FrameSlots + n)
                    /\ sp' = sp + n
                    /\ csp' = Append(csp, Frame(CallbackReturn(sp), NoThis, NoEnv))
                    /\ env' = e
                    /\ native' = Append(Called, Interp(sp + n, start, code))
                    /\ start' = Len(native) + 1
                    /\ UNCHANGED <<traps, vthis>> /\ Quiet
               ELSE /\ IF Top.exc
                         THEN PopTrap(Last(traps)) /\ env' = Last(traps).env
                         ELSE UNCHANGED <<csp, sp, traps, env>>
                    /\ Leave(Top)
                    /\ vthis' = Thrown /\ mode' = "throw" /\ why' = "callex"
                    /\ UNCHANGED <<size, native, damage>>

\* Mutant: the epilogue restores this but not the environment.
RestoreCallerThis(a) == vthis' = a.vthis /\ UNCHANGED env

RestoreCaller(a) == vthis' = a.vthis /\ env' = a.env

\* The epilogue of a call that returned.  Called from an instruction, the
\* instruction's operand is popped.
CallExReturns ==
    /\ Ready /\ Top.kind = "callex" /\ Top.called
    /\ LET below == Front(native)
           caller == Last(below)
           popped == IF caller.kind = "interp" THEN 1 ELSE 0
       IN  /\ IF Top.exc
                THEN /\ csp' = Prefix(csp, Last(traps).csp)
                     /\ sp' = Last(traps).pos - TrapSlots - popped
                     /\ traps' = Front(traps)
                ELSE sp' = sp - popped /\ UNCHANGED <<csp, traps>>
           /\ native' = IF caller.kind = "interp"
                          THEN [below EXCEPT ![Len(below)].act.d = @ - 1] ELSE below
    /\ Leave(Top) /\ RestoreCaller(Top)
    /\ UNCHANGED size /\ Quiet

(***************************************************************************)
(* neko_vm_execute: a primitive (the loader) runs the main code of a       *)
(* module, which ends in Last and needs no frame.                          *)
(***************************************************************************)
Execute ==
    /\ InC /\ start > 0 /\ Len(native) <= CStackMax
    /\ \E e \in Envs :
         /\ env' = e
         /\ vthis' = NoThis
         /\ native' = native \o
              << [kind |-> "execute", vthis |-> vthis, env |-> env, floor |-> Floor],
                 Interp(sp, start, Code("main", sp, 0, NoThis, e)) >>
    /\ start' = Len(native) + 2
    /\ UNCHANGED stacks /\ Quiet

\* Last: neko_interp returns and puts vm->start back; neko_vm_execute then
\* puts vthis and env back, val_callEx continues with its epilogue.
ReturnFromInterp ==
    /\ Ready /\ Top.kind = "interp"
    /\ Here.where \in {"main", "callback"} /\ Here.d = 0
    /\ Leave(Top)
    /\ LET below == Front(native)
           caller == Last(below)
       IN  IF caller.kind = "execute"
             THEN native' = Front(below) /\ RestoreCaller(caller)
             ELSE native' = below /\ UNCHANGED <<vthis, env>>
    /\ UNCHANGED stacks /\ Quiet

(***************************************************************************)
(* Instructions.                                                           *)
(***************************************************************************)

\* STACK_EXPAND failed after sp was moved by n slots.
Overflow(n) ==
    /\ sp' = sp + n
    /\ Throw("overflow")
    /\ UNCHANGED <<size, csp, traps, start, env, native, damage>>

Push ==
    /\ InCode /\ Here.d < MaxDepth
    /\ IF Room(1)
         THEN /\ Reserve(1) /\ sp' = sp + 1
              /\ native' = WithAct([Here EXCEPT !.d = @ + 1])
              /\ UNCHANGED <<csp, traps, start, vthis, env>> /\ Quiet
         ELSE Overflow(1)

Pop ==
    /\ InCode /\ Free > 0
    /\ sp' = sp - 1
    /\ native' = WithAct([Here EXCEPT !.d = @ - 1])
    /\ UNCHANGED <<size, csp, traps, start, vthis, env>> /\ Quiet

SetThis ==
    /\ InCode
    /\ \E t \in This :
         /\ vthis' = t
         /\ native' = WithAct([Here EXCEPT !.vthis = t])
    /\ UNCHANGED <<stacks, start, env>> /\ Quiet

Trap ==
    /\ InCode /\ Here.d + TrapSlots <= MaxDepth
    /\ IF Room(TrapSlots)
         THEN /\ Reserve(TrapSlots) /\ sp' = sp + TrapSlots
              /\ traps' = Append(traps,
                    [pos |-> sp + TrapSlots, csp |-> Len(csp), vthis |-> vthis,
                     env |-> env, owner |-> Len(native), act |-> Here])
              /\ native' = WithAct([Here EXCEPT !.d = @ + TrapSlots,
                                                 !.open = Append(@, Here.d)])
              /\ UNCHANGED <<csp, start, vthis, env>> /\ Quiet
         ELSE Overflow(TrapSlots)

EndTrap ==
    /\ InCode /\ Here.open # <<>> /\ Free = 0
    /\ IF traps # <<>> /\ Last(traps).pos = sp
         THEN /\ sp' = sp - TrapSlots /\ traps' = Front(traps)
              /\ native' = WithAct([Here EXCEPT !.d = @ - TrapSlots,
                                                 !.open = Front(@)])
              /\ UNCHANGED <<size, csp, start, vthis, env>> /\ Quiet
         ELSE /\ Throw("error")
              /\ UNCHANGED <<stacks, start, env, native, damage>>

\* Every failing instruction pushes a frame for the trace and throws.
RuntimeError ==
    /\ InCode
    /\ IF Room(FrameSlots)
         THEN /\ Reserve(FrameSlots)
              /\ csp' = Append(csp, Frame(Here, vthis, env))
              /\ Throw("error")
              /\ UNCHANGED <<sp, traps, start, env, native, damage>>
         ELSE Overflow(0)

\* DoCall of a bytecode function (a frame and a jump) or of a primitive (a
\* frame and a C call), with n arguments on top of the data stack of s slots.
\* The call resumes at code; frames are those the call finds.
DoCall(code, frames, s, n, t, savedThis, savedEnv) ==
    LET below == Append(frames, Frame(code, savedThis, savedEnv))
    IN  /\ csp' = below /\ sp' = s /\ vthis' = t
        /\ \E e \in Envs :
             /\ env' = e
             /\ \/ native' = WithAct(Code("fun", s - n, n, t, e))
                \/ native' = Append(WithAct(code), Prim(n, Snapshot(s, below, t, e)))

Call ==
    /\ InCode
    /\ \E n \in 0..MaxArgs :
         /\ n <= Free
         /\ IF Room(FrameSlots)
              THEN /\ Reserve(FrameSlots)
                   /\ DoCall([Here EXCEPT !.d = @ - n], csp, sp, n, vthis, vthis, env)
                   /\ UNCHANGED <<traps, start>> /\ Quiet
              ELSE Overflow(0)

\* The receiver is popped first.
ObjCall ==
    /\ InCode
    /\ \E n \in 0..MaxArgs, t \in This :
         /\ n + 1 <= Free
         /\ IF Room(FrameSlots - 1)
              THEN /\ Reserve(FrameSlots - 1)
                   /\ DoCall([Here EXCEPT !.d = @ - n - 1], csp, sp - 1, n, t, vthis, env)
                   /\ UNCHANGED <<traps, start>> /\ Quiet
              ELSE /\ sp' = sp - 1 /\ Throw("overflow")
                   /\ UNCHANGED <<size, csp, traps, start, env, native, damage>>

\* Popping a frame that was erased leaves no instruction to resume at.
Lost == damage' = "frame" /\ UNCHANGED <<stacks, start, vthis, env, native, mode, why>>

\* The arguments slide over the locals, the frame is popped and pushed again.
TailCall ==
    /\ InCode /\ Here.where = "fun" /\ Here.open = <<>>
    /\ \E n \in 0..MaxArgs :
         /\ n <= Free
         /\ IF Readable(Last(csp))
              THEN /\ DoCall(Last(csp).act, Front(csp), Here.base + n, n, vthis,
                             Last(csp).vthis, Last(csp).env)
                   /\ UNCHANGED <<size, traps, start>> /\ Quiet
              ELSE Lost

Ret ==
    /\ InCode /\ Here.where = "fun" /\ Here.open = <<>>
    /\ IF Readable(Last(csp))
         THEN /\ sp' = sp - Here.d
              /\ csp' = Front(csp)
              /\ vthis' = Last(csp).vthis /\ env' = Last(csp).env
              /\ native' = WithAct(Last(csp).act)
              /\ UNCHANGED <<size, traps, start>> /\ Quiet
         ELSE Lost

(***************************************************************************)
(* C primitives.                                                           *)
(***************************************************************************)
\* Mutant: the arguments stay on the data stack.
KeepArgs(n) == n \in 0..MaxArgs /\ UNCHANGED sp

PopArgs(n) == sp' = sp - n

PrimReturns ==
    /\ Ready /\ Top.kind = "prim"
    /\ native' = Front(native)
    /\ IF Last(Front(native)).kind = "callex"
         THEN UNCHANGED <<sp, csp, vthis, env>>
         ELSE /\ vthis' = Last(csp).vthis /\ env' = Last(csp).env
              /\ csp' = Front(csp)
              /\ PopArgs(Top.args)
    /\ UNCHANGED <<size, traps, start>> /\ Quiet

\* val_throw, failure, or the NULL of neko_error that the caller throws.
PrimThrows ==
    /\ Ready /\ Top.kind = "prim"
    /\ Throw("error")
    /\ UNCHANGED <<stacks, start, env, native, damage>>

(***************************************************************************)
(* Landings: longjmp to the activation in vm->start.                       *)
(***************************************************************************)
Landing == mode = "throw" /\ damage = "none" /\ start > 0

\* Mutant: a trap that begins where the activation did counts as older.
OlderOrFirst(trap, a) == trap.pos <= a.init + TrapSlots

\* vm->trap <= init_sp: the trap lies below where neko_interp began.
Older(trap, a) == trap.pos <= a.init

\* The handler of neko_interp: reraise when the innermost trap is older than
\* this activation, otherwise unwind to it.
LandInInterp ==
    /\ Landing /\ native[start].kind = "interp"
    /\ LET a == native[start]
           trap == Last(traps)
       IN  IF traps = <<>> \/ Older(trap, a)
             THEN Reraise(a) /\ UNCHANGED <<stacks, vthis, env, mode, why, damage>>
             ELSE IF trap.pos > sp
             THEN /\ traps' = <<>>
                  /\ UNCHANGED <<size, csp, sp, start, vthis, env, native, mode, why, damage>>
             ELSE /\ PopTrap(trap) /\ RestoreFrom(trap)
                  /\ native' = [Prefix(native, start) EXCEPT ![start].act = trap.act]
                  /\ mode' = "run" /\ why' = "none"
                  /\ UNCHANGED <<size, start, damage>>

\* The handler of val_callEx: *exc = vm->vthis, drop the innermost trap,
\* restore, return null to the C caller.
LandInCallEx ==
    /\ Landing /\ native[start].kind = "callex"
    /\ LET a == native[start]
       IN  /\ IF traps = <<>> THEN UNCHANGED <<csp, sp, traps>>
                              ELSE PopTrap(Last(traps))
           /\ damage' = IF why = "setup_trap" THEN "trap" ELSE "none"
           /\ RestoreCaller(a) /\ LeaveByJump(a)
    /\ mode' = "run" /\ why' = "none"
    /\ UNCHANGED size

(***************************************************************************)
(* Specification.                                                          *)
(***************************************************************************)
Init ==
    /\ size = InitSize /\ csp = <<>> /\ sp = 0 /\ traps = <<>> /\ start = 0
    /\ vthis = NoThis /\ env = NoEnv
    /\ native = << [kind |-> "host", at |->
                     [sp |-> 0, csp |-> <<>>, traps |-> <<>>, start |-> 0,
                      vthis |-> NoThis, env |-> NoEnv],
                     floor |-> Mark(0, <<>>, <<>>)] >>
    /\ mode = "run" /\ why = "none" /\ damage = "none"

Bytecode ==
    \/ Push \/ Pop \/ SetThis \/ Trap \/ EndTrap \/ RuntimeError
    \/ Call \/ ObjCall \/ TailCall \/ Ret \/ OperatorCall

CCode ==
    \/ CallEx \/ CallExFails \/ CallExPrimitive \/ CallExFunction \/ CallExReturns
    \/ Execute \/ ReturnFromInterp \/ PrimReturns \/ PrimThrows

Land == LandInInterp \/ LandInCallEx

\* What a damaged VM does is not modelled.
Undefined == damage # "none" /\ UNCHANGED vars

Next == Bytecode \/ CCode \/ Land \/ Undefined

\* longjmp is a jump: a landing that is due happens.
Spec == Init /\ [][Next]_vars /\ WF_vars(Land)

(***************************************************************************)
(* Properties.                                                             *)
(***************************************************************************)
\* The two stacks of the array never overlap while code runs; during a throw
\* they may by the one push that could not be made.
StacksApart ==
    /\ Ready => Used <= size
    /\ Used <= size + TrapSlots

\* The handler that vm->start names, where a throw will land, is the innermost
\* activation that has one, whatever mixture of callbacks, modules and
\* exceptions led here: no jmp_buf of a C function that has returned, and no
\* handler skipped.  The exception is a "Stack Overflow" val_callEx throws itself.
Innermost ==
    LET H == {i \in DOMAIN native : IsHandler(native[i])}
    IN  IF H = {} THEN 0 ELSE CHOOSE i \in H : \A j \in H : j <= i

StartIsInnermost == why # "callex" => start = Innermost

\* The chain of traps nests: older traps lie deeper on both stacks and belong
\* to older activations, and none lies outside the stacks.
TrapsNest ==
    /\ \A i \in DOMAIN traps :
         /\ TrapSlots <= traps[i].pos /\ traps[i].pos <= sp
         /\ traps[i].csp <= Len(csp)
         /\ traps[i].owner <= Len(native) \/ mode = "throw"
    /\ \A i, j \in DOMAIN traps : i < j =>
         /\ traps[i].pos + TrapSlots <= traps[j].pos
         /\ traps[i].csp <= traps[j].csp
         /\ traps[i].owner <= traps[j].owner

\* Whenever bytecode runs, the data stack has exactly the depth its compiler
\* counted on at that point and the innermost traps are those it opened there:
\* no call, callback, tail call or exception leaves a slot or a trap behind.
DepthsAgree ==
    (Ready /\ Top.kind = "interp") =>
        /\ sp = Here.base + Here.d
        /\ Len(Here.open) <= Len(traps)
        /\ \A i \in DOMAIN Here.open :
              LET trap == traps[Len(traps) - Len(Here.open) + i]
              IN  trap.pos = Here.base + Here.open[i] + TrapSlots /\ trap.owner = Len(native)

\* Whenever bytecode runs, vm->vthis and vm->env are those of the function it
\* belongs to.
ContextAgrees ==
    (Ready /\ Top.kind = "interp") => vthis = Here.vthis /\ env = Here.env

Unerased(frames) == [i \in DOMAIN frames |-> [frames[i] EXCEPT !.live = FrameSlots]]

\* Whenever a C function is in control, every callback it made has put back
\* both stacks, the traps, vm->start, vm->vthis and vm->env.
CallbacksBalance ==
    (Ready /\ Top.kind \in {"host", "prim"}) =>
        /\ Snapshot(sp, csp, vthis, env) = [Top.at EXCEPT !.csp = csp]
        /\ Unerased(csp) = Unerased(Top.at.csp)

\* An exception that neko_interp passes on was not its own to catch: none of the
\* live traps was set up by the activation that passes it on.
TriesCatch ==
    [][mode = "throw" /\ mode' = "throw" => \A k \in DOMAIN traps : traps[k].owner # start]_vars

\* Once an exception is handled every frame below the handler can still be
\* returned to.
FramesSurvive == mode = "run" => \A i \in DOMAIN csp : Readable(csp[i])

\* A thrown value is always handled: reraising from handler to handler ends.
ThrowLands == mode = "throw" ~> mode = "run"

=============================================================================
