---------------------------- MODULE LoaderProofs ----------------------------
(***************************************************************************)
(* The loader with any number of threads, modules, strings and libraries.  *)
(*                                                                         *)
(* NamesAreRestored is inductive with the types.  CodeRunsOnce needs to    *)
(* know that a module that is not in the cache has not run, and that two   *)
(* threads that read one module have left a note in clash (Importing).     *)
(* PrimitivesAreFound needs Loading: the same of strings, and that a       *)
(* thread alone with its string keeps the @ cut and has the library the    *)
(* string names.  LibrariesAgree needs OpenOnce and OneKind, which say     *)
(* what holds in the middle of load_primitive and kind_share as long as    *)
(* two threads do not work on the lists at once.                           *)
(***************************************************************************)
EXTENDS Loader, WellFoundedInduction, TLAPS

Frames == [of : Threads \cup Modules, pc : Nat \ {0}]

Places == ModuleOps \cup StringOps \cup {"code"}

Typed ==
    /\ frames \in [Threads -> Seq(Frames)] /\ at \in [Threads -> Places]
    /\ mods \in Seq(Modules) /\ cache \in [Modules -> Nat]
    /\ \A t \in Threads : at[t] # "code" => frames[t] # <<>>
    /\ \A t \in Threads : at[t] \in ModuleOps => Step(t).arg \in Modules

Importing ==
    /\ \A m \in Modules : cache[m] = 0 => \A i \in DOMAIN mods : mods[i] # m
    /\ \A t \in Threads :
           at[t] \in ModuleOps /\ Step(t).arg \notin clash =>
               /\ cache[Step(t).arg] = 0
               /\ \A u \in Threads \ {t} : at[u] \in ModuleOps => Step(u).arg # Step(t).arg

USE LoaderAssumption

-----------------------------------------------------------------------------
(* Frames. *)

LEMMA AdvancedType ==
    ASSUME NEW fs \in Seq(Frames), fs # <<>> PROVE Advanced(fs) \in Seq(Frames)
<1>1. Len(fs) \in DOMAIN fs /\ fs[Len(fs)] \in Frames
  OBVIOUS
<1>2. fs[Len(fs)].pc + 1 \in Nat \ {0}
  BY <1>1 DEF Frames
<1>3. [fs[Len(fs)] EXCEPT !.pc = fs[Len(fs)].pc + 1] \in Frames
  BY <1>1, <1>2 DEF Frames
<1> QED BY <1>1, <1>3 DEF Advanced

LEMMA ThrowType ==
    ASSUME Typed, NEW t \in Threads, Throw(t)
    PROVE  frames' \in [Threads -> Seq(Frames)] /\ at' = [at EXCEPT ![t] = "code"]
<1>1. frames[t] \in Seq(Frames)
  BY DEF Typed
<1>2. ASSUME Tries(t) = {} PROVE frames' \in [Threads -> Seq(Frames)]
  <2>1. <<>> \in Seq(Frames) /\ frames' = [frames EXCEPT ![t] = <<>>]
    BY <1>2 DEF Throw
  <2> QED BY <2>1 DEF Typed
<1>3. ASSUME NEW k \in Tries(t), frames' = [frames EXCEPT ![t] = Advanced(SubSeq(@, 1, k))]
      PROVE  frames' \in [Threads -> Seq(Frames)]
  <2>1. SubSeq(frames[t], 1, k) \in Seq(Frames) /\ SubSeq(frames[t], 1, k) # <<>>
    BY <1>1 DEF Tries
  <2>2. Advanced(SubSeq(frames[t], 1, k)) \in Seq(Frames)
    BY <2>1, AdvancedType
  <2> QED BY <1>3, <2>2 DEF Typed
<1> QED BY <1>2, <1>3 DEF Throw

LEMMA ReturnsType ==
    ASSUME Typed, NEW t \in Threads, frames[t] # <<>>, Returns(t)
    PROVE  frames' \in [Threads -> Seq(Frames)] /\ at' = [at EXCEPT ![t] = "code"]
<1>1. Advanced(frames[t]) \in Seq(Frames)
  BY AdvancedType DEF Typed
<1> QED BY <1>1 DEF Returns, Typed

\* A step that is a call of the loader.
LEMMA CallType ==
    ASSUME Typed, NEW t \in Threads, NEW op, Calls(t, op)
    PROVE  Step(t) \in Steps /\ Step(t).op = op
<1>1. frames[t] \in Seq(Frames) /\ frames[t] # <<>>
  BY DEF Typed, Calls
<1>2. Top(t) \in Frames
  BY <1>1 DEF Top
<1>3. Code[Top(t).of] \in Seq(Steps) /\ Top(t).pc \in DOMAIN Code[Top(t).of]
  BY <1>2 DEF Calls, Ends, Frames
<1> QED BY <1>3 DEF Step, Calls

-----------------------------------------------------------------------------
(* What a step does to modules and frames. *)

\* t goes on in its code, or has left it by an exception.
InCode(t) ==
    /\ frames' \in [Threads -> Seq(Frames)] /\ \A u \in Threads \ {t} : frames'[u] = frames[u]
    /\ at' = [at EXCEPT ![t] = "code"]
    /\ UNCHANGED modules /\ clash \subseteq clash'

\* t looks for a primitive.
InPrim(t) ==
    /\ frames[t] # <<>> /\ UNCHANGED <<frames, modules>> /\ clash \subseteq clash'
    /\ \E place \in StringOps : at' = [at EXCEPT ![t] = place]

\* t misses a module in the cache.
Misses(t) ==
    /\ frames[t] # <<>> /\ UNCHANGED <<frames, modules>> /\ clash \subseteq clash'
    /\ at[t] = "code" /\ at' = [at EXCEPT ![t] = "read"]
    /\ Step(t).arg \in Modules /\ cache[Step(t).arg] = 0
    /\ Notes(t, ModuleOps, Step(t).arg)

HasRead(t) ==
    /\ frames[t] # <<>> /\ UNCHANGED <<frames, modules, clash>>
    /\ at[t] = "read" /\ at' = [at EXCEPT ![t] = "execute"]

LEMMA Imported == ASSUME NEW s \in Steps, s.op = "import" PROVE s.arg \in Modules
BY DEF Steps

LEMMA NotesGrow == ASSUME NEW t, NEW ops, NEW x, Notes(t, ops, x) PROVE clash \subseteq clash'
BY DEF Notes

LEMMA Kinds ==
    ASSUME Typed, NEW t \in Threads,
           \/ Import(t) \/ Read(t) \/ Finish(t) \/ Fail(t)
           \/ Prim(t) \/ ReadHead(t) \/ Cut(t) \/ Search(t) \/ Open(t) \/ Link(t) \/ Share(t)
           \/ NameKind(t) \/ EntryThrows(t) \/ Symbol(t)
    PROVE  InCode(t) \/ InPrim(t) \/ Misses(t) \/ HasRead(t)
<1>1. ASSUME Throw(t), UNCHANGED modules, clash \subseteq clash' PROVE InCode(t)
  <2>1. frames' \in [Threads -> Seq(Frames)] /\ at' = [at EXCEPT ![t] = "code"]
    BY <1>1, ThrowType
  <2>2. \A u \in Threads \ {t} : frames'[u] = frames[u]
    BY <1>1 DEF Throw, Typed
  <2> QED BY <1>1, <2>1, <2>2 DEF InCode
<1>2. ASSUME Returns(t), frames[t] # <<>>, UNCHANGED modules, clash \subseteq clash' PROVE InCode(t)
  <2>1. frames' \in [Threads -> Seq(Frames)] /\ at' = [at EXCEPT ![t] = "code"]
    BY <1>2, ReturnsType
  <2>2. \A u \in Threads \ {t} : frames'[u] = frames[u]
    BY <1>2 DEF Returns, Typed
  <2> QED BY <1>2, <2>1, <2>2 DEF InCode
<1>3. CASE Import(t)
  <2>1. Calls(t, "import") /\ at[t] = "code" /\ UNCHANGED modules /\ frames[t] # <<>>
    BY <1>3 DEF Import, Calls
  <2>2. Step(t).arg \in Modules
    BY <2>1, CallType, Imported
  <2>3. CASE cache[Step(t).arg] # 0
    BY <1>2, <1>3, <2>1, <2>3 DEF Import
  <2>4. CASE cache[Step(t).arg] = 0
    <3>1. Goes(t, "read") /\ Notes(t, ModuleOps, Step(t).arg)
      BY <1>3, <2>4 DEF Import
    <3> QED BY <2>1, <2>2, <2>4, <3>1, NotesGrow DEF Misses, Goes
  <2> QED BY <2>3, <2>4
<1>4. CASE Read(t)
  BY <1>1, <1>4 DEF Read, HasRead, Goes, Typed
<1>5. CASE Finish(t)
  <2> DEFINE below == SubSeq(frames[t], 1, Len(frames[t]) - 1)
  <2>1. frames[t] \in Seq(Frames) /\ frames[t] # <<>>
    BY <1>5 DEF Finish, Typed
  <2>2. below \in Seq(Frames)
    BY <2>1
  <2>3. (IF below = <<>> THEN <<>> ELSE Advanced(below)) \in Seq(Frames)
    BY <2>2, AdvancedType
  <2>4. frames' = [frames EXCEPT ![t] = IF below = <<>> THEN <<>> ELSE Advanced(below)]
    BY <1>5 DEF Finish
  <2>5. at' = [at EXCEPT ![t] = "code"] /\ UNCHANGED <<modules, clash>>
    BY <1>5 DEF Finish, Typed
  <2> HIDE DEF below
  <2> QED BY <2>3, <2>4, <2>5 DEF InCode, Typed
<1>6. CASE Fail(t)
  BY <1>1, <1>6 DEF Fail
<1>7. CASE Prim(t)
  <2>1. UNCHANGED modules /\ clash \subseteq clash'
    BY <1>7, NotesGrow DEF Prim
  <2> QED BY <1>1, <1>7, <2>1 DEF Prim, NotFound, InPrim, Goes, StringOps, Uncut, Calls
<1>8. CASE ReadHead(t) \/ Cut(t)
  BY <1>8 DEF ReadHead, Cut, InPrim, Goes, StringOps, Uncut, Typed
<1>9. CASE Search(t)
  <2>1. UNCHANGED modules /\ clash \subseteq clash'
    BY <1>9, NotesGrow DEF Search
  <2> QED BY <1>9, <2>1 DEF Search, InPrim, Goes, StringOps, LibraryOps, Typed
<1>10. CASE Open(t)
  BY <1>1, <1>10 DEF Open, NotFound, InPrim, Goes, StringOps, LibraryOps, Typed
<1>11. CASE Link(t) \/ Share(t) \/ NameKind(t)
  BY <1>11 DEF Link, Share, NameKind, InPrim, Goes, StringOps, LibraryOps, Typed
<1>12. CASE EntryThrows(t)
  BY <1>1, <1>12 DEF EntryThrows
<1>13. CASE Symbol(t)
  <2>1. frames[t] # <<>>
    BY <1>13 DEF Symbol, Typed
  <2> QED BY <1>1, <1>2, <1>13, <2>1 DEF Symbol, NotFound
<1> QED BY <1>3, <1>4, <1>5, <1>6, <1>7, <1>8, <1>9, <1>10, <1>11, <1>12, <1>13

Kind(t) == InCode(t) \/ InPrim(t) \/ Misses(t) \/ HasRead(t) \/ Execute(t)

LEMMA StepIsKind == Typed /\ Next => \E t \in Threads : Kind(t)
BY Kinds DEF Next, Kind

\* Whatever t does, the others stay where they are.
LEMMA OthersStay ==
    ASSUME Typed, NEW t \in Threads, Kind(t), NEW u \in Threads \ {t}
    PROVE  Step(u)' = Step(u) /\ at'[u] = at[u] /\ frames'[u] = frames[u]
<1>1. frames'[u] = frames[u] /\ at'[u] = at[u]
  BY DEF Typed, Kind, InCode, InPrim, Misses, HasRead, Execute
<1> QED BY <1>1 DEF Step, Top

\* Where t is itself, and that its step is still the same in the loader.
LEMMA SelfMoves ==
    ASSUME Typed, NEW t \in Threads, Kind(t)
    PROVE  /\ at' \in [Threads -> Places]
           /\ at'[t] # "code" => Step(t)' = Step(t) /\ frames'[t] # <<>>
           /\ at'[t] \in ModuleOps => Misses(t) \/ HasRead(t)
<1>1. CASE InCode(t)
  BY <1>1 DEF InCode, Typed, Places, ModuleOps
<1>2. CASE InPrim(t)
  BY <1>2 DEF InPrim, Typed, Places, ModuleOps, StringOps, Uncut, LibraryOps, Step, Top
<1>3. CASE Misses(t) \/ HasRead(t)
  BY <1>3 DEF Misses, HasRead, Typed, Places, ModuleOps, Step, Top
<1>4. CASE Execute(t)
  BY <1>4 DEF Execute, Typed, Places, ModuleOps
<1> QED BY <1>1, <1>2, <1>3, <1>4 DEF Kind

LEMMA TypedStep == Typed /\ [Next]_vars => Typed'
<1>1. ASSUME Typed, UNCHANGED vars PROVE Typed'
  BY <1>1 DEF Typed, vars, modules, Step, Top
<1>2. ASSUME Typed, NEW t \in Threads, Kind(t) PROVE Typed'
  <2>1. \A u \in Threads : at'[u] # "code" => frames'[u] # <<>>
    BY <1>2, OthersStay, SelfMoves DEF Typed
  <2>2. ASSUME NEW u \in Threads, at'[u] \in ModuleOps PROVE Step(u)'.arg \in Modules
    <3>1. CASE u # t
      BY <1>2, <2>2, <3>1, OthersStay DEF Typed
    <3>2. CASE u = t
      <4>1. at'[t] # "code" /\ at'[t] \in ModuleOps
        BY <2>2, <3>2 DEF ModuleOps
      <4>2. Step(t)' = Step(t) /\ (Misses(t) \/ HasRead(t))
        BY <1>2, <4>1, SelfMoves
      <4>3. Step(t).arg \in Modules
        BY <1>2, <4>2 DEF Misses, HasRead, Typed, ModuleOps
      <4> QED BY <3>2, <4>2, <4>3
    <3> QED BY <3>1, <3>2
  <2>3. frames' \in [Threads -> Seq(Frames)] /\ mods' \in Seq(Modules) /\ cache' \in [Modules -> Nat]
    <3>1. CASE Execute(t)
      <4> DEFINE m == Step(t).arg
      <4>1. m \in Modules /\ frames[t] \in Seq(Frames)
        BY <1>2, <3>1 DEF Execute, Typed, ModuleOps
      <4>2. mods' = Append(mods, m) /\ mods' \in Seq(Modules) /\ Len(mods') \in Nat
        BY <1>2, <3>1, <4>1 DEF Execute, Typed
      <4>3. cache' \in [Modules -> Nat]
        BY <1>2, <3>1, <4>2 DEF Execute, Cached, Typed
      <4>4. [of |-> m, pc |-> 1] \in Frames
        BY <4>1 DEF Frames
      <4>5. Append(frames[t], [of |-> m, pc |-> 1]) \in Seq(Frames)
        BY <4>1, <4>4
      <4>6. frames' = [frames EXCEPT ![t] = Append(@, [of |-> m, pc |-> 1])]
        BY <3>1 DEF Execute
      <4> QED BY <1>2, <4>2, <4>3, <4>5, <4>6 DEF Typed
    <3>2. CASE ~Execute(t)
      BY <1>2, <3>2 DEF Kind, InCode, InPrim, Misses, HasRead, Typed, modules
    <3> QED BY <3>1, <3>2
  <2>4. at' \in [Threads -> Places]
    BY <1>2, SelfMoves
  <2> QED BY <2>1, <2>2, <2>3, <2>4 DEF Typed
<1> QED BY <1>1, <1>2, StepIsKind

-----------------------------------------------------------------------------
(* Modules. *)

ModuleInv == Typed /\ Importing /\ CodeRunsOnce

\* Two threads cannot come to read a module without a note in clash.
LEMMA ImportingStep == ModuleInv /\ [Next]_vars => Importing' /\ CodeRunsOnce'
<1>1. ASSUME ModuleInv, UNCHANGED vars PROVE Importing' /\ CodeRunsOnce'
  BY <1>1 DEF ModuleInv, Importing, CodeRunsOnce, vars, modules, Step, Top
<1> SUFFICES ASSUME ModuleInv, NEW t \in Threads, Kind(t) PROVE Importing' /\ CodeRunsOnce'
  BY <1>1, StepIsKind DEF ModuleInv
<1> DEFINE Alone(v) ==
        at[v] \in ModuleOps /\ Step(v).arg \notin clash =>
            /\ cache[Step(v).arg] = 0
            /\ \A u \in Threads \ {v} : at[u] \in ModuleOps => Step(u).arg # Step(v).arg
<1>2. Typed /\ \A v \in Threads : Alone(v)
  BY DEF ModuleInv, Importing
<1>3. at \in [Threads -> Places] /\ at' \in [Threads -> Places]
  BY <1>2, SelfMoves DEF Typed
<1>4. \A u \in Threads \ {t} : Step(u)' = Step(u) /\ at'[u] = at[u]
  BY <1>2, OthersStay
<1>5. CASE ~Execute(t)
  <2>1. UNCHANGED <<mods, cache>> /\ clash \subseteq clash'
    BY <1>5 DEF Kind, InCode, InPrim, Misses, HasRead, modules
  <2>2. CASE Misses(t)
    <3> DEFINE m == Step(t).arg
    <3>1. Step(t)' = Step(t) /\ cache[m] = 0 /\ at'[t] = "read"
      BY <1>2, <2>2 DEF Misses, Typed, Step, Top
    <3>2. m \notin clash' => \A u \in Threads \ {t} : at[u] \in ModuleOps => Step(u).arg # m
      BY <2>2 DEF Misses, Notes, Working
    <3>3. Alone(t)'
      BY <1>4, <2>1, <3>1, <3>2
    <3>4. ASSUME NEW v \in Threads \ {t} PROVE Alone(v)'
      BY <1>2, <1>4, <2>1, <3>1, <3>2
    <3> QED BY <2>1, <3>3, <3>4 DEF ModuleInv, Importing, CodeRunsOnce
  <2>3. CASE ~Misses(t)
    <3>1. at'[t] \in ModuleOps => at[t] \in ModuleOps /\ Step(t)' = Step(t)
      BY <1>2, <2>3, SelfMoves DEF HasRead, ModuleOps
    <3>2. ASSUME NEW v \in Threads PROVE Alone(v)'
      BY <1>2, <1>4, <2>1, <3>1
    <3> QED BY <2>1, <3>2 DEF ModuleInv, Importing, CodeRunsOnce
  <2> QED BY <2>2, <2>3
<1>6. CASE Execute(t)
  <2> DEFINE m == Step(t).arg
  <2>1. at[t] \in ModuleOps /\ m \in Modules /\ at'[t] = "code"
    BY <1>2, <1>6 DEF Execute, Typed, ModuleOps
  <2>2. mods' = Append(mods, m) /\ clash' = clash /\ mods \in Seq(Modules)
    BY <1>2, <1>6 DEF Execute, Typed
  <2>3. cache' = [cache EXCEPT ![m] = Len(mods) + 1]
    BY <1>6, <2>2 DEF Execute, Cached
  <2>4. cache \in [Modules -> Nat] /\ Len(mods) \in Nat
    BY <1>2, <2>2 DEF Typed
  <2>5. m \notin clash =>
            /\ cache[m] = 0
            /\ \A u \in Threads \ {t} : at[u] \in ModuleOps => Step(u).arg # m
    BY <1>2, <2>1
  <2> HIDE DEF m
  <2>6. DOMAIN mods' = 1..(Len(mods) + 1) /\ DOMAIN mods = 1..Len(mods)
    BY <2>1, <2>2
  <2>7. mods'[Len(mods) + 1] = m /\ \A i \in DOMAIN mods : mods'[i] = mods[i]
    BY <2>1, <2>2
  <2>8. \A i \in DOMAIN mods' : i \in DOMAIN mods \/ i = Len(mods) + 1
    BY <2>4, <2>6
  <2>9. m \notin clash => \A i \in DOMAIN mods : mods[i] # m
    BY <2>1, <2>5 DEF ModuleInv, Importing
  <2>10. CodeRunsOnce'
    BY <2>2, <2>7, <2>8, <2>9 DEF ModuleInv, CodeRunsOnce
  <2>11. ASSUME NEW x \in Modules, cache'[x] = 0, NEW i \in DOMAIN mods' PROVE mods'[i] # x
    <3>1. x # m /\ cache[x] = 0
      BY <2>1, <2>3, <2>4, <2>11
    <3> QED BY <2>7, <2>8, <2>11, <3>1 DEF ModuleInv, Importing
  <2>12. ASSUME NEW v \in Threads PROVE Alone(v)'
    <3>1. CASE v = t
      BY <2>1, <3>1 DEF ModuleOps
    <3>2. CASE v # t
      <4>1. at[v] \in ModuleOps => Step(v).arg \in Modules
        BY <1>2 DEF Typed
      <4>2. at[v] \in ModuleOps /\ Step(v).arg \notin clash => Step(v).arg # m
        BY <2>5, <3>2
      <4>3. at[v] \in ModuleOps /\ Step(v).arg \notin clash => cache'[Step(v).arg] = cache[Step(v).arg]
        BY <2>3, <2>4, <4>1, <4>2
      <4>4. at'[t] \notin ModuleOps
        BY <2>1 DEF ModuleOps
      <4> QED BY <1>2, <1>4, <2>2, <3>2, <4>3, <4>4
    <3> QED BY <3>1, <3>2
  <2> QED BY <2>10, <2>11, <2>12 DEF Importing
<1> QED BY <1>5, <1>6

LEMMA InitModules == Init => ModuleInv
<1> SUFFICES ASSUME Init PROVE ModuleInv
  OBVIOUS
<1>1. at = [t \in Threads |-> "code"] /\ mods = <<>> /\ cache = [m \in Modules |-> 0]
  BY DEF Init
<1>2. frames \in [Threads -> Seq(Frames)]
  <2>1. \A t \in Threads : <<[of |-> t, pc |-> 1]>> \in Seq(Frames)
    BY DEF Frames
  <2> QED BY <2>1 DEF Init
<1>3. Typed
  BY <1>1, <1>2 DEF Typed, Places, ModuleOps
<1>4. Importing /\ CodeRunsOnce
  BY <1>1 DEF Importing, CodeRunsOnce, ModuleOps
<1> QED BY <1>3, <1>4 DEF ModuleInv

\* loader_loadmodule (load.c:366-403): the code of a module runs once, whoever
\* imports it, in whatever order, and whether or not it throws.
THEOREM CodeAlwaysRunsOnce == Spec => []CodeRunsOnce
<1>1. ModuleInv /\ [Next]_vars => ModuleInv'
  BY TypedStep, ImportingStep DEF ModuleInv
<1>2. ModuleInv => CodeRunsOnce
  BY DEF ModuleInv
<1> QED BY <1>1, <1>2, InitModules, PTL DEF Spec

-----------------------------------------------------------------------------
(* Names of primitives. *)

Cutting(t) == at[t] \in StringOps \ Uncut

\* A load that an exception left is never forgotten.
LEMMA FailedGrows == Next => failed \subseteq failed' /\ FailedStrings \subseteq FailedStrings'
<1> SUFFICES ASSUME Next PROVE failed \subseteq failed'
  BY DEF FailedStrings
<1> QED BY DEF Next, Import, Read, Execute, Finish, Fail, Prim, ReadHead, Cut, Search, Open, Link, Share,
        NameKind, EntryThrows, Symbol

LEMMA NamesStep == Typed /\ NamesAreRestored /\ [Next]_vars => NamesAreRestored'
<1>1. ASSUME NamesAreRestored, UNCHANGED vars PROVE NamesAreRestored'
  BY <1>1 DEF NamesAreRestored, FailedStrings, vars, Step, Top
<1> SUFFICES ASSUME Typed, NamesAreRestored, Next, NEW t \in Threads, Kind(t),
                    \/ Import(t) \/ Read(t) \/ Execute(t) \/ Finish(t) \/ Fail(t)
                    \/ Prim(t) \/ ReadHead(t) \/ Cut(t) \/ Search(t) \/ Open(t) \/ Link(t)
                    \/ Share(t) \/ NameKind(t) \/ EntryThrows(t) \/ Symbol(t),
                    NEW s \in Strings \ whole', s \notin FailedStrings'
             PROVE  \E u \in Threads : Cutting(u)' /\ Step(u)'.arg = s
  BY <1>1, Kinds DEF Next, Kind, NamesAreRestored, Cutting
<1>2. \A u \in Threads \ {t} : Step(u)' = Step(u) /\ (Cutting(u)' <=> Cutting(u))
  BY OthersStay DEF Cutting
<1>3. s \notin whole => \E u \in Threads : Cutting(u) /\ Step(u).arg = s
  <2>1. s \notin FailedStrings
    BY FailedGrows
  <2> QED BY <2>1 DEF NamesAreRestored, Cutting
<1>4. at \in [Threads -> Places]
  BY DEF Typed
\* If s was cut before, the thread that will put it back has not done so.
<1>5. ASSUME s \notin whole, ~Cutting(t) PROVE \E u \in Threads : Cutting(u)' /\ Step(u)'.arg = s
  BY <1>2, <1>3, <1>5
<1>6. ASSUME s \notin whole, Cutting(t)', Step(t)' = Step(t)
      PROVE  \E u \in Threads : Cutting(u)' /\ Step(u)'.arg = s
  BY <1>2, <1>3, <1>6
<1>7. CASE Import(t) \/ Read(t) \/ Execute(t) \/ Finish(t) \/ Fail(t) \/ Prim(t) \/ ReadHead(t)
  <2>1. whole' = whole /\ ~Cutting(t)
    BY <1>7 DEF Import, Read, Execute, Finish, Fail, Prim, ReadHead, Cutting, StringOps, Uncut,
           LibraryOps
  <2> QED BY <1>5, <2>1
<1>8. CASE Cut(t)
  <2>1. whole' = whole \ {Step(t).arg} /\ Cutting(t)' /\ Step(t)' = Step(t) /\ ~Cutting(t)
    BY <1>4, <1>8 DEF Cut, Goes, Cutting, StringOps, Uncut, LibraryOps, Step, Top
  <2>2. CASE s = Step(t).arg
    BY <2>1, <2>2
  <2> QED BY <1>5, <2>1, <2>2
<1>9. CASE Search(t) \/ Link(t) \/ Share(t) \/ NameKind(t)
  <2>1. whole' = whole
    BY <1>9 DEF Search, Link, Share, NameKind, libraries
  <2>2. Cutting(t)' /\ Step(t)' = Step(t)
    BY <1>4, <1>9 DEF Search, Link, Share, NameKind, Goes, Cutting, StringOps, Uncut, LibraryOps, Step,
           Top
  <2> QED BY <1>6, <2>1, <2>2
<1>10. CASE Open(t)
  <2>1. CASE Prefix(Step(t).arg) \in Libraries
    <3>1. whole' = whole /\ Cutting(t)' /\ Step(t)' = Step(t)
      BY <1>4, <1>10, <2>1 DEF Open, Goes, Cutting, StringOps, Uncut, LibraryOps, Step, Top
    <3> QED BY <1>6, <3>1
  <2>2. CASE Prefix(Step(t).arg) \notin Libraries
    <3>1. whole' = whole \cup {Step(t).arg}
      BY <1>10, <2>2 DEF Open, Restored
    <3> QED BY <1>2, <1>3, <3>1
  <2> QED BY <2>1, <2>2
<1>11. CASE Symbol(t)
  <2>1. whole' = whole \cup {Step(t).arg}
    BY <1>11 DEF Symbol, Restored
  <2> QED BY <1>2, <1>3, <2>1
\* The one way out that does not put it back.
<1>12. CASE EntryThrows(t)
  <2> DEFINE left == [string |-> Step(t).arg, lib |-> handle[t], shared |-> at[t] = "entry"]
  <2>1. whole' = whole /\ left \in failed' /\ left.string = Step(t).arg
    BY <1>12 DEF EntryThrows
  <2> HIDE DEF left
  <2>2. Step(t).arg \in FailedStrings'
    BY <2>1 DEF FailedStrings
  <2>3. s \notin whole /\ s # Step(t).arg
    BY <2>1, <2>2
  <2> QED BY <1>2, <1>3, <2>3
<1> QED BY <1>7, <1>8, <1>9, <1>10, <1>11, <1>12

\* load_primitive (load.c:194-258): the @ of a name is put back when the library
\* or the primitive is found or missing; a name that stays cut is that of a load
\* which an exception of the entry point (load.c:242) left.
THEOREM NamesAreAlwaysRestored == Spec => []NamesAreRestored
<1>1. Init => Typed /\ NamesAreRestored
  BY InitModules DEF ModuleInv, NamesAreRestored, Init
<1>2. Typed /\ NamesAreRestored /\ [Next]_vars => Typed' /\ NamesAreRestored'
  BY TypedStep, NamesStep
<1> QED BY <1>1, <1>2, PTL DEF Spec

-----------------------------------------------------------------------------
(* What a step does to strings and libraries. *)

Acts(t) ==
    \/ Import(t) \/ Read(t) \/ Execute(t) \/ Finish(t) \/ Fail(t)
    \/ Prim(t) \/ ReadHead(t) \/ Cut(t) \/ Search(t) \/ Open(t) \/ Link(t) \/ Share(t)
    \/ NameKind(t) \/ EntryThrows(t) \/ Symbol(t)

LEMMA StepActs == Typed /\ Next => \E t \in Threads : Kind(t) /\ Acts(t)
BY Kinds DEF Next, Kind, Acts

\* The steps that touch no library.
Elsewhere(t) ==
    \/ Import(t) \/ Read(t) \/ Execute(t) \/ Finish(t) \/ Fail(t) \/ Prim(t) \/ Cut(t)
    \/ EntryThrows(t) \/ Symbol(t)

LEMMA ThrowsCode == ASSUME Typed, NEW t \in Threads, Throw(t) PROVE at'[t] = "code"
BY DEF Throw, Typed

\* Where t is, and where it comes to.
LEMMA PlacesOf ==
    ASSUME Typed, NEW t \in Threads
    PROVE  /\ Import(t) => at[t] = "code" /\ at'[t] \in {"code", "read"}
           /\ Read(t) => at[t] = "read" /\ at'[t] \in {"code", "execute"}
           /\ Execute(t) => at[t] = "execute" /\ at'[t] = "code"
           /\ Finish(t) \/ Fail(t) => at[t] = "code" /\ at'[t] = "code"
           /\ Prim(t) => at[t] = "code" /\ at'[t] \in {"code", "head"}
           /\ ReadHead(t) => at[t] = "head" /\ at'[t] = "cut"
           /\ Cut(t) => at[t] = "cut" /\ at'[t] = "search"
           /\ Search(t) => at[t] = "search" /\ at'[t] \in {"symbol", "open"}
           /\ Open(t) => at[t] = "open" /\ at'[t] \in {"link", "code"}
           /\ Link(t) => at[t] = "link" /\ at'[t] = "share"
           /\ Share(t) => at[t] = "share" /\ at'[t] \in {"entry", "name"}
           /\ NameKind(t) => at[t] = "name" /\ at'[t] = "entry"
           /\ EntryThrows(t) => at[t] \in {"share", "entry"} /\ at'[t] = "code"
           /\ Symbol(t) => at[t] \in {"symbol", "entry"} /\ at'[t] = "code"
<1>1. \A x : Goes(t, x) => at'[t] = x
  BY DEF Goes, Typed
<1>2. Returns(t) => at'[t] = "code"
  BY DEF Returns, Typed
<1>3. Throw(t) => at'[t] = "code"
  BY ThrowsCode
<1>4. Import(t) => at[t] = "code" /\ at'[t] \in {"code", "read"}
  BY <1>1, <1>2 DEF Import
<1>5. Read(t) => at[t] = "read" /\ at'[t] \in {"code", "execute"}
  BY <1>1, <1>3 DEF Read
<1>6. /\ Execute(t) => at[t] = "execute" /\ at'[t] = "code"
      /\ Finish(t) \/ Fail(t) => at[t] = "code" /\ at'[t] = "code"
  BY <1>3 DEF Execute, Finish, Fail, Typed
<1>7. Prim(t) => at[t] = "code" /\ at'[t] \in {"code", "head"}
  BY <1>1, <1>3 DEF Prim, NotFound
<1>8. /\ ReadHead(t) => at[t] = "head" /\ at'[t] = "cut"
      /\ Cut(t) => at[t] = "cut" /\ at'[t] = "search"
  BY <1>1 DEF ReadHead, Cut
<1>9. Search(t) => at[t] = "search" /\ at'[t] \in {"symbol", "open"}
  BY <1>1 DEF Search
<1>10. Open(t) => at[t] = "open" /\ at'[t] \in {"link", "code"}
  BY <1>1, <1>3 DEF Open, NotFound
<1>11. Link(t) => at[t] = "link" /\ at'[t] = "share"
  BY <1>1 DEF Link
<1>12. Share(t) => at[t] = "share" /\ at'[t] \in {"entry", "name"}
  BY <1>1 DEF Share
<1>13. NameKind(t) => at[t] = "name" /\ at'[t] = "entry"
  BY <1>1 DEF NameKind
<1>14. /\ EntryThrows(t) => at[t] \in {"share", "entry"} /\ at'[t] = "code"
       /\ Symbol(t) => at[t] \in {"symbol", "entry"} /\ at'[t] = "code"
  BY <1>2, <1>3 DEF EntryThrows, Symbol, NotFound
<1> QED BY <1>4, <1>5, <1>6, <1>7, <1>8, <1>9, <1>10, <1>11, <1>12, <1>13, <1>14

LEMMA ClashGrows == ASSUME NEW t \in Threads, Acts(t) PROVE clash \subseteq clash'
<1>1. CASE Import(t)
  BY <1>1, NotesGrow DEF Import
<1>2. CASE Prim(t)
  BY <1>2, NotesGrow DEF Prim
<1>3. CASE Search(t)
  BY <1>3, NotesGrow DEF Search
<1> QED BY <1>1, <1>2, <1>3 DEF Acts, Read, Execute, Finish, Fail, ReadHead, Cut, Open, Link, Share,
        NameKind, EntryThrows, Symbol

-----------------------------------------------------------------------------
(* Libraries and kinds. *)

LibrariesTyped ==
    /\ libs \in Seq(Libraries) /\ kinds \in Seq(Libraries)
    /\ kindOf \in [Libraries -> Libraries] /\ entered \in [Libraries -> Nat]
    /\ handle \in [Threads -> Libraries \cup {<<>>}] /\ next \in [Threads -> Seq(Libraries)]
    /\ \A t \in Threads : at[t] \in {"link", "share", "name"} => handle[t] \in Libraries

Opened(l) == \E k \in DOMAIN libs : libs[k] = l

LEMMA Least == ASSUME NEW S, S \subseteq Nat, S # {} PROVE \E k \in S : \A j \in S : k <= j
<1>1. PICK x \in S : \A y \in S : ~(<<y, x>> \in OpToRel(<, Nat))
  BY NatLessThanWellFounded, WFMin
<1>2. \A y \in S : ~(y < x)
  BY <1>1 DEF OpToRel
<1>3. \A y \in S : x <= y
  <2> TAKE y \in S
  <2>1. x \in Nat /\ y \in Nat
    OBVIOUS
  <2> QED BY <1>2, <2>1
<1> QED BY <1>3

\* The library that is found has the name that the string says; one that is not
\* found, in a list that is still the present one, is not open.
LEMMA SearchFinds ==
    ASSUME LibrariesTyped, NEW t \in Threads, Search(t)
    PROVE  /\ \/ at' = [at EXCEPT ![t] = "open"] /\ handle' = handle
                 /\ next[t] = libs /\ ~Opened(Prefix(Step(t).arg)) /\ Notes(t, LibraryOps, "libs")
              \/ at' = [at EXCEPT ![t] = "open"] /\ handle' = handle /\ "libs" \in clash'
              \/ /\ at' = [at EXCEPT ![t] = "symbol"] /\ Prefix(Step(t).arg) \in Libraries
                 /\ handle' = [handle EXCEPT ![t] = Prefix(Step(t).arg)]
           /\ UNCHANGED <<libs, kinds, kindOf, entered, next, whole>>
<1> DEFINE name == Prefix(Step(t).arg)
           read == next[t]
           same == {k \in DOMAIN read : SameName(read[k], name)}
<1>1. UNCHANGED <<libs, kinds, kindOf, entered, next, whole>>
  BY DEF Search
<1>2. CASE same = {}
  <2>1. /\ at' = [at EXCEPT ![t] = "open"] /\ handle' = handle
        /\ IF read = libs THEN Notes(t, LibraryOps, "libs") ELSE clash' = clash \cup {"libs"}
    BY <1>2 DEF Search, Goes
  <2>2. read = libs => ~Opened(name)
    BY <1>2 DEF Opened, SameName
  <2> QED BY <1>1, <2>1, <2>2
<1>3. CASE same # {}
  <2> DEFINE i == CHOOSE k \in same : \A j \in same : k <= j
  <2>1. at' = [at EXCEPT ![t] = "symbol"] /\ handle' = [handle EXCEPT ![t] = read[i]]
    BY <1>3 DEF Search, Goes
  <2>2. read \in Seq(Libraries) /\ DOMAIN read \subseteq Nat
    BY DEF LibrariesTyped
  <2>3. same \subseteq Nat
    BY <2>2
  <2>4. \E k \in same : \A j \in same : k <= j
    <3> HIDE DEF same
    <3> QED BY <1>3, <2>3, Least
  <2>5. i \in same
    <3> HIDE DEF same
    <3> QED BY <2>4
  <2> HIDE DEF i
  <2>6. i \in DOMAIN read /\ read[i] = name
    BY <2>5 DEF SameName
  <2>7. read[i] \in Libraries
    <3> HIDE DEF read
    <3> QED BY <2>2, <2>6
  <2> HIDE DEF name
  <2> QED BY <1>1, <2>1, <2>6, <2>7 DEF name
<1> QED BY <1>2, <1>3

LEMMA LibrariesTypedStep == Typed /\ LibrariesTyped /\ [Next]_vars => LibrariesTyped'
<1>1. ASSUME LibrariesTyped, UNCHANGED vars PROVE LibrariesTyped'
  BY <1>1 DEF LibrariesTyped, vars, libraries
<1> SUFFICES ASSUME Typed, LibrariesTyped, NEW t \in Threads, Kind(t), Acts(t)
             PROVE  LibrariesTyped'
  BY <1>1, StepActs
<1>2. \A u \in Threads \ {t} : at'[u] = at[u]
  BY OthersStay
<1>3. CASE Elsewhere(t)
  <2>1. UNCHANGED libraries
    BY <1>3 DEF Elsewhere, Import, Read, Execute, Finish, Fail, Prim, Cut, EntryThrows, Symbol
  <2>2. at'[t] \notin {"link", "share", "name"}
    BY <1>3, PlacesOf DEF Elsewhere
  <2> QED BY <1>2, <2>1, <2>2 DEF LibrariesTyped, libraries
<1>4. CASE Search(t)
  <2>1. at'[t] \notin {"link", "share", "name"}
    BY <1>4, PlacesOf
  <2>2. /\ handle' \in [Threads -> Libraries \cup {<<>>}]
        /\ \A u \in Threads \ {t} : handle'[u] = handle[u]
        /\ UNCHANGED <<libs, kinds, kindOf, entered, next>>
    BY <1>4, SearchFinds DEF LibrariesTyped
  <2> QED BY <1>2, <2>1, <2>2 DEF LibrariesTyped
<1>5. CASE Open(t)
  <2>1. CASE Prefix(Step(t).arg) \in Libraries
    <3>1. /\ handle' = [handle EXCEPT ![t] = Prefix(Step(t).arg)]
          /\ next' = [next EXCEPT ![t] = libs] /\ UNCHANGED <<libs, kinds, kindOf, entered>>
      BY <1>5, <2>1 DEF Open
    <3> QED BY <1>2, <2>1, <3>1 DEF LibrariesTyped
  <2>2. CASE Prefix(Step(t).arg) \notin Libraries
    <3>1. UNCHANGED libraries /\ NotFound(t)
      BY <1>5, <2>2 DEF Open, libraries
    <3>2. at'[t] = "code"
      BY <3>1, ThrowsCode DEF NotFound
    <3> QED BY <1>2, <3>1, <3>2 DEF LibrariesTyped, libraries
  <2> QED BY <2>1, <2>2
<1>6. CASE Link(t)
  <2>1. handle[t] \in Libraries /\ next[t] \in Seq(Libraries)
    BY <1>6 DEF Link, LibrariesTyped
  <2>2. libs' \in Seq(Libraries)
    BY <1>6, <2>1 DEF Link, Linked
  <2>3. entered' \in [Libraries -> Nat] /\ UNCHANGED <<kinds, kindOf, handle, next>>
    BY <1>6, <2>1 DEF Link, LibrariesTyped
  <2> QED BY <1>2, <2>1, <2>2, <2>3 DEF LibrariesTyped
<1>7. CASE Share(t)
  <2>1. handle[t] \in Libraries /\ UNCHANGED <<libs, kinds, entered, handle>>
    BY <1>7 DEF Share, LibrariesTyped
  <2>2. CASE kinds # <<>>
    <3>1. kindOf' = [kindOf EXCEPT ![handle[t]] = kinds[1]] /\ UNCHANGED next
      BY <1>7, <2>2 DEF Share, KindFound
    <3>2. kinds[1] \in Libraries
      BY <2>2 DEF LibrariesTyped
    <3> QED BY <1>2, <2>1, <3>1, <3>2 DEF LibrariesTyped
  <2>3. CASE kinds = <<>>
    <3>1. next' = [next EXCEPT ![t] = kinds] /\ UNCHANGED kindOf
      BY <1>7, <2>3 DEF Share
    <3> QED BY <1>2, <2>1, <3>1 DEF LibrariesTyped
  <2> QED BY <2>2, <2>3
<1>8. CASE NameKind(t)
  <2>1. handle[t] \in Libraries /\ next[t] \in Seq(Libraries) /\ kindOf[handle[t]] \in Libraries
    BY <1>8 DEF NameKind, LibrariesTyped
  <2>2. kinds' \in Seq(Libraries)
    BY <1>8, <2>1 DEF NameKind
  <2>3. at'[t] \notin {"link", "share", "name"} /\ UNCHANGED <<libs, kindOf, entered, handle, next>>
    BY <1>8, PlacesOf DEF NameKind
  <2> QED BY <1>2, <2>2, <2>3 DEF LibrariesTyped
<1>9. CASE ReadHead(t)
  <2>1. at'[t] \notin {"link", "share", "name"}
    BY <1>9, PlacesOf
  <2>2. next' = [next EXCEPT ![t] = libs] /\ UNCHANGED <<libs, kinds, kindOf, entered, handle>>
    BY <1>9 DEF ReadHead
  <2> QED BY <1>2, <2>1, <2>2 DEF LibrariesTyped
<1> QED BY <1>3, <1>4, <1>5, <1>6, <1>7, <1>8, <1>9 DEF Acts, Elsewhere

-----------------------------------------------------------------------------
(* What is found. *)

\* Where a thread has the library its string names.
Holding == {"link", "share", "name", "entry", "symbol"}

\* Of two threads that load one primitive there is a note in clash; one alone
\* keeps the @ cut until it has the library that the string names.
LoadsAlone(t) ==
    at[t] \in StringOps /\ Step(t).arg \notin clash =>
        /\ \A u \in Threads \ {t} : at[u] \in StringOps => Step(u).arg # Step(t).arg
        /\ at[t] \notin Uncut => Step(t).arg \notin whole
        /\ at[t] \in Holding => handle[t] = Text[Step(t).arg].lib

Loading ==
    /\ \A t \in Threads : at[t] \in StringOps => Step(t).arg \in Strings
    /\ \A t \in Threads : LoadsAlone(t)

\* What a step of t can do to the strings that others load.
LEMMA StringSteps ==
    ASSUME Typed, LibrariesTyped, NEW t \in Threads, Kind(t), Acts(t)
    PROVE  /\ \A u \in Threads \ {t} : handle'[u] = handle[u]
           /\ IF at[t] \in StringOps THEN whole' \subseteq whole \cup {Step(t).arg}
              ELSE whole' = whole
           /\ at'[t] \in StringOps =>
                  /\ Step(t)' = Step(t)
                  /\ \/ at[t] \in StringOps
                     \/ Prim(t) /\ at'[t] = "head" /\ Notes(t, StringOps, Step(t).arg)
<1> DEFINE Others == \A u \in Threads \ {t} : handle'[u] = handle[u]
           s == Step(t).arg
           Stays == at'[t] \in StringOps => Step(t)' = Step(t)
<1>1. Stays
  BY SelfMoves DEF StringOps, Uncut, LibraryOps
<1>2. CASE Import(t) \/ Read(t) \/ Execute(t) \/ Finish(t) \/ Fail(t)
  <2>1. at[t] \notin StringOps /\ at'[t] \notin StringOps
    BY <1>2, PlacesOf DEF StringOps, Uncut, LibraryOps
  <2> QED BY <1>2, <2>1 DEF Import, Read, Execute, Finish, Fail, libraries
<1>3. CASE Prim(t)
  <2>1. at[t] = "code" /\ at'[t] \in {"code", "head"}
    BY <1>3, PlacesOf
  <2>2. UNCHANGED <<whole, handle>> /\ Notes(t, StringOps, Step(t).arg)
    BY <1>3 DEF Prim, libraries
  <2> QED BY <1>1, <1>3, <2>1, <2>2 DEF StringOps, Uncut, LibraryOps
<1>4. CASE ReadHead(t) \/ Cut(t)
  <2>1. at[t] \in StringOps /\ UNCHANGED handle /\ whole' \subseteq whole
    BY <1>4 DEF ReadHead, Cut, StringOps, Uncut, libraries
  <2> QED BY <1>1, <2>1
<1>5. CASE Search(t)
  <2>1. at[t] \in StringOps
    BY <1>5 DEF Search, StringOps
  <2>2. whole' = whole /\ Others
    BY <1>5, SearchFinds DEF LibrariesTyped
  <2> QED BY <1>1, <2>1, <2>2
<1>6. CASE Open(t)
  <2>1. at[t] \in StringOps
    BY <1>6 DEF Open, StringOps, LibraryOps
  <2>2. whole' \subseteq whole \cup {s} /\ Others
    BY <1>6 DEF Open, Restored, LibrariesTyped
  <2> QED BY <1>1, <2>1, <2>2
<1>7. CASE Link(t) \/ Share(t) \/ NameKind(t)
  <2>1. at[t] \in StringOps /\ UNCHANGED <<whole, handle>>
    BY <1>7 DEF Link, Share, NameKind, StringOps, LibraryOps
  <2> QED BY <1>1, <2>1
<1>8. CASE EntryThrows(t) \/ Symbol(t)
  <2>1. at[t] \in StringOps /\ UNCHANGED handle /\ whole' \subseteq whole \cup {s}
    BY <1>8 DEF EntryThrows, Symbol, StringOps, LibraryOps, Restored, libraries
  <2> QED BY <1>1, <2>1
<1> QED BY <1>2, <1>3, <1>4, <1>5, <1>6, <1>7, <1>8 DEF Acts

LEMMA Named == ASSUME NEW s \in Steps, s.op = "prim" PROVE s.arg \in Strings
BY DEF Steps

LEMMA PrimNames == ASSUME Typed, NEW t \in Threads, Prim(t) PROVE Step(t).arg \in Strings
<1>1. Calls(t, "prim")
  BY DEF Prim
<1> QED BY <1>1, CallType, Named

\* As long as t loads a string alone, it reads the name of the library.
LEMMA ReadsName ==
    ASSUME Loading, NEW t \in Threads, at[t] \in StringOps, at[t] \notin Uncut,
           Step(t).arg \notin clash
    PROVE  Step(t).arg \in Strings /\ Prefix(Step(t).arg) = Text[Step(t).arg].lib
BY DEF Loading, LoadsAlone, Prefix

LEMMA LoadingStep == Typed /\ LibrariesTyped /\ Loading /\ [Next]_vars => Loading'
<1>1. ASSUME Loading, UNCHANGED vars PROVE Loading'
  BY <1>1 DEF Loading, LoadsAlone, vars, libraries, Step, Top
<1> SUFFICES ASSUME Typed, LibrariesTyped, Loading, NEW t \in Threads, Kind(t), Acts(t)
             PROVE  Loading'
  BY <1>1, StepActs
<1> DEFINE s == Step(t).arg
<1>2. \A u \in Threads \ {t} : Step(u)' = Step(u) /\ at'[u] = at[u] /\ handle'[u] = handle[u]
  BY OthersStay, StringSteps
<1>3. /\ clash \subseteq clash'
      /\ IF at[t] \in StringOps THEN whole' \subseteq whole \cup {s} ELSE whole' = whole
  BY ClashGrows, StringSteps
<1>4. at'[t] \in StringOps =>
          /\ Step(t)' = Step(t)
          /\ \/ at[t] \in StringOps
             \/ Prim(t) /\ at'[t] = "head" /\ Notes(t, StringOps, s)
  BY StringSteps
<1>5. ASSUME Notes(t, StringOps, s), s \notin clash', NEW u \in Threads \ {t}, at[u] \in StringOps
      PROVE  Step(u).arg # s
  BY <1>5 DEF Notes, Working
<1>6. ASSUME NEW v \in Threads PROVE at'[v] \in StringOps => Step(v)'.arg \in Strings
  <2>1. CASE v # t
    BY <1>2, <2>1 DEF Loading
  <2>2. CASE v = t
    BY <1>4, <2>2, PrimNames DEF Loading
  <2> QED BY <2>1, <2>2
<1>7. ASSUME NEW v \in Threads \ {t} PROVE LoadsAlone(v)'
  <2> SUFFICES ASSUME at[v] \in StringOps, Step(v).arg \notin clash'
               PROVE  /\ \A u \in Threads \ {v} : at'[u] \in StringOps => Step(u)'.arg # Step(v).arg
                      /\ at[v] \notin Uncut => Step(v).arg \notin whole'
                      /\ at[v] \in Holding =>
                             handle[v] = Text[Step(v).arg].lib
    BY <1>2 DEF LoadsAlone
  <2>1. Step(v).arg \notin clash /\ LoadsAlone(v)
    BY <1>3 DEF Loading
  <2>2. at[t] \in StringOps => s # Step(v).arg
    BY <2>1 DEF LoadsAlone
  <2>3. at'[t] \in StringOps => Step(t)'.arg # Step(v).arg
    BY <1>4, <1>5, <2>2
  <2>4. at[v] \notin Uncut => Step(v).arg \notin whole'
    BY <1>3, <2>1, <2>2 DEF LoadsAlone
  <2> QED BY <1>2, <2>1, <2>3, <2>4 DEF LoadsAlone
<1>8. LoadsAlone(t)'
  <2> SUFFICES ASSUME at'[t] \in StringOps, s \notin clash'
               PROVE  /\ \A u \in Threads \ {t} : at'[u] \in StringOps => Step(u)'.arg # s
                      /\ at'[t] \notin Uncut => s \notin whole'
                      /\ at'[t] \in Holding =>
                             handle'[t] = Text[s].lib
    BY <1>4 DEF LoadsAlone
  <2>1. CASE Prim(t)
    <3>1. at'[t] = "head" /\ Notes(t, StringOps, s)
      BY <2>1, <1>4, PlacesOf DEF StringOps, Uncut, LibraryOps
    <3> QED BY <1>2, <1>5, <3>1 DEF Uncut, Holding
  <2>2. CASE ~Prim(t)
    <3>1. at[t] \in StringOps /\ s \notin clash /\ LoadsAlone(t)
      BY <1>3, <1>4, <2>2 DEF Loading
    <3>2. \A u \in Threads \ {t} : at'[u] \in StringOps => Step(u)'.arg # s
      BY <1>2, <3>1 DEF LoadsAlone
    <3>3. CASE Cut(t)
      <4>1. s \notin whole' /\ at'[t] = "search"
        BY <3>3, PlacesOf DEF Cut
      <4> QED BY <3>2, <4>1 DEF Holding
    <3>4. CASE Search(t)
      <4>1. at[t] = "search" /\ at[t] \notin Uncut
        BY <3>4, PlacesOf DEF Uncut
      <4>2. s \notin whole /\ Prefix(s) = Text[s].lib
        BY <3>1, <4>1, ReadsName DEF LoadsAlone
      <4>3. /\ whole' = whole
            /\ at' = [at EXCEPT ![t] = "open"] \/ handle' = [handle EXCEPT ![t] = Prefix(s)]
        BY <3>4, SearchFinds
      <4>4. at'[t] = "open" \/ handle'[t] = Prefix(s)
        BY <4>3 DEF LibrariesTyped, Typed
      <4> QED BY <3>2, <4>2, <4>3, <4>4 DEF Holding
    <3>5. CASE Open(t)
      <4>1. at[t] = "open" /\ at'[t] = "link" /\ at[t] \notin Uncut
        BY <3>5, PlacesOf DEF StringOps, Uncut, LibraryOps
      <4>2. s \notin whole /\ Prefix(s) = Text[s].lib
        BY <3>1, <4>1, ReadsName DEF LoadsAlone
      <4>3. Prefix(s) \in Libraries
        <5>1. ASSUME Prefix(s) \notin Libraries PROVE FALSE
          <6>1. Throw(t)
            BY <3>5, <5>1 DEF Open, NotFound
          <6> QED BY <4>1, <6>1, ThrowsCode
        <5> QED BY <5>1
      <4>4. whole' = whole /\ handle' = [handle EXCEPT ![t] = Prefix(s)]
        BY <3>5, <4>3 DEF Open
      <4>5. handle'[t] = Prefix(s)
        BY <4>4 DEF LibrariesTyped
      <4> QED BY <3>2, <4>2, <4>4, <4>5
    <3>6. CASE Link(t) \/ Share(t) \/ NameKind(t)
      <4>1. UNCHANGED <<whole, handle>>
        BY <3>6 DEF Link, Share, NameKind
      <4>2. at[t] \in Holding /\ at[t] \notin Uncut
        BY <3>6, PlacesOf DEF Holding, Uncut
      <4> QED BY <3>1, <3>2, <4>1, <4>2 DEF LoadsAlone
    <3>7. CASE EntryThrows(t) \/ Symbol(t) \/ Import(t) \/ Read(t) \/ Execute(t) \/ Finish(t)
               \/ Fail(t)
      BY <3>7, PlacesOf DEF StringOps, Uncut, LibraryOps
    <3>8. CASE ReadHead(t)
      <4>1. at'[t] = "cut"
        BY <3>8, PlacesOf
      <4> QED BY <3>2, <4>1 DEF Uncut, Holding
    <3> QED BY <2>2, <3>3, <3>4, <3>5, <3>6, <3>7, <3>8 DEF Acts
  <2> QED BY <2>1, <2>2
<1> QED BY <1>6, <1>7, <1>8 DEF Loading

LEMMA PrimitivesStep ==
    ASSUME Typed, LibrariesTyped, Loading, NamesAreRestored, PrimitivesAreFound, [Next]_vars
    PROVE  PrimitivesAreFound'
<1>1. ASSUME UNCHANGED vars PROVE PrimitivesAreFound'
  BY <1>1 DEF PrimitivesAreFound, FailedStrings, vars
<1> SUFFICES ASSUME Next, NEW t \in Threads, Kind(t), Acts(t) PROVE PrimitivesAreFound'
  BY <1>1, StepActs
<1> DEFINE s == Step(t).arg
           Right(f) == f.string \in clash' \/ f.lib = Text[f.string].lib
           Absent(x) == x \in clash' \cup FailedStrings' \/ [lib |-> Text[x].lib, sym |-> Text[x].sym] \notin Symbols
<1>2. clash \subseteq clash' /\ FailedStrings \subseteq FailedStrings'
  BY ClashGrows, FailedGrows
<1>3. (\A f \in found : Right(f)) /\ (\A x \in lost : Absent(x))
  BY <1>2 DEF PrimitivesAreFound
<1>4. ASSUME found' = found, lost' \subseteq lost \cup {s}, lost' = lost \/ Absent(s)
      PROVE  PrimitivesAreFound'
  BY <1>3, <1>4 DEF PrimitivesAreFound
<1>5. CASE Import(t) \/ Read(t) \/ Execute(t) \/ Finish(t) \/ Fail(t)
           \/ ReadHead(t) \/ Cut(t) \/ Search(t) \/ Link(t) \/ Share(t) \/ NameKind(t)
           \/ EntryThrows(t)
  <2>1. found' = found /\ lost' = lost
    BY <1>5 DEF Import, Read, Execute, Finish, Fail, ReadHead, Cut, Search, Link, Share, NameKind,
           EntryThrows
  <2> QED BY <1>4, <2>1
<1>6. CASE Prim(t)
  <2>1. found' = found /\ Notes(t, StringOps, s) /\ at[t] = "code" /\ s \in Strings
    BY <1>6, PrimNames DEF Prim
  <2>2. CASE s \in whole
    BY <1>4, <1>6, <2>1, <2>2 DEF Prim
  \* It was left cut, or somebody has cut it, and so there are two.
  <2>3. CASE s \notin whole
    <3>1. ASSUME s \notin FailedStrings PROVE s \in clash'
      <4>1. PICK u \in Threads : at[u] \in StringOps \ Uncut /\ Step(u).arg = s
        BY <2>1, <2>3, <3>1 DEF NamesAreRestored
      <4>2. u # t
        BY <2>1, <4>1 DEF StringOps, Uncut, LibraryOps
      <4> QED BY <2>1, <4>1, <4>2 DEF Notes, Working
    <3>2. lost' = lost \cup {s}
      BY <1>6, <2>3 DEF Prim, NotFound
    <3>3. s \in clash' \cup FailedStrings'
      BY <1>2, <3>1
    <3> QED BY <1>4, <2>1, <3>2, <3>3
  <2> QED BY <2>2, <2>3
<1>7. CASE Open(t)
  <2>1. found' = found
    BY <1>7 DEF Open
  <2>2. CASE Prefix(s) \in Libraries
    BY <1>4, <1>7, <2>1, <2>2 DEF Open
  <2>3. CASE Prefix(s) \notin Libraries
    <3>1. lost' = lost \cup {s} /\ at[t] \in StringOps /\ at[t] \notin Uncut
      BY <1>7, <2>3 DEF Open, NotFound, StringOps, Uncut, LibraryOps
    <3>2. s \in clash \/ Text[s].lib \notin Libraries
      BY <2>3, <3>1, ReadsName
    <3>3. s \in clash \/ [lib |-> Text[s].lib, sym |-> Text[s].sym] \notin Symbols
      BY <3>2, SymbolsAssumption
    <3> QED BY <1>2, <1>4, <2>1, <3>1, <3>3
  <2> QED BY <2>2, <2>3
<1>8. CASE Symbol(t)
  <2>1. at[t] \in Holding /\ at[t] \in StringOps /\ clash' = clash
    BY <1>8 DEF Symbol, StringOps, Holding
  <2>2. s \in clash \/ handle[t] = Text[s].lib
    BY <2>1 DEF Loading, LoadsAlone
  <2>3. CASE [lib |-> handle[t], sym |-> Text[s].sym] \in Symbols
    <3>1. found' = found \cup {[string |-> s, lib |-> handle[t]]} /\ lost' = lost
      BY <1>8, <2>3 DEF Symbol
    <3>2. Right([string |-> s, lib |-> handle[t]])
      BY <2>1, <2>2
    <3> QED BY <1>3, <3>1, <3>2 DEF PrimitivesAreFound
  <2>4. CASE [lib |-> handle[t], sym |-> Text[s].sym] \notin Symbols
    <3>1. found' = found /\ lost' = lost \cup {s}
      BY <1>8, <2>4 DEF Symbol, NotFound
    <3>2. Absent(s)
      BY <2>1, <2>2, <2>4
    <3> QED BY <1>4, <3>1, <3>2
  <2> QED BY <2>3, <2>4
<1> QED BY <1>5, <1>6, <1>7, <1>8 DEF Acts

LoadInv == Typed /\ NamesAreRestored /\ LibrariesTyped /\ Loading

LEMMA InitLoading == Init => LoadInv
<1> SUFFICES ASSUME Init PROVE LoadInv
  OBVIOUS
<1>1. Typed /\ NamesAreRestored
  BY InitModules DEF ModuleInv, NamesAreRestored, Init
<1>2. \A t \in Threads : at[t] = "code"
  BY DEF Init
<1>3. LibrariesTyped
  BY <1>2 DEF Init, LibrariesTyped
<1>4. Loading
  BY <1>2 DEF Loading, LoadsAlone, StringOps, Uncut, LibraryOps
<1> QED BY <1>1, <1>3, <1>4 DEF LoadInv

LEMMA LoadingStays == LoadInv /\ [Next]_vars => LoadInv'
BY TypedStep, NamesStep, LibrariesTypedStep, LoadingStep DEF LoadInv

\* loader_loadprim (load.c:194-258): a primitive comes from the library that
\* its string names, and is not found only if that library does not have it,
\* unless two threads load by one string at once or an exception of the entry
\* point (load.c:242) has left an earlier load by that string.
THEOREM PrimitivesAreAlwaysFound == Spec => []PrimitivesAreFound
<1>1. Init => LoadInv /\ PrimitivesAreFound
  BY InitLoading DEF PrimitivesAreFound, Init
<1>2. LoadInv /\ PrimitivesAreFound /\ [Next]_vars => LoadInv' /\ PrimitivesAreFound'
  BY LoadingStays, PrimitivesStep DEF LoadInv
<1> QED BY <1>1, <1>2, PTL DEF Spec

-----------------------------------------------------------------------------
(* Libraries that are shared. *)

\* A library is open once, and the one that is about to be opened is not.
OpenOnce ==
    /\ \A t, u \in Threads : at[t] \in LibraryOps /\ at[u] \in LibraryOps => t = u
    /\ \A l \in Libraries : entered[l] = IF Opened(l) THEN 1 ELSE 0
    /\ \A t \in Threads : at[t] \in {"open", "link"} => ~Opened(Text[Step(t).arg].lib)
    /\ \A t \in Threads : at[t] = "link" => next[t] = libs

OneKind ==
    /\ \A t \in Threads : at[t] = "name" => kinds = <<>> /\ next[t] = <<>>
    /\ \A l \in Libraries : HasKind(l) =>
           IF kinds = <<>> THEN \E t \in Threads : at[t] = "name" /\ handle[t] = l
           ELSE kindOf[l] = kinds[1]

Undisturbed == clash \cap (Strings \cup {"libs"}) = {}

Sharing == Undisturbed => OpenOnce /\ OneKind

LEMMA LoadsAloneWhenUndisturbed ==
    ASSUME Loading, Undisturbed, NEW t \in Threads, at[t] \in StringOps, at[t] \notin Uncut
    PROVE  /\ Step(t).arg \in Strings /\ Prefix(Step(t).arg) = Text[Step(t).arg].lib
           /\ at[t] \in Holding => handle[t] = Text[Step(t).arg].lib
<1>1. Step(t).arg \in Strings
  BY DEF Loading
<1>2. Step(t).arg \notin clash
  BY <1>1 DEF Undisturbed
<1> QED BY <1>1, <1>2, ReadsName DEF Loading, LoadsAlone

\* Which libraries a step opens, and in whose hands.
LEMMA OpenOnceStep ==
    ASSUME Typed, LibrariesTyped, Loading, Undisturbed, Undisturbed', OpenOnce,
           NEW t \in Threads, Kind(t), Acts(t)
    PROVE  OpenOnce'
<1> DEFINE s == Step(t).arg
           Unopened(u) == at[u] \in {"open", "link"} => ~Opened(Text[Step(u).arg].lib)
           Newest(u) == at[u] = "link" => next[u] = libs
           Counted(l) == entered[l] = IF Opened(l) THEN 1 ELSE 0
<1>1. \A u \in Threads \ {t} : Step(u)' = Step(u) /\ at'[u] = at[u]
  BY OthersStay
<1>2. at'[t] # "code" => Step(t)' = Step(t)
  BY SelfMoves
<1>3. /\ \A u, v \in Threads : at[u] \in LibraryOps /\ at[v] \in LibraryOps => u = v
      /\ \A l \in Libraries : Counted(l)
      /\ \A u \in Threads : Unopened(u) /\ Newest(u)
  BY DEF OpenOnce
<1>4. ASSUME at'[t] \in LibraryOps, NEW u \in Threads, at'[u] \in LibraryOps PROVE u = t
  <2>1. CASE at[t] \in LibraryOps
    BY <1>1, <1>3, <1>4, <2>1
  <2>2. CASE at[t] \notin LibraryOps
    <3>1. Search(t) /\ at'[t] = "open"
      BY <1>4, <2>2, PlacesOf DEF Acts, LibraryOps
    <3>2. Notes(t, LibraryOps, "libs")
      <4>1. at' # [at EXCEPT ![t] = "symbol"] /\ "libs" \notin clash'
        BY <3>1 DEF Typed, Undisturbed
      <4> QED BY <3>1, <4>1, SearchFinds
    <3>3. "libs" \notin clash'
      BY DEF Undisturbed
    <3>4. ~Working(t, LibraryOps, "libs")
      BY <3>2, <3>3 DEF Notes
    <3> QED BY <1>1, <1>4, <3>4 DEF Working
  <2> QED BY <2>1, <2>2
<1>5. \A u, v \in Threads : at'[u] \in LibraryOps /\ at'[v] \in LibraryOps => u = v
  BY <1>1, <1>3, <1>4
<1>6. ASSUME ~Link(t), ~Open(t), ~Search(t) PROVE OpenOnce'
  <2>1. UNCHANGED <<libs, entered>>
    BY <1>6 DEF Acts, Import, Read, Execute, Finish, Fail, Prim, ReadHead, Cut, Share, NameKind,
           EntryThrows, Symbol, libraries
  <2>2. \A u \in Threads \ {t} : next'[u] = next[u]
    BY <1>6 DEF Acts, Import, Read, Execute, Finish, Fail, Prim, ReadHead, Cut, Share, NameKind,
           EntryThrows, Symbol, libraries, LibrariesTyped
  <2>3. at'[t] \notin {"open", "link"}
    BY <1>6, PlacesOf DEF Acts
  <2>4. \A u \in Threads : Unopened(u)' /\ Newest(u)'
    BY <1>1, <1>3, <2>1, <2>2, <2>3 DEF Opened
  <2>5. \A l \in Libraries : Counted(l)'
    BY <1>3, <2>1 DEF Opened
  <2> QED BY <1>5, <2>4, <2>5 DEF OpenOnce
<1>7. CASE Search(t)
  <2>1. at[t] = "search" /\ at'[t] # "link" /\ at'[t] # "code"
    BY <1>7, PlacesOf
  <2>2. Prefix(s) = Text[s].lib
    BY <2>1, LoadsAloneWhenUndisturbed DEF StringOps, Uncut
  <2>3. UNCHANGED <<libs, entered, next>>
    BY <1>7, SearchFinds
  <2>4. at'[t] = "open" => ~Opened(Prefix(s))
    <3>1. at'[t] = "open" => at' # [at EXCEPT ![t] = "symbol"]
      BY DEF Typed
    <3>2. "libs" \notin clash'
      BY DEF Undisturbed
    <3> QED BY <1>7, <3>1, <3>2, SearchFinds
  <2>5. Unopened(t)' /\ Newest(t)'
    BY <1>2, <2>1, <2>2, <2>3, <2>4 DEF Opened
  <2>6. \A u \in Threads \ {t} : Unopened(u)' /\ Newest(u)'
    BY <1>1, <1>3, <2>3 DEF Opened
  <2>7. \A l \in Libraries : Counted(l)'
    BY <1>3, <2>3 DEF Opened
  <2> QED BY <1>5, <2>5, <2>6, <2>7 DEF OpenOnce
<1>8. CASE Open(t)
  <2>1. UNCHANGED <<libs, entered>> /\ at[t] = "open"
    BY <1>8 DEF Open
  <2>2. \A u \in Threads \ {t} : next'[u] = next[u]
    BY <1>8 DEF Open, LibrariesTyped
  <2>3. Unopened(t)' /\ Newest(t)'
    <3>1. CASE Prefix(s) \in Libraries
      <4>1. next'[t] = libs
        BY <1>8, <3>1 DEF Open, LibrariesTyped
      <4>2. at'[t] \in {"open", "link"} => Step(t)' = Step(t)
        BY <1>2
      <4> QED BY <1>3, <2>1, <4>1, <4>2 DEF Opened
    <3>2. CASE Prefix(s) \notin Libraries
      <4>1. Throw(t)
        BY <1>8, <3>2 DEF Open, NotFound
      <4>2. at'[t] = "code"
        BY <4>1, ThrowsCode
      <4> QED BY <4>2
    <3> QED BY <3>1, <3>2
  <2>4. \A u \in Threads \ {t} : Unopened(u)' /\ Newest(u)'
    BY <1>1, <1>3, <2>1, <2>2 DEF Opened
  <2>5. \A l \in Libraries : Counted(l)'
    BY <1>3, <2>1 DEF Opened
  <2> QED BY <1>5, <2>3, <2>4, <2>5 DEF OpenOnce
<1>9. CASE Link(t)
  <2>1. at[t] = "link" /\ at'[t] = "share"
    BY <1>9, PlacesOf
  <2>2. handle[t] = Text[s].lib /\ handle[t] \in Libraries
    BY <2>1, LoadsAloneWhenUndisturbed DEF StringOps, Uncut, LibraryOps, Holding, LibrariesTyped
  <2>3. libs' = <<handle[t]>> \o libs /\ entered' = [entered EXCEPT ![handle[t]] = @ + 1]
    BY <1>3, <1>9, <2>1 DEF Link, Linked
  <2>4. ~Opened(handle[t])
    BY <1>3, <2>1, <2>2
  <2>5. ASSUME NEW l PROVE Opened(l)' <=> Opened(l) \/ l = handle[t]
    <3>1. libs \in Seq(Libraries) /\ <<handle[t]>> \in Seq(Libraries)
      BY <2>2 DEF LibrariesTyped
    <3>2. /\ Len(libs') = Len(libs) + 1 /\ DOMAIN libs' = 1..(Len(libs) + 1)
          /\ DOMAIN libs = 1..Len(libs) /\ Len(libs) \in Nat
          /\ libs'[1] = handle[t] /\ \A k \in 1..Len(libs) : libs'[k + 1] = libs[k]
      BY <2>3, <3>1
    <3>3. \A k \in 1..(Len(libs) + 1) : k = 1 \/ \E j \in 1..Len(libs) : k = j + 1
      <4>1. ASSUME NEW k \in 1..(Len(libs) + 1), k # 1 PROVE k - 1 \in 1..Len(libs) /\ k = (k - 1) + 1
        BY <3>2, <4>1
      <4> QED BY <4>1
    <3>4. \A k \in 1..Len(libs) : k + 1 \in 1..(Len(libs) + 1)
      BY <3>2
    <3>5. 1 \in 1..(Len(libs) + 1)
      BY <3>2
    <3>6. ASSUME NEW k \in DOMAIN libs', libs'[k] = l PROVE Opened(l) \/ l = handle[t]
      <4>1. CASE k = 1
        BY <3>2, <3>6, <4>1
      <4>2. CASE k # 1
        <5>1. PICK j \in 1..Len(libs) : k = j + 1
          BY <3>2, <3>3, <3>6, <4>2
        <5>2. libs[j] = l
          BY <3>2, <3>6, <5>1
        <5> QED BY <3>2, <5>2 DEF Opened
      <4> QED BY <4>1, <4>2
    <3>7. ASSUME NEW k \in DOMAIN libs, libs[k] = l PROVE Opened(l)'
      <4>1. k + 1 \in DOMAIN libs' /\ libs'[k + 1] = l
        BY <3>2, <3>4, <3>7
      <4> QED BY <4>1 DEF Opened
    <3>8. l = handle[t] => Opened(l)'
      BY <3>2, <3>5 DEF Opened
    <3> QED BY <3>6, <3>7, <3>8 DEF Opened
  <2>6. \A l \in Libraries : Counted(l)'
    BY <1>3, <2>2, <2>3, <2>4, <2>5 DEF LibrariesTyped
  <2>7. \A u \in Threads \ {t} : at[u] \notin LibraryOps
    BY <1>3, <2>1 DEF LibraryOps
  <2>8. \A u \in Threads : at'[u] \notin {"open", "link"}
    BY <1>1, <2>1, <2>7 DEF LibraryOps
  <2> QED BY <1>5, <2>6, <2>8 DEF OpenOnce
<1> QED BY <1>6, <1>7, <1>8, <1>9

LEMMA OneKindStep ==
    ASSUME Typed, LibrariesTyped, OpenOnce, OneKind, Next,
           NEW t \in Threads, Kind(t), Acts(t)
    PROVE  OneKind'
<1> DEFINE Naming(u) == at[u] = "name" => kinds = <<>> /\ next[u] = <<>>
           Named2(l) == \E u \in Threads : at[u] = "name" /\ handle[u] = l
           Fits(l) == IF kinds = <<>> THEN Named2(l) ELSE kindOf[l] = kinds[1]
<1>1. \A u \in Threads \ {t} : at'[u] = at[u] /\ handle'[u] = handle[u]
  BY OthersStay, StringSteps
<1>2. /\ \A u \in Threads : Naming(u)
      /\ \A l \in Libraries : HasKind(l) => Fits(l)
  BY DEF OneKind
<1>3. \A u, v \in Threads : at[u] \in LibraryOps /\ at[v] \in LibraryOps => u = v
  BY DEF OpenOnce
<1>0. failed \subseteq failed'
  BY FailedGrows
<1>4. ASSUME ~Link(t), ~Share(t), ~NameKind(t), ~EntryThrows(t) PROVE OneKind'
  <2>1. UNCHANGED <<kinds, kindOf, entered>>
    BY <1>4 DEF Acts, Import, Read, Execute, Finish, Fail, Prim, ReadHead, Cut, Search, Open,
           Symbol, libraries
  <2>2. \A u \in Threads \ {t} : next'[u] = next[u]
    BY <1>4 DEF Acts, Import, Read, Execute, Finish, Fail, Prim, ReadHead, Cut, Search, Open,
           Symbol, libraries, LibrariesTyped
  <2>3. at[t] \notin {"share", "name"} /\ at'[t] \notin {"share", "name"}
    BY <1>4, PlacesOf DEF Acts
  <2>4. \A u \in Threads : Naming(u)'
    BY <1>1, <1>2, <2>1, <2>2, <2>3
  <2>5. ASSUME NEW l \in Libraries, HasKind(l)' PROVE Fits(l)'
    <3>1. HasKind(l)
      BY <1>0, <1>1, <2>1, <2>3, <2>5 DEF HasKind
    <3>2. Named2(l) => Named2(l)'
      BY <1>1, <2>3
    <3> QED BY <1>2, <2>1, <3>1, <3>2
  <2> QED BY <2>4, <2>5 DEF OneKind
<1>5. CASE Link(t)
  <2>1. at[t] = "link" /\ at'[t] = "share" /\ UNCHANGED <<kinds, kindOf, next, handle>>
    BY <1>5, PlacesOf DEF Link
  <2>2. entered' = [entered EXCEPT ![handle[t]] = @ + 1]
    BY <1>5 DEF Link
  <2>3. \A u \in Threads : Naming(u)'
    BY <1>1, <1>2, <2>1
  <2>4. ASSUME NEW l \in Libraries, HasKind(l)' PROVE Fits(l)'
    <3>1. l # handle[t]
      BY <2>1, <2>4 DEF HasKind
    <3>2. entered'[l] = entered[l]
      BY <2>2, <3>1 DEF LibrariesTyped
    <3>3. HasKind(l)
      BY <1>0, <1>1, <2>1, <2>4, <3>2 DEF HasKind
    <3>4. Named2(l) => Named2(l)'
      BY <1>1, <2>1
    <3> QED BY <1>2, <2>1, <3>3, <3>4
  <2> QED BY <2>3, <2>4 DEF OneKind
<1>6. CASE Share(t)
  <2>1. at[t] = "share" /\ at'[t] \in {"entry", "name"} /\ UNCHANGED <<kinds, entered, handle>>
    BY <1>6, PlacesOf DEF Share
  <2>2. handle[t] \in Libraries
    BY <2>1 DEF LibrariesTyped
  <2>3. \A u \in Threads \ {t} : at[u] \notin LibraryOps
    BY <1>3, <2>1 DEF LibraryOps
  <2>4. ASSUME NEW l \in Libraries, HasKind(l)' PROVE l = handle[t] \/ HasKind(l)
    BY <1>0, <1>1, <2>1, <2>4 DEF HasKind
  <2>5. CASE kinds # <<>>
    <3>1. kindOf' = [kindOf EXCEPT ![handle[t]] = kinds[1]] /\ at' = [at EXCEPT ![t] = "entry"]
      BY <1>6, <2>5 DEF Share, KindFound, Goes
    <3>2. \A u \in Threads : Naming(u)'
      BY <1>1, <2>3, <3>1 DEF Typed, LibraryOps
    <3>3. ASSUME NEW l \in Libraries, HasKind(l)' PROVE Fits(l)'
      <4>1. kindOf'[l] = kinds[1]
        BY <1>2, <2>2, <2>4, <2>5, <3>1, <3>3 DEF LibrariesTyped
      <4> QED BY <2>1, <2>5, <4>1
    <3> QED BY <3>2, <3>3 DEF OneKind
  <2>6. CASE kinds = <<>>
    <3>1. next' = [next EXCEPT ![t] = kinds] /\ at' = [at EXCEPT ![t] = "name"]
      BY <1>6, <2>6 DEF Share, Goes
    <3>2. next'[t] = <<>> /\ at'[t] = "name"
      BY <2>6, <3>1 DEF LibrariesTyped, Typed
    <3>3. \A u \in Threads : Naming(u)'
      BY <1>1, <2>1, <2>3, <2>6, <3>2 DEF LibraryOps
    <3>4. ASSUME NEW l \in Libraries, HasKind(l)' PROVE Fits(l)'
      <4>1. ~Named2(l)
        BY <2>1, <2>3 DEF LibraryOps
      <4>2. l = handle[t]
        BY <1>2, <2>4, <2>6, <3>4, <4>1
      <4>3. Named2(l)'
        BY <2>1, <3>2, <4>2
      <4> QED BY <2>1, <2>6, <4>3
    <3> QED BY <3>3, <3>4 DEF OneKind
  <2> QED BY <2>5, <2>6
<1>7. CASE NameKind(t)
  <2>1. at[t] = "name" /\ at'[t] = "entry" /\ UNCHANGED <<kindOf, entered, handle, next>>
    BY <1>7, PlacesOf DEF NameKind
  <2>2. kinds = <<>> /\ next[t] = <<>> /\ handle[t] \in Libraries /\ kindOf[handle[t]] \in Libraries
    BY <1>2, <2>1 DEF LibrariesTyped
  <2>3. kinds' = <<kindOf[handle[t]]>> \o <<>>
    BY <1>7, <2>2 DEF NameKind
  <2>4. kinds' # <<>> /\ kinds'[1] = kindOf[handle[t]]
    BY <2>2, <2>3
  <2>5. \A u \in Threads \ {t} : at[u] \notin LibraryOps
    BY <1>3, <2>1 DEF LibraryOps
  <2>6. \A u \in Threads : Naming(u)'
    BY <1>1, <2>1, <2>5 DEF LibraryOps
  <2>7. ASSUME NEW l \in Libraries, HasKind(l)' PROVE Fits(l)'
    <3>1. HasKind(l)
      BY <1>0, <1>1, <2>1, <2>7 DEF HasKind
    <3>2. Named2(l)
      BY <1>2, <2>2, <3>1
    <3>3. l = handle[t]
      BY <2>5, <3>2 DEF LibraryOps
    <3> QED BY <2>1, <2>4, <3>3
  <2> QED BY <2>6, <2>7 DEF OneKind
\* The library of an entry point that threw before kind_share does not count.
<1>8. CASE EntryThrows(t)
  <2>1. at[t] \in {"share", "entry"} /\ at'[t] = "code" /\ UNCHANGED libraries
    BY <1>8, PlacesOf DEF EntryThrows
  <2>2. failed' = failed \cup {[string |-> Step(t).arg, lib |-> handle[t], shared |-> at[t] = "entry"]}
    BY <1>8 DEF EntryThrows
  <2>3. \A u \in Threads : Naming(u)'
    BY <1>1, <1>2, <2>1 DEF libraries
  <2>4. ASSUME NEW l \in Libraries, HasKind(l)' PROVE Fits(l)'
    <3>1. ~(at[t] = "share" /\ handle[t] = l)
      <4>1. ASSUME at[t] = "share", handle[t] = l PROVE FALSE
        <5> DEFINE left == [string |-> Step(t).arg, lib |-> handle[t], shared |-> at[t] = "entry"]
        <5>1. left \in failed'
          BY <2>2
        <5>2. left.lib = l /\ ~left.shared
          BY <4>1
        <5> HIDE DEF left
        <5> QED BY <2>4, <5>1, <5>2 DEF HasKind
      <4> QED BY <4>1
    <3>2. HasKind(l)
      BY <1>0, <1>1, <2>1, <2>4, <3>1 DEF HasKind, libraries
    <3>3. Named2(l) => Named2(l)'
      BY <1>1, <2>1
    <3> QED BY <1>2, <2>1, <3>2, <3>3 DEF libraries
  <2> QED BY <2>3, <2>4 DEF OneKind
<1> QED BY <1>4, <1>5, <1>6, <1>7, <1>8

LEMMA SharingStep == LoadInv /\ Sharing /\ [Next]_vars => Sharing'
<1>1. ASSUME Sharing, UNCHANGED vars PROVE Sharing'
  <2>1. /\ UNCHANGED <<at, failed, clash, libs, kinds, kindOf, entered, handle, next>>
        /\ \A t \in Threads : Step(t)' = Step(t)
    BY <1>1 DEF vars, libraries, Step, Top
  <2>2. OpenOnce => OpenOnce'
    BY <2>1 DEF OpenOnce, Opened
  <2>3. OneKind => OneKind'
    BY <2>1 DEF OneKind, HasKind
  <2> QED BY <1>1, <2>1, <2>2, <2>3 DEF Sharing, Undisturbed
<1> SUFFICES ASSUME LoadInv, Sharing, NEW t \in Threads, Kind(t), Acts(t), Next, Undisturbed'
             PROVE  OpenOnce' /\ OneKind'
  BY <1>1, StepActs DEF LoadInv, Sharing
<1>2. Undisturbed
  BY ClashGrows DEF Undisturbed
<1> QED BY <1>2, OpenOnceStep, OneKindStep DEF LoadInv, Sharing

LEMMA SharingAgrees == LoadInv /\ Sharing => LibrariesAgree
<1> SUFFICES ASSUME LoadInv, Sharing, Undisturbed
             PROVE  /\ \A l \in Libraries : entered[l] <= 1
                    /\ \A k, l \in Libraries : HasKind(k) /\ HasKind(l) => kindOf[k] = kindOf[l]
  BY DEF LibrariesAgree, Undisturbed, HasKind
<1>1. OpenOnce /\ OneKind
  BY DEF Sharing
<1>2. \A l \in Libraries : entered[l] <= 1
  BY <1>1 DEF OpenOnce
<1>3. ASSUME NEW k \in Libraries, NEW l \in Libraries, HasKind(k), HasKind(l)
      PROVE  kindOf[k] = kindOf[l]
  <2>1. CASE kinds = <<>>
    <3>1. PICK t \in Threads : at[t] = "name" /\ handle[t] = k
      BY <1>1, <1>3, <2>1 DEF OneKind
    <3>2. PICK u \in Threads : at[u] = "name" /\ handle[u] = l
      BY <1>1, <1>3, <2>1 DEF OneKind
    <3>3. t = u
      BY <1>1, <3>1, <3>2 DEF OpenOnce, LibraryOps
    <3> QED BY <3>1, <3>2, <3>3
  <2>2. CASE kinds # <<>>
    <3>1. kindOf[k] = kinds[1] /\ kindOf[l] = kinds[1]
      BY <1>1, <1>3, <2>2 DEF OneKind
    <3> QED BY <3>1
  <2> QED BY <2>1, <2>2
<1> QED BY <1>2, <1>3

\* load_primitive and kind_share (load.c:194-258, neko_kind_share): a library is
\* opened and its entry point called once, whatever names it is asked for by, and
\* all libraries that share a kind hold the one of the first, but those whose entry
\* point threw before it asked for the kind (load.c:242), unless two threads open
\* libraries, or one in a list that is not the present one any more (load.c:201),
\* or load by one string at once.
THEOREM LibrariesAlwaysAgree == Spec => []LibrariesAgree
<1>1. Init => LoadInv /\ Sharing
  <2> SUFFICES ASSUME Init PROVE Sharing
    BY InitLoading
  <2>1. libs = <<>> /\ entered = [l \in Libraries |-> 0] /\ \A t \in Threads : at[t] = "code"
    BY DEF Init
  <2> QED BY <2>1 DEF Sharing, OpenOnce, OneKind, HasKind, Opened, LibraryOps
<1>2. LoadInv /\ Sharing /\ [Next]_vars => LoadInv' /\ Sharing'
  BY LoadingStays, SharingStep
<1> QED BY <1>1, <1>2, SharingAgrees, PTL DEF Spec
=============================================================================
