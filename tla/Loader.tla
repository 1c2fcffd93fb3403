------------------------------- MODULE Loader -------------------------------
(***************************************************************************)
(* The default loader, vm/load.c: modules, and primitives of C libraries,  *)
(* loaded by several threads that share one loader object.                 *)
(*                                                                         *)
(* The code of a module is a sequence of steps, all of which but the       *)
(* loader's calls and throws are left out.  A primitive is loaded by a     *)
(* string "library@symbol", which is a value that modules and threads may  *)
(* share and whose @ is replaced by a 0 for a while.  Nothing here takes a *)
(* lock.                                                                   *)
(***************************************************************************)
EXTENDS Integers, Sequences, FiniteSets

CONSTANTS
    Threads, Modules,
    Code,          \* steps of each module, and of each thread's own program
    Strings,
    Text,          \* what each string says: [lib, sym]
    Libraries,     \* libraries that can be opened
    Symbols        \* their primitives, a set of [lib, sym]

Steps ==
    [op : {"import"}, arg : Modules, try : BOOLEAN]
    \cup [op : {"prim"}, arg : Strings, try : BOOLEAN]
    \cup [op : {"throw"}, arg : {""}, try : BOOLEAN]

ASSUME LoaderAssumption ==
    /\ Threads \cap Modules = {} /\ DOMAIN Code = Threads \cup Modules
    /\ \A c \in DOMAIN Code : Code[c] \in Seq(Steps)
    /\ \A s \in Strings : Text[s] \in [lib : Seq(STRING), sym : STRING]
    /\ Libraries \subseteq Seq(STRING)

\* A library has primitives only if it can be opened.
ASSUME SymbolsAssumption == Symbols \subseteq [lib : Libraries, sym : STRING]

VARIABLES
    mods,          \* modules that were read and run, in order
    cache,         \* the loader's cache: index of the module of each name, or 0
    libs,          \* list of opened libraries, newest first
    kinds,         \* list of shared kinds, newest first: the library that named it
    kindOf,        \* the kind that each library uses for the name they share
    entered,       \* calls of each library's __neko_entry_point
    whole,         \* strings whose @ is in place
    frames,        \* code that runs in each thread, innermost last: [of, pc]
    at,            \* where each thread is in a call of the loader, or "code"
    handle, next,  \* the library it has found or opened, the list it has read (l, l->next)
    found,         \* primitives returned: [string, lib]
    lost,          \* strings "Primitive not found" was thrown for
    failed,        \* loads that an entry point threw out of: [string, lib, shared]
    clash          \* what two threads worked on at once

modules == <<mods, cache>>
libraries == <<libs, kinds, kindOf, entered, handle, next>>
vars == <<modules, libraries, whole, frames, at, found, lost, failed, clash>>

Init ==
    /\ mods = <<>> /\ cache = [m \in Modules |-> 0]
    /\ libs = <<>> /\ kinds = <<>> /\ kindOf = [l \in Libraries |-> l]
    /\ entered = [l \in Libraries |-> 0]
    /\ whole = Strings
    /\ frames = [t \in Threads |-> <<[of |-> t, pc |-> 1]>>]
    /\ at = [t \in Threads |-> "code"] /\ next = [t \in Threads |-> <<>>]
    /\ handle = [t \in Threads |-> <<>>]
    /\ found = {} /\ lost = {} /\ failed = {} /\ clash = {}

Top(t) == frames[t][Len(frames[t])]
Ends(t) == Top(t).pc > Len(Code[Top(t).of])
Step(t) == Code[Top(t).of][Top(t).pc]
Calls(t, op) == frames[t] # <<>> /\ ~Ends(t) /\ Step(t).op = op

Advanced(fs) == [fs EXCEPT ![Len(fs)].pc = @ + 1]

Tries(t) == {k \in DOMAIN frames[t] : Code[frames[t][k].of][frames[t][k].pc].try}

\* An exception leaves the frames above the innermost try, which goes on.
Throw(t) ==
    /\ IF Tries(t) = {} THEN frames' = [frames EXCEPT ![t] = <<>>]
       ELSE \E k \in Tries(t) :
                /\ \A j \in Tries(t) : j <= k
                /\ frames' = [frames EXCEPT ![t] = Advanced(SubSeq(@, 1, k))]
    /\ at' = [at EXCEPT ![t] = "code"]

Returns(t) ==
    /\ frames' = [frames EXCEPT ![t] = Advanced(@)]
    /\ at' = [at EXCEPT ![t] = "code"]

Goes(t, there) == at' = [at EXCEPT ![t] = there] /\ UNCHANGED frames

\* History: t works on x while another thread does.
Working(t, ops, x) ==
    \E u \in Threads \ {t} : at[u] \in ops /\ (x = "libs" \/ Step(u).arg = x)
Notes(t, ops, x) == clash' = IF Working(t, ops, x) THEN clash \cup {x} ELSE clash

-----------------------------------------------------------------------------
(* loader_loadmodule *)

ModuleOps == {"read", "execute"}

Import(t) ==
    /\ at[t] = "code" /\ Calls(t, "import")
    /\ IF cache[Step(t).arg] # 0 THEN Returns(t) /\ UNCHANGED clash
       ELSE Goes(t, "read") /\ Notes(t, ModuleOps, Step(t).arg)
    /\ UNCHANGED <<modules, libraries, whole, found, lost, failed>>

\* open_module and neko_read_module: "Module not found", "Invalid module".
Read(t) ==
    /\ at[t] = "read"
    /\ Goes(t, "execute") \/ Throw(t)
    /\ UNCHANGED <<modules, libraries, whole, found, lost, failed, clash>>

\* Mutant: a module is in the cache once its code has run.
CachedLater(m, i) == cache

Cached(m, i) == [cache EXCEPT ![m] = i]

\* The module is put into the cache, and its code entered.
Execute(t) ==
    /\ at[t] = "execute"
    /\ LET m == Step(t).arg
       IN  /\ mods' = Append(mods, m)
           /\ cache' = Cached(m, Len(mods'))
           /\ frames' = [frames EXCEPT ![t] = Append(@, [of |-> m, pc |-> 1])]
           /\ at' = [at EXCEPT ![t] = "code"]
    /\ UNCHANGED <<libraries, whole, found, lost, failed, clash>>

\* The module's code ends; loadmodule returns its exports.
Finish(t) ==
    /\ at[t] = "code" /\ frames[t] # <<>> /\ Ends(t)
    /\ LET below == SubSeq(frames[t], 1, Len(frames[t]) - 1)
       IN  frames' = [frames EXCEPT ![t] = IF below = <<>> THEN <<>> ELSE Advanced(below)]
    /\ UNCHANGED <<modules, libraries, whole, at, found, lost, failed, clash>>

Fail(t) ==
    /\ at[t] = "code" /\ Calls(t, "throw")
    /\ Throw(t)
    /\ UNCHANGED <<modules, libraries, whole, found, lost, failed, clash>>

-----------------------------------------------------------------------------
(* loader_loadprim, load_primitive, kind_share *)

LibraryOps == {"open", "link", "share", "name"}
Uncut == {"head", "cut"}
StringOps == Uncut \cup {"search"} \cup LibraryOps \cup {"entry", "symbol"}

NotFound(t) == lost' = lost \cup {Step(t).arg} /\ Throw(t)

\* strchr(prim,'@'), and "Primitive not found" without one.
Prim(t) ==
    /\ at[t] = "code" /\ Calls(t, "prim")
    /\ Notes(t, StringOps, Step(t).arg)
    /\ IF Step(t).arg \in whole THEN Goes(t, "head") /\ UNCHANGED lost
       ELSE NotFound(t)
    /\ UNCHANGED <<modules, libraries, whole, found, failed>>

\* l = *libs
ReadHead(t) ==
    /\ at[t] = "head"
    /\ next' = [next EXCEPT ![t] = libs]
    /\ Goes(t, "cut")
    /\ UNCHANGED <<modules, libs, kinds, kindOf, entered, handle, whole, found, lost, failed, clash>>

Cut(t) ==
    /\ at[t] = "cut"
    /\ whole' = whole \ {Step(t).arg}
    /\ Goes(t, "search")
    /\ UNCHANGED <<modules, libraries, found, lost, failed, clash>>

\* The name of the library, as the string reads now.
Prefix(s) == IF s \in whole THEN Text[s].lib \o <<"@", Text[s].sym>> ELSE Text[s].lib

\* Mutant: the names are compared without their end.
SameStart(l, name) == Len(name) <= Len(l) /\ SubSeq(l, 1, Len(name)) = name

SameName(l, name) == l = name

\* The list whose head was read before the cut, which may have grown since.
Search(t) ==
    /\ at[t] = "search"
    /\ LET same == {k \in DOMAIN next[t] : SameName(next[t][k], Prefix(Step(t).arg))}
       IN  IF same # {}
           THEN /\ handle' = [handle EXCEPT ![t] = next[t][CHOOSE k \in same : \A j \in same : k <= j]]
                /\ Goes(t, "symbol") /\ UNCHANGED clash
           ELSE /\ Goes(t, "open") /\ UNCHANGED handle
                /\ IF next[t] = libs THEN Notes(t, LibraryOps, "libs")
                   ELSE clash' = clash \cup {"libs"}
    /\ UNCHANGED <<modules, libs, kinds, kindOf, entered, next, whole, found, lost, failed>>

\* Mutant: the @ stays cut when the library cannot be opened.
RestoredOnSuccess(s, ok) == IF ok THEN whole \cup {s} ELSE whole

Restored(s, ok) == whole \cup {s}

\* dlopen, or "Failed to load library"; the new entry reads the head of the list.
Open(t) ==
    /\ at[t] = "open"
    /\ LET s == Step(t).arg
       IN  IF Prefix(s) \in Libraries
           THEN /\ Goes(t, "link")
                /\ handle' = [handle EXCEPT ![t] = Prefix(s)]
                /\ next' = [next EXCEPT ![t] = libs]
                /\ UNCHANGED <<whole, lost, failed>>
           ELSE NotFound(t) /\ whole' = Restored(s, FALSE) /\ UNCHANGED <<handle, next>>
    /\ UNCHANGED <<modules, libs, kinds, kindOf, entered, found, failed, clash>>

\* Mutant: an opened library is not remembered.
LinkedNot(t) == libs

Linked(t) == <<handle[t]>> \o next[t]

\* *libs = l; then the entry point of the library is called.
Link(t) ==
    /\ at[t] = "link"
    /\ libs' = Linked(t)
    /\ entered' = [entered EXCEPT ![handle[t]] = @ + 1]
    /\ Goes(t, "share")
    /\ UNCHANGED <<modules, kinds, kindOf, handle, next, whole, found, lost, failed, clash>>

\* Mutant: a library keeps the kind it has, also when the name is known.
KindKept(t) == kindOf[handle[t]]

KindFound(t) == kinds[1]

\* kind_share, called by the entry point, with the one name that all libraries use.
Share(t) ==
    /\ at[t] = "share"
    /\ IF kinds # <<>>
       THEN /\ kindOf' = [kindOf EXCEPT ![handle[t]] = KindFound(t)]
            /\ Goes(t, "entry") /\ UNCHANGED next
       ELSE next' = [next EXCEPT ![t] = kinds] /\ Goes(t, "name") /\ UNCHANGED kindOf
    /\ UNCHANGED <<modules, libs, kinds, entered, handle, whole, found, lost, failed, clash>>

NameKind(t) ==
    /\ at[t] = "name"
    /\ kinds' = <<kindOf[handle[t]]>> \o next[t]
    /\ Goes(t, "entry")
    /\ UNCHANGED <<modules, libs, kindOf, entered, handle, next, whole, found, lost, failed, clash>>

\* The entry point throws, before or after kind_share (the val_id of std's may):
\* the exception leaves load_primitive as well, with the @ cut and the library listed.
EntryThrows(t) ==
    /\ at[t] \in {"share", "entry"}
    /\ failed' = failed \cup
           {[string |-> Step(t).arg, lib |-> handle[t], shared |-> at[t] = "entry"]}
    /\ Throw(t)
    /\ UNCHANGED <<modules, libraries, whole, found, lost, clash>>

\* The library is found, or its entry point has returned: the @ is put back; then
\* dlsym, or "Primitive not found".
Symbol(t) ==
    /\ at[t] \in {"symbol", "entry"}
    /\ whole' = Restored(Step(t).arg, TRUE)
    /\ IF [lib |-> handle[t], sym |-> Text[Step(t).arg].sym] \in Symbols
       THEN /\ found' = found \cup {[string |-> Step(t).arg, lib |-> handle[t]]}
            /\ Returns(t) /\ UNCHANGED lost
       ELSE NotFound(t) /\ UNCHANGED found
    /\ UNCHANGED <<modules, libraries, failed, clash>>

Next ==
    \E t \in Threads :
        \/ Import(t) \/ Read(t) \/ Execute(t) \/ Finish(t) \/ Fail(t)
        \/ Prim(t) \/ ReadHead(t) \/ Cut(t) \/ Search(t) \/ Open(t) \/ Link(t)
        \/ Share(t) \/ NameKind(t) \/ EntryThrows(t) \/ Symbol(t)

Spec == Init /\ [][Next]_vars

(***************************************************************************)
(* Properties.  Nothing protects the loader from two threads; what they    *)
(* worked on at once (clash) is left out.                                  *)
(***************************************************************************)

\* The code of a module runs once, however many modules import it, also when
\* they import each other, when a file could not be read at first, and when the
\* code threw: importers share one table of exports.
CodeRunsOnce ==
    \A i, j \in DOMAIN mods : mods[i] = mods[j] /\ i # j => mods[i] \in clash

FailedStrings == {f.string : f \in failed}

\* loadprim returns the primitive of the library that the string names, or
\* throws if there is none (vmref.html:49); but a string whose first load was left
\* by an exception of the entry point names nothing any more.
PrimitivesAreFound ==
    /\ \A f \in found : f.string \in clash \/ f.lib = Text[f.string].lib
    /\ \A s \in lost :
           \/ s \in clash \cup FailedStrings
           \/ [lib |-> Text[s].lib, sym |-> Text[s].sym] \notin Symbols

\* A string whose @ is cut has a thread that will put it back, on every way out of
\* load_primitive but one: an exception of the entry point leaves it cut.
NamesAreRestored ==
    \A s \in Strings \ whole :
        \/ \E t \in Threads : at[t] \in StringOps \ Uncut /\ Step(t).arg = s
        \/ s \in FailedStrings

\* The entry point of l has looked the kind up.
HasKind(l) ==
    /\ entered[l] = 1
    /\ \A t \in Threads : ~(at[t] = "share" /\ handle[t] = l)
    /\ \A f \in failed : f.lib = l => f.shared

\* A library is initialised once, also if that failed, and all agree on the kind
\* they share, but those whose entry point threw before it asked for the kind.
LibrariesAgree ==
    clash \cap (Strings \cup {"libs"}) = {} =>
        /\ \A l \in Libraries : entered[l] <= 1
        /\ \A k, l \in Libraries : HasKind(k) /\ HasKind(l) => kindOf[k] = kindOf[l]
=============================================================================
