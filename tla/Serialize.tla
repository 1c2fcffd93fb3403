----------------------------- MODULE Serialize -----------------------------
(***************************************************************************)
(* serialize and unserialize, libs/std/serialize.c, and the hash of a      *)
(* value, vm/hash.c, on heaps of values that share and refer back to one   *)
(* another.                                                                *)
(*                                                                         *)
(* A heap is a sequence of values [kind, text, kids, proto] and a value's  *)
(* address its place in it; 0 is null, which stands for all values that    *)
(* have no address.  The kids are what an array, an object's fields, a     *)
(* hash table or an environment hold.  "custom" is an object with a        *)
(* __serialize method of its own that returns the object's only kid.  Its  *)
(* module's __unserialize makes a new one of that.                         *)
(***************************************************************************)
EXTENDS Integers, Sequences, FiniteSets, SequencesExt

CONSTANTS
    Heaps,         \* pairs [heap, root]: what is serialized
    Fields,        \* ids of the first, second ... field of an object
    MaxRec         \* deepest recursion, 350

VARIABLES
    input,         \* one of Heaps
    phase,         \* "given", "written", "read"
    written,       \* the writer when it has returned or failed
    read           \* the reader when it has returned or failed

vars == <<input, phase, written, read>>

----------------------------------------------------------------------------
(* References: a tree of the values that were written, by address.  *)

NoTree == [at |-> 0]
RECURSIVE Find(_, _), Insert(_, _, _)

Find(tree, v) ==
    CASE tree.at = 0 -> -1
      [] tree.at # 0 /\ tree.at < v -> Find(tree.left, v)
      [] tree.at = v -> tree.k
      [] OTHER -> Find(tree.right, v)

HangsRight(tree, v) == tree.at > v
\* The side on which Insert goes down.
HangsLeft(tree, v) == tree.at < v
Insert(tree, v, k) ==
    CASE tree.at = 0 -> [at |-> v, k |-> k, left |-> NoTree, right |-> NoTree]
      [] tree.at # 0 /\ HangsLeft(tree, v) -> [tree EXCEPT !.left = Insert(@, v, k)]
      [] OTHER -> [tree EXCEPT !.right = Insert(@, v, k)]

Put(w, token) == IF w.failed THEN w ELSE [w EXCEPT !.out = Append(@, token)]
Register(w, v) ==
    IF w.failed THEN w
    ELSE [w EXCEPT !.refs = Insert(@, v, w.nrefs), !.nrefs = @ + 1]

\* The number a reference is written as: how many values ago it was registered.
RefNumber(w, v) == w.nrefs - 1 - Find(w.refs, v)

----------------------------------------------------------------------------
(* The writer.  *)

RECURSIVE SerializeRec(_, _, _)
SerializeAll(h, w, vs) == FoldLeft(LAMBDA u, v : SerializeRec(h, u, v), w, vs)

\* Whether an object is registered before its contents are written.
RegisteredFirst(node) == node.kind # "custom"

Contents(h, w, v) ==
    LET node == h[v]
        n == Len(node.kids)
        Field(u, i) == SerializeRec(h, Put(u, <<"f", Fields[i]>>), node.kids[i])
    IN CASE node.kind = "string" -> Put(w, <<"s", node.text>>)
         [] node.kind = "array" -> SerializeAll(h, Put(w, <<"a", n>>), node.kids)
         [] node.kind = "primitive" -> SerializeAll(h, Put(w, <<"p">>), node.kids)
         [] node.kind = "function" -> SerializeAll(h, Put(w, <<"L">>), node.kids)
         [] node.kind = "custom" ->
                Register(SerializeAll(h, Put(w, <<"x">>), node.kids), v)
         [] node.kind = "object" ->
                LET u == Put(FoldLeft(Field, Put(w, <<"o">>), [i \in 1 .. n |-> i]), <<"f", 0>>)
                IN IF node.proto = 0 THEN Put(u, <<"z">>)
                   ELSE SerializeRec(h, Put(u, <<"p">>), node.proto)

SerializeValue(h, w, v) ==
    CASE v = 0 -> Put(w, <<"N">>)
      [] v # 0 /\ h[v].kind = "int32" -> Put(w, <<"I", h[v].text>>)
      [] v # 0 /\ h[v].kind = "hash" ->
            SerializeAll(h, Put(w, <<"h", Len(h[v].kids)>>), h[v].kids)
      [] v # 0 /\ h[v].kind \notin {"int32", "hash"} ->
            IF Find(w.refs, v) >= 0 THEN Put(w, <<"r", RefNumber(w, v)>>)
            ELSE Contents(h, IF RegisteredFirst(h[v]) THEN Register(w, v) ELSE w, v)

SerializeRec(h, w, v) ==
    IF w.failed THEN w
    ELSE IF w.nrec = MaxRec THEN [w EXCEPT !.failed = TRUE]
    ELSE LET u == SerializeValue(h, [w EXCEPT !.nrec = @ + 1], v)
         IN [u EXCEPT !.nrec = @ - 1]

serialize(h, v) ==
    SerializeRec(h, [out |-> <<>>, refs |-> NoTree, nrefs |-> 0, nrec |-> 0, failed |-> FALSE], v)

----------------------------------------------------------------------------
(* The reader: what it returns is in val, what it has made in heap.  *)

Token(r) == IF r.pos <= Len(r.in) THEN r.in[r.pos] ELSE <<"end">>
Skip(r) == [r EXCEPT !.pos = @ + 1]
Fail(r) == [r EXCEPT !.failed = TRUE]
Is(r, tag) == ~r.failed /\ Token(r)[1] = tag

add_ref(r, v) == [r EXCEPT !.trefs = Append(@, v)]

Alloc(r, kind, text) ==
    [r EXCEPT !.heap = Append(@, [kind |-> kind, text |-> text, kids |-> <<>>, proto |-> 0]),
              !.val = Len(r.heap) + 1]
\* A value that can be referred to as soon as it exists.
AllocRef(r, kind, text) == LET a == Alloc(r, kind, text) IN add_ref(a, a.val)

KindOf(r) == IF r.val = 0 THEN "null" ELSE r.heap[r.val].kind
AddKid(r, v) ==
    IF r.failed THEN r ELSE [r EXCEPT !.heap[v].kids = Append(@, r.val), !.val = v]

\* The value that a reference's number stands for.
RefIndexFromFirst(r, n) == n + 1   \* mutant: counted from the first value
RefIndex(r, n) == Len(r.trefs) - n

RECURSIVE UnserializeRec(_), ReadKids(_, _, _), ReadFields(_, _)

ReadKids(r, v, n) ==
    IF r.failed \/ n = 0 THEN [r EXCEPT !.val = v]
    ELSE ReadKids(AddKid(UnserializeRec(r), v), v, n - 1)

ReadFields(r, v) ==
    CASE Is(r, "f") /\ Token(r)[2] # 0 ->
            ReadFields(AddKid(UnserializeRec(Skip(r)), v), v)
      [] Is(r, "f") /\ Token(r)[2] = 0 -> [Skip(r) EXCEPT !.val = v]
      [] OTHER -> Fail(r)

ReadProto(r, v) ==
    CASE Is(r, "z") -> Skip(r)
      [] Is(r, "p") ->
            LET u == UnserializeRec(Skip(r))
            IN IF ~u.failed /\ KindOf(u) \in {"object", "custom"}
               THEN [u EXCEPT !.heap[v].proto = u.val, !.val = v] ELSE Fail(u)
      [] OTHER -> Fail(r)

\* Loading the module or primitive of that name, which are those that were written:
\* what the loader throws ("Module not found", "Invalid module"...), and the refusal of
\* a module that was modified or has no __unserialize, are left out.
IsName(r, v) == r.val # 0 /\ r.heap[r.val].kind = "string" /\ r.heap[r.val].text < 0
ReadFunction(r0, kind, n) ==
    LET r == AllocRef(r0, kind, 0)
        name == UnserializeRec(r)
        named == IF IsName(name, r.val) THEN AddKid(name, r.val) ELSE Fail(name)
        full == ReadKids(named, r.val, n)
    IN IF ~full.failed /\ n = 1 /\ full.heap[full.heap[r.val].kids[2]].kind # "array"
       THEN Fail(full) ELSE full

\* A mutant of ReadCustom: the place of the new object is kept before its data are read.
ReadCustomFirst(r) ==
    LET made == AllocRef(r, "custom", 0)
        name == UnserializeRec(made)
        data == UnserializeRec(name)
    IN IF name.failed \/ data.failed \/ ~IsName(name, 0) THEN Fail(data)
       ELSE [data EXCEPT !.heap[made.val].kids = <<name.val, data.val>>, !.val = made.val]

ReadCustom(r) ==
    LET name == UnserializeRec(r)
        data == UnserializeRec(name)
        made == AllocRef(data, "custom", 0)
    IN IF name.failed \/ data.failed \/ ~IsName(name, 0) THEN Fail(data)
       ELSE [made EXCEPT !.heap[made.val].kids = <<name.val, data.val>>]

UnserializeRec(r) ==
    LET tok == Token(r)
        s == Skip(r)
        New(kind, text) == AllocRef(s, kind, text)
    IN CASE r.failed -> r
         [] Is(r, "N") -> [s EXCEPT !.val = 0]
         [] Is(r, "I") -> Alloc(s, "int32", tok[2])
         [] Is(r, "s") -> New("string", tok[2])
         [] Is(r, "r") ->
                IF tok[2] >= Len(r.trefs) THEN Fail(r)
                ELSE [s EXCEPT !.val = r.trefs[RefIndex(r, tok[2])]]
         [] Is(r, "a") -> LET a == New("array", 0) IN ReadKids(a, a.val, tok[2])
         [] Is(r, "o") -> LET o == New("object", 0) IN ReadProto(ReadFields(o, o.val), o.val)
         [] Is(r, "p") -> ReadFunction(s, "primitive", 0)
         [] Is(r, "L") -> ReadFunction(s, "function", 1)
         [] Is(r, "x") -> ReadCustom(s)
         [] Is(r, "h") -> LET t == Alloc(s, "hash", 0) IN ReadKids(t, t.val, tok[2])
         [] OTHER -> Fail(r)

unserialize(tokens) ==
    UnserializeRec([in |-> tokens, pos |-> 1, trefs |-> <<>>, heap |-> <<>>, val |-> 0,
                    failed |-> FALSE])

----------------------------------------------------------------------------
Init ==
    /\ input \in Heaps
    /\ phase = "given" /\ written = <<>> /\ read = <<>>

Serialize ==
    /\ phase = "given" /\ phase' = "written"
    /\ written' = serialize(input.heap, input.root)
    /\ UNCHANGED <<input, read>>

Unserialize ==
    /\ phase = "written" /\ ~written.failed /\ phase' = "read"
    /\ read' = unserialize(written.out)
    /\ UNCHANGED <<input, written>>

Next == Serialize \/ Unserialize
Spec == Init /\ [][Next]_vars

----------------------------------------------------------------------------
(* The hash of a value: the numbers mixed into it, in order.  The values   *)
(* on the way to it are path, innermost first.                             *)

RECURSIVE HashRec(_, _, _)

FieldHash(h, kids, path, i) == <<<<"big", Fields[i]>>>> \o HashRec(h, kids[i], path)
OwnFields(node) == IF node.kind = "custom" THEN Tail(node.kids) ELSE node.kids

\* What a value counts for that has neither contents nor parts to look at.
OpaqueByAddress(v) == <<<<"big", v>>>>
Opaque(v) == <<>>

HashRec(h, v, path) ==
    IF v = 0 THEN <<<<"small", 0>>>>
    ELSE LET node == h[v]
             seen == {i \in DOMAIN path : path[i] = v}
             below == <<v>> \o path
             All(hashes) == FoldLeft(LAMBDA a, b : a \o b, <<>>, hashes)
         IN CASE node.kind = "string" -> <<<<"text", node.text>>>>
              [] node.kind \in {"array", "object", "custom"} /\ seen # {} ->
                    <<<<"small", CHOOSE i \in seen : \A j \in seen : i <= j>>>>
              [] node.kind = "array" /\ seen = {} ->
                    All([i \in DOMAIN node.kids |->
                            HashRec(h, node.kids[Len(node.kids) + 1 - i], below)])
              [] node.kind \in {"object", "custom"} /\ seen = {} ->
                    All([i \in DOMAIN OwnFields(node) |-> FieldHash(h, OwnFields(node), below, i)])
                    \o (IF node.proto = 0 THEN <<>> ELSE HashRec(h, node.proto, below))
              [] OTHER -> Opaque(v)

val_hash(h, v) == HashRec(h, v, <<>>)

----------------------------------------------------------------------------
(* Properties.  *)

Below(h, v) == (Range(h[v].kids) \cup {h[v].proto}) \ {0}
Reach(h, vs) ==
    LET reach[n \in 0 .. Len(h)] ==
            IF n = 0 THEN vs
            ELSE LET r == reach[n - 1] IN r \cup UNION {Below(h, v) : v \in r}
    IN reach[Len(h)]

\* Values that are written again wherever they are met, or until they are complete.
Repeated == {"hash", "custom"}
\* A value of fewer than MaxRec parts is not nested too deeply, unless it repeats.
Storable(in) ==
    /\ Cardinality(Reach(in.heap, {in.root})) < MaxRec
    /\ \A v \in Reach(in.heap, {in.root}) :
           in.heap[v].kind \in Repeated => v \notin Reach(in.heap, Below(in.heap, v))

\* The pairs of a value and its copy, from the pair of the roots down.
Pairs(h1, v1, h2, v2) ==
    LET Kids(p) ==
            {<<h1[p[1]].kids[i], h2[p[2]].kids[i]>> :
                i \in DOMAIN h1[p[1]].kids \cap DOMAIN h2[p[2]].kids}
            \cup {<<h1[p[1]].proto, h2[p[2]].proto>>}
        Proper(ps) == {p \in ps : p[1] # 0 /\ p[2] # 0}
        pairs[n \in 0 .. Len(h1) + Len(h2)] ==
            IF n = 0 THEN {<<v1, v2>>}
            ELSE LET ps == pairs[n - 1] IN ps \cup Proper(UNION {Kids(p) : p \in ps})
    IN pairs[Len(h1) + Len(h2)]

SameNode(h1, v1, h2, v2) ==
    /\ h1[v1].kind = h2[v2].kind /\ h1[v1].text = h2[v2].text
    /\ Len(h1[v1].kids) = Len(h2[v2].kids)
    /\ \A i \in DOMAIN h1[v1].kids : (h1[v1].kids[i] = 0) <=> (h2[v2].kids[i] = 0)
    /\ (h1[v1].proto = 0) <=> (h2[v2].proto = 0)

Isomorphic(h1, v1, h2, v2) ==
    LET pairs == Pairs(h1, v1, h2, v2)
    IN /\ \A p \in pairs : SameNode(h1, p[1], h2, p[2])
       /\ \A p, q \in pairs :
            /\ p[2] = q[2] => p[1] = q[1]
            /\ p[1] = q[1] /\ h1[p[1]].kind \notin {"hash", "int32"} => p[2] = q[2]

(* What is written can be read, and the copy has the shape of the value:   *)
(* the same kinds and texts, the same sharing, the same cycles.  Writer    *)
(* and reader number references each for itself (write_ref, add_ref); one  *)
(* that counts a value earlier or later than the other makes later         *)
(* references point to something else.  Only hash tables and int32s, which *)
(* have no number, may lose their sharing; only a value of MaxRec parts or *)
(* more, or one that contains a hash table or a custom object that         *)
(* contains itself, may be refused.  All values of the run have fewer      *)
(* parts, so that there the recursion limit meets the latter only.         *)
RoundTrip ==
    Storable(input) =>
        /\ phase = "written" => ~written.failed
        /\ phase = "read" =>
                /\ ~read.failed /\ read.pos = Len(written.out) + 1
                /\ Isomorphic(input.heap, input.root, read.heap, read.val)

(* "We want hashes to be stable wrt memory" (hash.c:88): the copy of a     *)
(* value, which lies elsewhere and may share less, has the value's hash,   *)
(* so that a table that was stored finds its keys again.                   *)
HashIsStable ==
    phase = "read" /\ Storable(input) =>
        val_hash(read.heap, read.val) = val_hash(input.heap, input.root)
=============================================================================
