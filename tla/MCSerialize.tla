---------------------------- MODULE MCSerialize ----------------------------
(* Heaps of three values and the names of their module and primitives.     *)
(* The root is the second, so that references hang on both of its sides in *)
(* the writer's tree; the third is simpler than the first two.             *)
EXTENDS Serialize

FieldsOf == <<1, 2>>

N == 3
Values == 0 .. N
Node(kind, text, kids, proto) == [kind |-> kind, text |-> text, kids |-> kids, proto |-> proto]
Name(i) == Node("string", 0 - i, <<>>, 0)
ModuleName == N + 1
PrimitiveName(v) == N + 1 + v

Strings(v) == {Node("string", v, <<>>, 0)}
Leaves(v) ==
    Strings(v) \cup {Node("int32", v, <<>>, 0), Node("primitive", 0, <<PrimitiveName(v)>>, 0)}
Functions == {Node("function", 0, <<ModuleName, env>>, 0) : env \in 1 .. N}
Arrays(n) == {Node("array", 0, kids, 0) : kids \in UNION {[1 .. i -> Values] : i \in 0 .. n}}
Objects(kids, protos) == {Node("object", 0, k, proto) : k \in kids, proto \in protos}
Repeating ==
    {Node("custom", 0, <<ModuleName, data>>, 0) : data \in Values}
    \cup {Node("hash", 0, <<key>>, 0) : key \in Values}
OneField == [1 .. 1 -> Values]
TwoFields == [1 .. 2 -> {1, 3}]
Composed == Functions \cup Arrays(2) \cup Objects(OneField \cup TwoFields, Values) \cup Repeating

Possible(h) ==
    /\ \A v \in 1 .. N : h[v].kind = "function" => h[h[v].kids[2]].kind = "array"
    /\ \A v \in 1 .. N : h[v].proto # 0 => h[h[v].proto].kind \in {"object", "custom"}
    /\ Cardinality({v \in 1 .. N : h[v].kind = "array" /\ h[v].kids = <<>>}) <= 1
    /\ 1 .. N \subseteq Reach(h, {2})

HeapsOfThree ==
    {[heap |-> h, root |-> 2] :
        h \in {<<a, b, c, Name(N + 1), Name(N + 2), Name(N + 3), Name(N + 4)>> :
                    a \in Strings(1) \cup Composed, b \in Composed,
                    c \in Leaves(3) \cup Functions \cup Arrays(1) \cup Objects(OneField, {0, 1})}}
PossibleHeaps == {in \in HeapsOfThree : Possible(in.heap)}
=============================================================================
