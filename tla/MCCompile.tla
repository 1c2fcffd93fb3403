----------------------------- MODULE MCCompile -----------------------------
(***************************************************************************)
(* Small Neko programs.  D(n, l, f) are expressions nested n deep, in a    *)
(* loop if l, in a function if f; they use a local x.                      *)
(***************************************************************************)
EXTENDS Compile

E(k, v, es) == [k |-> k, v |-> v, es |-> es]
Const == E("const", "", <<>>)
Id(v) == E("ident", v, <<>>)
CallX == E("call", "", <<Id("x"), Id("g")>>)
SetX(e) == E("set", "x", <<e>>)
If(a) == E("if", "", <<Id("x"), a>>)
IfElse(a, b) == E("if", "", <<Id("x"), a, b>>)
Try(a, b) == E("try", "e", <<a, b>>)
While(a) == E("while", "", <<CallX, a>>)
Block(es) == E("block", "", es)
Var(v, e) == E("vars", v, <<e>>)
Return(e) == E("return", "", <<e>>)
Label == E("label", "next", <<>>)
Goto == E("goto", "next", <<>>)

\* One hole each: anywhere, in a try, in a loop.
Plugged(a) ==
    {If(a), IfElse(a, SetX(Const)), IfElse(CallX, a), Try(CallX, a),
     E("and", "", <<Id("x"), a>>), E("or", "", <<a, CallX>>),
     Block(<<Var("y", a), SetX(Id("y")), CallX>>),
     E("call", "", <<Id("x"), a, Id("g")>>), E("op", "", <<Id("x"), a>>),
     E("method", "", <<a, Id("x")>>),
     E("table", "x", <<Const, a, Const, CallX, Const, SetX(Const), a>>),
     E("switch", "x", <<Const, a, CallX, SetX(Const), a>>)}
InTry(a) == {Try(a, CallX), Try(a, SetX(Id("e")))}
InLoop(a) == {While(a), E("do", "", <<Id("x"), a>>)}

Leaves(l, f) ==
    {CallX, SetX(CallX)}
    \cup (IF l THEN {E("break", "", <<>>), E("continue", "", <<>>)} ELSE {})
    \cup (IF f THEN {Return(CallX), Return(Id("x"))} ELSE {})

RECURSIVE D(_, _, _)
D(n, l, f) ==
    IF n = 0 THEN Leaves(l, f)
    ELSE UNION ({Plugged(a) : a \in D(n - 1, l, f)} \cup {InTry(a) : a \in D(n - 1, FALSE, f)}
                \cup {InLoop(a) : a \in D(n - 1, TRUE, f)})

Main(e) == Block(<<Var("x", Const), e, Id("x")>>)

\* A function whose last expression is e, and one that captures x.
Function(e) == Block(<<E("function", "x", <<e>>)>>)
Closure(e) == Block(<<Var("x", Const), E("function", "y", <<Block(<<Var("z", Id("y")), e>>)>>)>>)

Structured(n) ==
    {Main(e) : e \in D(n, FALSE, FALSE)} \cup {Function(e) : e \in D(n, FALSE, TRUE)}

\* Nested n deep: loops in handlers in branches, and the ways out of them.
RECURSIVE Nest(_, _)
Nest(n, l) ==
    IF n = 0 THEN {CallX, Return(CallX)} \cup (IF l THEN {E("break", "", <<>>)} ELSE {})
    ELSE UNION ({{If(a), Try(CallX, a), Block(<<Var("y", CallX), a>>)} : a \in Nest(n - 1, l)}
                \cup {{Try(a, SetX(Id("e")))} : a \in Nest(n - 1, FALSE)}
                \cup {{While(a)} : a \in Nest(n - 1, TRUE)})

Nested(n) == {Function(e) : e \in Nest(n, FALSE)}

Closures(n) == {Closure(e) : e \in D(n, FALSE, TRUE)}

\* Gotos: out of a try or a loop, into a block, into a try; jumped to or fallen into.
ForwardGotos ==
    {Main(Block(<<a, b>>)) :
        a \in {If(Goto), Try(If(Goto), CallX), While(Block(<<Var("y", CallX), If(Goto)>>)),
               Try(Try(CallX, If(Goto)), CallX)},
        b \in {Block(<<CallX, Label>>), Block(<<Var("y", Const), Label, SetX(Id("y"))>>),
               Try(Block(<<CallX, Label, CallX>>), SetX(Id("e"))),
               Try(Try(Block(<<Label, CallX>>), CallX), CallX),
               While(Block(<<Label, CallX>>))}}
=============================================================================
