------------------------------ MODULE MCLoader ------------------------------
(***************************************************************************)
(* Two threads and three modules for Loader: a and b import each other, c  *)
(* imports a and fails.  The name of one library starts with the other's.  *)
(***************************************************************************)
EXTENDS Loader

Import1(m) == [op |-> "import", arg |-> m, try |-> FALSE]
TryImport(m) == [op |-> "import", arg |-> m, try |-> TRUE]
TryPrim(s) == [op |-> "prim", arg |-> s, try |-> TRUE]
Throws == [op |-> "throw", arg |-> "", try |-> FALSE]

My == <<"my">>
MySql == <<"my", "sql">>

CodeOf ==
    [a |-> <<TryPrim("open"), Import1("b")>>,
     b |-> <<Import1("a"), TryPrim("sql")>>,
     c |-> <<TryPrim("gone"), Import1("a"), Throws>>,
     t1 |-> <<TryImport("a"), TryImport("c"), TryImport("c")>>,
     t2 |-> <<TryImport("b"), TryPrim("none"), TryPrim("open")>>]

TextOf ==
    [open |-> [lib |-> My, sym |-> "open"], none |-> [lib |-> My, sym |-> "none"],
     sql |-> [lib |-> MySql, sym |-> "open"], gone |-> [lib |-> <<"gone">>, sym |-> "open"]]

LibrariesOf == {My, MySql}
SymbolsOf == {[lib |-> l, sym |-> "open"] : l \in LibrariesOf}
=============================================================================
