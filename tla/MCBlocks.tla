------------------------------ MODULE MCBlocks ------------------------------
(***************************************************************************)
(* Programs for Blocks: what the Neko compiler makes of small sources.     *)
(***************************************************************************)
EXTENDS Blocks

LOCAL C == INSTANCE MCCompile

Compiled == {C!Module(e) : e \in C!Structured(2) \cup C!Nested(4) \cup C!Closures(1)}

\* Shows that these programs are WellFormed: the stacks are those found on the
\* way of a walk through the function.
Step(p, c, f, i) ==
    LET s == f[i]
        next == IF GoesOn(p, i) THEN (i + 1) :> Behind(s, i, At(p, i).op, At(p, i).arg) ELSE <<>>
    IN  f @@ next @@ [j \in Leads(p, i) |-> s]

RECURSIVE Walk(_, _, _, _)
Walk(p, c, f, done) ==
    LET new == DOMAIN f \ (done \cup {Limit(p, c)})
    IN  IF new = {} THEN f
        ELSE LET i == CHOOSE i \in new : TRUE
             IN  Walk(p, c, Step(p, c, f, i), done \cup {i})

FoundStacks(p, c) ==
    Walk(p, c, c.from :> [slots |-> Variables(-1, c.nargs), catch |-> <<>>], {})

\* Of is, the instructions that do nothing but return.
RECURSIVE Ends(_, _)
Ends(p, is) ==
    LET less == {i \in is : \/ At(p, i).op = "Ret"
                            \/ At(p, i).op = "Jump" /\ At(p, i).arg \in is
                            \/ At(p, i).op = "Pop" /\ i + 1 \in is}
    IN  IF less = is THEN is ELSE Ends(p, less)

ASSUME FormAssumption ==
    \A p \in Programs : \A c \in Chunks(p) :
        LET find == FoundStacks(p, c)
        IN  /\ Fits(p, c, find)
            /\ Balanced(p, c, find, Ends(p, DOMAIN find \ {Limit(p, c)}))
=============================================================================
