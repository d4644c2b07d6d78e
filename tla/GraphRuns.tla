----------------------------- MODULE GraphRuns -----------------------------
(* What a body of blocks does: it runs the block that it is at and goes on  *)
(* with one of the blocks that the terminator names.  A structured body     *)
(* that was made of the graph has to do the same (Reconstruct).             *)
EXTENDS Integers, Sequences

VARIABLES body,    \* the blocks
          at,      \* the block that runs next, or how the body ended
          ways,    \* which ways out of that block there are
          choice   \* the way that was taken last

vars == <<body, at, ways, choice>>

First == 0
AtBlock(x) == <<"block", x>>
Ended(how) == <<how>>

\* A call need not return, and an enum has one of its variants.
WaysOut(x) ==
    LET last == Len(body[x].targets)
        unless == IF body[x].variants # 0 /\ body[x].variants = last - 1 THEN {last} ELSE {}
    IN  IF body[x].kind = "never" THEN {} ELSE DOMAIN body[x].targets \ unless

Init == /\ at = AtBlock(First)
        /\ ways = WaysOut(First)
        /\ choice = 0

Branch(x, i) == /\ at = AtBlock(x)
                /\ at' = AtBlock(body[x].targets[i])
                /\ ways' = WaysOut(body[x].targets[i])
                /\ choice' = i

End(x) == /\ at = AtBlock(x)
          /\ body[x].kind \in {"return", "abort", "never"}
          /\ at' = Ended(body[x].kind)
          /\ ways' = {}
          /\ choice' = 0

Next == /\ \E x \in DOMAIN body : (\E i \in WaysOut(x) : Branch(x, i)) \/ End(x)
        /\ UNCHANGED body

Spec == Init /\ [][Next]_vars
=============================================================================
