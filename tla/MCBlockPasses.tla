---------------------------- MODULE MCBlockPasses ---------------------------
(* Every body of four blocks whose branchings have two targets, except for  *)
(* those with a cycle that nothing leads into, which the translation does   *)
(* not build; and bodies of MIR, which it starts from.                     *)
EXTENDS BlockPasses, TLC

N == 4

\* Statements and terminators are labelled with their block.
Stmts(b) == {<<>>, <<ToString(b)>>}
T(b) == {Goto(t) : t \in 1 .. N - 1}
        \union {Other(ToString(b), <<t, u>>) : t \in 1 .. N - 1, u \in 1 .. N - 1}
        \union {Other("return", <<>>), Other("panic", <<>>)}

\* Blocks that cannot be told apart but by which target is first: one of
\* each pair will do, and statements before a branching show nothing.
Contents(b) == {Block(s, t) : s \in Stmts(b),
                              t \in {t \in T(b) : t.goto \/ t.label = "return"}}
               \union {Block(<<>>, Other("panic", <<>>))}
               \union {Block(<<>>, t) : t \in {t \in T(b) : Len(t.targets) = 2
                                                            /\ t.targets[1] <= t.targets[2]}}

\* Blocks from each of which there is a way to another of them, and to which
\* nothing else leads.
DeadCycle(b) ==
    \E S \in SUBSET (1 .. N - 1) :
        /\ S # {}
        /\ \A i \in S : ToSet(b[i].term.targets) \intersect S # {}
        /\ \A i \in (0 .. N - 1) \ S : ToSet(b[i].term.targets) \intersect S = {}

Entry == {c \in Contents(0) : c.term.targets # <<>> /\ (c.term.goto => c.stmts # <<>>)}

MCBodies ==
    {b \in {[i \in 0 .. N - 1 |-> <<a, b, c, d>>[i + 1]] :
              a \in Entry, b \in Contents(1), c \in Contents(2), d \in Contents(3)} :
       ~DeadCycle(b)}

-----------------------------------------------------------------------------
(* MIR: two blocks with every terminator, a third one with some, and a fourth *)
(* one to unwind to.                                                         *)

Continue == Unwind("continue", ENTRY)
Ways == {Continue, Unwind("cleanup", 3)}
Label(b, kind) == IF kind = "switchBool" THEN ToString(b) ELSE kind \o ToString(b)
Jump(b, kind, targets, unwind) == MirBlock(<<>>, MirTerm(kind, Label(b, kind), targets, unwind))
Inlined(label, targets, unwind) == MirBlock(<<>>, MirTerm("call", label, targets, unwind))
End(b, kind) == MirBlock(<<ToString(b)>>, MirTerm(kind, kind, <<>>, Continue))

MirContents(b) ==
    {MirBlock(s, MirTerm("goto", "goto", <<t>>, Continue)) : s \in {<<"nop">>, <<ToString(b), "live">>}, t \in {1, 2}}
    \union {Jump(b, kind, targets, Continue) : kind \in {"falseEdge", "switchBool", "switchInt"},
                                     targets \in {<<1, 2>>, <<2, 1>>}}
    \union {Jump(b, kind, <<t>>, u) :
               kind \in {"drop", "call", "assert", "asm"}, t \in {1, 2}, u \in Ways}
    \union {Jump(b, "call", <<>>, u) :
               u \in Ways \union {Unwind("unreachable", ENTRY), Unwind("terminate", ENTRY)}}
    \union {MirBlock(<<>>, MirTerm("panic", "panic", <<>>, u)) : u \in Ways}
    \union {Inlined("const", <<2>>, u) : u \in Ways} \union {Inlined("panic_fn", <<>>, Continue)}
    \union {End(b, "return"), MirBlock(<<"live">>, MirTerm("unreachable", "unreachable", <<>>, Continue))}

\* A cycle of gotos, a way back, a panic, and ends that are shared.
MirEnds == {MirBlock(<<>>, MirTerm("goto", "goto", <<2>>, Continue)),
            MirBlock(<<>>, MirTerm("falseUnwind", "goto", <<1>>, Continue)),
            MirBlock(<<>>, MirTerm("panic", "panic", <<>>, Unwind("cleanup", 3))),
            MirBlock(<<>>, MirTerm("return", "return", <<>>, Continue))}

MCMirBodies ==
    {[i \in 0 .. 3 |-> <<a, b, c, End(3, "resume")>>[i + 1]] :
       a \in MirContents(0), b \in MirContents(1), c \in MirEnds}

-----------------------------------------------------------------------------
MCIfs == {ToString(b) : b \in 0 .. N - 1}
MCAborts == {"panic", "unreachable", "terminate"}
MCAssertLabel == [a \in MCIfs \X BOOLEAN \X MCAborts |->
                     a[1] \o (IF a[2] THEN " or else " ELSE " or ") \o a[3]]

\* A function that only panics, and the initializer of a constant.
MCToInline ==
    [f \in {"const", "panic_fn"} |->
        IF f = "panic_fn" THEN [i \in {0} |-> Block(<<>>, Other("panic", <<>>))]
        ELSE [i \in 0 .. 2 |-> <<Block(<<"const">>, Other("call0", <<1, 2>>)),
                                Block(<<>>, Other("return", <<>>)),
                                Block(<<>>, Other("resume", <<>>))>>[i + 1]]]

MCLabels == {"goto", "return", "resume", "live", "result", "const", "panic_fn"}
            \union {kind \o ToString(b) : kind \in Unwinding \union {"switchInt"}, b \in 0 .. 2} \union MCIfs \union MCAborts
            \union {MCAssertLabel[a] : a \in DOMAIN MCAssertLabel}
=============================================================================
