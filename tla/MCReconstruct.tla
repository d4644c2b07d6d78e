--------------------------- MODULE MCReconstruct ---------------------------
EXTENDS Reconstruct

CONSTANTS MaxBlocks

\* All bodies of up to MaxBlocks blocks, numbered as they are found from the
\* first one on.  `found` is how many are known; a terminator may name any of
\* them but the first, and new ones in order.
RECURSIVE Grow(_, _)
Grow(b, found) ==
    LET x == Cardinality(DOMAIN b)
        upto(n) == 1..Min({n, MaxBlocks - 1})
        one == {<<t>> : t \in upto(found)}
        two == UNION {{<<t, u>> : u \in upto(IF t = found THEN found + 1 ELSE found)} : t \in upto(found)}
        terms == {Terminator("return", <<>>), Terminator("abort", <<>>)}
                 \cup {Terminator("goto", t) : t \in one} \cup {Terminator("if", t) : t \in two}
        known(t) == Max({found} \cup {t.targets[i] + 1 : i \in DOMAIN t.targets})
    IN  IF x = found THEN {b}
        ELSE UNION {Grow([y \in 0..x |-> IF y = x THEN t ELSE b[y]], known(t)) : t \in terms}

\* A body of terminators in order.
Numbered(s) == [x \in 0..(Len(s) - 1) |-> s[x + 1]]
To(targets) == IF Len(targets) = 1 THEN Terminator("goto", targets) ELSE Terminator("if", targets)
Return == Terminator("return", <<>>)
Abort == Terminator("abort", <<>>)
OneOrTwo(S) == {<<t>> : t \in S} \cup (S \X S)

\* A loop (1) in which there is a loop (2), and all jumps between them and out
\* of them.
NestedLoops ==
    {Numbered(<<To(<<1>>), To(<<2, 6>>), To(<<3, 5>>), To(a), b, To(c), Return>>) :
        a \in {1, 2, 4, 5, 6} \X {1, 2, 4, 5, 6},
        b \in {To(t) : t \in OneOrTwo({1, 2, 5, 6})} \cup {Abort},
        c \in {<<1>>, <<1, 6>>, <<6, 1>>, <<6>>}}

\* A loop (1) within one branch of a switch, with exits that do and do not come
\* to where the branches join.
LoopsInSwitches ==
    {Numbered(<<To(<<1, 4>>), To(a), To(b), c, Return>>) :
        a \in {2, 3, 4} \X {2, 3, 4}, b \in OneOrTwo({1, 3, 4}),
        c \in {Return, Abort, To(<<4>>), To(<<4, 1>>)}}

\* Switches of three ways, and switches behind and within switches.
Joins ==
    {Numbered(<<Terminator(k, a), To(b), To(c), To(d), To(<<5>>), Return>>) :
        k \in {"switchInt", "asm"}, a \in {1, 2} \X {1, 2, 3} \X {1, 3},
        b \in {<<2>>, <<4>>} \cup ({2, 3, 4} \X {3, 4}), c \in {<<3>>, <<4>>} \cup ({3, 4} \X {4, 5}),
        d \in {<<4>>, <<5>>, <<4, 5>>}}

\* Matches on an enum, with a variant less, and one more than there are targets
\* for; with and without a loop around them.
OnEnum(a, otherwise) == {Discriminate(Append(a, otherwise), n) : n \in {Len(a), Len(a) + 1}}
Ways == {<<1>>, <<1, 2>>, <<2, 1>>, <<1, 1>>, <<1, 2, 1>>, <<1, 2, 3>>}
Matches ==
    {Numbered(<<m, To(b), To(c), d, Return>>) :
        m \in UNION {OnEnum(a, 3) : a \in Ways},
        b \in {<<4>>, <<3, 4>>}, c \in {<<4>>, <<3>>, <<1, 4>>}, d \in {Abort, Return}}
    \cup {Numbered(<<To(<<1>>), m, To(b), To(c), Abort, Return>>) :
        m \in UNION {OnEnum(a, 4) : a \in {<<2>>, <<2, 3>>, <<3, 2>>, <<2, 2, 3>>}},
        b \in {<<1>>, <<5>>, <<1, 5>>}, c \in {<<5>>, <<1, 5>>}}

\* A call that does not return, in a branch, in a loop, and behind it.
Never(t) == Terminator("never", <<t>>)
NeverReturning ==
    {Numbered(<<To(a), Never(2), Abort, To(c), To(d), Return>>) :
        a \in {<<1, 3>>, <<3, 1>>, <<3, 4>>}, c \in {<<4>>, <<1, 4>>, <<3, 4>>, <<3, 1>>, <<4, 1>>},
        d \in {<<5>>, <<1, 5>>, <<3, 5>>, <<3, 1>>}}

\* Blocks of a loop that share an abort.
SharedAbort ==
    {Numbered(<<To(<<1>>), To(<<2, 3>>), To(<<4>>), To(b), Abort, To(c)>>) :
        b \in {<<1, 5>>, <<5, 1>>, <<2, 5>>, <<4, 5>>}, c \in {<<1>>, <<1, 4>>, <<4, 1>>}}

\* No block is reached by a goto alone: merge_goto_chains has been there.
WithoutChains(b) ==
    \A x \in DOMAIN b : b[x].kind = "goto" =>
        \E y \in DOMAIN b : \E i \in DOMAIN b[y].targets :
            y # x /\ b[y].targets[i] = b[x].targets[1]

MCBodies == {b \in Grow(<<>>, 1) \cup NestedLoops \cup LoopsInSwitches
                    \cup Joins \cup Matches \cup NeverReturning \cup SharedAbort :
                WithoutChains(b) /\ Reachable(Edges(b), ENTRY) = DOMAIN b}
=============================================================================
