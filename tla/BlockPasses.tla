---------------------------- MODULE BlockPasses -----------------------------
(* From MIR to the graph of blocks that control flow is reconstructed from: *)
(* the translation of a body, and those passes of the ULLBC batch that      *)
(* rebuild the graph: inline_selected_functions, merge_goto_chains,         *)
(* reconstruct_asserts, duplicate_return, merge_goto_chains once more and   *)
(* filter_unreachable_blocks.  (What runs between them changes statements   *)
(* and terminators, and update_block_indices finds nothing to change behind *)
(* filter_unreachable_blocks.)  They have to leave what the body does alone. *)
(*                                                                          *)
(* Bodies that earlier passes have built or rebuilt are in Bodies: their    *)
(* blocks need not be numbered as the translation does.                     *)
EXTENDS MirBlocks

CONSTANTS
    ReturnLabel,  \* the label of the terminators that return
    Ifs,          \* labels of branchings of two: if true, and if not
    Aborts,       \* labels of the terminators that abort
    AssertLabel,  \* an assertion's label: which branching, what is expected, how it aborts
    StorageLive,  \* label of a statement that makes a local live: it does nothing
    ResultLabel,  \* label of the assignment of a result to a call's destination
    ToInline      \* bodies of functions without arguments, by the labels of their calls

Assertions == {AssertLabel[a] : a \in DOMAIN AssertLabel}
ASSUME LabelAssumption ==
    /\ {ReturnLabel, StorageLive, ResultLabel} \union Ifs \union Aborts \union Assertions \subseteq Labels
    /\ ReturnLabel # "resume"
    /\ DOMAIN AssertLabel = Ifs \X BOOLEAN \X Aborts
    /\ \A a, b \in DOMAIN AssertLabel : AssertLabel[a] = AssertLabel[b] => a = b

\* The functions that are inlined do not call each other.
ASSUME ToInlineAssumption ==
    \A f \in DOMAIN ToInline :
        /\ IsBody(ToInline[f])
        /\ \A i \in DOMAIN ToInline[f] : ToInline[f][i].term.label \notin DOMAIN ToInline

\* Branchings of two and calls have two targets, a call's second one is where
\* it unwinds to; what ends a body is neither.
TwoWays == Ifs \union DOMAIN ToInline
HasTwoWays(t) == t.label \in TwoWays => ~t.goto /\ Len(t.targets) = 2
ASSUME TwoWaysAssumption ==
    /\ \A g \in Bodies \union {ToInline[f] : f \in DOMAIN ToInline} :
          \A b \in DOMAIN g : HasTwoWays(g[b].term)
    /\ \A m \in MirBodies : \A b \in DOMAIN m :
          /\ m[b].term.label \in Ifs => m[b].term.kind = "switchBool"
          /\ m[b].term.label \in DOMAIN ToInline => m[b].term.kind = "call"
    /\ {"goto", "resume", "unreachable", "terminate", ReturnLabel} \intersect TwoWays = {}

VARIABLES
    passes,   \* the passes still to run, the one that runs included
    original  \* ghost: the body before the passes

pvars == <<vars, mirVars, passes, original>>

\* Mutant of PASSES: blocks are filtered before the last merging.
FilterBeforeMerge ==
    <<"inline_selected_functions", "merge_goto_chains", "reconstruct_asserts",
      "duplicate_return", "filter_unreachable_blocks", "merge_goto_chains">>

PASSES ==
    <<"inline_selected_functions", "merge_goto_chains", "reconstruct_asserts",
      "duplicate_return", "merge_goto_chains", "filter_unreachable_blocks">>

\* What calls of functions do that are to be inlined: block i of the function
\* that block b calls is a block of its own, and so is the end of the call.
Called(g, b) == ToInline[g[b].term.label]
Expanded(g) ==
    LET size == Cardinality(DOMAIN g)
        calls == {b \in DOMAIN g : g[b].term.label \in DOMAIN ToInline}
        Inner(b, i) == size * (i + 1) + b
        After(b) == Inner(b, Cardinality(DOMAIN Called(g, b)))
        Within(b, t) ==
            CASE t.label = ReturnLabel -> Goto(After(b))
              [] t.label = "resume" -> Goto(g[b].term.targets[2])
              [] OTHER -> [t EXCEPT !.targets = [k \in DOMAIN @ |-> Inner(b, @[k])]]
        inner == UNION {{Inner(b, i) : i \in DOMAIN Called(g, b)} : b \in calls}
        ends == {After(b) : b \in calls}
    IN  [n \in DOMAIN g \union inner \union ends |->
            LET b == n % size
                i == (n \div size) - 1
            IN  CASE n \in calls -> Block(g[n].stmts, Goto(Inner(n, ENTRY)))
                  [] n \in DOMAIN g \ calls -> g[n]
                  [] n \in inner -> Block(Called(g, b)[i].stmts, Within(b, Called(g, b)[i].term))
                  [] n \in ends -> Block(<<ResultLabel>>, Goto(g[b].term.targets[1]))]

\* The variables of merge_goto_chains, before it begins.
Unstarted == /\ pc = "antecedents"
             /\ antecedents = <<>>
             /\ block = ENTRY
             /\ id = ENTRY
             /\ target = 1
             /\ visited = {}
             /\ merged = {}

PassesInit == \/ /\ Init
                 /\ passes = PASSES
                 /\ original = body
                 /\ mir = <<>>
                 /\ building = NoBlocks
              \/ /\ mir \in MirBodies
                 /\ Unstarted
                 /\ body = <<>>
                 /\ building = RegisterStart
                 /\ passes = <<"translate_body">> \o PASSES
                 /\ original = Expanded(MirGraph(mir))

Running(p) == passes # <<>> /\ Head(passes) = p

TranslateBody == /\ Running("translate_body")
                 /\ \/ TranslateBasicBlock /\ UNCHANGED <<body, passes>>
                    \/ MakeContiguous /\ passes' = Tail(passes)
                 /\ UNCHANGED <<pc, antecedents, block, id, target, visited, merged, original>>

\* The pass that ran is done: the next one begins.
MergeGotoChains == /\ Running("merge_goto_chains")
                   /\ Next
                   /\ passes' = IF pc' = "done" THEN Tail(passes) ELSE passes
                   /\ UNCHANGED <<mirVars, original>>

\* The variables of merge_goto_chains, which the other passes have not.
StartPass == /\ pc' = "antecedents"
             /\ block' = ENTRY
             /\ id' = ENTRY
             /\ visited' = {}
             /\ merged' = {}

-----------------------------------------------------------------------------
(* inline_selected_functions *)

\* Mutant of Redirected: the function unwinds out of the caller as well.
UnwindThrough(t, call, final_block) ==
    IF t.label = ReturnLabel THEN Goto(final_block)
    ELSE [t EXCEPT !.targets = [k \in DOMAIN @ |-> @[k] + final_block + 1]]

\* A terminator of the function: returning leads to the result's assignment,
\* and unwinding to where the call unwinds to.
Redirected(t, call, final_block) ==
    CASE t.label = ReturnLabel -> Goto(final_block)
      [] t.label = "resume" -> Goto(call.targets[2])
      [] OTHER -> [t EXCEPT !.targets = [k \in DOMAIN @ |-> @[k] + final_block + 1]]

\* The function's blocks go behind those that there are, with one before them
\* that assigns the result; the call becomes a goto.
Inline(bd, b) ==
    LET inner == Called(bd, b)
        final_block == Cardinality(DOMAIN bd)
        start_block == final_block + 1
        Live(i) == IF i = ENTRY THEN <<StorageLive>> \o inner[i].stmts ELSE inner[i].stmts
    IN  [c \in 0 .. final_block + Cardinality(DOMAIN inner) |->
            CASE c = b -> Block(bd[b].stmts, Goto(start_block))
              [] c < final_block /\ c # b -> bd[c]
              [] c = final_block -> Block(<<ResultLabel>>, Goto(bd[b].term.targets[1]))
              [] c > final_block ->
                   Block(Live(c - start_block),
                         Redirected(inner[c - start_block].term, bd[b].term, final_block))]

\* The blocks that are added are not looked at again.
InlineSelectedFunctions ==
    /\ Running("inline_selected_functions")
    /\ LET Inlined[n \in 0 .. Cardinality(BlockIds)] ==
              IF n = 0 THEN body
              ELSE LET bd == Inlined[n - 1]
                   IN  IF bd[n - 1].term.label \in DOMAIN ToInline THEN Inline(bd, n - 1) ELSE bd
       IN  body' = Inlined[Cardinality(BlockIds)]
    /\ passes' = Tail(passes)
    /\ StartPass
    /\ UNCHANGED <<antecedents, target, mirVars, original>>

-----------------------------------------------------------------------------
(* reconstruct_asserts *)

\* as_abort_map
Panics == {b \in BlockIds : /\ ToSet(body[b].stmts) \subseteq {StorageLive}
                            /\ body[b].term.label \in Aborts}

WithAssert(b, expected, abort, next) ==
    LET label == AssertLabel[<<body[b].term.label, expected, body[abort].term.label>>]
    IN  Block(Append(body[b].stmts, label), Goto(next))

\* Mutant of AsAssert: what is expected is mixed up.
ExpectTheOther(b) ==
    LET ways == Targets(b)
    IN  CASE body[b].term.label \notin Ifs -> body[b]
          [] body[b].term.label \in Ifs /\ ways[2] \in Panics ->
               WithAssert(b, FALSE, ways[2], ways[1])
          [] body[b].term.label \in Ifs /\ ways[2] \notin Panics /\ ways[1] \in Panics ->
               WithAssert(b, TRUE, ways[1], ways[2])
          [] OTHER -> body[b]

\* A branching with a way that only aborts is an assertion that this way is
\* not taken, and goes on with the other one.
AsAssert(b) ==
    LET ways == Targets(b)
    IN  CASE body[b].term.label \notin Ifs -> body[b]
          [] body[b].term.label \in Ifs /\ ways[1] \in Panics ->
               WithAssert(b, FALSE, ways[1], ways[2])
          [] body[b].term.label \in Ifs /\ ways[1] \notin Panics /\ ways[2] \in Panics ->
               WithAssert(b, TRUE, ways[2], ways[1])
          [] OTHER -> body[b]

ReconstructAsserts ==
    /\ Running("reconstruct_asserts")
    /\ body' = [b \in BlockIds |-> AsAssert(b)]
    /\ passes' = Tail(passes)
    /\ StartPass
    /\ UNCHANGED <<antecedents, target, mirVars, original>>

-----------------------------------------------------------------------------
(* duplicate_return *)

Return == Block(<<>>, Other(ReturnLabel, <<>>))

\* The jumps to a block that only returns, in the order in which they are
\* visited: each gets a fresh block, behind the others.
ReturnJumps == UNION {JumpsTo(r) : r \in {b \in BlockIds : body[b] = Return}}
\* Mutant of Before: the jumps of one block are not told apart.
BeforeByBlock(j, k) == j[1] < k[1]
Before(j, k) == j[1] < k[1] \/ (j[1] = k[1] /\ j[2] < k[2])
Size == Cardinality(BlockIds)
\* Mutant of Fresh: ids are generated from the number of jumps on.
FreshFromZero(j) == Cardinality({k \in ReturnJumps : Before(k, j)})
Fresh(j) == Size + Cardinality({k \in ReturnJumps : Before(k, j)})

DuplicateReturn ==
    /\ Running("duplicate_return")
    /\ body' = [b \in 0 .. Size + Cardinality(ReturnJumps) - 1 |->
                  IF b \notin BlockIds THEN Return
                  ELSE [body[b] EXCEPT !.term.targets =
                          [k \in DOMAIN @ |-> IF <<b, k>> \in ReturnJumps
                                              THEN Fresh(<<b, k>>) ELSE @[k]]]]
    /\ passes' = Tail(passes)
    /\ StartPass
    /\ UNCHANGED <<antecedents, target, mirVars, original>>

-----------------------------------------------------------------------------
(* filter_unreachable_blocks *)

\* The blocks that a search from the first one explores.
Explored == LET Within[n \in Nat] ==
                  IF n = 0 THEN {ENTRY}
                  ELSE Within[n - 1] \union UNION {ToSet(Targets(b)) : b \in Within[n - 1]}
            IN  Within[Size]

\* A block's id once only the explored blocks are left.
NewId(b) == Cardinality({c \in Explored : c < b})
OldId(i) == CHOOSE b \in Explored : NewId(b) = i

FilterUnreachable ==
    /\ Running("filter_unreachable_blocks")
    /\ body' = [i \in 0 .. Cardinality(Explored) - 1 |->
                  [body[OldId(i)] EXCEPT !.term.targets =
                     [k \in DOMAIN @ |-> NewId(@[k])]]]
    /\ passes' = Tail(passes)
    /\ StartPass
    /\ UNCHANGED <<antecedents, target, mirVars, original>>

PassesNext == \/ TranslateBody \/ InlineSelectedFunctions \/ MergeGotoChains
              \/ ReconstructAsserts \/ DuplicateReturn \/ FilterUnreachable

\* The passes are a sequential program.
PassesSpec == PassesInit /\ [][PassesNext]_pvars /\ WF_pvars(PassesNext)

-----------------------------------------------------------------------------
(* What a body does.  A point of a body is a block and how many of its       *)
(* statements were executed; gotos and StorageLive are silent.  An assertion  *)
(* is the branching that it was made of, and leads to a point of its own if   *)
(* it fails.                                                                  *)

Failed(how) == <<-1, how>>
HasFailed(p) == p[1] = -1

AtStatement(b, p) == ~HasFailed(p) /\ p[2] < Len(b[p[1]].stmts)
Statement(b, p) == b[p[1]].stmts[p[2] + 1]
AtGoto(b, p) == ~HasFailed(p) /\ ~AtStatement(b, p) /\ b[p[1]].term.goto

\* The point that silent steps lead to from a point.  A cycle of gotos without
\* any statement is left in the middle.
SilentStep(b, p) == IF AtGoto(b, p) THEN <<b[p[1]].term.targets[1], 0>>
                    ELSE IF AtStatement(b, p) /\ Statement(b, p) = StorageLive THEN <<p[1], p[2] + 1>>
                    ELSE p
Settled(b, p) ==
    LET After[n \in Nat] == IF n = 0 THEN p ELSE SilentStep(b, After[n - 1])
        lives == UNION {{c} \X {k \in DOMAIN b[c].stmts : b[c].stmts[k] = StorageLive} :
                           c \in DOMAIN b}
    IN  After[Cardinality(DOMAIN b) + Cardinality(lives) + 1]

AssertedBy == [l \in Assertions |-> CHOOSE a \in DOMAIN AssertLabel : AssertLabel[a] = l]
AtAssertion(b, p) == AtStatement(b, p) /\ Statement(b, p) \in Assertions

\* What can be seen at a settled point, and the points that may be next.
Seen(b, p) == IF HasFailed(p) THEN <<"terminator", p[2]>>
              ELSE IF AtGoto(b, p) THEN <<"diverges">>
              ELSE IF AtAssertion(b, p) THEN <<"terminator", AssertedBy[Statement(b, p)][1]>>
              ELSE IF AtStatement(b, p) THEN <<"statement", Statement(b, p)>>
              ELSE <<"terminator", b[p[1]].term.label>>
Succs(b, p) ==
    IF HasFailed(p) \/ AtGoto(b, p) THEN <<>>
    ELSE IF AtStatement(b, p)
    THEN LET next == Settled(b, <<p[1], p[2] + 1>>)
         IN  IF ~AtAssertion(b, p) THEN <<next>>
             ELSE LET a == AssertedBy[Statement(b, p)]
                  IN  IF a[2] THEN <<next, Failed(a[3])>> ELSE <<Failed(a[3]), next>>
    ELSE [k \in DOMAIN b[p[1]].term.targets |-> Settled(b, <<b[p[1]].term.targets[k], 0>>)]

\* Pairs of points of b and of c that the same run comes to; where the two
\* differ, the run is over.
Same(b, c, pair) == /\ Seen(b, pair[1]) = Seen(c, pair[2])
                    /\ Len(Succs(b, pair[1])) = Len(Succs(c, pair[2]))
PairsFrom(b, c) ==
    LET Points(g) == {Failed(how) : how \in Aborts}
                     \union UNION {{i} \X (0 .. Len(g[i].stmts)) : i \in DOMAIN g}
        Nexts(pair) == {<<Succs(b, pair[1])[k], Succs(c, pair[2])[k]>> :
                          k \in DOMAIN Succs(b, pair[1])}
        From[pairs \in SUBSET (Points(b) \X Points(c))] ==
          LET more == UNION {Nexts(pair) : pair \in {q \in pairs : Same(b, c, q)}}
          IN  IF more \subseteq pairs THEN pairs ELSE From[pairs \union more]
    IN  From[{<<Settled(b, <<ENTRY, 0>>), Settled(c, <<ENTRY, 0>>)>>}]

SameRuns(b, c) == \A pair \in PairsFrom(b, c) : Same(b, c, pair)

-----------------------------------------------------------------------------
(* Properties *)

BetweenPasses == pc \in {"antecedents", "done"}

\* After the translation and after each pass every run executes the same
\* statements in the same order, takes the same branchings, and ends or goes
\* on forever as before; if it fails an assertion that was a branching, it
\* aborts as it would have behind it.  A call that is to be inlined does what
\* the function does, before it is inlined as after.
BehaviourKept ==
    BetweenPasses /\ ~Running("translate_body") /\ body # original =>
      SameRuns(original, IF Running("inline_selected_functions") THEN Expanded(body) ELSE body)

\* duplicate_return gives each jump a return of its own ("introduce an
\* auxiliary block for this").
ReturnsUnshared ==
    BetweenPasses /\ Running("merge_goto_chains") /\ Len(passes) = 2 =>
      \A r \in BlockIds : body[r] = Return => Cardinality(JumpsTo(r)) <= 1

\* In the end all blocks can be reached, and no jump leads to a block that is
\* only a goto, but for cycles of them.
GraphIsCompact ==
    passes = <<>> =>
      /\ Explored = BlockIds
      /\ \A b \in BlockIds : \A t \in ToSet(Targets(b)) :
            IsTrivialGoto(t) => AtGoto(body, Settled(body, <<t, 0>>))

\* Climbing up a chain, merging down it and following gotos all come to an
\* end, in the second round of merge_goto_chains as in the first: what the
\* translation leaves out has no cycle of gotos that climbing would not leave.
PassesEnd == <>(passes = <<>>)
=============================================================================
