---------------------------- MODULE ControlFlow ----------------------------
(* What ullbc_to_llbc finds out about a graph of blocks before it builds    *)
(* structured code: which edges go backwards, the loops each block is in,   *)
(* and, for each loop and each switch, the block where control goes on      *)
(* behind it.                                                               *)
(*                                                                          *)
(* petgraph's traversals are followed in their order: the numbering that    *)
(* they give decides between exits.  A body's blocks are numbered from 0.   *)
EXTENDS Integers, Sequences, FiniteSets, SequencesExt, FiniteSetsExt

ENTRY == 0
NONE == -1

-----------------------------------------------------------------------------
(* Graphs: for each block the sequence of its successors, without doubles *)

Edges(body) == [x \in DOMAIN body |->
    FoldLeft(LAMBDA s, y : IF Contains(s, y) THEN s ELSE Append(s, y), <<>>, body[x].targets)]

Into(succs, x) == {y \in DOMAIN succs : Contains(succs[y], x)}
Without(succs, x) == [succs EXCEPT ![x] = <<>>]
Unseen(succs, x, seen) == SelectSeq(succs[x], LAMBDA y : y \notin seen \cup {x})

\* DfsWithPath and petgraph's Dfs; what is to be explored is a stack of paths.
\* When a block of `cut` is met, its successors count as discovered.
RECURSIVE Dfs(_, _, _, _)
Dfs(succs, cut, todo, seen) ==
    IF todo = <<>> THEN <<>>
    ELSE LET path == Last(todo)
             x == Last(path)
             new == Unseen(succs, x, seen)
         IN  IF x \in seen THEN Dfs(succs, cut, Front(todo), seen)
             ELSE <<path>> \o Dfs(succs, cut,
                                  Front(todo) \o [i \in DOMAIN new |-> Append(path, new[i])],
                                  seen \cup {x} \cup (IF x \in cut THEN ToSet(succs[x]) ELSE {}))

Lasts(paths) == [i \in DOMAIN paths |-> Last(paths[i])]
Preorder(succs, cut, x) == Lasts(Dfs(succs, cut, <<<<x>>>>, {}))
Reachable(succs, x) == ToSet(Preorder(succs, {}, x))

\* petgraph's DfsPostOrder
RECURSIVE Postorder(_, _, _, _)
Postorder(succs, todo, seen, out) ==
    IF todo = <<>> THEN out
    ELSE LET x == Last(todo) IN
         IF x \notin seen
         THEN Postorder(succs, todo \o Unseen(succs, x, seen), seen \cup {x}, out)
         ELSE Postorder(succs, Front(todo), seen, IF Contains(out, x) THEN out ELSE Append(out, x))

Dominates(succs, d, x) == d = x \/ x \notin Reachable(Without(succs, d), ENTRY)

-----------------------------------------------------------------------------
(* CfgInfo::build, up to the exits *)

\* The last block in postorder has the least number.
ReversePostorder(succs) ==
    LET order == Postorder(succs, <<ENTRY>>, {}, <<>>)
    IN  [x \in ToSet(order) |-> Cardinality(DOMAIN succs) - SelectInSeq(order, LAMBDA y : y = x)]

IsBackward(rank, x, y) == rank[x] >= rank[y]
Headers(succs, rank) == {y \in DOMAIN succs : \E x \in Into(succs, y) : IsBackward(rank, x, y)}

\* Mutant of IsReducible: the edge starts at the block that dominates.
IsReducibleSwapped(succs, rank) ==
    \A y \in DOMAIN succs : \A x \in Into(succs, y) :
        IsBackward(rank, x, y) => Dominates(succs, x, y)

\* A backward edge must lead to a block that dominates where it starts.
IsReducible(succs, rank) ==
    \A y \in DOMAIN succs : \A x \in Into(succs, y) :
        IsBackward(rank, x, y) => Dominates(succs, y, x)

\* The edges of the forward graph are added in the order in which a Dfs meets
\* the blocks that they lead to.
Forward(succs, rank) ==
    [x \in DOMAIN succs |-> SelectSeq(Preorder(succs, {}, ENTRY),
                                      LAMBDA y : Contains(succs[x], y) /\ ~IsBackward(rank, x, y))]

\* A block that is an error, or all of whose targets are known to lead to one:
\* the target of a backward edge is not known yet.
OnlyReachError(body, succs, order) ==
    FoldLeft(LAMBDA known, x :
                IF \/ body[x].kind = "abort"
                   \/ succs[x] # <<>> /\ ToSet(succs[x]) \subseteq known
                THEN known \cup {x} ELSE known,
             {}, order)

\* The water that each block gets of what is put on a block, split evenly at
\* each branching.  A unit is a number that can be split at every block.
FlowUnit(fwd) == 12 ^ Cardinality({x \in DOMAIN fwd : Len(fwd[x]) > 1})
Flow(fwd, order) ==
    FoldLeft(LAMBDA flow, x :
                [flow EXCEPT ![x] = [y \in DOMAIN fwd |->
                    IF y = x THEN FlowUnit(fwd)
                    ELSE FoldLeft(LAMBDA sum, child : sum + flow[child][y] \div Len(fwd[x]), 0, fwd[x])]],
             [x \in DOMAIN fwd |-> [y \in DOMAIN fwd |-> 0]], order)

\* dijkstra, with each edge of length 1
Distance(fwd, order) ==
    FoldLeft(LAMBDA dist, x :
                [dist EXCEPT ![x] = [y \in Reachable(fwd, x) |->
                    IF y = x THEN 0
                    ELSE 1 + Min({dist[child][y] : child \in {c \in ToSet(fwd[x]) : y \in DOMAIN dist[c]}})]],
             [x \in DOMAIN fwd |-> <<>>], order)

\* The loops on the path to a block that it can get back to: by one edge, or
\* by way of a loop that is itself within the other.  The result is in the
\* order of the path.
WithinLoops(succs, fwd, headers) ==
    FoldLeft(LAMBDA within, path :
                LET x == Last(path)
                    loops == SelectSeq(path, LAMBDA h : h \in headers)
                    directly == {h \in ToSet(loops) : Into(succs, h) \cap Reachable(fwd, x) # {}}
                    all == directly \cup UNION {ToSet(within[h]) : h \in directly}
                IN  [within EXCEPT ![x] = SelectSeq(loops, LAMBDA h : h \in all)],
             [x \in DOMAIN succs |-> <<>>], Dfs(succs, {}, <<<<ENTRY>>>>, {}))

-----------------------------------------------------------------------------
(* ExitInfo: g has what is known of the graph *)

IsWithinLoop(g, h, x) == Contains(g.within[x], h)

\* The first blocks outside of the loop.  What comes behind such a block counts
\* as discovered, even if the loop leads there as well.
LoopExitStartingPoints(g, h) ==
    LET outside == {x \in DOMAIN g.fwd : ~IsWithinLoop(g, h, x)}
    IN  SelectSeq(Preorder(g.fwd, outside, h), LAMBDA x : x \in outside)

\* How many of these lead to a block, and how near it is.
LoopExitRanks(g, h) ==
    LET starts == LoopExitStartingPoints(g, h)
    IN  [x \in UNION {Reachable(g.fwd, s) : s \in ToSet(starts)} |->
            [path_count |-> Len(SelectSeq(starts, LAMBDA s : x \in Reachable(g.fwd, s))),
             distance_from_header |-> g.distance[h][x]]]

AtLeast(r, s) == \/ r.path_count > s.path_count
                 \/ r.path_count = s.path_count /\ r.distance_from_header <= s.distance_from_header

TheOnly(S) == IF Cardinality(S) = 1 THEN CHOOSE x \in S : TRUE ELSE NONE

LoopExit(g, h) ==
    LET ranks == LoopExitRanks(g, h)
        best == {x \in DOMAIN ranks : \A y \in DOMAIN ranks : AtLeast(ranks[x], ranks[y])}
    IN  IF Cardinality(best) = 1 THEN TheOnly(best) ELSE TheOnly(best \ g.only_reach_error)

\* Without what leads out of `through`, nothing in `targets` is reached.
AllPathsGoThrough(g, x, through, targets) ==
    (Reachable(Without(g.fwd, through), x) \ {x}) \cap targets = {}

\* The block that gets most of the water, and the first such in the order.
SwitchExitCandidate(g, x) ==
    LET loops == g.within[x]
        reached == {y \in Reachable(g.fwd, x) \ {x} :
                       loops # <<>> => IsWithinLoop(g, Last(loops), y)}
        better(y, z) == \/ g.flow[x][y] > g.flow[x][z]
                        \/ g.flow[x][y] = g.flow[x][z] /\ g.rank[y] <= g.rank[z]
    IN  IF reached = {} THEN NONE ELSE CHOOSE y \in reached : \A z \in reached : better(y, z)

\* Mutant of InOrder: inner switches choose first.
InReverseOrder(g) == SetToSortSeq(g.switches, LAMBDA x, y : g.rank[x] > g.rank[y])

InOrder(g) == SetToSortSeq(g.switches, LAMBDA x, y : g.rank[x] < g.rank[y])

\* Outer switches come first; an inner one has no exit if it would be the exit
\* of an outer one, or if one of those can be reached beside it.
SwitchExits(g) ==
    LET take(exits, x) ==
            LET exit == SwitchExitCandidate(g, x)
                taken == {exits[y] : y \in DOMAIN exits} \ {NONE}
            IN  IF exit # NONE /\ exit \notin taken /\ AllPathsGoThrough(g, x, exit, taken)
                THEN [exits EXCEPT ![x] = exit] ELSE exits
    IN  FoldLeft(take, [x \in DOMAIN g.fwd |-> NONE], InOrder(g))

\* The graph of a body; the exits only if it is reducible.
CfgInfo(body) ==
    LET succs == Edges(body)
        rank == ReversePostorder(succs)
        headers == Headers(succs, rank)
        fwd == Forward(succs, rank)
        order == Postorder(fwd, <<ENTRY>>, {}, <<>>)
        g == [rank |-> rank, headers |-> headers, fwd |-> fwd,
              switches |-> {x \in DOMAIN body : body[x].kind \in {"if", "switchInt"}},
              only_reach_error |-> OnlyReachError(body, succs, order),
              flow |-> Flow(fwd, order), distance |-> Distance(fwd, order),
              within |-> WithinLoops(succs, fwd, headers)]
    IN  [irreducible |-> ~IsReducible(succs, rank),
         headers |-> headers,
         loop_exit |-> [h \in headers |-> LoopExit(g, h)],
         switch_exit |-> SwitchExits(g)]
=============================================================================
