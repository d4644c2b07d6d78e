------------------------------ MODULE DeclOrder -----------------------------
(* The order of the declarations, which Charon settles last: an item comes  *)
(* after the items it uses, items that use each other form a group, and     *)
(* otherwise the order of the source is kept.  cargo-verify declares them   *)
(* in WhyML in this order, where nothing can be used ahead of its           *)
(* declaration; for traits and impls it declares nothing, and a group with  *)
(* items of different kinds is an error.                                    *)
(*                                                                          *)
(* The crate is what TranslateQueue has made of it: the items that were     *)
(* translated, and the methods that were left in traits and impls.  What an *)
(* item refers to is what its translation enqueued or needed.               *)
EXTENDS TranslateQueue, SequencesExt

CONSTANTS
    SourceOrder,  \* all items, by crate, file and place
    Kind,         \* of each item: "type", "fun", "global", "trait" or "impl"
    ParentOf      \* the trait or the impl that an item is written in, or itself

ASSUME SourceOrderAssumption ==
    /\ SourceOrder \in Seq(Items)
    /\ ToSet(SourceOrder) = Items
    /\ \A k, l \in DOMAIN SourceOrder : SourceOrder[k] = SourceOrder[l] => k = l

\* Methods are functions.  Traits and impls are not written in one another, and
\* what a trait has of its functions are signatures, which do not name them.
ASSUME ParentAssumption ==
    /\ Kind \in [Items -> {"type", "fun", "global", "trait", "impl"}]
    /\ ParentOf \in [Items -> Items]
    /\ \A i \in Items : ParentOf[i] # i => Kind[ParentOf[i]] \in {"trait", "impl"}
    /\ \A i \in Items : Kind[i] \in {"trait", "impl"} => ParentOf[i] = i
    /\ \A p \in Programs : \A i \in Items : \A k \in DOMAIN p.steps[i] :
           p.steps[i][k].op \in {"implement", "reuse"} => Kind[p.steps[i][k].item] = "fun"
    /\ \A p \in Programs : \A i, t \in Items : \A k \in DOMAIN p.steps[t] :
           Kind[i] = "fun" /\ Kind[t] = "trait" /\ ParentOf[i] = t =>
               /\ p.steps[t][k].op = "enqueue" => p.steps[t][k].item # i
               /\ p.steps[t][k].op \in {"need", "reuse"} => p.steps[t][k].needs # i

VARIABLES
    reordering,     \* whether the declarations are being ordered
    graph,          \* which item uses which, directly and over others; the groups
    roots,          \* the groups that the traversals have yet to start from
    stack,          \* DfsPostOrder: the groups to look at, the next one last ...
    discovered,     \* ... and those that were looked at
    ordered_decls,  \* the groups in their order, each a sequence of items
    declaring,      \* how many groups cargo-verify has gone through
    whyml_decls     \* the items that it has declared, and whether one could not be

traversal == <<roots, stack, discovered>>
orderVars == <<reordering, graph, traversal, ordered_decls>>
whymlVars == <<declaring, whyml_decls>>
declVars == <<orderVars, whymlVars>>

DeclInit == /\ Init
            /\ reordering = FALSE
            /\ graph = [node |-> {}, edge |-> {}, needs |-> <<>>, group |-> <<>>]
            /\ roots = <<>>
            /\ stack = <<>>
            /\ discovered = {}
            /\ ordered_decls = <<>>
            /\ declaring = 0
            /\ whyml_decls = [items |-> {}, error |-> FALSE]

Translate == ~reordering /\ Next /\ UNCHANGED declVars

-----------------------------------------------------------------------------
(* compute_declarations_graph *)

\* The methods of a trait or of an impl that are left, as items.
MethodsOf(i) == {s.item : s \in {r \in ElementsOf(program.steps[i]) :
                                   /\ r.op \in {"implement", "reuse"}
                                   /\ <<r.method, r.item>> \in impls}}
Mentions(i) == {s.item : s \in {r \in ElementsOf(program.steps[i]) : r.op = "enqueue"}}
               \union {s.needs : s \in {r \in ElementsOf(program.steps[i]) :
                                          r.op \in {"need", "reuse"}}}

\* Mutant of Uses: a method uses the impl that it is in, as any other.
UsesParentsToo(i) ==
    IF Kind[i] = "trait" THEN Mentions(i) \intersect translated
    ELSE (Mentions(i) \union MethodsOf(i)) \intersect translated

\* What an item has an edge to.  A method does not use the impl it is in; a
\* default uses its trait, whether or not it mentions it; a trait does not
\* use its defaults.
Uses(i) ==
    LET others == Mentions(i) \ ({ParentOf[i]} \ {i})
    IN  translated \intersect
        CASE Kind[i] = "trait" -> others
          [] Kind[i] = "fun" /\ Kind[ParentOf[i]] = "trait" -> others \union {ParentOf[i]}
          [] OTHER -> others \union MethodsOf(i)

\* What is reachable over an item: a trait's defaults are, too.
Reaches(i) == Uses(i) \union (MethodsOf(i) \intersect translated)

\* The items that can be reached from those that were selected.
Reached ==
    LET Within[n \in Nat] ==
          IF n = 0 THEN ToSet(program.queue) \intersect translated
          ELSE LET before == Within[n - 1]
               IN  before \union UNION {Reaches(i) : i \in before}
    IN  Within[Cardinality(Items)]

\* The items that an item uses, over others too.
Needs(edge, i) ==
    LET Used(S) == {e[2] : e \in {d \in edge : d[1] \in S}}
        Within[n \in Nat] == IF n = 0 THEN Used({i})
                             ELSE LET before == Within[n - 1] IN before \union Used(before)
    IN  Within[Cardinality(Items)]

-----------------------------------------------------------------------------
(* ordered_scc *)

\* The elements of a set by their places, and items by theirs in the source.
Sorted(S, place) ==
    [k \in 1 .. Cardinality(S) |->
        CHOOSE x \in S : Cardinality({y \in S : place[y] < place[x]}) = k - 1]
Place == [i \in Items |-> CHOOSE k \in DOMAIN SourceOrder : SourceOrder[k] = i]
InSourceOrder(S) == Sorted(S, Place)

\* The group of an item: those that use it and that it uses.
GroupIn(needs, i) == InSourceOrder({i} \union {j \in needs[i] : i \in needs[j]})

DeclGraph == LET node == Reached
                 edge == UNION {{i} \X Uses(i) : i \in node}
                 needs == [i \in node |-> Needs(edge, i)]
             IN  [node |-> node, edge |-> edge, needs |-> needs,
                  group |-> [i \in node |-> GroupIn(needs, i)]]

\* Mutant of GroupsOf: in the order of the groups' last items.
GroupsFromTheEnd(G, S) ==
    LET groups == {G.group[i] : i \in S}
        Places(g) == {Place[i] : i \in ToSet(g) \intersect S}
    IN  Sorted(groups, [g \in groups |-> CHOOSE k \in Places(g) : \A l \in Places(g) : k >= l])

\* The groups of a set of items, each once, by their first one there.
GroupsOf(G, S) ==
    LET groups == {G.group[i] : i \in S}
        Places(g) == {Place[i] : i \in ToSet(g) \intersect S}
    IN  Sorted(groups, [g \in groups |-> CHOOSE k \in Places(g) : \A l \in Places(g) : k <= l])

ComputeGraph == /\ pc = "done"
                /\ ~reordering
                /\ reordering' = TRUE
                /\ graph' = DeclGraph
                /\ roots' = GroupsOf(graph', graph'.node)
                /\ UNCHANGED <<vars, stack, discovered, ordered_decls, whymlVars>>

\* A traversal of its own from each group.
StartTraversal == /\ reordering
                  /\ stack = <<>>
                  /\ roots # <<>>
                  /\ stack' = <<Head(roots)>>
                  /\ roots' = Tail(roots)
                  /\ discovered' = {}
                  /\ UNCHANGED <<vars, reordering, graph, ordered_decls, whymlVars>>

\* What the items of a group use.
UsedBy(group) == {t \in graph.node : \E i \in ToSet(group) : <<i, t>> \in graph.edge}

\* Mutant of Discover: a group is listed when it is first seen, as Dfs does.
DiscoverAndList ==
    /\ stack # <<>>
    /\ Last(stack) \notin discovered
    /\ discovered' = discovered \union {Last(stack)}
    /\ stack' = stack \o GroupsOf(graph, {t \in UsedBy(Last(stack)) :
                                              graph.group[t] \notin discovered'})
    /\ ordered_decls' = IF Contains(ordered_decls, Last(stack)) THEN ordered_decls
                        ELSE Append(ordered_decls, Last(stack))
    /\ UNCHANGED <<vars, reordering, graph, roots, whymlVars>>

\* DfsPostOrder::next, for a group that it sees for the first time: the groups
\* that it uses, in the order of the items that it uses, are put on top.
Discover == /\ stack # <<>>
            /\ Last(stack) \notin discovered
            /\ discovered' = discovered \union {Last(stack)}
            /\ stack' = stack \o GroupsOf(graph, {t \in UsedBy(Last(stack)) :
                                                      graph.group[t] \notin discovered'})
            /\ UNCHANGED <<vars, reordering, graph, roots, ordered_decls, whymlVars>>

\* And for one that it comes back to: it is listed, unless it was before, in
\* this traversal or in another one.
Include == /\ stack # <<>>
           /\ Last(stack) \in discovered
           /\ stack' = Front(stack)
           /\ ordered_decls' = IF Contains(ordered_decls, Last(stack)) THEN ordered_decls
                               ELSE Append(ordered_decls, Last(stack))
           /\ UNCHANGED <<vars, reordering, graph, roots, discovered, whymlVars>>

Ordered == reordering /\ roots = <<>> /\ stack = <<>>

-----------------------------------------------------------------------------
(* translate_decl_group *)

\* Whether the items of a group can only be declared together.
IsRec(group) == Len(group) > 1 \/ (/\ Kind[group[1]] # "trait"
                                   /\ <<group[1], group[1]>> \in graph.edge)
IsMixed(group) == \E i, j \in ToSet(group) : Kind[i] # Kind[j]
\* For a trait, and for the functions in it, nothing is declared; functions
\* that are unsafe, for which nothing is either, are left out here.
Declarable(i) == \/ Kind[i] \in {"type", "global"}
                 \/ Kind[i] = "fun" /\ Kind[ParentOf[i]] # "trait"

TranslateDeclGroup ==
    /\ Ordered
    /\ ~whyml_decls.error
    /\ declaring < Len(ordered_decls)
    /\ declaring' = declaring + 1
    /\ LET group == ordered_decls[declaring']
       IN  \/ IsMixed(group) /\ whyml_decls' = [whyml_decls EXCEPT !.error = TRUE]
           \/ /\ ~IsMixed(group)
              /\ whyml_decls' = [whyml_decls EXCEPT
                                   !.items = @ \union {i \in ToSet(group) : Declarable(i)}]
    /\ UNCHANGED <<vars, orderVars>>

DeclNext == \/ Translate \/ ComputeGraph \/ StartTraversal \/ Discover \/ Include
            \/ TranslateDeclGroup

\* The loop over the queue is a sequential program; the order comes after it.
DeclSpec == DeclInit /\ [][DeclNext]_<<vars, declVars>> /\ WF_vars(Next)

-----------------------------------------------------------------------------
(* Properties *)

PositionOf(i) == CHOOSE k \in DOMAIN ordered_decls : Contains(ordered_decls[k], i)

\* Nothing is declared ahead of what it mentions, although edges to parents
\* are left out: types, functions and globals come earlier, or in the same
\* group, which is recursive then.  And each item that is reached is in one
\* place.  ("Always orders an item before any of its uses (except for
\* recursive cases).")
DeclaredBeforeUse ==
    /\ \A i \in whyml_decls.items : \A t \in Mentions(i) \intersect translated :
           Declarable(t) =>
               /\ t \in whyml_decls.items
               /\ PositionOf(t) = PositionOf(i) => IsRec(ordered_decls[PositionOf(i)])
    /\ Ordered =>
          /\ UNION {ToSet(ordered_decls[k]) : k \in DOMAIN ordered_decls} = graph.node
          /\ \A k, l \in DOMAIN ordered_decls :
                \A m \in DOMAIN ordered_decls[k], n \in DOMAIN ordered_decls[l] :
                    ordered_decls[k][m] = ordered_decls[l][n] => k = l /\ m = n

\* An impl and the methods in it are not taken for recursive, which would be
\* a group of two kinds: they are in a group together only if the method uses
\* what uses the impl.
MethodsApartFromImpl ==
    Ordered => \A i \in graph.node :
        LET p == ParentOf[i]
        IN  p # i /\ p \in graph.node /\ PositionOf(p) = PositionOf(i) =>
                \E j \in graph.node \ {p, i} : PositionOf(j) = PositionOf(i)

\* An item is only declared ahead of one that comes earlier in the source if
\* there is a need: one as early as that uses it or is in its group.  So an
\* order in which everything comes ahead of its uses is kept as it is.
\* ("otherwise keeps a stable order", "a minimal amount of reordering")
NoNeedlessReordering ==
    Ordered => \A k, l \in DOMAIN ordered_decls :
                  \A m \in DOMAIN ordered_decls[k], n \in DOMAIN ordered_decls[l] :
                      LET x == ordered_decls[k][m]
                          y == ordered_decls[l][n]
                      IN  (k < l \/ (k = l /\ m < n)) /\ Place[y] < Place[x] =>
                             \E z \in graph.node : Place[z] <= Place[y] /\ x \in graph.needs[z]
=============================================================================
