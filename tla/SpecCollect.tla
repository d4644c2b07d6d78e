----------------------------- MODULE SpecCollect ----------------------------
(* Contracts reach Charon as ordinary calls: `precondition(|| e)` in the    *)
(* body of the function it is about, with the closure as an item of its own *)
(* (a type, three impls of the Fn traits, their methods).  The fused ULLBC  *)
(* batch of run_transformation_passes visits one function after the other   *)
(* and runs every pass on it; in the middle of the batch the pass           *)
(* collect_specs::unstructured_body moves the closures' bodies into the     *)
(* function's specifications and deletes their items, while the batch       *)
(* still holds the ids of the items it has to visit.                        *)
(*                                                                          *)
(* A body is a sequence of blocks, of which only the terminator is kept;    *)
(* no body at all is the empty sequence.  Passes other than the collection  *)
(* are logged on the bodies they visit.  An unwrap or an assert that fails  *)
(* is a step that is not enabled: the batch is stuck.                       *)
EXTENDS Naturals, Sequences, FiniteSets, SequencesExt

CONSTANTS Hosts,     \* functions that are not the methods of contract closures
          Closures,  \* contract closures
          Programs,  \* crates: the bodies, and the order of the function ids
          PassesBefore, PassesAfter,  \* how many passes surround the collection
          None       \* no item

\* A closure is callable through three traits, with one method each.  Its
\* body is that of the Fn method; the other two methods call that one.
FnTraits == {"Fn", "FnMut", "FnOnce"}
Method(c, t) == <<c, t>>
Methods(c) == {Method(c, t) : t \in FnTraits}
Impls(c) == {<<c, t>> : t \in FnTraits}
FunIds == Hosts \union (Closures \X FnTraits)

\* What the collection does with a call, by the builtin that is called.
\* SpecAssert and SpecAssume only differ in the kind of their terminator,
\* SpecForAll and SpecExists likewise.
SpecKinds == {"precondition", "postcondition", "contract_assert", "quant"}
Terminators == [kind : SpecKinds, closure : Closures]
               \union [kind : {"entry", "goto", "return"}]
               \union [kind : {"contract"}, spec_closure_id : Nat]
Goto == [kind |-> "goto"]
Contract(id) == [kind |-> "contract", spec_closure_id |-> id]

ASSUME ClosuresAssumption == IsFiniteSet(Closures)
ASSUME NoneAssumption == None \notin FunIds
ASSUME HostsAssumption == Hosts \intersect (Closures \X FnTraits) = {}
ASSUME PassesAssumption == PassesBefore \in Nat /\ PassesAfter \in Nat
ASSUME ProgramsAssumption ==
    \A p \in Programs : /\ p.terms \in [FunIds -> Seq(Terminators)]
                        /\ \A f \in FunIds : \A i \in DOMAIN p.terms[f] :
                               p.terms[f][i].kind # "contract"
                        /\ p.order \in Seq(FunIds)

\* A contract closure is one that a body hands to a builtin, in the one place
\* where it is written: in a function, or in the Fn method of a closure, which
\* the other two methods only call.  Pre- and postconditions are attributes,
\* which closures do not have.
HandsOver(t, c) == t.kind \in SpecKinds /\ t.closure = c
BodiesWritten == Hosts \union {Method(c, "Fn") : c \in Closures}
ASSUME WrittenAssumption ==
    \A p \in Programs :
        /\ \A f \in FunIds \ BodiesWritten : \A i \in DOMAIN p.terms[f] :
               p.terms[f][i].kind \notin SpecKinds \union {"entry"}
        /\ \A c \in Closures : \A i \in DOMAIN p.terms[Method(c, "Fn")] :
               p.terms[Method(c, "Fn")][i].kind \notin {"precondition", "postcondition"}
        /\ \A c \in Closures : \E f \in BodiesWritten : \E i \in DOMAIN p.terms[f] :
               HandsOver(p.terms[f][i], c)
        /\ \A c \in Closures : \A f, g \in FunIds :
               \A i \in DOMAIN p.terms[f], j \in DOMAIN p.terms[g] :
                   HandsOver(p.terms[f][i], c) /\ HandsOver(p.terms[g][j], c)
                       => f = g /\ i = j

\* The batch goes through all ids once, in the order of the translation: that
\* of a body is there before those of the closures in it.
ASSUME OrderAssumption ==
    \A p \in Programs :
        /\ ToSet(p.order) = FunIds
        /\ \A k, l \in DOMAIN p.order : p.order[k] = p.order[l] => k = l
        /\ \A c \in Closures : \A f \in FunIds : \A i \in DOMAIN p.terms[f] :
               HandsOver(p.terms[f][i], c) =>
                   \A k, l \in DOMAIN p.order :
                       p.order[k] = f /\ p.order[l] \in Methods(c) => k < l

VARIABLES
    fun_decls, type_decls, trait_impls,  \* the crate's tables: ids with an item
    todo,           \* for_each_item_mut: the function ids still to visit
    item,           \* the function taken out of its slot, or None
    pass,           \* the next pass of the batch to run on it
    frames,         \* the calls of Transform::transform_function in progress
    transformed,    \* functions that the collection has seen
    terms,          \* each body's terminators, in block order
    preconditions, postconditions,  \* each function's specifications
    spec_closures,  \* the crate's table of the other collected closures
    written,        \* ghost: the terminators before the batch
    applied         \* ghost: the passes that ran on each body, in order

crate == <<fun_decls, type_decls, trait_impls>>
specs == <<preconditions, postconditions, spec_closures>>
vars == <<crate, todo, item, pass, frames, transformed, terms, specs, written, applied>>

-----------------------------------------------------------------------------
(* The batch *)

Init == /\ \E p \in Programs : terms = p.terms /\ todo = p.order
        /\ written = terms
        /\ fun_decls = FunIds
        /\ type_decls = Closures
        /\ trait_impls = Closures \X FnTraits
        /\ item = None
        /\ pass = 1
        /\ frames = <<>>
        /\ transformed = {}
        /\ preconditions = [f \in FunIds |-> <<>>]
        /\ postconditions = [f \in FunIds |-> <<>>]
        /\ spec_closures = <<>>
        /\ applied = [f \in FunIds |-> <<>>]

COLLECT == PassesBefore + 1
LastPass == COLLECT + PassesAfter

\* The spec closures that a body's terminators refer to.
CarriedBy(f) == {spec_closures[t.spec_closure_id] :
                   t \in {u \in ToSet(terms[f]) : u.kind = "contract"}}

\* Mutant of BodiesVisited: only what the function refers to itself.
DirectBodiesVisited(f) == {f} \union ToSet(preconditions[f])
                          \union ToSet(postconditions[f]) \union CarriedBy(f)

\* FunDecl::for_each_body: the body, those of the function's specifications,
\* and those of the spec closures that any of these refer to; no more.
HoldsBodiesOf(S, f) ==
    /\ {f} \union ToSet(preconditions[f]) \union ToSet(postconditions[f]) \subseteq S
    /\ \A g \in S : CarriedBy(g) \subseteq S
BodiesVisited(f) ==
    LET bodies == BodiesWritten \union {f}
    IN  {g \in bodies : \A S \in SUBSET bodies : HoldsBodiesOf(S, f) => g \in S}

\* Mutant of TakeItem: the item stays in its slot.
TakeItemByReference == /\ item = None
                       /\ todo # <<>>
                       /\ Head(todo) \in fun_decls
                       /\ item' = Head(todo)
                       /\ todo' = Tail(todo)
                       /\ pass' = 1
                       /\ UNCHANGED <<crate, frames, transformed, terms, specs,
                                      written, applied>>

\* remove_item_temporarily finds the item.
TakeItem == /\ item = None
            /\ todo # <<>>
            /\ Head(todo) \in fun_decls
            /\ item' = Head(todo)
            /\ todo' = Tail(todo)
            /\ fun_decls' = fun_decls \ {Head(todo)}
            /\ pass' = 1
            /\ UNCHANGED <<type_decls, trait_impls, frames, transformed, terms,
                           specs, written, applied>>

\* Mutant of SkipItem: the loop does not move on from a deleted item.
SkipItemInPlace == /\ item = None
                   /\ todo # <<>>
                   /\ Head(todo) \notin fun_decls
                   /\ UNCHANGED vars

\* The item was deleted while the batch went on.
SkipItem == /\ item = None
            /\ todo # <<>>
            /\ Head(todo) \notin fun_decls
            /\ todo' = Tail(todo)
            /\ UNCHANGED <<crate, item, pass, frames, transformed, terms, specs,
                           written, applied>>

\* Any pass but the collection: transform_function visits the item's bodies.
RunPass == /\ item # None
           /\ pass \in 1 .. LastPass \ {COLLECT}
           /\ applied' = [f \in FunIds |-> IF f \in BodiesVisited(item)
                                           THEN Append(applied[f], pass)
                                           ELSE applied[f]]
           /\ pass' = pass + 1
           /\ UNCHANGED <<crate, todo, item, frames, transformed, terms, specs, written>>

\* put_item_back fills the item's slot, which set_slot asserts to be empty.
PutItemBack == /\ item # None
               /\ pass = LastPass + 1
               /\ item \notin fun_decls
               /\ fun_decls' = fun_decls \union {item}
               /\ item' = None
               /\ UNCHANGED <<type_decls, trait_impls, todo, pass, frames, transformed,
                              terms, specs, written, applied>>

-----------------------------------------------------------------------------
(* The collection: Transform::transform_function and, when a closure is      *)
(* collected, its recursive call on the closure's method                     *)

Top == Last(frames)
Callers == SubSeq(frames, 1, Len(frames) - 1)

\* Mutant of Frame: the collection does not recurse into closures.
FrameOfHost(f) == [fun |-> f, next |-> IF f \in Hosts THEN 1 ELSE Len(terms[f]) + 1]

\* A call that begins: it returns at once for a function seen before.
Frame(f) == [fun |-> f, next |-> IF f \in transformed THEN Len(terms[f]) + 1 ELSE 1]
Enter(f) == /\ frames' = Append(frames, Frame(f))
            /\ transformed' = transformed \union {f}

\* The loop over the blocks: where a call has come to, whether it is done.
BlockOf(frame) == terms[frame.fun][frame.next]
Finished(frame) == frame.next > Len(terms[frame.fun])
Advance(fs) == [fs EXCEPT ![Len(fs)].next = @ + 1]
SetTerminator(frame, t) == terms' = [terms EXCEPT ![frame.fun][frame.next] = t]

StartCollect == /\ item # None
                /\ pass = COLLECT
                /\ frames = <<>>
                /\ Enter(item)
                /\ UNCHANGED <<crate, todo, item, pass, terms, specs, written, applied>>

FinishCollect == /\ Len(frames) = 1
                 /\ Finished(Top)
                 /\ frames' = <<>>
                 /\ pass' = pass + 1
                 /\ UNCHANGED <<crate, todo, item, transformed, terms, specs,
                                written, applied>>

\* A block that ends in something else than a call of a specification.
PassBlock == /\ frames # <<>>
             /\ ~Finished(Top)
             /\ BlockOf(Top).kind \notin SpecKinds \union {"entry"}
             /\ frames' = Advance(frames)
             /\ UNCHANGED <<crate, todo, item, pass, transformed, terms, specs,
                            written, applied>>

\* The call that marks the block before a specification becomes a jump.
CollectEntry == /\ frames # <<>>
                /\ ~Finished(Top)
                /\ BlockOf(Top).kind = "entry"
                /\ SetTerminator(Top, Goto)
                /\ frames' = Advance(frames)
                /\ UNCHANGED <<crate, todo, item, pass, transformed, specs, written,
                               applied>>

\* Mutant of CollectClosure: the closure's type is kept.
CollectClosureKeepType ==
    /\ frames # <<>>
    /\ ~Finished(Top)
    /\ BlockOf(Top).kind \in SpecKinds
    /\ LET c == BlockOf(Top).closure
       IN  /\ Impls(c) \subseteq trait_impls
           /\ Methods(c) \subseteq fun_decls
           /\ trait_impls' = trait_impls \ Impls(c)
           /\ fun_decls' = fun_decls \ Methods(c)
           /\ Enter(Method(c, "Fn"))
    /\ UNCHANGED <<type_decls, todo, item, pass, terms, specs, written, applied>>

\* collect_spec_closure deletes the closure's type, its impls and their
\* methods, each of which must still be there, and keeps the Fn method.
CollectClosure ==
    /\ frames # <<>>
    /\ ~Finished(Top)
    /\ BlockOf(Top).kind \in SpecKinds
    /\ LET c == BlockOf(Top).closure
       IN  /\ Impls(c) \subseteq trait_impls
           /\ Methods(c) \subseteq fun_decls
           /\ type_decls' = type_decls \ {c}
           /\ trait_impls' = trait_impls \ Impls(c)
           /\ fun_decls' = fun_decls \ Methods(c)
           /\ Enter(Method(c, "Fn"))
    /\ UNCHANGED <<todo, item, pass, terms, specs, written, applied>>

\* Mutants of Attach: a list filled from its front; the id of an entry of
\* the table computed as if ids began at 0.
AttachInFront(caller, f) ==
    \/ /\ BlockOf(caller).kind = "precondition"
       /\ preconditions' = [preconditions EXCEPT ![caller.fun] = <<f>> \o @]
       /\ SetTerminator(caller, Goto)
       /\ UNCHANGED <<postconditions, spec_closures>>
    \/ /\ BlockOf(caller).kind = "postcondition"
       /\ postconditions' = [postconditions EXCEPT ![caller.fun] = <<f>> \o @]
       /\ SetTerminator(caller, Goto)
       /\ UNCHANGED <<preconditions, spec_closures>>
    \/ /\ BlockOf(caller).kind \in {"contract_assert", "quant"}
       /\ spec_closures' = Append(spec_closures, f)
       /\ SetTerminator(caller, Contract(Len(spec_closures) + 1))
       /\ UNCHANGED <<preconditions, postconditions>>
AttachOffByOne(caller, f) ==
    /\ spec_closures' = Append(spec_closures, f)
    /\ SetTerminator(caller, Contract(Len(spec_closures)))
    /\ UNCHANGED <<preconditions, postconditions>>

\* The closure's own body is collected: it joins its caller's specifications.
Attach(caller, f) ==
    \/ /\ BlockOf(caller).kind = "precondition"
       /\ preconditions' = [preconditions EXCEPT ![caller.fun] = Append(@, f)]
       /\ SetTerminator(caller, Goto)
       /\ UNCHANGED <<postconditions, spec_closures>>
    \/ /\ BlockOf(caller).kind = "postcondition"
       /\ postconditions' = [postconditions EXCEPT ![caller.fun] = Append(@, f)]
       /\ SetTerminator(caller, Goto)
       /\ UNCHANGED <<preconditions, spec_closures>>
    \/ /\ BlockOf(caller).kind \in {"contract_assert", "quant"}
       /\ spec_closures' = Append(spec_closures, f)
       /\ SetTerminator(caller, Contract(Len(spec_closures) + 1))
       /\ UNCHANGED <<preconditions, postconditions>>

ReturnToCaller == /\ Len(frames) > 1
                  /\ Finished(Top)
                  /\ Attach(Last(Callers), Top.fun)
                  /\ frames' = Advance(Callers)
                  /\ UNCHANGED <<crate, todo, item, pass, transformed, written, applied>>

BatchDone == item = None /\ todo = <<>>

Next == \/ TakeItem \/ SkipItem \/ RunPass \/ PutItemBack
        \/ StartCollect \/ FinishCollect \/ PassBlock \/ CollectEntry
        \/ CollectClosure \/ ReturnToCaller
        \/ BatchDone /\ UNCHANGED vars

Spec == Init /\ [][Next]_vars

\* The batch is a sequential loop: nothing else keeps it from going on.
FairSpec == Spec /\ WF_vars(Next)

-----------------------------------------------------------------------------
(* Properties *)

TypeOK == /\ fun_decls \subseteq FunIds
          /\ type_decls \subseteq Closures
          /\ trait_impls \subseteq Closures \X FnTraits
          /\ todo \in Seq(FunIds)
          /\ item \in (FunIds \ fun_decls) \union {None}
          /\ pass \in 1 .. LastPass + 1
          /\ frames \in Seq([fun : FunIds, next : Nat \ {0}])
          /\ transformed \subseteq FunIds
          /\ terms \in [FunIds -> Seq(Terminators)]
          /\ preconditions \in [FunIds -> Seq(FunIds)]
          /\ postconditions \in [FunIds -> Seq(FunIds)]
          /\ spec_closures \in Seq(FunIds)
          /\ written \in [FunIds -> Seq(Terminators)]
          /\ applied \in [FunIds -> Seq(1 .. LastPass)]

\* The collected body f is in a list of preconditions or of postconditions,
\* or in the table of spec closures; it is on its way there.
InPreconditions(f) == \E g \in FunIds : f \in ToSet(preconditions[g])
InPostconditions(f) == \E g \in FunIds : f \in ToSet(postconditions[g])
InSpecClosures(f) == f \in ToSet(spec_closures)
Collecting(f) == \E k \in 2 .. Len(frames) : frames[k].fun = f

\* A contract is never lost and never doubled: until it is collected the
\* closure is an item; from then on its body is in exactly one place.
ClosureIsInOnePlace ==
    \A c \in Closures :
        LET f == Method(c, "Fn")
            places == <<c \in type_decls, Collecting(f), InPreconditions(f),
                        InPostconditions(f), InSpecClosures(f)>>
        IN  \E p \in DOMAIN places : \A q \in DOMAIN places : places[q] <=> q = p

\* Whoever follows the terminators of the bodies (name_map does, and unwraps
\* what it finds) meets each entry of the table of spec closures, and once.
SpecClosuresReferencedOnce ==
    /\ \A f \in FunIds : \A i \in DOMAIN terms[f] :
           terms[f][i].kind = "contract" =>
               /\ terms[f][i].spec_closure_id \in DOMAIN spec_closures
               /\ \A g \in FunIds : \A j \in DOMAIN terms[g] :
                      terms[g][j] = terms[f][i] => g = f /\ j = i
    /\ \A id \in DOMAIN spec_closures :
           \E f \in FunIds : \E i \in DOMAIN terms[f] : terms[f][i] = Contract(id)

\* How many of a function's blocks the collection has dealt with.
BlocksDone(f) == IF \E k \in DOMAIN frames : frames[k].fun = f
                 THEN frames[CHOOSE k \in DOMAIN frames : frames[k].fun = f].next - 1
                 ELSE IF f \in transformed THEN Len(written[f]) ELSE 0

\* The calls of one kind in a function's first n blocks.
Calling(f, kind, n) == {i \in 1 .. n : written[f][i].kind = kind}

\* The list holds the closures of these calls, one for each, in their order.
HoldsInOrder(list, f, kind, n) ==
    \E at \in [DOMAIN list -> Calling(f, kind, n)] :
        /\ \A i \in Calling(f, kind, n) : \E j \in DOMAIN list : at[j] = i
        /\ \A j, k \in DOMAIN list : j < k => at[j] < at[k]
        /\ \A j \in DOMAIN list : list[j] = Method(written[f][at[j]].closure, "Fn")

\* A function's contracts are those of its own blocks, in their order,
\* however many closures were collected inside these in between.
ContractsInOrder ==
    \A f \in FunIds :
        /\ HoldsInOrder(preconditions[f], f, "precondition", BlocksDone(f))
        /\ HoldsInOrder(postconditions[f], f, "postcondition", BlocksDone(f))

\* Nothing of the contracts' encoding is left in the crate: no closure item
\* and no call of a builtin, at whatever depth it was.
NoEncodingLeft ==
    BatchDone => /\ type_decls = {} /\ trait_impls = {} /\ fun_decls \subseteq Hosts
                 /\ \A f \in FunIds : \A t \in ToSet(terms[f]) :
                        t.kind \notin SpecKinds \union {"entry"}

\* The passes that clean up after the collection ("they are useful to clean
\* up the output of this pass") run once and in order on every function and on
\* every contract, however deep inside other contracts it was, behind those
\* before the collection; and these run on functions alone.
CleanupReachesEveryBody ==
    BatchDone =>
        /\ \A f \in Hosts : applied[f] =
               [n \in 1 .. PassesBefore + PassesAfter |-> IF n < COLLECT THEN n ELSE n + 1]
        /\ \A c \in Closures : applied[Method(c, "Fn")] =
               [n \in 1 .. PassesAfter |-> COLLECT + n]
=============================================================================
