------------------------------ MODULE SpecNames -----------------------------
(* What becomes of the collected contracts.  After the batch, the pass      *)
(* collect_specs::non_body moves the invariants of types, which are methods *)
(* of implementations of the internal trait TypeInvariant, into the types'  *)
(* specifications.  Then cargo-verify reads the crate, and name_map::build  *)
(* gives every local of every body a name.  It finds the bodies of a table  *)
(* only by following whoever refers to them, and unwraps a name for each.   *)
(*                                                                          *)
(* A name is that of the source and the depth of the body it is in; names   *)
(* that are equal in one body are told apart by a number.  What matters     *)
(* here is the depth, so a body's names are one pair.                       *)
EXTENDS SpecCollect

CONSTANTS Types,            \* types that may have an invariant
          InvariantImpls    \* sequences of implementations of TypeInvariant

\* Two implementations of the trait for a type conflict with each other, as
\* those that the macro writes have the type's parameters for parameters.
ASSUME ImplsAssumption ==
    \A impls \in InvariantImpls :
        /\ impls \in Seq([type : Types, method : Hosts])
        /\ \A i, j \in DOMAIN impls :
              i # j => impls[i].type # impls[j].type /\ impls[i].method # impls[j].method

VARIABLES
    stage,          \* "batch", "non_body" or "named"
    impls,          \* the implementations of TypeInvariant that are left
    spec_bodies,    \* the crate's table of collected bodies of invariants
    invariants,     \* each type's specifications: ids of spec_bodies
    names           \* the bodies that got names, with the depth of these

tables == <<impls, spec_bodies, invariants>>
allVars == <<vars, stage, tables, names>>

\* An invariant is one expression: it has no contract of its own.
IsExpression(f) == /\ terms[f] # <<>>
                   /\ \A t \in ToSet(terms[f]) : t.kind \in {"entry", "quant", "goto", "return"}

NamesInit == /\ Init
             /\ stage = "batch"
             /\ impls \in InvariantImpls
             /\ \A i \in DOMAIN impls : IsExpression(impls[i].method)
             /\ spec_bodies = <<>>
             /\ invariants = [t \in Types |-> <<>>]
             /\ names = {}

RunBatch == /\ stage = "batch"
            /\ Next
            /\ UNCHANGED <<stage, tables, names>>

EndBatch == /\ stage = "batch"
            /\ BatchDone
            /\ stage' = "non_body"
            /\ UNCHANGED <<vars, tables, names>>

-----------------------------------------------------------------------------
(* collect_specs::non_body *)

\* The method must still be in its slot.  The type's list is replaced.
CollectInvariant ==
    /\ stage = "non_body"
    /\ impls # <<>>
    /\ Head(impls).method \in fun_decls
    /\ fun_decls' = fun_decls \ {Head(impls).method}
    /\ spec_bodies' = Append(spec_bodies, Head(impls).method)
    /\ invariants' = [invariants EXCEPT ![Head(impls).type] = <<Len(spec_bodies) + 1>>]
    /\ impls' = Tail(impls)
    /\ UNCHANGED <<type_decls, trait_impls, todo, item, pass, frames, transformed,
                   terms, specs, written, applied, stage, names>>

-----------------------------------------------------------------------------
(* name_map::build *)

\* The bodies that a type or a function of the crate has, with their depth.
Owned ==
    {<<spec_bodies[id], 0>> : id \in UNION {ToSet(invariants[t]) : t \in Types}}
    \union {<<f, 0>> : f \in fun_decls}
    \union {<<f, 1>> : f \in UNION {ToSet(preconditions[g]) \union ToSet(postconditions[g]) :
                                      g \in fun_decls}}

\* Mutant of Carried: the closures are named as the body they are in.
CarriedAtSameDepth(body) == {<<f, body[2]>> : f \in CarriedBy(body[1])}

\* traverse_spec_closures: the closures that a body's statements carry.
Carried(body) == {<<f, body[2] + 1>> : f \in CarriedBy(body[1])}

\* LocalMapper::map on every owned body, and on what these carry.
Mapped == LET Within[n \in Nat] ==
                IF n = 0 THEN Owned
                ELSE LET before == Within[n - 1]
                     IN  before \union UNION {Carried(body) : body \in before}
          IN  Within[Cardinality(Closures)]

\* Each entry of the two tables of bodies must have got names.
BuildNames == /\ stage = "non_body"
              /\ impls = <<>>
              /\ names' = Mapped
              /\ ToSet(spec_bodies) \union ToSet(spec_closures)
                    \subseteq {body[1] : body \in Mapped}
              /\ stage' = "named"
              /\ UNCHANGED <<vars, tables>>

Named == stage = "named"

NamesNext == \/ RunBatch \/ EndBatch \/ CollectInvariant \/ BuildNames
             \/ Named /\ UNCHANGED allVars

\* Charon's passes and the translation that reads their output are
\* sequential, as the batch is.
NamesSpec == NamesInit /\ [][NamesNext]_allVars /\ WF_allVars(NamesNext)

-----------------------------------------------------------------------------
(* Properties *)

\* The batch comes to an end, though it deletes what it has yet to visit, and
\* what it and the collection of invariants leave behind has names: no body
\* of a table is without an owner, which the unwrap would show too late.
EveryBodyGetsNamed == <>Named

\* Each body in the table of invariants' bodies is that of one type.
SpecBodiesOwned == \A id \in DOMAIN spec_bodies : \E t \in Types : invariants[t] = <<id>>

\* How many bodies are around a body in the source.
Encloses(g, f) == \E t \in ToSet(written[g]) :
                     t.kind \in SpecKinds /\ f = Method(t.closure, "Fn")
NestingDepth(f) ==
    LET Outwards[n \in Nat] ==
          IF n = 0 THEN {f}
          ELSE {g \in BodiesWritten : \E h \in Outwards[n - 1] : Encloses(g, h)}
    IN  Cardinality({n \in 1 .. Cardinality(Closures) : Outwards[n] # {}})

\* Names say how deep a body is nested: a contract's local never has the
\* name of a local of a body around it, which it may capture or quantify
\* over, whichever list or table the contract went through.
NamesTellNesting ==
    Named => \A f \in BodiesWritten :
                {body \in names : body[1] = f} = {<<f, NestingDepth(f)>>}
=============================================================================
