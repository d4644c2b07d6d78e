--------------------------- MODULE MCSpecCollect ---------------------------
(* Every crate of two functions and three contract closures: each closure   *)
(* is written in a function or in an earlier closure; and each function may *)
(* be the invariant of a type.                                              *)
EXTENDS SpecNames, ContractMacros

CONSTANTS h1, h2, c1, c2, c3, t1, t2

Closure == <<c1, c2, c3>>

\* Contracts of a function are attributes of a function, and come ahead of what
\* is in its body.
AttributeKinds == {"precondition", "postcondition"}
Owners == {o \in [1 .. 3 -> Hosts \union Closures] :
             \A i \in 1 .. 3 : o[i] \in Hosts \union {Closure[j] : j \in 1 .. i - 1}}
Kinds(o) == {k \in [1 .. 3 -> SpecKinds] :
               \A i \in 1 .. 3 :
                   k[i] \in AttributeKinds =>
                       /\ o[i] \in Hosts
                       /\ \A j \in 1 .. i : o[j] = o[i] => k[j] \in AttributeKinds}

\* What is written in x, in the order of its body: of attributes, the first is
\* the innermost.  A function without any contract has no body, as an external
\* one.
Written(x, o, k) == SelectSeq(<<1, 2, 3>>, LAMBDA i : o[i] = x)
Attributes(x, o, k) ==
    LET is == Reverse(SelectSeq(Written(x, o, k), LAMBDA i : k[i] \in AttributeKinds))
    IN  [j \in DOMAIN is |-> Attribute(k[is[j]], Closure[is[j]])]
InBody(x, o, k) ==
    LET is == SelectSeq(Written(x, o, k), LAMBDA i : k[i] \notin AttributeKinds)
    IN  FlattenSeq([j \in DOMAIN is |->
            IF k[is[j]] = "quant" THEN quant(Closure[is[j]])
            ELSE contract_assert(Closure[is[j]])])
Calls(x, o, k) == Expanded(ItemFn(Attributes(x, o, k), InBody(x, o, k))).calls
BodyOf(x, o, k) == IF x \in Hosts /\ Calls(x, o, k) = <<>> THEN <<>>
                   ELSE Calls(x, o, k) \o <<Goto, [kind |-> "return"]>>
Bodies(o, k) == [f \in FunIds |-> IF f \in Hosts THEN BodyOf(f, o, k)
                                  ELSE IF f[2] = "Fn" THEN BodyOf(f[1], o, k)
                                  ELSE <<[kind |-> "return"]>>]

\* Ids follow the translation's worklist: a closure's come after those of
\* the body it is written in, before or after those of the next function.
RECURSIVE RootOf(_, _)
RootOf(i, o) == IF o[i] \in Hosts THEN o[i]
                ELSE RootOf(CHOOSE j \in 1 .. 3 : Closure[j] = o[i], o)
MethodIds(S) == FlattenSeq([i \in 1 .. 3 |->
                  IF i \in S THEN <<Method(Closure[i], "FnOnce"),
                                    Method(Closure[i], "FnMut"),
                                    Method(Closure[i], "Fn")>> ELSE <<>>])
Under(h, o) == MethodIds({i \in 1 .. 3 : RootOf(i, o) = h})
Orders(o) == {<<h1, h2>> \o MethodIds(1 .. 3),
              <<h1>> \o Under(h1, o) \o <<h2>> \o Under(h2, o)}

MCPrograms == UNION {UNION {{[terms |-> Bodies(o, k), order |-> r] :
                               r \in Orders(o)} : k \in Kinds(o)} : o \in Owners}

MCInvariantImpls == {<<>>, <<invariant(t1, h2)>>, <<invariant(t1, h2), invariant(t2, h1)>>}
=============================================================================
