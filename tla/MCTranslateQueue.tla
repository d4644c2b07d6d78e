-------------------------- MODULE MCTranslateQueue --------------------------
(* Crates with one trait, its impl, a function that calls its methods, and   *)
(* two types that may need each other: method m is required, and the impl    *)
(* has a function for it; method n has a default, which the impl reuses or   *)
(* overrides.  And crates of four functions that mention each other in every *)
(* way.                                                                      *)
EXTENDS DeclOrder

MCItems == {"trait", "impl", "default", "function", "override", "caller", "type", "type_",
            "f", "g", "h"}
MCMethods == {"m", "n"}

\* A trait uses its required methods, a transparent one all its methods; the
\* defaults are registered.  A closure type in the signatures is needed there
\* and then.  The trait may fail behind its methods, or at once.
TraitSteps ==
    {a \o b \o <<Implement("n", "default")>> \o c :
       a \in {<<>>, <<Enqueue("type"), Need("type")>>},
       b \in {<<Use("m")>>, <<Use("m"), Use("n")>>},
       c \in {<<>>, <<Stop>>}}
    \union {<<Stop>>}
\* A transparent impl uses the methods that it has functions for.
ImplSteps ==
    {<<Enqueue("trait"), Implement("m", "function"), ReuseDefault("trait", "n", "default")>>,
     <<Enqueue("trait"), Use("m"), Implement("m", "function"),
       ReuseDefault("trait", "n", "default")>>,
     <<Enqueue("trait"), Implement("m", "function"), Implement("n", "override")>>,
     <<Enqueue("trait"), Use("m"), Implement("m", "function"),
       Use("n"), Implement("n", "override")>>}
\* A function that is translated uses the method that it is of.
\* It may call the caller, for a recursion over the impl.
FunctionSteps == {<<Enqueue("impl"), Enqueue("trait"), Use("m")>>,
                  <<Enqueue("impl"), Enqueue("trait"), Use("m"), Enqueue("caller")>>}
OverrideSteps == <<Enqueue("impl"), Enqueue("trait"), Use("n")>>
DefaultSteps == <<Enqueue("trait"), Use("n"), Enqueue("type_")>>
CallerSteps == {<<Enqueue("impl"), Use("n")>>, <<Use("n"), Enqueue("impl")>>,
                <<Enqueue("trait"), Use("m")>>, <<Enqueue("type"), Need("type"), Use("n")>>,
                <<Enqueue("type_"), Need("type_"), Enqueue("impl"), Use("m"), Use("n")>>}
\* Closure types, of which the one may capture the other.
TypeSteps == {<<>>, <<Stop>>, <<Enqueue("type_"), Need("type_")>>}
OtherTypeSteps == {<<>>, <<Stop>>, <<Enqueue("type"), Need("type")>>}

Queues == {<<"caller">>, <<"caller", "impl">>, <<"impl", "trait", "caller">>,
           <<"function", "trait">>, <<"default", "type">>}

TraitPrograms ==
    {[queue |-> q,
      steps |-> [i \in MCItems |-> CASE i = "trait" -> t [] i = "impl" -> p
                   [] i = "default" -> DefaultSteps [] i = "function" -> f
                   [] i = "override" -> OverrideSteps [] i = "caller" -> c
                   [] i = "type" -> x [] i = "type_" -> y [] OTHER -> <<>>]] :
       q \in Queues, t \in TraitSteps, p \in ImplSteps, f \in FunctionSteps,
       c \in CallerSteps, x \in TypeSteps, y \in OtherTypeSteps}

\* Each function is an entry point or is found from another one; the first
\* may call itself.
MCSourceOrder == <<"trait", "f", "g", "caller", "h", "type_", "impl", "default",
                   "override", "function", "type">>
Functions == {"caller", "f", "g", "h"}
Calls(S) == [k \in 1 .. Cardinality(S) |-> Enqueue(InSourceOrder(S)[k])]
Callees == {c \in [Functions -> SUBSET Functions] :
              \A i \in Functions : i \in c[i] => i = "g"}
CallPrograms ==
    {[queue |-> <<"g", "caller", "h", "f">>,
      steps |-> [i \in MCItems |-> IF i \in Functions THEN Calls(c[i]) ELSE <<>>]] :
       c \in Callees}

MCPrograms == TraitPrograms \union CallPrograms

MCKind == [i \in MCItems |-> CASE i \in {"trait", "impl"} -> i
                               [] i \in {"type", "type_"} -> "type"
                               [] OTHER -> "fun"]
MCParentOf == [i \in MCItems |-> CASE i \in {"function", "override"} -> "impl"
                                   [] i = "default" -> "trait"
                                   [] OTHER -> i]
=============================================================================
