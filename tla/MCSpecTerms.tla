----------------------------- MODULE MCSpecTerms -----------------------------
(* Contract bodies with one argument (local 1) and one temporary (local 2):  *)
(* one or two branchings, one of them nested in the other, or a row of       *)
(* three chunks, with early exits in the branches; and quantifiers whose     *)
(* closures capture up to two locals, branch, exit early and quantify.       *)
EXTENDS SpecTerms

Rvalues == {Const(0), Const(1), Use(0), Use(1), Use(2)}
Simple == {Assign(l, r) : l \in {0, 2}, r \in Rvalues} \union {Check(1, 1), Check(2, 0)}
Leaves == {<<s>> : s \in {Assign(0, Const(1)), Assign(0, Use(2)), Assign(2, Use(1)),
                          Abort, Return}}
          \union {<<Assign(0, Const(0)), Return>>, <<Check(2, 1), Assign(2, Const(0))>>}

Switches(ls, blocks) ==
    {If(l, t, f) : l \in ls, t \in blocks, f \in blocks}
    \union {Match(l, <<<<{0}, t>>, <<{1}, f>>>>, <<>>) : l \in ls, t \in blocks, f \in blocks}
    \union {Match(l, <<<<{0}, t>>>>, <<>>) : l \in ls, t \in blocks}

\* Empty branches and a body that only panics, which the translation does
\* not survive.
Unexpected == {<<Abort>>} \union {<<Assign(0, Use(1)), If(1, <<>>, <<Abort>>), Return>>,
          <<Assign(0, Use(1)), If(1, <<>>, <<Assign(0, Const(1))>>), Return>>}

Nested == {<<a, s, b>> : a \in {Assign(2, Const(1)), Assign(0, Use(1))},
                         s \in Switches({1}, {<<Abort>>, <<Assign(2, Use(1))>>,
                                              <<Assign(0, Const(1))>>}),
                         b \in {Assign(0, Use(2)), Assign(2, Const(0))}}

Programs ==
    {<<a, s, b, Return>> : a \in Simple, s \in Switches({1, 2}, Leaves), b \in Simple}
    \union {<<a, s, b, t, c, Return>> :
              a \in {Assign(0, Use(1)), Assign(2, Const(1))},
              s \in Switches({1}, {<<Assign(2, Use(1))>>, <<Assign(0, Const(0))>>, <<Abort>>}),
              b \in {Assign(2, Use(1)), Assign(0, Use(2))},
              t \in Switches({2}, {<<Assign(0, Const(1))>>, <<Assign(0, Use(2))>>, <<Return>>}),
              c \in {Assign(2, Const(0)), Assign(0, Use(2))}}
    \union {<<Assign(0, Const(0)), If(1, n, m), a, Return>> :
              n \in Nested, m \in {<<Assign(2, Const(0))>>, <<Return>>},
              a \in {Assign(0, Use(2)), Assign(2, Use(1))}}

\* The bodies of closures with n captures and m arguments, one of them with
\* a quantifier of its own, and the quantifiers of closures in a body.
ClosureBodies(n, m) ==
    LET own == 1 .. n + m
    IN  {<<Assign(0, Call(l, k)), Return>> : l, k \in own}
        \union {<<Check(l, 1), Assign(0, Use(k)), Return>> : l, k \in own}
        \union {<<Assign(0, Use(l)), If(k, <<t>>, <<f>>), Return>> :
                  l, k \in own, t \in {Assign(0, Const(1)), Return},
                  f \in {Assign(0, Use(1)), Abort}}
        \union {<<Quantified(all, 0, <<Use(k)>>, 1, <<Assign(0, Call(l, 1)), Return>>), Return>> :
                  all \in BOOLEAN, k \in own, l \in {1, 2}}
Captures == {<<>>} \union {<<Use(k)>> : k \in {1, 2}} \union {<<Use(2), Use(1)>>}
QuantsTo(l) ==
    UNION {{Quantified(all, l, c, 1, b) : all \in BOOLEAN, b \in ClosureBodies(Len(c), 1)} :
             c \in Captures}
    \union {Quantified(all, l, <<Use(2)>>, 2, b) : all \in BOOLEAN, b \in ClosureBodies(1, 2)}

Quantifying ==
    {<<a, q, Return>> : a \in {Assign(2, Const(1)), Assign(2, Use(1))}, q \in QuantsTo(0)}
    \union {<<Assign(2, Use(1)), q, Assign(0, Call(2, 1)), Return>> : q \in QuantsTo(2)}
    \union {<<Assign(2, Use(1)), If(1, <<Assign(2, Const(0))>>, <<x>>), q, Return>> :
               q \in QuantsTo(0), x \in {Abort, Assign(2, Use(1))}}
    \union {<<Assign(0, Const(0)), Assign(2, Use(1)), If(1, <<q>>, <<x>>), b, Return>> :
               q \in QuantsTo(2), x \in {Return, Assign(2, Const(1))},
               b \in {Assign(0, Call(1, 2)), Check(2, 1)}}
    \union {<<Assign(2, Const(0)), q, If(2, <<Assign(0, Use(1))>>, <<Assign(0, Const(1))>>),
               Return>> : q \in QuantsTo(2)}

\* rustc accepts a body that only reads locals that are assigned on every
\* path: the locals assigned for sure behind a block, from those before it.
RECURSIVE After(_, _)
Ok(ls) == [ok |-> TRUE, set |-> ls]
After(block, ls) ==
    IF block = <<>> THEN Ok(ls)
    ELSE LET s == Head(block)
             Read(r, more) == IF r \subseteq ls THEN After(Tail(block), ls \union more)
                              ELSE [ok |-> FALSE, set |-> {}]
         IN  CASE s.kind = "assign" -> Read(Reads(s.rvalue), {s.dst})
               [] s.kind = "quant" ->
                    IF After(s.body, 1 .. Len(s.captures) + s.args).ok
                    THEN Read(CapturedLocals(s), {s.dst}) ELSE [ok |-> FALSE, set |-> {}]
               [] s.kind = "assert" -> Read({s.cond}, {})
               [] s.kind = "abort" -> Ok(Locals)
               [] s.kind = "return" -> [ok |-> RET \in ls, set |-> Locals]
               [] s.kind = "match" ->
                    LET ends == {After(b, ls) : b \in Inner(s)}
                    IN  IF s.scrutinee \in ls /\ \A e \in ends : e.ok
                        THEN After(Tail(block), {l \in Locals : \A e \in ends : l \in e.set})
                        ELSE [ok |-> FALSE, set |-> {}]

MCBodies == {p \in Programs \union Unexpected \union Quantifying : After(p, Params).ok}
=============================================================================
