------------------------------ MODULE SpecTerms ------------------------------
(* cargo-verify turns the body of a contract, which is LLBC code that        *)
(* assigns locals, branches and returns, into one WhyML term.  It goes       *)
(* backwards through each block: the term of what comes after a statement is *)
(* the continuation of the statement.  To not copy the continuation of a     *)
(* branching into each branch, a block is cut behind its branchings and each *)
(* chunk but the first becomes a local function of the locals it needs,      *)
(*     let block_2 = fun in_locals -> ... in ... block_2 in_locals           *)
(* in_locals, the locals that the term so far may mention, is collected on   *)
(* the way.  Loops and nested assertions are rejected by the code.           *)
(*                                                                           *)
(* A quantifier is a call with a closure, whose body is a contract's body    *)
(* again: its term stands in the middle of the outer one, with names for its *)
(* locals that tell how deep it is nested (name_map), and with a let for     *)
(* each local that it captures.                                              *)
(*                                                                           *)
(* The scrutinee of a match is a local whose value is the variant's number.  *)
EXTENDS Naturals, Sequences, FiniteSets, SequencesExt

CONSTANTS Params,  \* locals bound around the term: captures and arguments
          Temps,   \* the other locals of a body but the return value
          Bodies,  \* contract bodies: sequences of statements
          NoTerm   \* no term yet

RET == 0
Locals == {RET} \union Params \union Temps
Values == {0, 1}

ASSUME LocalsAssumption == RET \notin Params \union Temps /\ Params \intersect Temps = {}

VARIABLES body,      \* the contract's body
          pc,        \* "llbc", then "whyml" or "panic"
          term,      \* its term ...
          in_locals  \* ... and the locals that the term may mention

vars == <<body, pc, term, in_locals>>

-----------------------------------------------------------------------------
(* LLBC *)

\* An rvalue is a constant, the copy of a local, or a call with two of them
\* (of a function, or of an operator), which tells its arguments apart.
Const(v) == [kind |-> "const", value |-> v]
Use(l) == [kind |-> "use", local |-> l]
Call(l, m) == [kind |-> "call", args |-> <<l, m>>]
Reads(r) == CASE r.kind = "const" -> {}
              [] r.kind = "use" -> {r.local}
              [] r.kind = "call" -> ToSet(r.args)
Implies(v, w) == IF v = 1 THEN w ELSE 1

Assign(l, r) == [kind |-> "assign", dst |-> l, rvalue |-> r]
\* A closure's locals are 0, then one per captured rvalue, then `args` ones.
Quantified(all, l, captures, args, block) ==
    [kind |-> "quant", all |-> all, dst |-> l, captures |-> captures, args |-> args,
     body |-> block]
Check(l, expected) == [kind |-> "assert", cond |-> l, expected |-> expected]
Abort == [kind |-> "abort"]
Return == [kind |-> "return"]
\* Arms are pairs of a set of values and a block, tried in turn; `otherwise`
\* is a sequence of at most one block.
Match(l, arms, otherwise) ==
    [kind |-> "match", scrutinee |-> l, arms |-> arms, otherwise |-> otherwise]
If(l, block_t, block_f) == Match(l, <<<<{1}, block_t>>>>, <<block_f>>)

Unset == 2
Aborted == [kind |-> "aborted"]
Returned(v) == [kind |-> "returned", value |-> v]
Running(env) == [kind |-> "running", env |-> env]
ValueOf(r, env) == CASE r.kind = "const" -> r.value
                     [] r.kind = "use" -> env[r.local]
                     [] r.kind = "call" -> Implies(env[r.args[1]], env[r.args[2]])
BoolOf(p) == IF p THEN 1 ELSE 0

\* What running a block does, from an assignment of values to the locals.
RECURSIVE Exec(_, _)
Exec(block, env) ==
    IF block = <<>> THEN Running(env)
    ELSE LET s == Head(block)
             Then(outcome) == IF outcome.kind = "running"
                              THEN Exec(Tail(block), outcome.env) ELSE outcome
             Arms == {i \in DOMAIN s.arms : env[s.scrutinee] \in s.arms[i][1]}
         IN  CASE s.kind = "assign" ->
                    Then(Running([env EXCEPT ![s.dst] = ValueOf(s.rvalue, env)]))
             [] s.kind = "quant" ->
                    LET n == Len(s.captures)
                        Holds(vs) ==
                          Exec(s.body, [l \in Locals |->
                            IF l \in 1 .. n THEN ValueOf(s.captures[l], env)
                            ELSE IF l \in n + 1 .. n + s.args THEN vs[l - n] ELSE Unset])
                          = Returned(1)
                        All == [1 .. s.args -> Values]
                    IN  Then(Running([env EXCEPT ![s.dst] =
                          BoolOf(IF s.all THEN \A vs \in All : Holds(vs)
                                 ELSE \E vs \in All : Holds(vs))]))
             [] s.kind = "assert" ->
                    IF env[s.cond] = s.expected THEN Then(Running(env)) ELSE Aborted
             [] s.kind = "abort" -> Aborted
             [] s.kind = "return" -> Returned(env[RET])
             [] s.kind = "match" ->
                    IF Arms # {}
                    THEN Then(Exec(s.arms[CHOOSE i \in Arms : \A j \in Arms : i <= j][2], env))
                    ELSE IF s.otherwise # <<>> THEN Then(Exec(s.otherwise[1], env))
                    ELSE Aborted

-----------------------------------------------------------------------------
(* WhyML *)

Num(v) == [kind |-> "num", value |-> v]
FALSE_TERM == Num(0)
Var(x) == [kind |-> "var", name |-> x]
CallTerm(x, y) == [kind |-> "call", args |-> <<x, y>>]
Let(x, t, u) == [kind |-> "let", name |-> x, is |-> t, in |-> u]
IfIn(x, values, t, f) == [kind |-> "if", name |-> x, values |-> values, yes |-> t, no |-> f]
Apply(k, xs) == [kind |-> "apply", block |-> k, args |-> xs]
LetBlock(k, xs, t, u) == [kind |-> "let_block", block |-> k, params |-> xs, is |-> t, in |-> u]
Quant(all, xs, t) == [kind |-> "quant", all |-> all, params |-> xs, is |-> t]

\* Are all variables and all local functions that a term mentions bound,
\* when these variables and functions are bound around it?
RECURSIVE Scoped(_, _, _)
Scoped(t, xs, blocks) ==
    CASE t.kind = "num" -> TRUE
      [] t.kind = "var" -> t.name \in xs
      [] t.kind = "call" -> ToSet(t.args) \subseteq xs
      [] t.kind = "let" -> /\ Scoped(t.is, xs, blocks)
                           /\ Scoped(t.in, xs \union {t.name}, blocks)
      [] t.kind = "if" -> /\ t.name \in xs
                          /\ Scoped(t.yes, xs, blocks)
                          /\ Scoped(t.no, xs, blocks)
      [] t.kind = "apply" -> t.block \in blocks /\ t.args \subseteq xs
      [] t.kind = "let_block" -> /\ Scoped(t.is, xs \union t.params, blocks)
                                 /\ Scoped(t.in, xs, blocks \union {t.block})
      [] t.kind = "quant" -> Scoped(t.is, xs \union t.params, blocks)

\* A term's value under the values of its variables and the local functions
\* in scope.  A variable that is not bound has no value: Unset.
Bound(x, env) == IF x \in DOMAIN env THEN env[x] ELSE Unset
RECURSIVE Eval(_, _, _)
Eval(t, env, blocks) ==
    CASE t.kind = "num" -> t.value
      [] t.kind = "var" -> Bound(t.name, env)
      [] t.kind = "call" -> Implies(Bound(t.args[1], env), Bound(t.args[2], env))
      [] t.kind = "let" -> Eval(t.in, (t.name :> Eval(t.is, env, blocks)) @@ env, blocks)
      [] t.kind = "if" -> IF Bound(t.name, env) \in t.values
                          THEN Eval(t.yes, env, blocks) ELSE Eval(t.no, env, blocks)
      [] t.kind = "apply" ->
             IF t.block \notin DOMAIN blocks THEN Unset
             ELSE LET f == blocks[t.block]
                  IN  Eval(f.is, [x \in f.params |-> Bound(x, env)] @@ f.env, f.blocks)
      [] t.kind = "let_block" ->
             LET f == [params |-> t.params, is |-> t.is, env |-> env, blocks |-> blocks]
             IN  Eval(t.in, env, (t.block :> f) @@ blocks)
      [] t.kind = "quant" ->
             LET Holds(vs) == Eval(t.is, vs @@ env, blocks) = 1
                 All == [t.params -> Values]
             IN  BoolOf(IF t.all THEN \A vs \in All : Holds(vs) ELSE \E vs \in All : Holds(vs))

-----------------------------------------------------------------------------
(* The translation: a term and its in_locals *)

Translated(t, ls) == [term |-> t, in_locals |-> ls]

\* split_inclusive: the block is cut behind each branching.
Chunks(block) ==
    LET cuts == SetToSortSeq({i \in DOMAIN block : block[i].kind = "match"}
                               \union ({Len(block)} \ {0}), <)
        From(k) == IF k = 1 THEN 1 ELSE cuts[k - 1] + 1
    IN  [k \in DOMAIN cuts |-> SubSeq(block, From(k), cuts[k])]

\* Mutant of Name: nested bodies use the names of the outer ones.
NameAtAnyDepth(d, l) == <<0, l>>

\* The name of a local of a body that is nested d deep, and of some locals.
Name(d, l) == <<d, l>>
Names(d, ls) == {Name(d, l) : l \in ls}

TermOf(d, r) == CASE r.kind = "const" -> Num(r.value)
                  [] r.kind = "use" -> Var(Name(d, r.local))
                  [] r.kind = "call" -> CallTerm(Name(d, r.args[1]), Name(d, r.args[2]))

\* Mutant of WithBlocks: as if a let were recursive, the outermost function is the first.
WithBlocksReversed(d, ts) ==
    LET n == Len(ts)
        Nested[k \in 1 .. n] ==
          IF k = 1 THEN ts[1].term
          ELSE LetBlock(n + 2 - k, Names(d, ts[n + 2 - k].in_locals), ts[n + 2 - k].term,
                        Nested[k - 1])
    IN  Translated(Nested[n], ts[1].in_locals)

\* The local functions around the first chunk's term: each chunk calls the
\* next one, so the function of the last chunk is the outermost.
WithBlocks(d, ts) ==
    LET Nested[k \in DOMAIN ts] ==
          IF k = 1 THEN ts[1].term
          ELSE LetBlock(k, Names(d, ts[k].in_locals), ts[k].term, Nested[k - 1])
    IN  Translated(Nested[Len(ts)], ts[1].in_locals)

\* Mutant of Assigned: the assigned local is removed last.
AssignedLast(d, l, t, reads, after) ==
    Translated(Let(Name(d, l), t, after.term), (after.in_locals \union reads) \ {l})

\* translate_assign: the assigned local is bound here, those read are needed.
Assigned(d, l, t, reads, after) ==
    Translated(Let(Name(d, l), t, after.term), (after.in_locals \ {l}) \union reads)

\* translate_assert: the continuation, or FALSE.
Asserted(d, s, after) ==
    Translated(IF s.expected = 1 THEN IfIn(Name(d, s.cond), {1}, after.term, FALSE_TERM)
               ELSE IfIn(Name(d, s.cond), {1}, FALSE_TERM, after.term),
               after.in_locals \union {s.cond})

RECURSIVE TranslateStatement(_, _, _), TranslateInnerBlock(_, _, _), ClosureTerm(_, _, _)

\* translate_if and translate_match: every branch starts from the locals of
\* the continuation; without an otherwise, FALSE is left.
TranslateMatch(d, s, after) ==
    LET n == Len(s.arms)
        From[i \in 1 .. n + 1] ==
          IF i = n + 1
          THEN IF s.otherwise = <<>> THEN Translated(FALSE_TERM, after.in_locals)
               ELSE TranslateInnerBlock(d, s.otherwise[1], after)
          ELSE LET arm == TranslateInnerBlock(d, s.arms[i][2], after)
                   others == From[i + 1]
               IN  Translated(IfIn(Name(d, s.scrutinee), s.arms[i][1], arm.term, others.term),
                              others.in_locals \union arm.in_locals)
        all == From[1]
    IN  Translated(all.term, all.in_locals \union {s.scrutinee})

\* Mutant of CapturedLocals: what the closure captures is not asked for.
NoLocals(s) == {}

\* The locals that a quantifier's closure captures.
CapturedLocals(s) == UNION {Reads(r) : r \in ToSet(s.captures)}

\* translate_quant: the closure's arguments are bound, its captures let.
TranslateQuant(d, s, after) ==
    LET n == Len(s.captures)
        t == Quant(s.all, Names(d + 1, n + 1 .. n + s.args), ClosureTerm(d, s.captures, s.body))
    IN  Assigned(d, s.dst, t, CapturedLocals(s), after)

TranslateStatement(d, s, after) ==
    CASE s.kind = "assign" -> Assigned(d, s.dst, TermOf(d, s.rvalue), Reads(s.rvalue), after)
      [] s.kind = "quant" -> TranslateQuant(d, s, after)
      [] s.kind = "assert" -> Asserted(d, s, after)
      [] s.kind = "abort" -> Translated(FALSE_TERM, after.in_locals)
      [] s.kind = "return" -> Translated(Var(Name(d, RET)), after.in_locals \union {RET})
      [] s.kind = "match" -> TranslateMatch(d, s, after)

\* A chunk, backwards, from what comes after it; and all chunks of a block,
\* each of which ends by calling the next one's function.
TranslateChunk(d, chunk, after) ==
    FoldRight(LAMBDA s, t : TranslateStatement(d, s, t), chunk, after)
TranslateChunks(d, chunks, continuation) ==
    LET n == Len(chunks)
        At[k \in 1 .. n] ==
          TranslateChunk(d, chunks[k],
            IF k = n THEN continuation
            ELSE LET ls == At[k + 1].in_locals
                 IN  Translated(Apply(k + 1, Names(d, ls)), ls))
    IN  WithBlocks(d, At)

TranslateInnerBlock(d, block, continuation) ==
    TranslateChunks(d, Chunks(block), continuation)
\* The return at the end of the body starts from nothing.
TranslateOutermostBlock(d, block) ==
    TranslateChunks(d, Chunks(block), Translated(FALSE_TERM, {}))

\* translate_spec_closure, of a closure in a body at depth d: captured local i
\* is let to the i-th captured rvalue of that body.
ClosureTerm(d, captures, block) ==
    FoldRight(LAMBDA i, t : Let(Name(d + 1, i), TermOf(d, captures[i]), t),
              [i \in DOMAIN captures |-> i],
              TranslateOutermostBlock(d + 1, block).term)

\* The blocks directly inside of a statement.
Inner(s) == IF s.kind = "match"
            THEN {s.arms[j][2] : j \in DOMAIN s.arms} \union ToSet(s.otherwise) ELSE {}

\* An inner block without statements has no chunks: the unwrap of the last
\* one panics.  So does the assertion that a body ends in a return.
RECURSIVE HasEmptyInner(_)
Panics(block) == Last(block) # Return \/ HasEmptyInner(block)
HasEmptyInner(block) ==
    \E i \in DOMAIN block :
        \/ \E inner \in Inner(block[i]) : inner = <<>> \/ HasEmptyInner(inner)
        \/ block[i].kind = "quant" /\ Panics(block[i].body)

Init == /\ body \in Bodies
        /\ pc = "llbc"
        /\ term = NoTerm
        /\ in_locals = {}

TranslateSpecClosure == /\ pc = "llbc"
                        /\ ~Panics(body)
                        /\ LET t == TranslateOutermostBlock(1, body)
                           IN  term' = t.term /\ in_locals' = t.in_locals
                        /\ pc' = "whyml"
                        /\ UNCHANGED body

Panic == /\ pc = "llbc"
         /\ Panics(body)
         /\ pc' = "panic"
         /\ UNCHANGED <<body, term, in_locals>>

Next == TranslateSpecClosure \/ Panic

Spec == Init /\ [][Next]_vars

-----------------------------------------------------------------------------
(* Properties *)

\* The contract's term is true exactly when its body returns true; it is
\* false when the body panics.  Whatever the chunks, whatever is shadowed.
Meaning ==
    pc = "whyml" =>
      \A env \in [Params -> Values] :
          LET run == Exec(body, [l \in Locals |-> IF l \in Params THEN env[l] ELSE Unset])
              names == [x \in Names(1, Params) |-> env[x[2]]]
          IN  Eval(term, names, <<>>) = IF run.kind = "returned" THEN run.value ELSE 0

RECURSIVE ExitsEarly(_)
ExitsEarly(block) ==
    \E i \in DOMAIN block :
        \/ block[i].kind = "abort"
        \/ block[i].kind = "match" /\ block[i].otherwise = <<>>
        \/ \E inner \in Inner(block[i]) : Return \in ToSet(inner) \/ ExitsEarly(inner)
        \/ block[i].kind = "quant" /\ ExitsEarly(block[i].body)

\* WhyML accepts the contract: all that it mentions is bound around it.
WellScoped == pc = "whyml" => Scoped(term, Names(1, Params), {})

\* ... which is so when every path through the body goes to its end.
WellScopedWithoutEarlyExit == ~ExitsEarly(body) => WellScoped
=============================================================================
