------------------------------ MODULE LoopExprs ------------------------------
(* cargo-verify turns the body of a function, structured LLBC code, into a   *)
(* WhyML expression.  WhyML has no loop that is left from within: a loop     *)
(* becomes `while true` with two exceptions of its own, one to leave it and  *)
(* one to start its next turn, named by how deep the loop is:                *)
(*     exception Break'd in try while true do                                *)
(*         exception Continue'd in try ... with Continue'd -> () end         *)
(*     done with Break'd -> () end                                           *)
(* A break or a continue, which LLBC numbers from the innermost loop out,    *)
(* raises the exception of its loop; a return raises Return.                 *)
(*                                                                           *)
(* An operator of MIR becomes a function of the library for its type, and a  *)
(* check that rustc has put in becomes a branch that must not be reached; so *)
(* must be an assertion of a contract that does not hold.                    *)
(*                                                                           *)
(* Values are machine integers, booleans, tuples, structs and enums (see     *)
(* DataTypes).  References are left out of bodies: the translation drops     *)
(* them, & and * alike.  A struct is made and taken apart, its fields are    *)
(* not assigned; WhyML's rules for records that may be shared are not known  *)
(* from the code.                                                            *)
EXTENDS DataTypes, TLC

CONSTANTS Bodies,   \* the functions, with their bodies
          Turns,    \* how many turns of loops a run may take in all
          NoExpr,   \* no expression yet
          Unset     \* what a local has that nothing was assigned to

VARIABLES body,   \* the function, in its crate
          pc,     \* "llbc", "types", then "whyml"
          names,  \* the name_map
          decls,  \* the crate's groups of types in WhyML
          expr    \* the function's declaration in WhyML

vars == <<body, pc, names, decls, expr>>

-----------------------------------------------------------------------------
(* LLBC *)

\* A place is a local, or a field of what a place has; ty is its type.  A
\* projection into a variant is into that which the value is of.
TUPLE == 0
Local(l, ty) == [kind |-> "place", local |-> l, projs |-> <<>>, ty |-> ty]
FieldOf(x, adt, variant, i, ty) ==
    [x EXCEPT !.projs = Append(@, [adt |-> adt, variant |-> variant, field |-> i]), !.ty = ty]
Field(l, i, ty) == FieldOf(Local(l, ty), TUPLE, STRUCT, i, ty)
Const(n, ty) == [kind |-> "const", value |-> n, ty |-> ty]

Use(x) == [kind |-> "use", operand |-> x]
BinaryOp(op, x, y) == [kind |-> "binary", op |-> op, lhs |-> x, rhs |-> y]
UnaryOp(fun, x) == [kind |-> "unary", fun |-> fun, operand |-> x]
Aggregate(adt, variant, operands) ==
    [kind |-> "aggregate", adt |-> adt, variant |-> variant, operands |-> operands]

Assign(l, rvalue) == [kind |-> "assign", dst |-> l, rvalue |-> rvalue]
\* A function takes its arguments one by one; without any it is not called.
Call(l, f, args) == [kind |-> "call", dst |-> l, fun |-> f, args |-> args]
\* The check that an operand is what is expected; rustc's own.
Check(x, expected) == [kind |-> "check", cond |-> x, expected |-> expected]
\* A contract's assertion or assumption, of which the value is an rvalue here.
ContractAssert(kind, rvalue) ==
    [kind |-> "contract", assertion |-> kind, rvalue |-> rvalue]
\* StorageLive, StorageDead and Drop
Storage(l) == [kind |-> "storage", local |-> l]
PlaceMention(x) == [kind |-> "mention", place |-> x]
Abort == [kind |-> "abort"]
Return == [kind |-> "return"]
Break(level) == [kind |-> "break", level |-> level]
Continue(level) == [kind |-> "continue", level |-> level]
Loop(block) == [kind |-> "loop", block |-> block]
\* Arms are pairs of a set of values and a block, tried in turn; `otherwise`
\* is a sequence of at most one block.
Match(l, arms, otherwise) ==
    [kind |-> "match", scrutinee |-> l, arms |-> arms, otherwise |-> otherwise]
If(x, block_t, block_f) ==
    [kind |-> "if", cond |-> x, block_t |-> block_t, block_f |-> block_f]

\* A function: its arguments, with the values they may have; its other locals,
\* of which the first is for the result; its contract; and its body.  It may be
\* in a crate with types of its own, which `data` gives for locals.
Function(inputs, locals, pre, post, block) ==
    [inputs |-> inputs, locals |-> locals, pre |-> pre, post |-> post, block |-> block,
     crate |-> NoTypes, data |-> <<>>]
InCrate(b, crate, data) == [b EXCEPT !.crate = crate, !.data = data]
Result(b) == b.locals[1]

\* How a run of a block or an expression ends: the locals, how many turns
\* are left, and whether it got to its end, jumped or broke off.
Outcome(kind, at, run) == [kind |-> kind, at |-> at, env |-> run.env, turns |-> run.turns]
Normal(run) == Outcome("normal", 0, run)

MirOperand(x, env) ==
    IF x.kind = "const" THEN x.value
    ELSE FoldLeft(LAMBDA value, p : IF p.adt = TUPLE THEN value[p.field] ELSE value.fields[p.field],
                  env[x.local], x.projs)

\* The value of an rvalue, if it has one.
MirValue(r, env) ==
    LET Of(x) == MirOperand(x, env)
        Parts == [i \in DOMAIN r.operands |-> Of(r.operands[i])]
    IN  CASE r.kind = "use" -> Some(Of(r.operand))
          [] r.kind = "binary" -> MirBinary(r.op, r.lhs.ty, Of(r.lhs), Of(r.rhs))
          [] r.kind = "unary" -> MirUnary(r.fun, r.operand.ty, Of(r.operand))
          [] r.kind = "aggregate" ->
                 Some(IF r.adt = TUPLE THEN Parts ELSE [variant |-> r.variant, fields |-> Parts])

\* What a broken contract makes of a run: it must not be, or it is not looked at.
Broken(kind) == IF kind = "Assert" THEN "absurd" ELSE "assumed"

\* What running an LLBC block does.  A jump passes out of its loops.
RECURSIVE Exec(_, _)
Exec(block, run) ==
    IF block = <<>> THEN Normal(run)
    ELSE LET s == Head(block)
             Then(o) == IF o.kind = "normal" THEN Exec(Tail(block), o) ELSE o
             Arms == {i \in DOMAIN s.arms : run.env[s.scrutinee] \in s.arms[i][1]}
             Turn == Exec(s.block, [run EXCEPT !.turns = @ - 1])
             Into(l, v) == IF v = None THEN Outcome("absurd", 0, run)
                           ELSE Then(Normal([run EXCEPT !.env[l] = v[1]]))
         IN  CASE s.kind = "assign" -> Into(s.dst, MirValue(s.rvalue, run.env))
             [] s.kind = "call" ->
                    Into(s.dst, Some(FoldLeft(LAMBDA f, x : f[MirOperand(x, run.env)],
                                              s.fun, s.args)))
             [] s.kind = "check" ->
                    IF MirOperand(s.cond, run.env) = s.expected THEN Then(Normal(run))
                    ELSE Outcome("absurd", 0, run)
             [] s.kind = "contract" ->
                    IF MirValue(s.rvalue, run.env) = Some(TRUE) THEN Then(Normal(run))
                    ELSE Outcome(Broken(s.assertion), 0, run)
             [] s.kind \in {"storage", "mention"} -> Then(Normal(run))
             [] s.kind = "if" ->
                    Then(Exec(IF MirOperand(s.cond, run.env) THEN s.block_t ELSE s.block_f,
                              run))
             [] s.kind = "abort" -> Outcome("absurd", 0, run)
             [] s.kind = "return" -> Outcome("return", 0, run)
             [] s.kind \in {"break", "continue"} -> Outcome(s.kind, s.level, run)
             [] s.kind = "match" ->
                    IF Arms # {}
                    THEN Then(Exec(s.arms[CHOOSE i \in Arms : \A j \in Arms : i <= j][2], run))
                    ELSE IF s.otherwise # <<>> THEN Then(Exec(s.otherwise[1], run))
                    ELSE Outcome("absurd", 0, run)
             [] s.kind = "loop" ->
                    IF run.turns = 0 THEN Outcome("timeout", 0, run)
                    ELSE CASE Turn.kind = "normal" \/ (Turn.kind = "continue" /\ Turn.at = 0) ->
                                Exec(block, Turn)
                           [] Turn.kind = "break" /\ Turn.at = 0 -> Then(Normal(Turn))
                           [] Turn.kind \in {"break", "continue"} /\ Turn.at > 0 ->
                                [Turn EXCEPT !.at = @ - 1]
                           [] OTHER -> Turn

Holds(rvalues, env) == \A i \in DOMAIN rvalues : MirValue(rvalues[i], env) = Some(TRUE)

\* What a call of the function does: a call against the contract does not count.
ExecFun(b, run) ==
    LET o == Exec(b.block, run)
    IN  IF ~Holds(b.pre, run.env) THEN Outcome(Broken("Assume"), 0, run)
        ELSE IF o.kind = "return" /\ ~Holds(b.post, o.env) THEN Outcome(Broken("Assert"), 0, o)
        ELSE o

-----------------------------------------------------------------------------
(* WhyML *)

UNIT_EXPR == [kind |-> "unit"]
ABSURD_EXPR == [kind |-> "absurd"]
Var(l) == [kind |-> "var", local |-> l]
TupleField(i, e) == [kind |-> "field", index |-> i, of |-> e]
TupleExpr(es) == [kind |-> "tuple", items |-> es]
RecordExpr(idents, es) == [kind |-> "record", idents |-> idents, items |-> es]
RecordGet(ident, e) == [kind |-> "get", ident |-> ident, of |-> e]
\* A constructor or a function of the crate's types.
Global(ident) == [kind |-> "global", ident |-> ident]
FunExpr(f) == [kind |-> "fun", fun |-> f]
\* A function of the library's module for a type; how is the end of its name.
LibExpr(ty, fun, how, args) ==
    [kind |-> "lib", ty |-> ty, fun |-> fun, how |-> how, args |-> args]
Apply(f, e) == [kind |-> "apply", fun |-> f, arg |-> e]
AssignExpr(l, e) == [kind |-> "assign", dst |-> l, value |-> e]
AssertExpr(kind, e) == [kind |-> "assert", assertion |-> kind, term |-> e]
Sequence(e, f) == [kind |-> "sequence", first |-> e, second |-> f]
\* The condition is that the value is one of these.
IfExpr(v, values, e, f) == [kind |-> "if", value |-> v, values |-> values, yes |-> e, no |-> f]
Raise(exn) == [kind |-> "raise", exn |-> exn]
\* `exception exn in try e with exn -> () end`
SurroundExn(exn, e) == [kind |-> "surround", exn |-> exn, in |-> e]
While(e) == [kind |-> "while", in |-> e]
\* `let ref l = any .. in e`
LetRef(l, e) == [kind |-> "let", local |-> l, in |-> e]

RETURN_LABEL == <<"Return", 0>>
BreakExn(depth) == <<"Break", depth>>
ContinueExn(depth) == <<"Continue", depth>>

LibValue(e, args) ==
    CASE e.fun = "of_int" -> of_int(e.ty, args[1])
      [] e.ty = BoolTy -> Some(IF e.fun = "Not" THEN ~args[1] ELSE bool(e.fun, args[1], args[2]))
      [] e.how = "strict" /\ e.fun \notin {"Shl", "Shr"} -> strict(e.fun, e.ty, args[1], args[2])
      [] e.how = "wrapping" -> wrapping(e.fun, e.ty, args[1], args[2])
      [] e.how = "overflowing" -> overflowing(e.fun, e.ty, args[1], args[2])
      [] e.how = "strict" /\ e.fun \in {"Shl", "Shr"} ->
             shift_strict(e.fun, e.ty, args[1], args[2])
      [] e.how = "unbounded" -> shift_unbounded(e.fun, e.ty, args[1], args[2])
      [] e.how = "bit" -> bit_wise(e.fun, e.ty, args[1], args[2])
      [] e.how = "infix" -> Some(Compare(e.fun, args[1], args[2]))
      [] e.fun = "Cmp" -> Some(cmp(args[1], args[2]))
      [] e.fun = "Not" -> bit_not(e.ty, args[1])
      [] e.fun = "Neg" -> neg(e.ty, args[1])

\* What an expression applies, and what to.
RECURSIVE Applied(_)
Applied(e) ==
    IF e.kind # "apply" THEN [fun |-> e, args |-> <<>>]
    ELSE [Applied(e.fun) EXCEPT !.args = Append(@, e.arg)]

\* The value of an expression that has no effects.
RECURSIVE ValueOf(_, _)
ValueOf(e, env) ==
    LET All(es) == [i \in DOMAIN es |-> ValueOf(es[i], env)]
        Each(es, F(_)) == IF \E i \in DOMAIN es : All(es)[i] = None THEN None
                          ELSE F([i \in DOMAIN es |-> All(es)[i][1]])
        Lib(args) == LibValue(e, args)
        Record(v) == Some([record |-> {<<e.idents[i], v[i]>> : i \in DOMAIN v}])
        Get(v) == Some((CHOOSE f \in v[1].record : f[1] = e.ident)[2])
        Result_(v) == LET f == Applied(e).fun
                    IN  IF f.kind = "global" THEN ApplyGlobal(decls, f.ident, v)
                        ELSE Some(FoldLeft(LAMBDA g, x : g[x], f.fun, v))
    IN  CASE e.kind = "const" -> Some(e.value)
          [] e.kind = "var" -> Some(env[e.local])
          [] e.kind = "record" -> Each(e.items, Record)
          [] e.kind = "get" -> Each(<<e.of>>, Get)
          [] e.kind = "field" -> Each(<<e.of>>, LAMBDA v : Some(v[1][e.index]))
          [] e.kind = "tuple" -> Each(e.items, Some)
          [] e.kind \in {"fun", "global", "apply"} -> Each(Applied(e).args, Result_)
          [] e.kind = "lib" -> Each(e.args, Lib)

\* What evaluating an expression does.
RECURSIVE Eval(_, _)
Eval(e, run) ==
    CASE e.kind = "unit" -> Normal(run)
      [] e.kind = "absurd" -> Outcome("absurd", 0, run)
      [] e.kind = "assign" -> LET v == ValueOf(e.value, run.env)
                              IN  IF v = None THEN Outcome("absurd", 0, run)
                                  ELSE Normal([run EXCEPT !.env[e.dst] = v[1]])
      [] e.kind = "assert" -> IF ValueOf(e.term, run.env) = Some(TRUE) THEN Normal(run)
                              ELSE Outcome(Broken(e.assertion), 0, run)
      [] e.kind = "sequence" -> LET o == Eval(e.first, run)
                                IN  IF o.kind = "normal" THEN Eval(e.second, o) ELSE o
      [] e.kind = "if" -> IF ValueOf(e.value, run.env)[1] \in e.values
                          THEN Eval(e.yes, run) ELSE Eval(e.no, run)
      [] e.kind = "raise" -> Outcome("raise", e.exn, run)
      [] e.kind = "surround" -> LET o == Eval(e.in, run)
                                IN  IF o.kind = "raise" /\ o.at = e.exn
                                    THEN Normal(o) ELSE o
      [] e.kind \in {"var", "field", "get", "apply"} ->
             IF ValueOf(e, run.env) = None THEN Outcome("absurd", 0, run) ELSE Normal(run)
      [] e.kind = "let" -> Eval(e.in, [run EXCEPT !.env[e.local] = Unset])
      [] e.kind = "while" ->
             IF run.turns = 0 THEN Outcome("timeout", 0, run)
             ELSE LET o == Eval(e.in, [run EXCEPT !.turns = @ - 1])
                  IN  IF o.kind = "normal" THEN Eval(e, o) ELSE o

TermsHold(terms, env) == \A i \in DOMAIN terms : ValueOf(terms[i], env) = Some(TRUE)

\* What has to be proved of a declaration, for a call of it.
EvalFun(f, run) ==
    LET o == Eval(f.body, run)
    IN  IF ~TermsHold(f.pre, run.env) THEN Outcome(Broken("Assume"), 0, run)
        ELSE IF o.kind = "raise" /\ o.at = RETURN_LABEL
             THEN IF TermsHold(f.post, o.env) THEN o ELSE Outcome(Broken("Assert"), 0, o)
        ELSE o

\* Does an expression raise only exceptions that are declared around it, and
\* use and assign only locals that are?  A parameter is no reference.
RECURSIVE Declared(_, _, _, _)
Declared(e, exns, refs, params) ==
    LET In(f) == Declared(f, exns, refs, params)
    IN  CASE e.kind = "sequence" -> In(e.first) /\ In(e.second)
          [] e.kind = "if" -> In(e.value) /\ In(e.yes) /\ In(e.no)
          [] e.kind = "raise" -> e.exn \in exns
          [] e.kind = "surround" -> Declared(e.in, exns \union {e.exn}, refs, params)
          [] e.kind = "while" -> In(e.in)
          [] e.kind = "let" -> Declared(e.in, exns, refs \union {e.local}, params \ {e.local})
          [] e.kind = "assign" -> e.dst \in refs /\ In(e.value)
          [] e.kind = "var" -> e.local \in refs \union params
          [] e.kind = "field" -> In(e.of)
          [] e.kind = "get" -> In(e.of) /\ \E r \in RecordsOf(decls) : e.ident \in Range(r)
          [] e.kind = "record" -> /\ \E r \in RecordsOf(decls) : e.idents = r
                                  /\ \A i \in DOMAIN e.items : In(e.items[i])
          [] e.kind = "global" ->
                 \E d \in ConstructorsOf(decls) \union AccessorsOf(decls) : d.ident = e.ident
          [] e.kind = "tuple" -> \A i \in DOMAIN e.items : In(e.items[i])
          [] e.kind = "lib" -> \A i \in DOMAIN e.args : In(e.args[i])
          [] e.kind = "apply" -> In(e.fun) /\ In(e.arg)
          [] e.kind = "assert" -> In(e.term)
          [] OTHER -> TRUE

-----------------------------------------------------------------------------
(* The translation of values *)

\* Mutant of TranslateFieldOf: the field's name is looked up in the enum itself.
TranslateFieldOfNoRecord(e, p) ==
    IF p.adt = TUPLE THEN TupleField(p.field, e)
    ELSE IF body.crate.types[p.adt].kind = "struct"
    THEN RecordGet(names[FieldId(p.adt, STRUCT, p.field)], e)
    ELSE Apply(Global(constructor_field_accessor_ident(names[ConstructorId(p.adt, p.variant)],
                                                       p.field)), e)

\* translate_field_proj: the record's field, the variant's, or the field of the
\* variant's record.
TranslateFieldOf(e, p) ==
    LET ident == names[FieldId(p.adt, p.variant, p.field)]
        constructor == names[ConstructorId(p.adt, p.variant)]
        decl == body.crate.types[p.adt]
    IN  IF p.adt = TUPLE THEN TupleField(p.field, e)
        ELSE IF decl.kind = "struct" THEN RecordGet(ident, e)
        ELSE IF HasRecord(decl.variants[p.variant])
        THEN RecordGet(ident, Apply(Global(constructor_accessor_ident(constructor)), e))
        ELSE Apply(Global(constructor_field_accessor_ident(constructor, p.field)), e)

TranslatePlace(x) == FoldLeft(TranslateFieldOf, Var(x.local), x.projs)

TranslateLiteral(x) ==
    IF x.ty = BoolTy THEN [kind |-> "const", value |-> x.value]
    ELSE LibExpr(x.ty, "of_int", "", <<[kind |-> "const", value |-> x.value]>>)

TranslateOperand(x) == IF x.kind = "const" THEN TranslateLiteral(x) ELSE TranslatePlace(x)

\* translate_binary_op: the library's function for an operator.  A shift takes
\* an integer of any type, as an unbounded one.
TranslateBinaryOp(op, ty, lhs, rhs) ==
    CASE op \in ArithmeticOps \union DivisionOps ->
           LibExpr(ty, op.fun, CASE op.mode = "UB" -> "strict" [] op.mode = "Wrap" -> "wrapping"
                                 [] op.mode = "Checked" -> "overflowing", <<lhs, rhs>>)
      [] op \in ShiftOps ->
           LibExpr(ty, op.fun, IF op.mode = "UB" THEN "strict" ELSE "unbounded", <<lhs, rhs>>)
      [] op \in BitOps -> LibExpr(ty, op.fun, "bit", <<lhs, rhs>>)
      [] op \in ComparisonOps -> LibExpr(ty, op.fun, "infix", <<lhs, rhs>>)
      [] op = CmpOp -> LibExpr(ty, op.fun, "", <<lhs, rhs>>)

TranslateApply(f, args) == FoldLeft(Apply, f, args)

\* translate_type_decl_aggregate: a record, or a constructor of fields or of a record.
TranslateAdt(adt, variant, es) ==
    LET decl == body.crate.types[adt]
        constructor == Global(names[ConstructorId(adt, variant)])
        record == RecordExpr([i \in DOMAIN es |-> names[FieldId(adt, variant, i)]], es)
    IN  IF decl.kind = "struct" THEN record
        ELSE IF HasRecord(decl.variants[variant]) THEN Apply(constructor, record)
        ELSE TranslateApply(constructor, es)

TranslateAggregate(r) ==
    LET es == [i \in DOMAIN r.operands |-> TranslateOperand(r.operands[i])]
    IN  IF r.adt = TUPLE THEN TupleExpr(es) ELSE TranslateAdt(r.adt, r.variant, es)

TranslateRvalue(r) ==
    CASE r.kind = "use" -> TranslateOperand(r.operand)
      [] r.kind = "binary" -> TranslateBinaryOp(r.op, r.lhs.ty, TranslateOperand(r.lhs),
                                                TranslateOperand(r.rhs))
      [] r.kind = "unary" -> LibExpr(r.operand.ty, r.fun, "", <<TranslateOperand(r.operand)>>)
      [] r.kind = "aggregate" -> TranslateAggregate(r)

-----------------------------------------------------------------------------
(* The translation of statements, at a loop depth *)

RECURSIVE TranslateBlock(_, _)

\* Mutant of TranslateLoop: the next turn starts behind the loop.
TranslateLoopCaughtOutside(block, loop_depth) ==
    SurroundExn(BreakExn(loop_depth + 1),
        SurroundExn(ContinueExn(loop_depth + 1), While(TranslateBlock(block, loop_depth + 1))))

\* translate_loop; enter_loop counts the depth up for the loop's own
\* exceptions and for what is in it.
TranslateLoop(block, loop_depth) ==
    SurroundExn(BreakExn(loop_depth + 1),
        While(SurroundExn(ContinueExn(loop_depth + 1),
                          TranslateBlock(block, loop_depth + 1))))

\* Mutant of TranslateJump: the innermost loop has level 1.
JumpFromOne(s, loop_depth) ==
    IF s.kind = "break" THEN Raise(BreakExn(loop_depth + 1 - s.level))
    ELSE Raise(ContinueExn(loop_depth + 1 - s.level))

\* translate_break and translate_continue
TranslateJump(s, loop_depth) ==
    IF s.kind = "break" THEN Raise(BreakExn(loop_depth - s.level))
    ELSE Raise(ContinueExn(loop_depth - s.level))

\* translate_assert: for a check that fails, the expression is absurd.
TranslateAssert(s) ==
    IF s.expected THEN IfExpr(TranslateOperand(s.cond), {TRUE}, UNIT_EXPR, ABSURD_EXPR)
    ELSE IfExpr(TranslateOperand(s.cond), {TRUE}, ABSURD_EXPR, UNIT_EXPR)

\* translate_if
TranslateIf(s, loop_depth) ==
    IfExpr(TranslateOperand(s.cond), {TRUE}, TranslateBlock(s.block_t, loop_depth),
           TranslateBlock(s.block_f, loop_depth))

\* translate_match: the arms' conditions, tried in turn.
TranslateMatch(s, loop_depth) ==
    LET From[i \in 1 .. Len(s.arms) + 1] ==
          IF i = Len(s.arms) + 1
          THEN IF s.otherwise = <<>> THEN ABSURD_EXPR
               ELSE TranslateBlock(s.otherwise[1], loop_depth)
          ELSE IfExpr(Var(s.scrutinee), s.arms[i][1], TranslateBlock(s.arms[i][2], loop_depth),
                      From[i + 1])
    IN  From[1]

\* translate_statement_to_expr: a statement that jumps or aborts leaves out
\* what trails it.
TranslateStatement(s, trailing_expr, loop_depth) ==
    CASE s.kind = "assign" -> Sequence(AssignExpr(s.dst, TranslateRvalue(s.rvalue)), trailing_expr)
      [] s.kind = "call" ->
             Sequence(AssignExpr(s.dst, TranslateApply(FunExpr(s.fun),
                          [i \in DOMAIN s.args |-> TranslateOperand(s.args[i])])), trailing_expr)
      [] s.kind = "check" -> Sequence(TranslateAssert(s), trailing_expr)
      [] s.kind = "contract" ->
             Sequence(AssertExpr(s.assertion, TranslateRvalue(s.rvalue)), trailing_expr)
      [] s.kind = "storage" -> trailing_expr
      [] s.kind = "mention" -> Sequence(TranslatePlace(s.place), trailing_expr)
      [] s.kind = "abort" -> ABSURD_EXPR
      [] s.kind = "return" -> Raise(RETURN_LABEL)
      [] s.kind \in {"break", "continue"} -> TranslateJump(s, loop_depth)
      [] s.kind = "if" -> Sequence(TranslateIf(s, loop_depth), trailing_expr)
      [] s.kind = "match" -> Sequence(TranslateMatch(s, loop_depth), trailing_expr)
      [] s.kind = "loop" -> Sequence(TranslateLoop(s.block, loop_depth), trailing_expr)

TranslateBlock(block, loop_depth) ==
    FoldRight(LAMBDA s, trailing_expr : TranslateStatement(s, trailing_expr, loop_depth),
              block, UNIT_EXPR)

\* Mutant of FuncDecl: the return value is not declared.
FuncDeclWithoutResult(b) ==
    [params |-> DOMAIN b.inputs,
     pre |-> [i \in DOMAIN b.pre |-> TranslateRvalue(b.pre[i])],
     post |-> [i \in DOMAIN b.post |-> TranslateRvalue(b.post[i])],
     body |-> FoldRight(LetRef, Tail(b.locals), TranslateBlock(b.block, 0))]

\* translate_func_decl: the body is translated outside of all loops, under the
\* declarations of the locals that are no arguments; the parameter of a
\* postcondition stands for the result.
FuncDecl(b) ==
    [params |-> DOMAIN b.inputs,
     pre |-> [i \in DOMAIN b.pre |-> TranslateRvalue(b.pre[i])],
     post |-> [i \in DOMAIN b.post |-> TranslateRvalue(b.post[i])],
     body |-> FoldRight(LetRef, b.locals, TranslateBlock(b.block, 0))]

Init == /\ body \in Bodies
        /\ pc = "llbc"
        /\ names = <<>>
        /\ decls = <<>>
        /\ expr = NoExpr

\* translate_crate starts with the names of all that it will name.
BuildNames == /\ pc = "llbc"
              /\ names' = Names(body.crate)
              /\ pc' = "types"
              /\ UNCHANGED <<body, decls, expr>>

TranslateTypeDeclGroup ==
    /\ pc = "types"
    /\ Len(decls) < Len(body.crate.groups)
    /\ decls' = Append(decls, TranslateGroup(body.crate.groups[Len(decls) + 1], body.crate, names))
    /\ UNCHANGED <<body, pc, names, expr>>

\* A function is behind the types that it names, as reorder_decls has it.
TranslateFuncDecl == /\ pc = "types"
                     /\ Len(decls) = Len(body.crate.groups)
                     /\ expr' = FuncDecl(body)
                     /\ pc' = "whyml"
                     /\ UNCHANGED <<body, names, decls>>

Next == BuildNames \/ TranslateTypeDeclGroup \/ TranslateFuncDecl

Spec == Init /\ [][Next]_vars

-----------------------------------------------------------------------------
(* Properties *)

\* Where a run may start: the arguments are any of their types.
Starts(b) ==
    FoldSet(LAMBDA l, envs : {(l :> v) @@ env : v \in b.inputs[l], env \in envs},
            {[l \in Range(b.locals) |-> Unset]}, DOMAIN b.inputs)

\* The locals as WhyML has them.
Represented(env) ==
    [l \in DOMAIN env |->
       IF l \notin DOMAIN body.data \/ env[l] = Unset THEN env[l]
       ELSE Represent(env[l], body.data[l], body.crate, names)]

\* The declaration does what the function does: it assigns the same values,
\* takes as many turns, and ends in the same way, whichever loops are left,
\* started anew or nested in which branches.  What must not happen (a check of
\* rustc's fails, an operator has no value, a contract does not hold) is, in
\* WhyML, what cannot be proved: for all arguments, at the bounds of a type as
\* well.
SameRuns ==
    pc = "whyml" =>
      \A env \in Starts(body) :
          LET run == [env |-> env, turns |-> Turns]
              llbc == ExecFun(body, run)
              whyml == EvalFun(expr, [run EXCEPT !.env = Represented(env)])
          IN  /\ whyml.env = Represented(llbc.env)
              /\ whyml.turns = llbc.turns
              /\ IF llbc.kind = "return"
                 THEN whyml.kind = "raise" /\ whyml.at = RETURN_LABEL
                 ELSE whyml.kind = llbc.kind

\* Every exception is raised, and every local used and assigned, where it is
\* declared, in code that is never reached as well; and the types, constructors
\* and functions of the crate have names that nothing else in it has, however
\* alike those of Rust are: WhyML accepts the declarations.  (Functions that
\* assign to an argument are left out: a parameter is not declared as a
\* reference.)
NamesDeclared ==
    pc = "whyml" => /\ WellDeclared(decls, body.crate, names)
                    /\ Declared(expr.body, {RETURN_LABEL}, {}, expr.params)
=============================================================================
