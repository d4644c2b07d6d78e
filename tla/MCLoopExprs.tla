----------------------------- MODULE MCLoopExprs -----------------------------
(* Functions of two nested loops with a branching in the inner one, code     *)
(* behind each loop and in front of it, and every jump that LLBC allows; and *)
(* functions of two numbers, with each operator and the check that rustc     *)
(* puts before or behind it, for a signed and an unsigned type of 4 bits;    *)
(* and functions that make values of a struct and an enum and take them      *)
(* apart, in crates with names that are easily taken for each other.         *)
EXTENDS LoopExprs

\* What is called; an enum's variants are numbers here.
Variants == {0, 1, 2}
EnumTy == IntTy(FALSE, 2)
Inc(l) == Call(l, [v \in Variants |-> (v + 1) % 3], <<Local(l, EnumTy)>>)
Flip(l) == Call(l, [v \in Variants |-> IF v = 0 THEN 1 ELSE 0], <<Local(l, EnumTy)>>)
Switch(l, one, other) == Match(l, <<<<{1}, one>>>>, <<other>>)
Loops(block) ==
    Function([p |-> Variants, q |-> Variants], <<"z", "x", "y">>, <<>>, <<>>,
             <<Assign("x", Use(Local("p", EnumTy))), Assign("y", Use(Local("q", EnumTy)))>>
             \o block)

Jumps(depth) == {Return, Abort} \union {Break(n) : n \in 0 .. depth - 1}
                \union {Continue(n) : n \in 0 .. depth - 1}
Ends(depth) == {<<>>} \union {<<j>> : j \in Jumps(depth)}
               \union {<<Flip("y"), j>> : j \in Jumps(depth)}

Inner == {<<Inc("x"), Switch("x", t, f), Inc("y")>> : t \in Ends(2), f \in Ends(2)}
         \union {<<Inc("x"), Match("x", <<<<{0}, t>>, <<{1, 2}, f>>>>, <<>>)>> :
                   t \in Ends(2), f \in {<<j>> : j \in Jumps(2)}}
         \union {<<Inc("x"), Match("x", <<<<{0}, t>>, <<{1}, f>>>>, <<>>)>> :
                   t \in Ends(2), f \in {<<j>> : j \in Jumps(2)}}

LoopBodies ==
    {Loops(<<Loop(<<Loop(i), Inc("y")>> \o e), Flip("x"), Return>>) :
       i \in Inner, e \in {<<>>, <<Break(0)>>, <<Switch("y", <<Break(0)>>, <<Continue(0)>>)>>}}
    \union {Loops(<<Loop(<<Inc("x"), Switch("x", t, f), Inc("y")>>),
                    Loop(<<Inc("y"), Switch("y", u, <<>>)>>), Return>>) :
              t \in Ends(1), f \in Ends(1), u \in Ends(1)}
    \union {Loops(<<Loop(<<Switch("x", <<Loop(<<Switch("y", <<j>>, <<k>>)>>)>>, <<Inc("x")>>),
                           Flip("y")>>), Return>>) : j \in Jumps(2), k \in Jumps(2)}

Types == {IntTy(TRUE, 4), IntTy(FALSE, 4)}
Numbers(ty, tz, block) ==
    Function([x |-> IntsOf(ty), y |-> IntsOf(tz)], <<"z", "r", "b">>, <<>>, <<>>,
             block \o <<Return>>)

\* r := x checked.+ y; assert(r.1 == false); z := r.0
Checked(op, ty) ==
    <<Storage("r"), Assign("r", BinaryOp(op, Local("x", ty), Local("y", ty))),
      Check(Field("r", 2, BoolTy), FALSE), Assign("z", Use(Field("r", 1, ty)))>>
\* b := y == 0; assert(b == false); and for signed integers
\* b := y == -1; r := x == MIN; b := b & r; assert(b == false); z := x / y
Divided(op, ty) ==
    <<Assign("b", BinaryOp(Op("Eq", "Wrap"), Local("y", ty), Const(0, ty))),
      Check(Local("b", BoolTy), FALSE)>>
    \o (IF ty.signed
        THEN <<Assign("b", BinaryOp(Op("Eq", "Wrap"), Local("y", ty), Const(-1, ty))),
               Assign("r", BinaryOp(Op("Eq", "Wrap"), Local("x", ty), Const(MinInt(ty), ty))),
               Assign("b", BinaryOp(Op("BitAnd", "Wrap"), Local("b", BoolTy),
                                    Local("r", BoolTy))),
               Check(Local("b", BoolTy), FALSE)>>
        ELSE <<>>)
    \o <<Assign("z", BinaryOp(op, Local("x", ty), Local("y", ty)))>>
Negated(ty) ==
    <<Assign("b", BinaryOp(Op("Eq", "Wrap"), Local("x", ty), Const(MinInt(ty), ty))),
      Check(Local("b", BoolTy), FALSE), Assign("z", UnaryOp("Neg", Local("x", ty)))>>

\* The square of the README, which is at least its root; and an assertion in it.
Square(ty, bound) ==
    Function([x |-> IntsOf(ty)], <<"z", "r">>,
             <<BinaryOp(Op("Lt", "Wrap"), Local("x", ty), Const(bound, ty))>>,
             <<BinaryOp(Op("Ge", "Wrap"), Local("z", ty), Local("x", ty))>>,
             <<Assign("r", BinaryOp(Op("Mul", "Checked"), Local("x", ty), Local("x", ty))),
               Check(Field("r", 2, BoolTy), FALSE), Assign("z", Use(Field("r", 1, ty))),
               Return>>)
Asserting(kind, ty, z) ==
    <<ContractAssert(kind, BinaryOp(Op("Lt", "Wrap"), Local("x", ty), Local("y", ty))),
      Assign("z", BinaryOp(Op("Sub", z), Local("y", ty), Local("x", ty)))>>

Straight(ty) ==
    {Checked(op, ty) : op \in {o \in ArithmeticOps : o.mode = "Checked"}}
    \union {Divided(op, ty) : op \in DivisionOps}
    \union {<<Assign("z", BinaryOp(op, Local("x", ty), Local("y", ty)))>> :
              op \in ArithmeticOps \union DivisionOps \union BitOps \union ComparisonOps
                     \union {CmpOp}}
    \union {Negated(ty)}
    \union {Asserting(kind, ty, mode) : kind \in {"Assert", "Assume"}, mode \in {"Wrap", "UB"}}
    \union {<<Assign("z", UnaryOp(fun, Local("x", ty)))>> : fun \in {"Not", "Neg"}}
    \union {<<Call("z", [a \in IntsOf(ty) |-> [b \in IntsOf(ty) |-> <<a, b>>]],
                   <<Local("x", ty), Local("y", ty)>>),
              Assign("r", Aggregate(TUPLE, STRUCT, <<Field("z", 2, ty), Field("z", 1, ty)>>)),
              PlaceMention(Field("r", 2, ty))>>}

\* b := x < 1; r := y < 1; b := b op !r; and a branching on it
Booleans(ty) ==
    {<<Assign("b", BinaryOp(Op("Lt", "Wrap"), Local("x", ty), Const(1, ty))),
       Assign("r", BinaryOp(Op("Lt", "Wrap"), Local("y", ty), Const(1, ty))),
       Assign("r", UnaryOp("Not", Local("r", BoolTy))),
       Assign("b", BinaryOp(op, Local("b", BoolTy), Local("r", BoolTy))),
       If(Local("b", BoolTy), <<Check(Local("r", BoolTy), TRUE)>>, <<>>)>> :
         op \in BitOps \union ComparisonOps}

NumberBodies ==
    UNION {{Numbers(ty, ty, block) : block \in Straight(ty) \union Booleans(ty)} : ty \in Types}
    \union {Numbers(ty, tz, <<Assign("z", BinaryOp(op, Local("x", ty), Local("y", tz)))>>) :
              ty \in Types, tz \in {IntTy(TRUE, 4), IntTy(FALSE, 3)}, op \in ShiftOps}
    \union {Square(ty, bound) : ty \in Types, bound \in {4, 7}}

-----------------------------------------------------------------------------
\* How a word is spelt: to_whyml, camel_to_l, ensure_l and ensure_u.
Spelling(ident, whyml, l, ensured_l, ensured_u) ==
    [ident |-> ident, to_whyml |-> whyml, camel_to_l |-> l, ensure_l |-> ensured_l,
     ensure_u |-> ensured_u]
Lower(w, u) == Spelling(TRUE, w, w, w, u)
Upper(w, l, ensured_l) == Spelling(TRUE, w, l, ensured_l, w)
MCSpellings ==
    "c" :> Lower("c", "Cc") @@ "m" :> Lower("m", "Cm") @@ "x" :> Lower("x", "Cx")
    @@ "shape" :> Lower("shape", "Cshape") @@ "Shape" :> Upper("Shape", "shape", "_Shape")
    @@ "circle" :> Lower("circle", "Ccircle") @@ "Circle" :> Upper("Circle", "circle", "_Circle")
    @@ "Ccircle" :> Upper("Ccircle", "ccircle", "_Ccircle")
    @@ "0" :> Spelling(FALSE, "0", "_0", "_0", "C0") @@ "1" :> Spelling(FALSE, "1", "_1", "_1", "C1")
    @@ "{impl}" :> Spelling(FALSE, "'_impl'_", "'_impl'_", "_'_impl'_", "C'_impl'_")

\* A struct of two numbers, and an enum with it and a number, or a number.
Number == IntTy(FALSE, 2)
Fields(named, names_, tys) ==
    [i \in DOMAIN tys |-> TypeField(IF named THEN names_[i] ELSE <<"0", "1">>[i], named, tys[i])]
Shapes(struct, enum, named, variants, funs, ids) ==
    Crate(<<Struct(struct, Fields(named[1], <<"x", "circle">>, <<Number, Number>>)),
            Enum(enum, <<TypeVariant(variants[1], Fields(named[2], <<"x", "circle">>,
                                                         <<RefTy(AdtTy(1)), Number>>)),
                         TypeVariant(variants[2], Fields(named[3], <<"x">>, <<Number>>))>>)>>,
          ids, funs)

\* a is of the struct, e of the enum: e := if p < a.1 then V1 (a, p) else V2 (a.2);
\* z := the field that it has, of a struct in the first case.
A(i) == FieldOf(Local("a", AdtTy(1)), 1, STRUCT, i, Number)
E(v, i, ty) == FieldOf(Local("e", AdtTy(2)), 2, v, i, ty)
Less == BinaryOp(Op("Lt", "Wrap"), Local("p", Number), A(1))
Shaping(crate) ==
    InCrate(
      Function([p |-> IntsOf(Number),
                a |-> {[variant |-> STRUCT, fields |-> <<i, j>>] : i, j \in IntsOf(Number)}],
               <<"z", "s", "e", "b", "t">>,
               <<BinaryOp(Op("Ne", "Wrap"), A(1), A(2))>>,
               <<BinaryOp(Op("Ne", "Wrap"), Local("z", Number), A(1))>>,
               <<Assign("b", Less),
                 If(Local("b", BoolTy),
                    <<Assign("e", Aggregate(2, 1, <<Local("a", AdtTy(1)), Local("p", Number)>>))>>,
                    <<Assign("e", Aggregate(2, 2, <<A(2)>>))>>),
                 If(Local("b", BoolTy),
                    <<PlaceMention(E(1, 2, Number)),
                      Assign("s", Aggregate(1, STRUCT,
                                            <<E(1, 2, Number), FieldOf(E(1, 1, AdtTy(1)), 1, STRUCT, 2,
                                                                       Number)>>)),
                      Assign("z", Use(FieldOf(Local("s", AdtTy(1)), 1, STRUCT, 2, Number)))>>,
                    <<Assign("t", Aggregate(TUPLE, STRUCT, <<Local("e", AdtTy(2)),
                                                             E(2, 1, Number)>>)),
                      Assign("z", Use(Field("t", 2, Number)))>>),
                 Return>>),
      crate, "a" :> AdtTy(1) @@ "s" :> AdtTy(1) @@ "e" :> AdtTy(2)
             @@ "t" :> TupleTy(<<AdtTy(2), Number>>))

\* A list: Nil, or Cons with a head and a tail.
List(named) ==
    Crate(<<Alias(<<"c", "circle">>),
            Enum(<<"c", "Shape">>,
                 <<TypeVariant("Circle", <<>>),
                   TypeVariant("circle", Fields(named, <<"x", "circle">>,
                                                <<Number, BoxTy(AdtTy(2))>>))>>),
            Opaque(<<"c", "shape">>)>>, <<<<1>>, <<2>>, <<3>>>>, <<>>)
Listing(crate) ==
    InCrate(
      Function([p |-> IntsOf(Number)], <<"z", "n", "l">>, <<>>, <<>>,
               <<Assign("n", Aggregate(2, 1, <<>>)),
                 Assign("l", Aggregate(2, 2, <<Local("p", Number), Local("n", AdtTy(2))>>)),
                 Assign("l", Aggregate(2, 2, <<Local("p", Number), Local("l", AdtTy(2))>>)),
                 Assign("z", Use(FieldOf(FieldOf(Local("l", AdtTy(2)), 2, 2, 2, AdtTy(2)), 2, 2, 1, Number))), Return>>),
      crate, "n" :> AdtTy(2) @@ "l" :> AdtTy(2))

TypePaths == {<<"c", "Shape">>, <<"c", "shape">>, <<"c", "m", "Shape">>, <<"m", "{impl}", "Shape">>}
FunPaths == {<<>>, <<<<"c", "shape">>, <<"x", "c", "shape">>>>, <<<<"c", "m", "{impl}", "circle">>>>}
DataBodies ==
    {Shaping(Shapes(struct, enum, named, variants, funs, ids)) :
       struct \in TypePaths, enum \in TypePaths, named \in [1 .. 3 -> BOOLEAN],
       variants \in {<<"Circle", "circle">>, <<"circle", "Ccircle">>, <<"Shape", "Circle">>},
       funs \in FunPaths, ids \in {<<<<1>>, <<2>>>>, <<<<1, 2>>>>}}
MCBodies == LoopBodies \union NumberBodies
            \union {b \in DataBodies : b.crate.types[1].path # b.crate.types[2].path}
            \union {Listing(List(named)) : named \in BOOLEAN}
=============================================================================
