-------------------------- MODULE SpecLocalsProofs --------------------------
(* Renumbering preserves what places denote, for every number of arguments, *)
(* captures and temporaries and every place, as long as no unpacked local   *)
(* is replaced by a temporary that looks like it (CommonSpec).              *)
EXTENDS SpecLocals, SequenceTheorems, FiniteSetTheorems, TLAPS

Places == [local : Nat, proj : Seq(Nat \union {Deref})]

-----------------------------------------------------------------------------
(* Paths *)

\* A field of a local, and a field of what a local points to.
LEMMA FieldOfDepth0 ==
    ASSUME NEW p \in Places, NEW id \in Nat
    PROVE  FieldOf(p, id, 0) <=> /\ p.local = id
                                 /\ Len(p.proj) > 0
                                 /\ p.proj[1] # Deref
BY DEF FieldOf, Places

LEMMA FieldOfDepth1 ==
    ASSUME NEW p \in Places, NEW id \in Nat
    PROVE  FieldOf(p, id, 1) <=> /\ p.local = id
                                 /\ Len(p.proj) > 1
                                 /\ p.proj[1] = Deref
                                 /\ p.proj[2] # Deref
<1>1. \A i \in 1 .. 1 : i = 1
      OBVIOUS
<1> QED
    BY <1>1 DEF FieldOf, Places

\* What remains of a path is a path.
LEMMA AfterPath ==
    ASSUME NEW path \in Seq(Nat \union {Deref}), NEW n \in 0 .. Len(path)
    PROVE  /\ After(path, n) \in Seq(Nat \union {Deref})
           /\ Len(After(path, n)) = Len(path) - n
BY DEF After

LEMMA AfterSingle ==
    ASSUME NEW path \in Seq(Nat \union {Deref}), Len(path) = 1
    PROVE  After(path, 1) = <<>>
<1>1. 1 \in 0 .. Len(path) /\ Len(path) - 1 = 0
      OBVIOUS
<1>2. After(path, 1) \in Seq(Nat \union {Deref}) /\ Len(After(path, 1)) = 0
      BY <1>1, AfterPath
<1> QED
    BY <1>2, EmptySeq

-----------------------------------------------------------------------------
(* The inductive invariant: the exact shape of the locals at each stage,    *)
(* and of the places into the two locals that get unpacked.                 *)

TupledLocals == [l \in 0 .. MirSize |-> IF l = RET_ID THEN Ret
                                        ELSE IF l = SELF_ID THEN Self
                                        ELSE IF l = TUPLED_ARGS_ID THEN Tuple
                                        ELSE Slot("local", l - 1)]

UntupledLocals == [l \in 0 .. MirSize + nargs - 1 |->
                      IF l = RET_ID THEN Ret
                      ELSE IF l = SELF_ID THEN Self
                      ELSE IF l < 2 + nargs THEN Slot("arg", l - 2)
                      ELSE Slot("local", l - nargs)]

SpecificationLocals == [l \in 0 .. MirSize + nargs + ncaps - 2 |->
                           IF l = RET_ID THEN Ret
                           ELSE IF l <= ncaps THEN Slot("cap", l - 1)
                           ELSE IF l <= ncaps + nargs THEN Slot("arg", l - 1 - ncaps)
                           ELSE Slot("local", l + 1 - ncaps - nargs)]

\* What is left of these locals when unused ones go: the parameters.
KeptLocals == /\ arg_count = ncaps + nargs
              /\ \E n \in Nat : DOMAIN locals = 0 .. n - 1
              /\ \A l \in 0 .. arg_count :
                   l \in DOMAIN locals /\ locals[l] = SpecificationLocals[l]

StageLocals == /\ pc = "mir" => locals = MirLocals(MirSize)
               /\ pc = "tupled" => locals = TupledLocals /\ arg_count = 2
               /\ pc = "untupled" => locals = UntupledLocals /\ arg_count = 1 + nargs
               /\ pc = "done" => locals = SpecificationLocals
               /\ pc \in {"done", "cleaned"} => KeptLocals

\* A place into the closure state is one into a captured variable, a place
\* into the argument tuple is one of its fields, an argument is read whole.
UnpackablePlace(p, ls) ==
    /\ ls[p.local] = Self => FieldOf(p, SELF_ID, 1) /\ p.proj[2] < ncaps
    /\ ls[p.local] = Tuple => Len(p.proj) = 1 /\ p.proj[1] \in 0 .. nargs - 1
    /\ ls[p.local].kind = "arg" => Len(p.proj) = 0

\* NoAlias, at each stage.
NeverAliased(p) ==
    /\ pc = "mir" => NoAlias(p)
    /\ pc = "tupled" /\ nargs = 0 /\ p.local = 3 =>
         ~FieldOf(p, 3, 0) /\ (ncaps = 0 => ~FieldOf(p, 3, 1))
    /\ pc = "untupled" /\ ncaps = 0 /\ p.local = 2 => ~FieldOf(p, 2, 1)

PlaceInv(p, d) == /\ p \in Places
                  /\ p.local \in DOMAIN locals
                  /\ pc \notin {"done", "cleaned", "panic"} => UnpackablePlace(p, locals)
                  /\ NeverAliased(p)
                  /\ Denotes(p, locals) = d

IInv == /\ pc \in {"mir", "tupled", "untupled", "done", "cleaned"}
        /\ nargs \in Nat /\ ncaps \in Nat /\ ntemps \in Nat
        /\ StageLocals
        /\ DOMAIN origin = {"place", "capture"}
        /\ PlaceInv(place, origin.place)
        /\ PlaceInv(capture, origin.capture)

-----------------------------------------------------------------------------
(* Each step, on one place *)

USE DEF RET_ID, SELF_ID, TUPLED_ARGS_ID

\* The closure's places, as MIR has them, satisfy the invariant.
LEMMA InitPlace ==
    ASSUME Init, NEW p \in Places, p.local \in DOMAIN locals, MirPlace(p), NoAlias(p)
    PROVE  PlaceInv(p, Denotes(p, locals))
<1>1. nargs \in Nat /\ ncaps \in Nat /\ ntemps \in Nat /\ MirSize \in Nat
      BY CountsAssumption DEF Init, MirSize
<1>2. locals[p.local] # Tuple /\ locals[p.local].kind # "arg"
      BY <1>1 DEF Init, MirLocals, Ret, Self, Slot, Tuple
<1>3. locals[p.local] = Self => p.local = SELF_ID
      BY <1>1 DEF Init, MirLocals, Ret, Self, Slot
<1>4. locals[p.local] = Self => FieldOf(p, SELF_ID, 1) /\ p.proj[2] < ncaps
      BY <1>3, <1>1 DEF MirPlace, Place
<1> QED
    BY <1>2, <1>4 DEF PlaceInv, UnpackablePlace, NeverAliased, Init

\* Tupling the arguments shifts a place and nothing else.
LEMMA TuplePlace ==
    ASSUME IInv, TupleArguments, NEW p, NEW d, PlaceInv(p, d),
           NEW q, q = [p EXCEPT !.local = Shift(@, SELF_ID, 1)]
    PROVE  PlaceInv(q, d)'
<1>1. /\ nargs \in Nat /\ ncaps \in Nat /\ ntemps \in Nat
      /\ nargs' = nargs /\ ncaps' = ncaps /\ ntemps' = ntemps
      /\ pc = "mir" /\ pc' = "tupled" /\ MirSize \in Nat /\ MirSize >= 2
      BY DEF IInv, TupleArguments, MirSize
<1>3. /\ locals = MirLocals(MirSize)
      /\ locals' = [l \in 0 .. MirSize |-> IF l < 2 THEN locals[l]
                                           ELSE IF l = 2 THEN Tuple ELSE locals[l - 1]]
      BY <1>1 DEF IInv, StageLocals, TupleArguments
<1>2. /\ q \in Places /\ q.proj = p.proj /\ p.local \in 0 .. MirSize - 1
      /\ q.local = IF p.local > 1 THEN p.local + 1 ELSE p.local
  <2>1. p \in Places /\ p.local \in 0 .. MirSize - 1
        BY <1>1, <1>3 DEF PlaceInv, MirLocals
  <2> QED
      BY <2>1 DEF Places, Shift
<1>4. locals'[q.local] = locals[p.local] /\ q.local \in DOMAIN locals'
      BY <1>1, <1>2, <1>3
<1>5. locals[p.local] # Tuple /\ (locals[p.local] = Self => p.local = 1)
      BY <1>1, <1>2, <1>3 DEF MirLocals, Ret, Self, Slot, Tuple
<1>6. \A k \in {0, 1} : FieldOf(q, q.local, k) <=> FieldOf(p, p.local, k)
      BY <1>2 DEF FieldOf
<1>7. Denotes(q, locals') = Denotes(p, locals)
      BY <1>2, <1>4, <1>6 DEF Denotes
<1>9. UnpackablePlace(q, locals)'
  <2>1. UnpackablePlace(p, locals)
        BY <1>1 DEF PlaceInv
  <2>2. locals[p.local] = Self => q.local = 1 /\ p.local = 1
        BY <1>2, <1>5
  <2> QED
      BY <1>1, <1>2, <1>4, <1>6, <2>1, <2>2 DEF UnpackablePlace
<1>8. NeverAliased(q)'
  <2>1. FieldOf(q, 3, 0) /\ q.local = 3 => FieldOf(p, 2, 0) /\ p.local = 2
        BY <1>2 DEF FieldOf
  <2>2. FieldOf(q, 3, 1) /\ q.local = 3 => FieldOf(p, 2, 1) /\ p.local = 2
        BY <1>2 DEF FieldOf
  <2>3. NoAlias(p)
        BY <1>1 DEF PlaceInv, NeverAliased
  <2> QED
      BY <1>1, <2>1, <2>2, <2>3 DEF NeverAliased, NoAlias
<1> QED
    BY <1>1, <1>2, <1>4, <1>7, <1>8, <1>9 DEF PlaceInv

\* The statements that read the arguments out of the tuple.
LEMMA ArgumentRead ==
    ASSUME IInv, TupleArguments, NEW i \in 0 .. nargs - 1,
           NEW q, q = Place(TUPLED_ARGS_ID, <<i>>)
    PROVE  PlaceInv(q, [slot |-> Slot("arg", i), path |-> <<>>])'
<1>1. /\ nargs \in Nat /\ ncaps \in Nat /\ ntemps \in Nat
      /\ nargs' = nargs /\ ncaps' = ncaps /\ ntemps' = ntemps
      /\ pc = "mir" /\ pc' = "tupled" /\ MirSize \in Nat /\ MirSize >= 2
      BY DEF IInv, TupleArguments, MirSize
<1>2. locals'[2] = Tuple /\ 2 \in DOMAIN locals'
      BY <1>1 DEF TupleArguments
<1>3. q \in Places /\ q.local = 2 /\ q.proj = <<i>> /\ i # Deref
      BY <1>1 DEF Place, Places, Deref
<1>4. After(q.proj, 1) = <<>>
  <2>1. q.proj \in Seq(Nat \union {Deref}) /\ Len(q.proj) = 1
        BY <1>3 DEF Places
  <2> QED
      BY <2>1, AfterSingle
<1>5. Denotes(q, locals') = [slot |-> Slot("arg", i), path |-> <<>>]
      BY <1>2, <1>3, <1>4, FieldOfDepth0 DEF Denotes
<1>6. UnpackablePlace(q, locals)'
      BY <1>1, <1>2, <1>3 DEF UnpackablePlace, Tuple, Self, Slot
<1>7. NeverAliased(q)'
      BY <1>1, <1>3 DEF NeverAliased
<1> QED
    BY <1>1, <1>2, <1>3, <1>5, <1>6, <1>7 DEF PlaceInv

\* Splitting the tuple keeps what a place denotes, and leaves it a local.
LEMMA UnpackTuplePlace ==
    ASSUME IInv, UnpackTuple, pc' \in {"untupled", "panic"}, NEW p, NEW d, PlaceInv(p, d),
           NEW q, q = Unpack(p, TUPLED_ARGS_ID, nargs, 0)
    PROVE  PlaceInv(q, d)'
<1>1. /\ nargs \in Nat /\ ncaps \in Nat /\ ntemps \in Nat
      /\ nargs' = nargs /\ ncaps' = ncaps /\ ntemps' = ntemps
      /\ pc = "tupled" /\ MirSize = 2 + nargs + ntemps /\ MirSize \in Nat
      BY DEF IInv, UnpackTuple, MirSize
<1>2. /\ p \in Places /\ p.local \in 0 .. MirSize
      /\ locals = TupledLocals
      BY <1>1 DEF PlaceInv, IInv, StageLocals, TupledLocals
<1>3. locals' = UntupledLocals'
      BY <1>1, <1>2 DEF UnpackTuple, Splice, TupledLocals, UntupledLocals, MirSize
<1>4. CASE p.local < 2
  <2>1. q = p
        BY <1>1, <1>2, <1>4 DEF Unpack, Unpacked, Place, Shift, FieldOf, Places
  <2>2. locals'[p.local] = locals[p.local] /\ p.local \in DOMAIN locals'
        BY <1>1, <1>2, <1>3, <1>4 DEF TupledLocals, UntupledLocals, MirSize
  <2> QED
      BY <1>1, <1>2, <1>4, <2>1, <2>2
      DEF PlaceInv, UnpackablePlace, NeverAliased, Denotes
<1>5. CASE p.local = 2
  <2>1. Len(p.proj) = 1 /\ p.proj[1] \in 0 .. nargs - 1 /\ locals[2] = Tuple
        BY <1>1, <1>2, <1>5 DEF PlaceInv, UnpackablePlace, TupledLocals
  <2>2. FieldOf(p, 2, 0)
        BY <1>2, <1>5, <2>1, FieldOfDepth0 DEF Deref
  <2>3. Place(Shift(p.local, 2, nargs - 1), p.proj) = p
        BY <1>2, <1>5 DEF Place, Shift, Places
  <2>4. q = Place(2 + p.proj[1], After(p.proj, 1))
        BY <2>2, <2>3 DEF Unpack, Unpacked
  <2>5. /\ q \in Places /\ Len(q.proj) = 0 /\ q.local = 2 + p.proj[1]
        /\ q.proj = After(p.proj, 1)
    <3>0. p.proj \in Seq(Nat \union {Deref}) /\ Len(p.proj) = 1
          BY <1>2, <2>1 DEF Places
    <3>1. After(p.proj, 1) = <<>>
          BY <3>0, AfterSingle
    <3>2. 2 + p.proj[1] \in Nat
          BY <1>1, <2>1
    <3>3. <<>> \in Seq(Nat \union {Deref}) /\ Len(<<>>) = 0
          BY EmptySeq
    <3>4. q.local = 2 + p.proj[1] /\ q.proj = After(p.proj, 1)
          BY <2>4 DEF Place
    <3>5. q = [local |-> 2 + p.proj[1], proj |-> <<>>]
          BY <2>4, <3>1 DEF Place
    <3> QED
        BY <3>1, <3>2, <3>3, <3>4, <3>5 DEF Places
  <2>6. locals'[q.local] = Slot("arg", p.proj[1]) /\ q.local \in DOMAIN locals'
        BY <1>1, <1>3, <2>1, <2>5 DEF UntupledLocals, MirSize
  <2>7. Slot("arg", p.proj[1]) \notin {Self, Tuple}
        BY DEF Slot, Self, Tuple
  <2>8. Denotes(q, locals') = Denotes(p, locals)
        BY <1>5, <2>1, <2>2, <2>5, <2>6, <2>7 DEF Denotes
  <2>9. UnpackablePlace(q, locals)' /\ NeverAliased(q)'
        BY <1>1, <2>5, <2>6, <2>7, FieldOfDepth1 DEF UnpackablePlace, NeverAliased, Slot
  <2> QED
      BY <2>5, <2>6, <2>8, <2>9 DEF PlaceInv
<1>6. CASE p.local > 2
  <2> DEFINE r == Place(p.local + nargs - 1, p.proj)
  <2>1. r \in Places /\ r.local = p.local + nargs - 1 /\ r.proj = p.proj
        BY <1>1, <1>2, <1>6 DEF Place, Places
  <2>2. ~FieldOf(r, 2, 0)
        BY <1>1, <1>2, <1>6, <2>1, FieldOfDepth0 DEF PlaceInv, NeverAliased
  <2>3. q = r
        BY <1>1, <1>2, <1>6, <2>2 DEF Unpack, Unpacked, Shift, Place, Places
  <2>4. /\ r.local \in DOMAIN locals'
        /\ locals'[r.local] = locals[p.local]
        /\ locals[p.local] = Slot("local", p.local - 1)
        BY <1>1, <1>2, <1>3, <1>6, <2>1 DEF TupledLocals, UntupledLocals, MirSize
  <2>5. locals[p.local] \notin {Self, Tuple} /\ locals[p.local].kind # "arg"
        BY <2>4 DEF Slot, Self, Tuple
  <2>6. Denotes(q, locals') = Denotes(p, locals)
        BY <2>1, <2>3, <2>4, <2>5 DEF Denotes
  <2>7. UnpackablePlace(q, locals)'
        BY <2>3, <2>4, <2>5 DEF UnpackablePlace
  <2>8. NeverAliased(q)'
    <3>1. FieldOf(r, 2, 1) /\ r.local = 2 => FieldOf(p, 3, 1) /\ nargs = 0 /\ p.local = 3
          BY <1>1, <1>2, <1>6, <2>1, FieldOfDepth1
    <3>2. NeverAliased(p)
          BY DEF PlaceInv
    <3> HIDE DEF r
    <3> QED
        BY <1>1, <2>3, <3>1, <3>2 DEF NeverAliased
  <2> QED
      BY <2>1, <2>3, <2>4, <2>6, <2>7, <2>8 DEF PlaceInv
<1> QED
    BY <1>2, <1>4, <1>5, <1>6 DEF Places

\* Splitting the closure state keeps what a place denotes.
LEMMA UnpackSelfPlace ==
    ASSUME IInv, UnpackSelf, pc' \in {"done", "panic"}, NEW p, NEW d, PlaceInv(p, d),
           NEW q, q = Unpack(p, SELF_ID, ncaps, 1)
    PROVE  PlaceInv(q, d)'
<1>1. /\ nargs \in Nat /\ ncaps \in Nat /\ ntemps \in Nat
      /\ nargs' = nargs /\ ncaps' = ncaps /\ ntemps' = ntemps
      /\ pc = "untupled" /\ MirSize = 2 + nargs + ntemps /\ MirSize \in Nat
      BY DEF IInv, UnpackSelf, MirSize
<1>2. locals = UntupledLocals
      BY <1>1 DEF IInv, StageLocals
<1>3. p \in Places /\ p.local \in 0 .. MirSize + nargs - 1
      BY <1>1, <1>2 DEF PlaceInv, UntupledLocals
<1>4. /\ DOMAIN locals' = 0 .. MirSize + nargs + ncaps - 2
      /\ \A l \in 0 .. MirSize + nargs + ncaps - 2 :
            locals'[l] = IF l < 1 THEN locals[l]
                         ELSE IF l < 1 + ncaps THEN Slot("cap", l - 1)
                         ELSE locals[l - ncaps + 1]
      BY <1>1 DEF UnpackSelf, Splice
<1>5. NeverAliased(q)'
      BY <1>1 DEF NeverAliased
<1>6. CASE p.local = 0
  <2>1. q = p
        BY <1>1, <1>3, <1>6 DEF Unpack, Unpacked, Place, Shift, FieldOf, Places
  <2>2. locals'[p.local] = locals[p.local] /\ p.local \in DOMAIN locals'
        BY <1>1, <1>2, <1>3, <1>4, <1>6
  <2>3. Denotes(q, locals') = Denotes(p, locals)
        BY <2>1, <2>2 DEF Denotes
  <2> QED
      BY <1>1, <1>3, <1>5, <2>1, <2>2, <2>3 DEF PlaceInv
<1>7. CASE p.local = 1
  <2>1. locals[1] = Self
        BY <1>1, <1>2 DEF UntupledLocals
  <2>2. FieldOf(p, 1, 1) /\ p.proj[2] < ncaps
        BY <1>1, <1>7, <2>1 DEF PlaceInv, UnpackablePlace
  <2>3. /\ Len(p.proj) > 1 /\ p.proj \in Seq(Nat \union {Deref})
        /\ p.proj[2] \in 0 .. ncaps - 1
        BY <1>1, <1>3, <2>2, FieldOfDepth1 DEF Places
  <2>4. Place(Shift(p.local, 1, ncaps - 1), p.proj) = p
        BY <1>3, <1>7 DEF Place, Shift, Places
  <2>5. q = Place(1 + p.proj[2], After(p.proj, 2))
        BY <2>2, <2>4 DEF Unpack, Unpacked
  <2>6. q.local = 1 + p.proj[2] /\ q.proj = After(p.proj, 2) /\ q \in Places
    <3>1. 2 \in 0 .. Len(p.proj)
          BY <2>3
    <3>2. After(p.proj, 2) \in Seq(Nat \union {Deref})
          BY <2>3, <3>1, AfterPath
    <3>3. 1 + p.proj[2] \in Nat
          BY <1>1, <2>3
    <3> QED
        BY <2>5, <3>2, <3>3 DEF Place, Places
  <2>7. locals'[q.local] = Slot("cap", p.proj[2]) /\ q.local \in DOMAIN locals'
        BY <1>1, <1>4, <2>3, <2>6
  <2>8. Slot("cap", p.proj[2]) \notin {Self, Tuple} /\ Self # Tuple
        BY DEF Slot, Self, Tuple
  <2>9. Denotes(q, locals') = Denotes(p, locals)
        BY <1>7, <2>1, <2>2, <2>6, <2>7, <2>8 DEF Denotes
  <2> QED
      BY <1>1, <1>5, <2>6, <2>7, <2>9 DEF PlaceInv
<1>8. CASE p.local > 1
  <2> DEFINE r == Place(p.local + ncaps - 1, p.proj)
  <2>1. r \in Places /\ r.local = p.local + ncaps - 1 /\ r.proj = p.proj
        BY <1>1, <1>3, <1>8 DEF Place, Places
  <2>2. ~FieldOf(r, 1, 1)
    <3>1. CASE ncaps = 0 /\ p.local = 2
          BY <1>1, <2>1, <3>1 DEF PlaceInv, NeverAliased, FieldOf
    <3>2. CASE ~(ncaps = 0 /\ p.local = 2)
      <4>1. r.local # 1
            BY <1>1, <1>3, <1>8, <2>1, <3>2 DEF Places
      <4> QED
          BY <4>1 DEF FieldOf
    <3> QED
        BY <3>1, <3>2
  <2>3. q = r
        BY <1>1, <1>3, <1>8, <2>2 DEF Unpack, Unpacked, Shift, Place, Places
  <2>4. locals'[r.local] = locals[p.local] /\ r.local \in DOMAIN locals'
    <3>1. /\ r.local \in 0 .. MirSize + nargs + ncaps - 2
          /\ r.local >= 1 + ncaps /\ r.local - ncaps + 1 = p.local
          BY <1>1, <1>3, <1>8, <2>1
    <3> HIDE DEF r
    <3> QED
        BY <1>1, <1>4, <3>1
  <2>5. locals[p.local] \notin {Self, Tuple}
        BY <1>1, <1>2, <1>3, <1>8 DEF UntupledLocals, Slot, Self, Tuple
  <2>6. Denotes(q, locals') = Denotes(p, locals)
        BY <2>1, <2>3, <2>4, <2>5 DEF Denotes
  <2> QED
      BY <1>1, <1>5, <2>1, <2>3, <2>4, <2>6 DEF PlaceInv
<1> QED
    BY <1>3, <1>6, <1>7, <1>8 DEF Places

-----------------------------------------------------------------------------
(* Each step, on the state *)

LEMMA InitIInv == CommonInit => IInv
<1> SUFFICES ASSUME CommonInit PROVE IInv
    OBVIOUS
<1>1. nargs \in Nat /\ ncaps \in Nat /\ ntemps \in Nat /\ MirSize \in Nat
      BY CountsAssumption DEF CommonInit, Init, MirSize
<1>2. place \in Places /\ capture \in Places
      BY <1>1, ProjectionsAssumption DEF CommonInit, Init, Places
<1>3. DOMAIN locals = 0 .. MirSize - 1
      BY DEF CommonInit, Init, MirLocals
<1>4. place.local \in DOMAIN locals /\ capture.local \in DOMAIN locals
      BY <1>1, <1>3 DEF CommonInit, Init
<1>5. PlaceInv(place, Denotes(place, locals)) /\ PlaceInv(capture, Denotes(capture, locals))
      BY <1>2, <1>4, InitPlace DEF CommonInit, Init
<1> QED
    BY <1>1, <1>5 DEF CommonInit, Init, IInv, StageLocals

LEMMA TupleArgumentsIInv == IInv /\ TupleArguments => IInv'
<1> SUFFICES ASSUME IInv, TupleArguments PROVE IInv'
    OBVIOUS
<1>1. /\ nargs \in Nat /\ ncaps \in Nat /\ ntemps \in Nat
      /\ nargs' = nargs /\ ncaps' = ncaps /\ ntemps' = ntemps
      /\ pc = "mir" /\ pc' = "tupled" /\ MirSize = 2 + nargs + ntemps /\ MirSize' = MirSize
      /\ PlaceInv(place, origin.place) /\ PlaceInv(capture, origin.capture)
      /\ DOMAIN origin = {"place", "capture"}
      BY DEF IInv, TupleArguments, MirSize
<1>2. StageLocals'
  <2>1. locals = MirLocals(MirSize)
        BY <1>1 DEF IInv, StageLocals
  <2>2. locals' = TupledLocals'
        BY <1>1, <2>1 DEF TupleArguments, TupledLocals, MirLocals
  <2> QED
      BY <1>1, <2>2 DEF StageLocals, TupleArguments, MethodArgCount
<1>3. PlaceInv(capture, origin.capture)'
  <2>1. capture' = [capture EXCEPT !.local = Shift(@, SELF_ID, 1)]
        BY DEF TupleArguments
  <2>2. origin'.capture = origin.capture
        BY <1>1 DEF TupleArguments
  <2> QED
      BY <1>1, <2>1, <2>2, TuplePlace DEF PlaceInv
<1>4. PlaceInv(place, origin.place)'
  <2>1. CASE /\ place' = [place EXCEPT !.local = Shift(@, SELF_ID, 1)]
             /\ UNCHANGED origin
        BY <1>1, <2>1, TuplePlace DEF PlaceInv
  <2>2. ASSUME NEW i \in 0 .. nargs - 1, place' = Place(TUPLED_ARGS_ID, <<i>>),
               origin' = [origin EXCEPT !.place = [slot |-> Slot("arg", i), path |-> <<>>]]
        PROVE  PlaceInv(place, origin.place)'
    <3>1. origin'.place = [slot |-> Slot("arg", i), path |-> <<>>]
          BY <1>1, <2>2
    <3> QED
        BY <2>2, <3>1, ArgumentRead DEF PlaceInv
  <2> QED
      BY <2>1, <2>2 DEF TupleArguments
<1>5. DOMAIN origin' = {"place", "capture"}
      BY <1>1 DEF TupleArguments
<1> QED
    BY <1>1, <1>2, <1>3, <1>4, <1>5 DEF IInv

LEMMA UnpackTupleIInv == IInv /\ UnpackTuple => IInv'
<1> SUFFICES ASSUME IInv, UnpackTuple PROVE IInv'
    OBVIOUS
<1>1. /\ nargs \in Nat /\ ncaps \in Nat /\ ntemps \in Nat
      /\ nargs' = nargs /\ ncaps' = ncaps /\ ntemps' = ntemps /\ origin' = origin
      /\ pc = "tupled" /\ pc' \in {"untupled", "panic"}
      /\ MirSize = 2 + nargs + ntemps /\ MirSize' = MirSize
      /\ PlaceInv(place, origin.place) /\ PlaceInv(capture, origin.capture)
      /\ place' = Unpack(place, TUPLED_ARGS_ID, nargs, 0)
      /\ capture' = Unpack(capture, TUPLED_ARGS_ID, nargs, 0)
      BY DEF IInv, UnpackTuple, Proceed, MirSize
<1>2. PlaceInv(place, origin.place)'
      BY <1>1, UnpackTuplePlace DEF PlaceInv
<1>3. PlaceInv(capture, origin.capture)'
      BY <1>1, UnpackTuplePlace DEF PlaceInv
<1>4. pc' = "untupled"
      BY <1>2, <1>3 DEF UnpackTuple, Proceed, PlaceInv
<1>5. StageLocals'
  <2>1. locals = TupledLocals /\ arg_count = 2
        BY <1>1 DEF IInv, StageLocals
  <2>2. locals' = UntupledLocals'
        BY <1>1, <2>1 DEF UnpackTuple, Splice, TupledLocals, UntupledLocals
  <2>3. arg_count' = 1 + nargs'
        BY <1>1, <2>1 DEF UnpackTuple
  <2> QED
      BY <1>4, <2>2, <2>3 DEF StageLocals
<1> QED
    BY <1>1, <1>2, <1>3, <1>4, <1>5 DEF IInv

LEMMA UnpackSelfIInv == IInv /\ UnpackSelf => IInv'
<1> SUFFICES ASSUME IInv, UnpackSelf PROVE IInv'
    OBVIOUS
<1>1. /\ nargs \in Nat /\ ncaps \in Nat /\ ntemps \in Nat
      /\ nargs' = nargs /\ ncaps' = ncaps /\ ntemps' = ntemps /\ origin' = origin
      /\ pc = "untupled" /\ pc' \in {"done", "panic"}
      /\ MirSize = 2 + nargs + ntemps /\ MirSize' = MirSize
      /\ PlaceInv(place, origin.place) /\ PlaceInv(capture, origin.capture)
      /\ place' = Unpack(place, SELF_ID, ncaps, 1)
      /\ capture' = Unpack(capture, SELF_ID, ncaps, 1)
      BY DEF IInv, UnpackSelf, Proceed, MirSize
<1>2. PlaceInv(place, origin.place)'
      BY <1>1, UnpackSelfPlace DEF PlaceInv
<1>3. PlaceInv(capture, origin.capture)'
      BY <1>1, UnpackSelfPlace DEF PlaceInv
<1>4. pc' = "done"
      BY <1>2, <1>3 DEF UnpackSelf, Proceed, PlaceInv
<1>5. StageLocals'
  <2>1. locals = UntupledLocals /\ arg_count = 1 + nargs
        BY <1>1 DEF IInv, StageLocals
  <2>2. locals' = SpecificationLocals'
        BY <1>1, <2>1 DEF UnpackSelf, Splice, UntupledLocals, SpecificationLocals
  <2>3. arg_count' = ncaps' + nargs'
        BY <1>1, <2>1 DEF UnpackSelf
  <2>4. /\ MirSize + nargs + ncaps - 1 \in Nat
        /\ DOMAIN locals' = 0 .. (MirSize + nargs + ncaps - 1) - 1
        /\ 0 .. arg_count' \subseteq DOMAIN locals'
        BY <1>1, <2>2, <2>3 DEF SpecificationLocals
  <2>5. KeptLocals'
        BY <2>2, <2>3, <2>4 DEF KeptLocals
  <2> QED
      BY <1>4, <2>2, <2>5 DEF StageLocals
<1> QED
    BY <1>1, <1>2, <1>3, <1>4, <1>5 DEF IInv

-----------------------------------------------------------------------------
(* Closing the gaps *)

\* The new ids keep the order of the old ones and leave no room above them.
LEMMA NewIdOrder ==
    ASSUME NEW S \in SUBSET Nat, IsFiniteSet(S), NEW l \in S
    PROVE  /\ NewId(S, l) \in Nat
           /\ NewId(S, l) < Cardinality(S)
           /\ \A k \in S : l < k => NewId(S, l) < NewId(S, k)
<1> DEFINE Below(k) == {i \in S : i < k}
<1>1. \A k \in S : IsFiniteSet(Below(k))
      BY FS_Subset
<1>2. IsFiniteSet(Below(l)) /\ Cardinality(Below(l)) \in Nat
      BY <1>1, FS_CardinalityType
<1>3. l \notin Below(l)
      OBVIOUS
<1>4. Cardinality(Below(l) \union {l}) = Cardinality(Below(l)) + 1
      BY <1>2, <1>3, FS_AddElement
<1>5. Cardinality(Below(l)) < Cardinality(S)
  <2>1. Below(l) \union {l} \subseteq S
        OBVIOUS
  <2>2. Cardinality(Below(l) \union {l}) <= Cardinality(S)
        BY <2>1, FS_Subset
  <2>3. Cardinality(S) \in Nat
        BY FS_CardinalityType
  <2> HIDE DEF Below
  <2> QED
      BY <1>2, <1>4, <2>2, <2>3
<1>6. ASSUME NEW k \in S, l < k
      PROVE  Cardinality(Below(l)) < Cardinality(Below(k))
  <2>0. \A i \in Nat : i < l => i < k
        BY <1>6
  <2>1. Below(l) \union {l} \subseteq Below(k)
        BY <1>6, <2>0
  <2>2. Cardinality(Below(l) \union {l}) <= Cardinality(Below(k))
        BY <1>1, <2>1, FS_Subset
  <2>3. Cardinality(Below(k)) \in Nat
        BY <1>1, FS_CardinalityType
  <2> HIDE DEF Below
  <2> QED
      BY <1>2, <1>4, <2>2, <2>3
<1> QED
    BY <1>2, <1>5, <1>6 DEF NewId

LEMMA NewIdRange ==
    ASSUME NEW S \in SUBSET Nat, IsFiniteSet(S), NEW l \in S
    PROVE  NewId(S, l) \in 0 .. Cardinality(S) - 1
<1>1. NewId(S, l) \in Nat /\ NewId(S, l) < Cardinality(S)
      BY NewIdOrder
<1>2. Cardinality(S) \in Nat
      BY FS_CardinalityType
<1> QED
    BY <1>1, <1>2

\* A local is found at its new id.
LEMMA NewIdInverse ==
    ASSUME NEW S \in SUBSET Nat, IsFiniteSet(S), NEW l \in S
    PROVE  (CHOOSE k \in S : NewId(S, k) = NewId(S, l)) = l
<1>1. ASSUME NEW k \in S, NewId(S, k) = NewId(S, l)
      PROVE  k = l
  <2>1. NewId(S, k) \in Nat /\ NewId(S, l) \in Nat
        BY NewIdOrder
  <2>2. ~(k < l) /\ ~(l < k)
        BY <1>1, <2>1, NewIdOrder
  <2> QED
      BY <2>2
<1> QED
    BY <1>1

\* Locals that are kept with all those before them keep their ids.
LEMMA NewIdOfParameter ==
    ASSUME NEW S \in SUBSET Nat, NEW l \in Nat, 0 .. l \subseteq S
    PROVE  NewId(S, l) = l
<1>1. {k \in S : k < l} = 0 .. l - 1
  <2>1. \A k \in Nat : k < l <=> k \in 0 .. l - 1
        OBVIOUS
  <2>2. 0 .. l - 1 \subseteq 0 .. l /\ 0 .. l - 1 \subseteq Nat
        OBVIOUS
  <2> QED
      BY <2>1, <2>2
<1>2. Cardinality(0 .. l - 1) = l
      BY FS_Interval
<1> QED
    BY <1>1, <1>2 DEF NewId

\* Dropping unused locals keeps what a place denotes.
LEMMA KeptPlace ==
    ASSUME NEW ls, NEW kept, NEW p \in Places, NEW q \in Places,
           q.proj = p.proj, kept[q.local] = ls[p.local]
    PROVE  Denotes(q, kept) = Denotes(p, ls)
<1>1. \A n \in {0, 1} : FieldOf(q, q.local, n) <=> FieldOf(p, p.local, n)
      BY DEF FieldOf
<1> QED
    BY <1>1 DEF Denotes

LEMMA RemoveUnusedLocalsIInv == IInv /\ RemoveUnusedLocals => IInv'
<1> SUFFICES ASSUME IInv, RemoveUnusedLocals PROVE IInv'
    OBVIOUS
<1>1. /\ nargs \in Nat /\ ncaps \in Nat /\ ntemps \in Nat
      /\ nargs' = nargs /\ ncaps' = ncaps /\ ntemps' = ntemps
      /\ origin' = origin /\ arg_count' = arg_count
      /\ pc \in {"done", "cleaned"} /\ KeptLocals
      BY DEF IInv, StageLocals, RemoveUnusedLocals
<1>2. PICK S \in SUBSET DOMAIN locals :
         /\ Used \subseteq S
         /\ pc' = IF {place.local, capture.local} \subseteq S THEN "cleaned" ELSE "panic"
         /\ locals' = [l \in 0 .. Cardinality(S) - 1 |->
                         locals[CHOOSE k \in S : NewId(S, k) = l]]
         /\ place' = [place EXCEPT !.local = NewId(S, @)]
         /\ capture' = [capture EXCEPT !.local = NewId(S, @)]
      BY DEF RemoveUnusedLocals
<1>3. S \subseteq Nat /\ IsFiniteSet(S)
  <2>1. PICK n \in Nat : DOMAIN locals = 0 .. n - 1
        BY <1>1 DEF KeptLocals
  <2>2. IsFiniteSet(0 .. n - 1) /\ 0 .. n - 1 \subseteq Nat
        BY FS_Interval
  <2> QED
      BY <2>1, <2>2, FS_Subset
<1>4. /\ place.local \in S /\ capture.local \in S /\ pc' = "cleaned"
      /\ 0 .. arg_count \subseteq S
      BY <1>2 DEF Used
<1>5. /\ DOMAIN locals' = 0 .. Cardinality(S) - 1
      /\ \A l \in S : locals'[NewId(S, l)] = locals[l]
  <2>1. ASSUME NEW l \in S
        PROVE  locals'[NewId(S, l)] = locals[l]
    <3>1. NewId(S, l) \in 0 .. Cardinality(S) - 1
          BY <1>3, NewIdRange
    <3>2. locals'[NewId(S, l)] = locals[CHOOSE k \in S : NewId(S, k) = NewId(S, l)]
          BY <1>2, <3>1
    <3> QED
        BY <1>3, <3>2, NewIdInverse
  <2> QED
      BY <1>2, <2>1
<1>6. PlaceInv(place, origin.place)'
  <2>1. PlaceInv(place, origin.place)
        BY DEF IInv
  <2>2. place \in Places /\ Denotes(place, locals) = origin.place
        BY <2>1 DEF PlaceInv
  <2>3. NewId(S, place.local) \in 0 .. Cardinality(S) - 1
        BY <1>3, <1>4, NewIdRange
  <2>4. /\ place' \in Places /\ place'.proj = place.proj
        /\ place'.local = NewId(S, place.local)
        BY <1>2, <2>2, <2>3 DEF Places
  <2>5. locals'[place'.local] = locals[place.local]
        BY <1>4, <1>5, <2>4
  <2>6. Denotes(place', locals') = Denotes(place, locals)
        BY <2>2, <2>4, <2>5, KeptPlace
  <2>7. NeverAliased(place)'
        BY <1>4 DEF NeverAliased
  <2> QED
      BY <1>1, <1>4, <1>5, <2>2, <2>6, <2>7, <2>3, <2>4 DEF PlaceInv
<1>7. PlaceInv(capture, origin.capture)'
  <2>1. PlaceInv(capture, origin.capture)
        BY DEF IInv
  <2>2. capture \in Places /\ Denotes(capture, locals) = origin.capture
        BY <2>1 DEF PlaceInv
  <2>3. NewId(S, capture.local) \in 0 .. Cardinality(S) - 1
        BY <1>3, <1>4, NewIdRange
  <2>4. /\ capture' \in Places /\ capture'.proj = capture.proj
        /\ capture'.local = NewId(S, capture.local)
        BY <1>2, <2>2, <2>3 DEF Places
  <2>5. locals'[capture'.local] = locals[capture.local]
        BY <1>4, <1>5, <2>4
  <2>6. Denotes(capture', locals') = Denotes(capture, locals)
        BY <2>2, <2>4, <2>5, KeptPlace
  <2>7. NeverAliased(capture)'
        BY <1>4 DEF NeverAliased
  <2> QED
      BY <1>1, <1>4, <1>5, <2>2, <2>6, <2>7, <2>3, <2>4 DEF PlaceInv
<1>8. KeptLocals'
  <2>1. Cardinality(S) \in Nat /\ DOMAIN locals' = 0 .. Cardinality(S) - 1
        BY <1>3, <1>5, FS_CardinalityType
  <2>2. ASSUME NEW l \in 0 .. arg_count
        PROVE  l \in DOMAIN locals' /\ locals'[l] = locals[l]
    <3>1. l \in Nat /\ l \in S /\ 0 .. l \subseteq S
          BY <1>1, <1>4 DEF KeptLocals
    <3>2. NewId(S, l) = l
          BY <1>3, <3>1, NewIdOfParameter
    <3>3. l \in 0 .. Cardinality(S) - 1
          BY <1>3, <3>1, <3>2, NewIdRange
    <3> QED
        BY <1>5, <3>1, <3>2, <3>3
  <2>3. \A l \in 0 .. arg_count : SpecificationLocals'[l] = SpecificationLocals[l]
        BY <1>1 DEF SpecificationLocals, MirSize
  <2> QED
      BY <1>1, <2>1, <2>2, <2>3 DEF KeptLocals
<1>9. DOMAIN origin' = {"place", "capture"} /\ StageLocals'
      BY <1>1, <1>4, <1>8 DEF IInv, StageLocals
<1> QED
    BY <1>1, <1>4, <1>6, <1>9, <1>7 DEF IInv

-----------------------------------------------------------------------------
(* The theorems *)

\* The shape of the locals and of the places into them is kept by every step.
THEOREM Invariance == CommonSpec => []IInv
<1>1. CommonInit => IInv
      BY InitIInv
<1>2. IInv /\ [Next]_vars => IInv'
  <2>1. IInv /\ UNCHANGED vars => IInv'
    <3> SUFFICES ASSUME IInv, UNCHANGED vars PROVE IInv'
        OBVIOUS
    <3>1. StageLocals'
          BY DEF vars, IInv, StageLocals, MirSize, TupledLocals, UntupledLocals,
                 SpecificationLocals, KeptLocals
    <3>2. \A p, d : PlaceInv(p, d) => PlaceInv(p, d)'
          BY DEF vars, PlaceInv, UnpackablePlace, NeverAliased, NoAlias
    <3>3. PlaceInv(place, origin.place)' /\ PlaceInv(capture, origin.capture)'
          BY <3>2 DEF vars, IInv, PlaceInv
    <3> QED
        BY <3>1, <3>3 DEF vars, IInv
  <2> QED
      BY <2>1, TupleArgumentsIInv, UnpackTupleIInv, UnpackSelfIInv,
         RemoveUnusedLocalsIInv DEF Next
<1> QED
    BY <1>1, <1>2, PTL DEF CommonSpec

\* Renumbering the locals of a contract closure preserves what every place of
\* its body and of its nested closures' captures denotes.
THEOREM MeaningKept == CommonSpec => []PlacesKeepMeaning
<1>1. IInv => PlacesKeepMeaning
      BY DEF IInv, PlaceInv, PlacesKeepMeaning
<1> QED
    BY <1>1, Invariance, PTL

\* The parameters of the specification are the captures and the arguments,
\* whatever locals behind them are dropped.
THEOREM ParametersKept == CommonSpec => []ParametersAreArguments
<1>1. IInv => ParametersAreArguments
  <2> SUFFICES ASSUME IInv, pc \in {"done", "cleaned"}, NEW l \in 0 .. arg_count
               PROVE  /\ arg_count = ncaps + nargs
                      /\ l \in DOMAIN locals
                      /\ locals[l] = IF l = RET_ID THEN Ret
                                     ELSE IF l <= ncaps THEN Slot("cap", l - 1)
                                     ELSE Slot("arg", l - 1 - ncaps)
      BY DEF ParametersAreArguments, IInv, StageLocals, KeptLocals
  <2>1. KeptLocals /\ nargs \in Nat /\ ncaps \in Nat /\ ntemps \in Nat
        BY DEF IInv, StageLocals
  <2>2. /\ l \in DOMAIN locals /\ arg_count = ncaps + nargs
        /\ locals[l] = SpecificationLocals[l]
        BY <2>1 DEF KeptLocals
  <2>3. l \in 0 .. MirSize + nargs + ncaps - 2
        BY <2>1, <2>2 DEF MirSize
  <2> QED
      BY <2>1, <2>2, <2>3 DEF SpecificationLocals
<1> QED
    BY <1>1, Invariance, PTL
=============================================================================
