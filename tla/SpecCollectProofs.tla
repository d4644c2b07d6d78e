-------------------------- MODULE SpecCollectProofs -------------------------
(* Proofs about SpecCollect, for any crate: types, the exact correspondence *)
(* of the table of spec closures and the terminators, and that no contract  *)
(* is lost or doubled.  Then that the contracts of a function are in their  *)
(* order, nothing of their encoding is left behind the batch, and each pass *)
(* of the batch runs on the bodies that it is for; and, about SpecNames,    *)
(* that behind the batch the bodies that name_map looks for have owners and *)
(* get names that tell how deep they are nested, and nothing panics.        *)
EXTENDS SpecNames, FixedPoints

(* The calls of transform_function in progress.  Each but the last waits at *)
(* a call of a specification; they are of different functions, but for a    *)
(* last one that returned at once because its function was seen before.     *)
Waiting == \A k \in 1 .. Len(frames) - 1 :
             /\ frames[k].next <= Len(terms[frames[k].fun])
             /\ BlockOf(frames[k]).kind \in SpecKinds
Seen == \A k \in 1 .. Len(frames) : frames[k].fun \in transformed
Different == \A j, k \in 1 .. Len(frames) :
               j < k /\ frames[j].fun = frames[k].fun
                 => k = Len(frames) /\ Finished(frames[k])
InBatch == frames # <<>> => item # None /\ pass = COLLECT

CallsOK == Waiting /\ Seen /\ Different /\ InBatch

IInv == TypeOK /\ CallsOK /\ SpecClosuresReferencedOnce

\* Replacing an element of a sequence.
LEMMA ReplaceElement ==
    ASSUME NEW S, NEW s \in Seq(S), NEW i \in 1 .. Len(s), NEW v \in S
    PROVE  /\ [s EXCEPT ![i] = v] \in Seq(S)
           /\ Len([s EXCEPT ![i] = v]) = Len(s)
           /\ \A j \in 1 .. Len(s) : [s EXCEPT ![i] = v][j] = IF j = i THEN v ELSE s[j]
<1>1. [s EXCEPT ![i] = v] \in [1 .. Len(s) -> S]
  OBVIOUS
<1>2. QED
  BY <1>1

\* The elements of a sequence, the last of one that is not empty, all but it.
LEMMA Elements ==
    ASSUME NEW S, NEW s \in Seq(S)
    PROVE  /\ Len(s) \in Nat
           /\ \A i \in 1 .. Len(s) : s[i] \in S
           /\ s # <<>> => Len(s) \in Nat \ {0} /\ s[Len(s)] \in S
OBVIOUS

\* What a call of a specification carries, and that the two terminators the
\* collection writes are terminators.
LEMMA TerminatorFields ==
    /\ \A t \in Terminators : t.kind \in SpecKinds => t.closure \in Closures
    /\ Goto \in Terminators /\ Goto.kind = "goto"
    /\ \A n \in Nat : Contract(n) \in Terminators /\ Contract(n).kind = "contract"
                      /\ Contract(n).spec_closure_id = n
    /\ \A t \in Terminators : t.kind = "contract" => t = Contract(t.spec_closure_id)
                                                   /\ t.spec_closure_id \in Nat
BY DEF Terminators, SpecKinds, Goto, Contract

\* The method of a closure is a function of the crate.
LEMMA MethodIsFun == \A c \in Closures : Method(c, "Fn") \in FunIds
BY DEF Method, FunIds, FnTraits

LEMMA PassNumbers == /\ COLLECT \in Nat /\ LastPass \in Nat
                     /\ 1 <= COLLECT /\ COLLECT <= LastPass
BY PassesAssumption DEF COLLECT, LastPass

\* The function and the block of the last call in progress.
LEMMA TopFacts ==
    ASSUME TypeOK, frames # <<>>
    PROVE  /\ Len(frames) \in Nat \ {0}
           /\ Top.fun \in FunIds /\ Top.next \in Nat \ {0}
           /\ Top \in [fun : FunIds, next : Nat \ {0}]
           /\ Top = frames[Len(frames)]
           /\ ~Finished(Top) => /\ Top.next \in 1 .. Len(terms[Top.fun])
                                /\ BlockOf(Top) \in Terminators
<1>1. Len(frames) \in Nat \ {0}
  BY DEF TypeOK
<1>2. Top \in [fun : FunIds, next : Nat \ {0}]
  <2>1. frames \in Seq([fun : FunIds, next : Nat \ {0}])
    BY DEF TypeOK
  <2>2. frames[Len(frames)] \in [fun : FunIds, next : Nat \ {0}]
    BY <2>1, Elements
  <2>3. QED
    BY <2>2 DEF Top, Last
<1>3. terms[Top.fun] \in Seq(Terminators)
  BY <1>2 DEF TypeOK
<1>4. QED
  BY <1>1, <1>2, <1>3 DEF Finished, BlockOf, Top, Last

\* A body is a sequence of terminators.
LEMMA BodyFacts ==
    TypeOK => \A f \in FunIds : terms[f] \in Seq(Terminators) /\ Len(terms[f]) \in Nat
BY DEF TypeOK

LEMMA InitInv == Init => IInv
<1> SUFFICES ASSUME Init PROVE IInv
  OBVIOUS
<1>1. PICK p \in Programs : terms = p.terms /\ todo = p.order
  BY DEF Init
<1>2. /\ terms \in [FunIds -> Seq(Terminators)]
      /\ \A f \in FunIds : \A i \in DOMAIN terms[f] : terms[f][i].kind # "contract"
      /\ todo \in Seq(FunIds)
  BY <1>1, ProgramsAssumption
<1>3. TypeOK
  BY <1>2, PassNumbers DEF Init, TypeOK
<1>4. CallsOK
  BY DEF Init, CallsOK, Waiting, Seen, Different, InBatch
<1>5. SpecClosuresReferencedOnce
  BY <1>2 DEF Init, SpecClosuresReferencedOnce
<1>6. QED
  BY <1>3, <1>4, <1>5 DEF IInv

Frames == [fun : FunIds, next : Nat \ {0}]

\* The call on top moves on to its next block.
LEMMA AdvanceFacts ==
    ASSUME NEW fs \in Seq(Frames), fs # <<>>
    PROVE  /\ Advance(fs) \in Seq(Frames)
           /\ Len(Advance(fs)) = Len(fs)
           /\ Len(fs) \in Nat \ {0}
           /\ \A k \in 1 .. Len(fs) : Advance(fs)[k].fun = fs[k].fun
           /\ \A k \in 1 .. Len(fs) - 1 : Advance(fs)[k] = fs[k]
           /\ Advance(fs)[Len(fs)].next = fs[Len(fs)].next + 1
<1> DEFINE n == Len(fs)
           g == [fs[n] EXCEPT !.next = @ + 1]
<1>1. n \in Nat \ {0} /\ fs[n] \in Frames
  BY Elements
<1>2. g \in Frames /\ g.fun = fs[n].fun /\ g.next = fs[n].next + 1
  BY <1>1 DEF Frames
<1>3. Advance(fs) = [fs EXCEPT ![n] = g]
  BY DEF Advance
<1>4. n \in 1 .. Len(fs)
  BY <1>1
<1>5. /\ Advance(fs) \in Seq(Frames)
      /\ Len(Advance(fs)) = Len(fs)
      /\ \A j \in 1 .. Len(fs) : Advance(fs)[j] = IF j = n THEN g ELSE fs[j]
  <2> HIDE DEF g
  <2>1. QED
    BY <1>2, <1>3, <1>4, ReplaceElement
<1> HIDE DEF g
<1>6. \A k \in 1 .. Len(fs) : Advance(fs)[k].fun = fs[k].fun
  BY <1>2, <1>5
<1>7. \A k \in 1 .. Len(fs) - 1 : Advance(fs)[k] = fs[k]
  BY <1>1, <1>5
<1>8. Advance(fs)[Len(fs)].next = fs[Len(fs)].next + 1
  BY <1>1, <1>2, <1>4, <1>5
<1>9. QED
  BY <1>1, <1>5, <1>6, <1>7, <1>8

\* What is written over a block's terminator leaves the rest alone.
LEMMA SetTerminatorFacts ==
    ASSUME TypeOK, NEW fr \in Frames, fr.next <= Len(terms[fr.fun]),
           NEW t \in Terminators, SetTerminator(fr, t)
    PROVE  /\ terms' \in [FunIds -> Seq(Terminators)]
           /\ \A f \in FunIds : Len(terms'[f]) = Len(terms[f])
           /\ \A f \in FunIds : \A i \in 1 .. Len(terms[f]) :
                terms'[f][i] = IF f = fr.fun /\ i = fr.next THEN t ELSE terms[f][i]
<1> DEFINE h == fr.fun
           s == [terms[h] EXCEPT ![fr.next] = t]
<1>1. h \in FunIds /\ fr.next \in Nat \ {0}
  BY DEF Frames
<1>2. terms \in [FunIds -> Seq(Terminators)] /\ terms[h] \in Seq(Terminators)
  BY <1>1 DEF TypeOK
<1>3. Len(terms[h]) \in Nat
  BY <1>2
<1>4. fr.next \in 1 .. Len(terms[h])
  BY <1>1, <1>3
<1>5. /\ s \in Seq(Terminators)
      /\ Len(s) = Len(terms[h])
      /\ \A j \in 1 .. Len(terms[h]) : s[j] = IF j = fr.next THEN t ELSE terms[h][j]
  BY <1>2, <1>4, ReplaceElement
<1>6. terms' = [terms EXCEPT ![h] = s]
  BY DEF SetTerminator
<1> HIDE DEF s
<1>7. \A f \in FunIds : terms'[f] = IF f = h THEN s ELSE terms[f]
  BY <1>1, <1>2, <1>6
<1>8. terms' \in [FunIds -> Seq(Terminators)]
  BY <1>2, <1>5, <1>6
<1>9. QED
  BY <1>5, <1>7, <1>8

\* A call that begins.
LEMMA EnterFacts ==
    ASSUME TypeOK, NEW f \in FunIds, Enter(f)
    PROVE  /\ frames' \in Seq(Frames)
           /\ Len(frames') = Len(frames) + 1
           /\ Len(frames) \in Nat
           /\ \A k \in 1 .. Len(frames) : frames'[k] = frames[k]
           /\ frames'[Len(frames) + 1] = Frame(f)
           /\ Frame(f).fun = f
           /\ transformed' = transformed \union {f}
           /\ transformed' \subseteq FunIds
<1>1. frames \in Seq(Frames) /\ Len(frames) \in Nat
  BY DEF TypeOK, Frames
<1>2. Len(terms[f]) \in Nat
  BY DEF TypeOK
<1>3. Frame(f) \in Frames /\ Frame(f).fun = f
  BY <1>2 DEF Frame, Frames
<1>4. frames' = Append(frames, Frame(f)) /\ transformed' = transformed \union {f}
  BY DEF Enter
<1>5. transformed' \subseteq FunIds
  BY <1>4 DEF TypeOK
<1> HIDE DEF Frames
<1>6. QED
  BY <1>1, <1>3, <1>4, <1>5

\* The calls below the last one, and the one that waits for it.
LEMMA CallersFacts ==
    ASSUME TypeOK, Waiting, Len(frames) > 1
    PROVE  /\ frames # <<>>
           /\ Callers \in Seq(Frames)
           /\ Callers # <<>>
           /\ Len(frames) \in Nat
           /\ Len(Callers) = Len(frames) - 1
           /\ \A k \in 1 .. Len(frames) - 1 : Callers[k] = frames[k]
           /\ Last(Callers) = frames[Len(frames) - 1]
           /\ Last(Callers) \in Frames
           /\ Last(Callers).next <= Len(terms[Last(Callers).fun])
           /\ BlockOf(Last(Callers)).kind \in SpecKinds
<1>1. frames \in Seq(Frames) /\ Len(frames) \in Nat
  BY DEF TypeOK, Frames
<1> HIDE DEF Frames
<1>2. /\ Callers \in Seq(Frames)
      /\ Len(Callers) = Len(frames) - 1
      /\ \A k \in 1 .. Len(frames) - 1 : Callers[k] = frames[k]
  BY <1>1 DEF Callers
<1>3. Callers # <<>> /\ frames # <<>>
  BY <1>1, <1>2
<1>4. Last(Callers) = frames[Len(frames) - 1] /\ Last(Callers) \in Frames
  BY <1>1, <1>2, <1>3, Elements DEF Last
<1>5. Len(frames) - 1 \in 1 .. Len(frames) - 1
  BY <1>1
<1>6. QED
  BY <1>1, <1>2, <1>3, <1>4, <1>5 DEF Waiting

\* TypeOK, one action at a time.
LEMMA TypeStep == ASSUME IInv, Next PROVE TypeOK'
<1> USE DEF IInv
<1> USE PassNumbers
<1>1. CASE TakeItem
  <2>1. Head(todo) \in FunIds /\ Tail(todo) \in Seq(FunIds)
    BY <1>1 DEF TakeItem, TypeOK
  <2>2. QED
    <3>1. item' \in FunIds \ fun_decls' /\ fun_decls' \subseteq FunIds
      BY <1>1, <2>1 DEF TakeItem, TypeOK
    <3>2. pass' \in 1 .. LastPass + 1 /\ todo' \in Seq(FunIds)
      BY <1>1, <2>1 DEF TakeItem
    <3>3. QED
      BY <1>1, <3>1, <3>2 DEF TakeItem, TypeOK, specs
<1>2. CASE SkipItem
  <2>1. Tail(todo) \in Seq(FunIds)
    BY <1>2 DEF SkipItem, TypeOK
  <2>2. QED
    BY <1>2, <2>1 DEF SkipItem, TypeOK, specs, crate
<1>3. CASE RunPass
  <2>1. applied' \in [FunIds -> Seq(1 .. LastPass)]
    <3>1. \A f \in FunIds : Append(applied[f], pass) \in Seq(1 .. LastPass)
      BY <1>3 DEF RunPass, TypeOK
    <3>2. QED
      BY <1>3, <3>1 DEF RunPass, TypeOK
  <2>2. pass' \in 1 .. LastPass + 1
    BY <1>3 DEF RunPass, TypeOK
  <2>3. QED
    BY <1>3, <2>1, <2>2 DEF RunPass, TypeOK, specs, crate
<1>4. CASE PutItemBack
  <2>1. fun_decls' \subseteq FunIds /\ item' = None
    BY <1>4 DEF PutItemBack, TypeOK
  <2>2. QED
    BY <1>4, <2>1 DEF PutItemBack, TypeOK, specs
<1>5. CASE StartCollect
  <2>1. item \in FunIds /\ Enter(item)
    BY <1>5 DEF StartCollect, TypeOK
  <2>2. QED
    BY <1>5, <2>1, EnterFacts DEF StartCollect, TypeOK, specs, crate, Frames
<1>6. CASE FinishCollect
  <2>1. frames # <<>>
    BY <1>6 DEF FinishCollect
  <2>2. pass' \in 1 .. LastPass + 1
    BY <1>6, <2>1 DEF FinishCollect, CallsOK, InBatch
  <2>3. frames' \in Seq(Frames)
    BY <1>6 DEF FinishCollect
  <2>4. QED
    BY <1>6, <2>2, <2>3 DEF FinishCollect, TypeOK, specs, crate, Frames
<1>7. CASE PassBlock
  <2>1. frames' \in Seq(Frames)
    BY <1>7, AdvanceFacts DEF PassBlock, TypeOK, Frames
  <2>2. QED
    BY <1>7, <2>1 DEF PassBlock, TypeOK, specs, crate, Frames
<1>8. CASE CollectEntry
  <2>1. frames' \in Seq(Frames)
    BY <1>8, AdvanceFacts DEF CollectEntry, TypeOK, Frames
  <2>2. terms' \in [FunIds -> Seq(Terminators)]
    <3>1. /\ Top \in Frames
          /\ Top.next <= Len(terms[Top.fun])
          /\ Goto \in Terminators
          /\ SetTerminator(Top, Goto)
      BY <1>8, TopFacts, TerminatorFields DEF CollectEntry, Frames
    <3>2. QED
      BY <3>1, SetTerminatorFacts
  <2>3. QED
    BY <1>8, <2>1, <2>2 DEF CollectEntry, TypeOK, specs, crate, Frames
<1>9. CASE CollectClosure
  <2> DEFINE c == BlockOf(Top).closure
  <2>1. c \in Closures
    BY <1>9, TopFacts, TerminatorFields DEF CollectClosure
  <2>2. Enter(Method(c, "Fn")) /\ Method(c, "Fn") \in FunIds
    BY <1>9, <2>1, MethodIsFun DEF CollectClosure
  <2>3. frames' \in Seq(Frames) /\ transformed' \subseteq FunIds
    BY <2>2, EnterFacts
  <2>4. /\ type_decls' \subseteq Closures
        /\ trait_impls' \subseteq Closures \X FnTraits
        /\ fun_decls' \subseteq fun_decls
    BY <1>9 DEF CollectClosure, TypeOK
  <2>5. QED
    BY <1>9, <2>3, <2>4 DEF CollectClosure, TypeOK, specs, Frames
<1>10. CASE ReturnToCaller
  <2> DEFINE caller == Last(Callers)
  <2>1. Len(frames) > 1 /\ Attach(caller, Top.fun) /\ frames' = Advance(Callers)
    BY <1>10 DEF ReturnToCaller
  <2>2. /\ frames # <<>> /\ Callers \in Seq(Frames) /\ Callers # <<>>
        /\ caller \in Frames /\ caller.next <= Len(terms[caller.fun])
    BY <2>1, CallersFacts DEF CallsOK
  <2>3. frames' \in Seq(Frames)
    BY <2>1, <2>2, AdvanceFacts
  <2>4. Top.fun \in FunIds /\ caller.fun \in FunIds
    BY <2>2, TopFacts DEF Frames
  <2>5. Len(spec_closures) + 1 \in Nat
    BY DEF TypeOK
  <2>6. \E t \in Terminators : SetTerminator(caller, t)
    BY <2>1, <2>5, TerminatorFields DEF Attach
  <2>7. terms' \in [FunIds -> Seq(Terminators)]
    BY <2>2, <2>6, SetTerminatorFacts
  <2>8. /\ preconditions' \in [FunIds -> Seq(FunIds)]
        /\ postconditions' \in [FunIds -> Seq(FunIds)]
        /\ spec_closures' \in Seq(FunIds)
    <3>1. CASE BlockOf(caller).kind = "precondition"
      <4>1. Append(preconditions[caller.fun], Top.fun) \in Seq(FunIds)
        BY <2>4 DEF TypeOK
      <4>2. /\ preconditions' = [preconditions EXCEPT ![caller.fun] =
                                   Append(preconditions[caller.fun], Top.fun)]
            /\ UNCHANGED <<postconditions, spec_closures>>
        BY <2>1, <3>1 DEF Attach
      <4>3. QED
        BY <4>1, <4>2 DEF TypeOK
    <3>2. CASE BlockOf(caller).kind = "postcondition"
      <4>1. Append(postconditions[caller.fun], Top.fun) \in Seq(FunIds)
        BY <2>4 DEF TypeOK
      <4>2. /\ postconditions' = [postconditions EXCEPT ![caller.fun] =
                                    Append(postconditions[caller.fun], Top.fun)]
            /\ UNCHANGED <<preconditions, spec_closures>>
        BY <2>1, <3>2 DEF Attach
      <4>3. QED
        BY <4>1, <4>2 DEF TypeOK
    <3>3. CASE BlockOf(caller).kind \in {"contract_assert", "quant"}
      <4>1. /\ spec_closures' = Append(spec_closures, Top.fun)
            /\ UNCHANGED <<preconditions, postconditions>>
        <5>1. /\ BlockOf(caller).kind # "precondition"
              /\ BlockOf(caller).kind # "postcondition"
          BY <3>3
        <5>2. QED
          BY <2>1, <5>1 DEF Attach
      <4>2. QED
        BY <2>4, <4>1 DEF TypeOK
    <3>4. QED
      BY <2>1, <3>1, <3>2, <3>3 DEF Attach
  <2>9. QED
    BY <1>10, <2>3, <2>7, <2>8 DEF ReturnToCaller, TypeOK, crate, Frames
<1>11. CASE UNCHANGED vars
  BY <1>11 DEF vars, crate, specs, TypeOK
<1>12. QED
  BY <1>1, <1>2, <1>3, <1>4, <1>5, <1>6, <1>7, <1>8, <1>9, <1>10, <1>11 DEF Next

\* Without a call in progress there is nothing to show.
LEMMA NoCalls == frames' = <<>> => CallsOK'
BY DEF CallsOK, Waiting, Seen, Different, InBatch

\* A call begins on a crate that stays as it is: a waiting one calls, or none.
LEMMA CallsAfterEnter ==
    ASSUME TypeOK, CallsOK, NEW f \in FunIds, Enter(f), terms' = terms,
           item' = item, pass' = pass, item # None, pass = COLLECT,
           frames # <<>> => ~Finished(Top) /\ BlockOf(Top).kind \in SpecKinds
    PROVE  CallsOK'
<1> DEFINE n == Len(frames)
<1>1. /\ n \in Nat
      /\ Len(frames') = n + 1
      /\ \A k \in 1 .. n : frames'[k] = frames[k]
      /\ frames'[n + 1] = Frame(f)
      /\ Frame(f).fun = f
      /\ transformed' = transformed \union {f}
  BY EnterFacts
<1>2. n > 0 => frames # <<>> /\ Top = frames[n]
  BY <1>1 DEF Top, Last
<1>3. n > 0 => /\ Top.next <= Len(terms[Top.fun])
               /\ ~Finished(Top) /\ BlockOf(Top).kind \in SpecKinds
  BY <1>2, TopFacts
<1>4. Waiting'
  <2> SUFFICES ASSUME NEW k \in 1 .. n
               PROVE  /\ frames[k].next <= Len(terms[frames[k].fun])
                      /\ BlockOf(frames[k]).kind \in SpecKinds
    BY <1>1 DEF Waiting, BlockOf
  <2>1. CASE k = n
    BY <1>2, <1>3, <2>1
  <2>2. CASE k # n
    BY <1>1, <2>2 DEF CallsOK, Waiting
  <2>3. QED
    BY <2>1, <2>2
<1>5. Seen'
  <2> SUFFICES ASSUME NEW k \in 1 .. n + 1 PROVE frames'[k].fun \in transformed'
    BY <1>1 DEF Seen
  <2>1. CASE k = n + 1
    BY <1>1, <2>1
  <2>2. CASE k \in 1 .. n
    BY <1>1, <2>2 DEF CallsOK, Seen
  <2>3. QED
    BY <1>1, <2>1, <2>2
<1>6. Different'
  <2> SUFFICES ASSUME NEW j \in 1 .. n + 1, NEW k \in 1 .. n + 1,
                      j < k, frames'[j].fun = frames'[k].fun
               PROVE  k = n + 1 /\ frames'[k].next > Len(terms[frames'[k].fun])
    BY <1>1 DEF Different, Finished
  <2>1. CASE k = n + 1
    <3>1. j \in 1 .. n
      BY <1>1, <2>1
    <3>2. f \in transformed
      BY <1>1, <2>1, <3>1 DEF CallsOK, Seen
    <3>3. Frame(f).next = Len(terms[f]) + 1 /\ Len(terms[f]) \in Nat
      BY <3>2 DEF Frame, TypeOK
    <3>4. QED
      BY <1>1, <2>1, <3>3
  <2>2. CASE k # n + 1
    <3>1. j \in 1 .. n /\ k \in 1 .. n /\ n > 0
      BY <1>1, <2>2
    <3>2. k = n /\ Finished(frames[k])
      BY <1>1, <3>1 DEF CallsOK, Different
    <3>3. QED
      BY <1>2, <1>3, <3>1, <3>2
  <2>3. QED
    BY <2>1, <2>2
<1>7. InBatch'
  BY DEF InBatch
<1>8. QED
  BY <1>4, <1>5, <1>6, <1>7 DEF CallsOK

\* Calls fs, all of different functions, the last of which moves on; only
\* the terminator at its block may have changed.
LEMMA CallsAfterAdvance ==
    ASSUME TypeOK, CallsOK, NEW fs \in Seq(Frames), fs # <<>>,
           Len(fs) <= Len(frames),
           \A k \in 1 .. Len(fs) : fs[k] = frames[k],
           \A j, k \in 1 .. Len(fs) : j < k => fs[j].fun # fs[k].fun,
           frames' = Advance(fs), transformed' = transformed,
           item' = item, pass' = pass,
           \A f \in FunIds : Len(terms'[f]) = Len(terms[f]),
           \A f \in FunIds : \A i \in 1 .. Len(terms[f]) :
               f # fs[Len(fs)].fun => terms'[f][i] = terms[f][i]
    PROVE  CallsOK'
<1> DEFINE n == Len(fs)
<1>1. /\ frames' \in Seq(Frames)
      /\ Len(frames') = n
      /\ n \in Nat \ {0}
      /\ \A k \in 1 .. n : frames'[k].fun = fs[k].fun
      /\ \A k \in 1 .. n - 1 : frames'[k] = fs[k]
  BY AdvanceFacts
<1>2. Len(frames) \in Nat /\ frames # <<>>
  <2>1. frames \in Seq(Frames)
    BY DEF TypeOK, Frames
  <2>2. QED
    BY <1>1, <2>1
<1>3. Waiting'
  <2> SUFFICES ASSUME NEW k \in 1 .. n - 1
               PROVE  /\ fs[k].next <= Len(terms'[fs[k].fun])
                      /\ terms'[fs[k].fun][fs[k].next].kind \in SpecKinds
    BY <1>1 DEF Waiting, BlockOf
  <2>1. k \in 1 .. n /\ k \in 1 .. Len(frames) - 1 /\ n \in 1 .. n /\ k < n
    BY <1>1, <1>2
  <2>2. fs[k].fun # fs[n].fun /\ fs[k] = frames[k]
    BY <2>1
  <2>3. fs[k] \in Frames
    BY <2>1, Elements
  <2>4. fs[k].fun \in FunIds /\ fs[k].next \in Nat \ {0}
    BY <2>3 DEF Frames
  <2>5. /\ fs[k].next <= Len(terms[fs[k].fun])
        /\ terms[fs[k].fun][fs[k].next].kind \in SpecKinds
    BY <2>1, <2>2 DEF CallsOK, Waiting, BlockOf
  <2>6. Len(terms[fs[k].fun]) \in Nat
    BY <2>4, BodyFacts
  <2>7. fs[k].next \in 1 .. Len(terms[fs[k].fun])
    BY <2>4, <2>5, <2>6
  <2>8. QED
    BY <2>2, <2>4, <2>5, <2>7
<1>4. Seen'
  <2> SUFFICES ASSUME NEW k \in 1 .. n PROVE fs[k].fun \in transformed
    BY <1>1 DEF Seen
  <2>1. k \in 1 .. Len(frames) /\ fs[k] = frames[k]
    BY <1>1, <1>2
  <2>2. QED
    BY <2>1 DEF CallsOK, Seen
<1>5. Different'
  BY <1>1 DEF Different
<1>6. InBatch'
  BY <1>2 DEF InBatch, CallsOK
<1>7. QED
  BY <1>3, <1>4, <1>5, <1>6 DEF CallsOK

\* The calls are of different functions, but for a finished last one.
LEMMA DifferentCalls ==
    ASSUME CallsOK, NEW n \in Nat, n <= Len(frames), Len(frames) \in Nat,
           n = Len(frames) => ~Finished(frames[n])
    PROVE  \A j, k \in 1 .. n : j < k => frames[j].fun # frames[k].fun
<1> SUFFICES ASSUME NEW j \in 1 .. n, NEW k \in 1 .. n, j < k,
                    frames[j].fun = frames[k].fun
             PROVE  FALSE
  OBVIOUS
<1>1. j \in 1 .. Len(frames) /\ k \in 1 .. Len(frames)
  OBVIOUS
<1>2. k = Len(frames) /\ Finished(frames[k])
  BY <1>1 DEF CallsOK, Different
<1>3. QED
  BY <1>2

\* The calls in progress stay as CallsOK says, one action at a time.
LEMMA CallsStep == ASSUME IInv, Next PROVE CallsOK'
<1>0. TypeOK /\ CallsOK /\ InBatch /\ Waiting /\ frames \in Seq(Frames) /\ Len(frames) \in Nat
  BY DEF IInv, CallsOK, TypeOK, Frames
<1>1. CASE TakeItem
  BY <1>0, <1>1, NoCalls DEF TakeItem, InBatch
<1>2. CASE SkipItem
  BY <1>0, <1>2, NoCalls DEF SkipItem, InBatch
<1>3. CASE RunPass
  BY <1>0, <1>3, NoCalls DEF RunPass, InBatch
<1>4. CASE PutItemBack
  BY <1>0, <1>4, NoCalls, PassNumbers DEF PutItemBack, InBatch
<1>5. CASE StartCollect
  <2>1. item \in FunIds
    BY <1>0, <1>5 DEF StartCollect, TypeOK
  <2>2. /\ Enter(item) /\ terms' = terms /\ item' = item /\ pass' = pass
        /\ item # None /\ pass = COLLECT /\ frames = <<>>
    BY <1>5 DEF StartCollect
  <2>3. QED
    BY <1>0, <2>1, <2>2, CallsAfterEnter
<1>6. CASE FinishCollect
  BY <1>6, NoCalls DEF FinishCollect
<1>7. CASE PassBlock
  <2>1. /\ frames # <<>> /\ ~Finished(Top) /\ frames' = Advance(frames)
        /\ terms' = terms /\ transformed' = transformed /\ item' = item /\ pass' = pass
    BY <1>7 DEF PassBlock
  <2>2. \A j, k \in 1 .. Len(frames) : j < k => frames[j].fun # frames[k].fun
    BY <1>0, <2>1, TopFacts, DifferentCalls
  <2>3. QED
    BY <1>0, <2>1, <2>2, CallsAfterAdvance
<1>8. CASE CollectEntry
  <2>1. /\ frames # <<>> /\ ~Finished(Top) /\ frames' = Advance(frames)
        /\ SetTerminator(Top, Goto)
        /\ transformed' = transformed /\ item' = item /\ pass' = pass
    BY <1>8 DEF CollectEntry
  <2>2. \A j, k \in 1 .. Len(frames) : j < k => frames[j].fun # frames[k].fun
    BY <1>0, <2>1, TopFacts, DifferentCalls
  <2>3. /\ Top \in Frames /\ Top.next <= Len(terms[Top.fun])
        /\ Goto \in Terminators /\ Top = frames[Len(frames)]
    BY <1>0, <2>1, TopFacts, TerminatorFields DEF Frames
  <2>4. /\ \A f \in FunIds : Len(terms'[f]) = Len(terms[f])
        /\ \A f \in FunIds : \A i \in 1 .. Len(terms[f]) :
             f # frames[Len(frames)].fun => terms'[f][i] = terms[f][i]
    BY <1>0, <2>1, <2>3, SetTerminatorFacts
  <2>5. QED
    BY <1>0, <2>1, <2>2, <2>4, CallsAfterAdvance
<1>9. CASE CollectClosure
  <2> DEFINE c == BlockOf(Top).closure
  <2>1. c \in Closures
    BY <1>0, <1>9, TopFacts, TerminatorFields DEF CollectClosure
  <2>2. /\ Enter(Method(c, "Fn")) /\ terms' = terms /\ item' = item /\ pass' = pass
        /\ frames # <<>> /\ ~Finished(Top) /\ BlockOf(Top).kind \in SpecKinds
    BY <1>9 DEF CollectClosure
  <2>3. Method(c, "Fn") \in FunIds
    BY <2>1, MethodIsFun
  <2>4. item # None /\ pass = COLLECT
    BY <1>0, <2>2 DEF InBatch
  <2>5. QED
    BY <1>0, <2>2, <2>3, <2>4, CallsAfterEnter
<1>10. CASE ReturnToCaller
  <2> DEFINE caller == Last(Callers)
  <2>1. /\ Len(frames) > 1 /\ Attach(caller, Top.fun) /\ frames' = Advance(Callers)
        /\ transformed' = transformed /\ item' = item /\ pass' = pass
    BY <1>10 DEF ReturnToCaller
  <2>2. /\ Callers \in Seq(Frames) /\ Callers # <<>>
        /\ Len(Callers) = Len(frames) - 1
        /\ \A k \in 1 .. Len(frames) - 1 : Callers[k] = frames[k]
        /\ caller = frames[Len(frames) - 1]
        /\ caller \in Frames /\ caller.next <= Len(terms[caller.fun])
    BY <1>0, <2>1, CallersFacts
  <2>3. \A j, k \in 1 .. Len(frames) - 1 : j < k => frames[j].fun # frames[k].fun
    BY <1>0, <2>1, DifferentCalls
  <2>4. Len(spec_closures) + 1 \in Nat
    BY <1>0 DEF TypeOK
  <2>5. \E t \in Terminators : SetTerminator(caller, t)
    BY <2>1, <2>4, TerminatorFields DEF Attach
  <2>6. /\ \A f \in FunIds : Len(terms'[f]) = Len(terms[f])
        /\ \A f \in FunIds : \A i \in 1 .. Len(terms[f]) :
             f # caller.fun => terms'[f][i] = terms[f][i]
    BY <1>0, <2>2, <2>5, SetTerminatorFacts
  <2>7. caller = Callers[Len(Callers)]
    BY DEF Last
  <2>8. /\ Len(Callers) <= Len(frames)
        /\ \A k \in 1 .. Len(Callers) : Callers[k] = frames[k]
        /\ \A j, k \in 1 .. Len(Callers) : j < k => Callers[j].fun # Callers[k].fun
    BY <1>0, <2>2, <2>3
  <2> HIDE DEF caller
  <2>9. QED
    BY <1>0, <2>1, <2>2, <2>6, <2>7, <2>8, CallsAfterAdvance
<1>11. CASE UNCHANGED vars
  BY <1>0, <1>11 DEF vars, CallsOK, Waiting, Seen, Different, InBatch, Finished, BlockOf
<1>12. QED
  BY <1>1, <1>2, <1>3, <1>4, <1>5, <1>6, <1>7, <1>8, <1>9, <1>10, <1>11 DEF Next

\* Terminators of one block change, from one that refers to no spec closure
\* to another such.
LEMMA ReferencesKept ==
    ASSUME TypeOK, SpecClosuresReferencedOnce, spec_closures' = spec_closures,
           NEW fr \in Frames, fr.next <= Len(terms[fr.fun]),
           BlockOf(fr).kind # "contract", SetTerminator(fr, Goto)
    PROVE  SpecClosuresReferencedOnce'
<1> DEFINE h == fr.fun
           n == fr.next
<1>1. /\ Goto \in Terminators /\ Goto.kind = "goto"
      /\ \A i \in Nat : Contract(i).kind = "contract"
  BY TerminatorFields
<1>2. /\ terms' \in [FunIds -> Seq(Terminators)]
      /\ \A f \in FunIds : Len(terms'[f]) = Len(terms[f])
      /\ \A f \in FunIds : \A i \in 1 .. Len(terms[f]) :
           terms'[f][i] = IF f = h /\ i = n THEN Goto ELSE terms[f][i]
  BY <1>1, SetTerminatorFacts
<1>3. \A f \in FunIds : /\ DOMAIN terms[f] = 1 .. Len(terms[f])
                        /\ DOMAIN terms'[f] = 1 .. Len(terms[f])
  BY <1>2, BodyFacts
<1>4. ASSUME NEW f \in FunIds, NEW i \in DOMAIN terms'[f], terms'[f][i].kind = "contract"
      PROVE  terms'[f][i] = terms[f][i] /\ i \in DOMAIN terms[f]
  BY <1>1, <1>2, <1>3, <1>4
<1>5. ASSUME NEW f \in FunIds, NEW i \in DOMAIN terms'[f], terms'[f][i].kind = "contract"
      PROVE  /\ terms'[f][i].spec_closure_id \in DOMAIN spec_closures'
             /\ \A g \in FunIds : \A j \in DOMAIN terms'[g] :
                    terms'[g][j] = terms'[f][i] => g = f /\ j = i
  BY <1>4, <1>5 DEF SpecClosuresReferencedOnce
<1>6. ASSUME NEW id \in DOMAIN spec_closures'
      PROVE  \E f \in FunIds : \E i \in DOMAIN terms'[f] : terms'[f][i] = Contract(id)
  <2>0. PICK f \in FunIds : \E i \in DOMAIN terms[f] : terms[f][i] = Contract(id)
    BY DEF SpecClosuresReferencedOnce
  <2>1. PICK i \in DOMAIN terms[f] : terms[f][i] = Contract(id)
    BY <2>0
  <2>2. id \in Nat
    <3>1. spec_closures' \in Seq(FunIds)
      BY DEF TypeOK
    <3>2. QED
      BY <3>1
  <2>3. terms[f][i].kind = "contract"
    BY <1>1, <2>1, <2>2
  <2>4. ~(f = h /\ i = n)
    BY <2>3 DEF BlockOf
  <2>5. QED
    BY <1>2, <1>3, <2>1, <2>4
<1>7. QED
  BY <1>5, <1>6 DEF SpecClosuresReferencedOnce

\* A spec closure joins the table and the terminator that refers to it the body.
LEMMA ReferenceAdded ==
    ASSUME TypeOK, SpecClosuresReferencedOnce,
           NEW c \in FunIds, spec_closures' = Append(spec_closures, c),
           NEW fr \in Frames, fr.next <= Len(terms[fr.fun]),
           BlockOf(fr).kind # "contract",
           SetTerminator(fr, Contract(Len(spec_closures) + 1))
    PROVE  SpecClosuresReferencedOnce'
<1> DEFINE h == fr.fun
           n == fr.next
           new == Len(spec_closures) + 1
<1>1. /\ spec_closures \in Seq(FunIds) /\ new \in Nat
      /\ DOMAIN spec_closures = 1 .. new - 1
      /\ DOMAIN spec_closures' = 1 .. new
  <2>1. spec_closures \in Seq(FunIds)
    BY DEF TypeOK
  <2>2. QED
    BY <2>1
<1>2. /\ Contract(new) \in Terminators
      /\ \A i \in Nat : Contract(i).kind = "contract" /\ Contract(i).spec_closure_id = i
      /\ \A t \in Terminators : t.kind = "contract" => t = Contract(t.spec_closure_id)
  BY <1>1, TerminatorFields
<1>3. /\ terms' \in [FunIds -> Seq(Terminators)]
      /\ \A f \in FunIds : Len(terms'[f]) = Len(terms[f])
      /\ \A f \in FunIds : \A i \in 1 .. Len(terms[f]) :
           terms'[f][i] = IF f = h /\ i = n THEN Contract(new) ELSE terms[f][i]
  BY <1>2, SetTerminatorFacts
<1>4. \A f \in FunIds : /\ DOMAIN terms[f] = 1 .. Len(terms[f])
                        /\ DOMAIN terms'[f] = 1 .. Len(terms[f])
  BY <1>3, BodyFacts
<1>5. h \in FunIds /\ n \in DOMAIN terms[h] /\ n \in DOMAIN terms'[h]
  <2>1. h \in FunIds /\ n \in Nat \ {0}
    BY DEF Frames
  <2>2. Len(terms[h]) \in Nat
    BY <2>1, BodyFacts
  <2>3. QED
    BY <1>4, <2>1, <2>2
<1> HIDE DEF new
<1>6. ASSUME NEW f \in FunIds, NEW i \in DOMAIN terms[f], terms[f][i].kind = "contract"
      PROVE  terms[f][i].spec_closure_id \in DOMAIN spec_closures /\ ~(f = h /\ i = n)
  BY <1>6 DEF SpecClosuresReferencedOnce, BlockOf
\* No terminator referred to the new entry before.
<1>7. ASSUME NEW f \in FunIds, NEW i \in DOMAIN terms[f]
      PROVE  terms[f][i] # Contract(new)
  <2>1. SUFFICES ASSUME terms[f][i] = Contract(new) PROVE FALSE
    OBVIOUS
  <2>2. new \in DOMAIN spec_closures
    BY <1>1, <1>2, <1>6, <2>1
  <2>3. QED
    BY <1>1, <2>2
<1>8. ASSUME NEW f \in FunIds, NEW i \in DOMAIN terms'[f], terms'[f][i].kind = "contract"
      PROVE  terms'[f][i].spec_closure_id \in DOMAIN spec_closures'
  <2>1. CASE f = h /\ i = n
    BY <1>1, <1>2, <1>3, <1>4, <2>1
  <2>2. CASE ~(f = h /\ i = n)
    <3>1. terms'[f][i] = terms[f][i] /\ i \in DOMAIN terms[f]
      BY <1>3, <1>4, <2>2
    <3>2. terms[f][i].spec_closure_id \in DOMAIN spec_closures
      BY <1>6, <1>8, <3>1
    <3>3. QED
      BY <1>1, <3>1, <3>2
  <2>3. QED
    BY <2>1, <2>2
<1>9. ASSUME NEW f \in FunIds, NEW i \in DOMAIN terms'[f], terms'[f][i].kind = "contract",
             NEW g \in FunIds, NEW j \in DOMAIN terms'[g], terms'[g][j] = terms'[f][i]
      PROVE  g = f /\ j = i
  <2>1. i \in DOMAIN terms[f] /\ j \in DOMAIN terms[g]
    BY <1>4
  <2>2. /\ terms'[f][i] = IF f = h /\ i = n THEN Contract(new) ELSE terms[f][i]
        /\ terms'[g][j] = IF g = h /\ j = n THEN Contract(new) ELSE terms[g][j]
    BY <1>3, <1>4, <2>1
  <2>3. CASE f = h /\ i = n
    BY <1>7, <1>9, <2>1, <2>2, <2>3
  <2>4. CASE ~(f = h /\ i = n)
    <3>1. ~(g = h /\ j = n)
      BY <1>7, <1>9, <2>1, <2>2, <2>4
    <3>2. terms[f][i].kind = "contract" /\ terms[g][j] = terms[f][i]
      BY <1>9, <2>2, <2>4, <3>1
    <3>3. QED
      BY <2>1, <3>2 DEF SpecClosuresReferencedOnce
  <2>5. QED
    BY <2>3, <2>4
<1>10. ASSUME NEW id \in DOMAIN spec_closures'
       PROVE  \E f \in FunIds : \E i \in DOMAIN terms'[f] : terms'[f][i] = Contract(id)
  <2>1. CASE id = new
    BY <1>3, <1>4, <1>5, <2>1
  <2>2. CASE id # new
    <3>1. id \in DOMAIN spec_closures /\ id \in Nat
      BY <1>1, <2>2
    <3>2. PICK f \in FunIds : \E i \in DOMAIN terms[f] : terms[f][i] = Contract(id)
      BY <3>1 DEF SpecClosuresReferencedOnce
    <3>3. PICK i \in DOMAIN terms[f] : terms[f][i] = Contract(id)
      BY <3>2
    <3>4. ~(f = h /\ i = n)
      BY <1>2, <1>6, <3>1, <3>3
    <3>5. terms'[f][i] = Contract(id) /\ i \in DOMAIN terms'[f]
      BY <1>3, <1>4, <3>3, <3>4
    <3>6. QED
      BY <3>5
  <2>3. QED
    BY <2>1, <2>2
<1>11. QED
  BY <1>8, <1>9, <1>10 DEF SpecClosuresReferencedOnce

\* The references stay exact: only two actions write terminators.
LEMMA ReferencesStep == ASSUME IInv, Next PROVE SpecClosuresReferencedOnce'
<1>0. TypeOK /\ CallsOK /\ Waiting /\ SpecClosuresReferencedOnce
  BY DEF IInv, CallsOK
<1>1. CASE CollectEntry
  <2>1. /\ frames # <<>> /\ ~Finished(Top) /\ BlockOf(Top).kind # "contract"
        /\ SetTerminator(Top, Goto) /\ spec_closures' = spec_closures
    BY <1>1 DEF CollectEntry, specs
  <2>2. Top \in Frames /\ Top.next <= Len(terms[Top.fun])
    BY <1>0, <2>1, TopFacts DEF Frames
  <2>3. QED
    BY <1>0, <2>1, <2>2, ReferencesKept
<1>2. CASE ReturnToCaller
  <2> DEFINE caller == Last(Callers)
  <2>1. Len(frames) > 1 /\ Attach(caller, Top.fun)
    BY <1>2 DEF ReturnToCaller
  <2>2. /\ frames # <<>> /\ caller \in Frames
        /\ caller.next <= Len(terms[caller.fun])
        /\ BlockOf(caller).kind \in SpecKinds
    BY <1>0, <2>1, CallersFacts
  <2>3. BlockOf(caller).kind # "contract" /\ Top.fun \in FunIds
    BY <1>0, <2>2, TopFacts DEF SpecKinds
  <2> HIDE DEF caller
  <2>4. CASE spec_closures' = spec_closures /\ SetTerminator(caller, Goto)
    BY <1>0, <2>2, <2>3, <2>4, ReferencesKept
  <2>5. CASE /\ spec_closures' = Append(spec_closures, Top.fun)
             /\ SetTerminator(caller, Contract(Len(spec_closures) + 1))
    BY <1>0, <2>2, <2>3, <2>5, ReferenceAdded
  <2>6. QED
    BY <2>1, <2>4, <2>5 DEF Attach
<1>3. CASE ~CollectEntry /\ ~ReturnToCaller
  <2>1. UNCHANGED <<terms, spec_closures>>
    BY <1>3 DEF Next, TakeItem, SkipItem, RunPass, PutItemBack, StartCollect,
                FinishCollect, PassBlock, CollectClosure, vars, specs
  <2>2. QED
    BY <1>0, <2>1 DEF SpecClosuresReferencedOnce
<1>4. QED
  BY <1>1, <1>2, <1>3

\* The inductive invariant: each step keeps its three parts.
THEOREM Invariance == Spec => []IInv
<1>1. Init => IInv
  BY InitInv
<1>2. IInv /\ [Next]_vars => IInv'
  <2>1. CASE Next
    BY <2>1, TypeStep, CallsStep, ReferencesStep DEF IInv
  <2>2. CASE UNCHANGED vars
    <3>1. IInv /\ UNCHANGED vars => TypeOK'
      BY DEF vars, crate, specs, IInv, TypeOK
    <3>2. IInv /\ UNCHANGED vars => CallsOK'
      BY DEF vars, IInv, CallsOK, Waiting, Seen, Different, InBatch, Finished, BlockOf
    <3>3. IInv /\ UNCHANGED vars => SpecClosuresReferencedOnce'
      BY DEF vars, specs, IInv, SpecClosuresReferencedOnce
    <3>4. QED
      BY <2>2, <3>1, <3>2, <3>3 DEF IInv
  <2>3. QED
    BY <2>1, <2>2
<1>3. QED
  BY <1>1, <1>2, PTL DEF Spec

\* In every crate, whatever the nesting and the order of the ids, the types
\* hold: in particular the slot of the item that is out of the table is empty,
\* so that put_item_back's assertion cannot fail.
THEOREM TypeCorrect == Spec => []TypeOK
<1>1. IInv => TypeOK
  BY DEF IInv
<1>2. QED
  BY <1>1, Invariance, PTL

\* In every crate each entry of the table of spec closures is referred to by
\* exactly one terminator, and no terminator refers to anything else: what
\* name_map takes for granted when it unwraps the name of each.
THEOREM ReferencedOnce == Spec => []SpecClosuresReferencedOnce
<1>1. IInv => SpecClosuresReferencedOnce
  BY DEF IInv
<1>2. QED
  BY <1>1, Invariance, PTL

-----------------------------------------------------------------------------
(* No contract is lost or doubled *)

\* Where the body of c is, one place per line; ClosureIsInOnePlace says that
\* exactly one of these holds.
ExactlyOne(a, b, c, d, e) == \/ a /\ ~b /\ ~c /\ ~d /\ ~e
                             \/ ~a /\ b /\ ~c /\ ~d /\ ~e
                             \/ ~a /\ ~b /\ c /\ ~d /\ ~e
                             \/ ~a /\ ~b /\ ~c /\ d /\ ~e
                             \/ ~a /\ ~b /\ ~c /\ ~d /\ e
OnePlace(c) == LET f == Method(c, "Fn")
               IN  ExactlyOne(c \in type_decls, Collecting(f), InPreconditions(f),
                              InPostconditions(f), InSpecClosures(f))

\* A closure's type is there as long as its impls are; closures that are being
\* collected are different ones.  The function at the bottom of the stack is
\* the batch's item, which may be a closure's method in its own turn.
ImplsHaveType == \A c \in Closures : Impls(c) \subseteq trait_impls => c \in type_decls
DifferentClosures == \A j, k \in 2 .. Len(frames) : j < k => frames[j].fun # frames[k].fun

PlacesInv == /\ \A c \in Closures : OnePlace(c)
             /\ ImplsHaveType
             /\ DifferentClosures

LEMMA FiveFields ==
    ASSUME NEW a, NEW b, NEW c, NEW d, NEW e
    PROVE  /\ DOMAIN <<a, b, c, d, e>> = 1 .. 5
           /\ <<a, b, c, d, e>>[1] = a
           /\ <<a, b, c, d, e>>[2] = b
           /\ <<a, b, c, d, e>>[3] = c
           /\ <<a, b, c, d, e>>[4] = d
           /\ <<a, b, c, d, e>>[5] = e
OBVIOUS

LEMMA OneOfFive ==
    ASSUME NEW s, DOMAIN s = 1 .. 5, \A p \in 1 .. 5 : s[p] \in BOOLEAN
    PROVE  (\E p \in DOMAIN s : \A q \in DOMAIN s : s[q] <=> q = p)
             <=> ExactlyOne(s[1], s[2], s[3], s[4], s[5])
<1>1. 1 .. 5 = {1, 2, 3, 4, 5}
  OBVIOUS
<1>2. ASSUME NEW p \in 1 .. 5
      PROVE  (\A q \in 1 .. 5 : s[q] <=> q = p)
               <=> (s[1] <=> 1 = p) /\ (s[2] <=> 2 = p) /\ (s[3] <=> 3 = p)
                     /\ (s[4] <=> 4 = p) /\ (s[5] <=> 5 = p)
  BY <1>1
<1>3. /\ (\E p \in 1 .. 5 : \A q \in 1 .. 5 : s[q] <=> q = p)
           => ExactlyOne(s[1], s[2], s[3], s[4], s[5])
  <2>1. SUFFICES ASSUME NEW p \in 1 .. 5, \A q \in 1 .. 5 : s[q] <=> q = p
                 PROVE  ExactlyOne(s[1], s[2], s[3], s[4], s[5])
    OBVIOUS
  <2>2. QED
    BY <1>1, <1>2, <2>1 DEF ExactlyOne
<1>4. ASSUME ExactlyOne(s[1], s[2], s[3], s[4], s[5])
      PROVE  \E p \in 1 .. 5 : \A q \in 1 .. 5 : s[q] <=> q = p
  BY <1>1, <1>2, <1>4 DEF ExactlyOne
<1>5. QED
  BY <1>3, <1>4

\* The invariant says what ClosureIsInOnePlace does.
LEMMA PlacesTold == (\A c \in Closures : OnePlace(c)) <=> ClosureIsInOnePlace
<1>1. ASSUME NEW c \in Closures
      PROVE  LET f == Method(c, "Fn")
                 places == <<c \in type_decls, Collecting(f), InPreconditions(f),
                             InPostconditions(f), InSpecClosures(f)>>
             IN  (\E p \in DOMAIN places : \A q \in DOMAIN places : places[q] <=> q = p)
                   <=> OnePlace(c)
  <2> DEFINE f == Method(c, "Fn")
             s == <<c \in type_decls, Collecting(f), InPreconditions(f),
                    InPostconditions(f), InSpecClosures(f)>>
  <2>1. /\ Collecting(f) \in BOOLEAN /\ InPreconditions(f) \in BOOLEAN
        /\ InPostconditions(f) \in BOOLEAN /\ InSpecClosures(f) \in BOOLEAN
    BY DEF Collecting, InPreconditions, InPostconditions, InSpecClosures
  <2>2. DOMAIN s = 1 .. 5
    OBVIOUS
  <2>3. \A p \in 1 .. 5 : s[p] \in BOOLEAN
    <3>1. /\ s[1] \in BOOLEAN /\ s[2] \in BOOLEAN /\ s[3] \in BOOLEAN
          /\ s[4] \in BOOLEAN /\ s[5] \in BOOLEAN
      <4>1. (c \in type_decls) \in BOOLEAN
        OBVIOUS
      <4>2. QED
        BY <2>1, <4>1, FiveFields
    <3>2. QED
      <4> HIDE DEF s
      <4>1. QED
        BY <3>1
  <2>4. (\E p \in DOMAIN s : \A q \in DOMAIN s : s[q] <=> q = p)
          <=> ExactlyOne(s[1], s[2], s[3], s[4], s[5])
    <3> HIDE DEF s
    <3>1. QED
      BY <2>2, <2>3, OneOfFive
  <2>5. ExactlyOne(s[1], s[2], s[3], s[4], s[5]) <=> OnePlace(c)
    BY <2>1 DEF OnePlace, ExactlyOne
  <2>6. QED
    BY <2>4, <2>5
<1>2. QED
  BY <1>1 DEF ClosureIsInOnePlace

-----------------------------------------------------------------------------
(* The steps *)

LEMMA InitPlaces == Init => PlacesInv
<1> SUFFICES ASSUME Init PROVE PlacesInv
  OBVIOUS
<1>1. /\ type_decls = Closures /\ frames = <<>> /\ spec_closures = <<>>
      /\ \A g \in FunIds : preconditions[g] = <<>> /\ postconditions[g] = <<>>
  BY DEF Init
<1>2. \A f : /\ ~Collecting(f) /\ ~InPreconditions(f) /\ ~InPostconditions(f)
             /\ ~InSpecClosures(f)
  BY <1>1 DEF Collecting, InPreconditions, InPostconditions, InSpecClosures, ToSet
<1>3. QED
  BY <1>1, <1>2 DEF PlacesInv, OnePlace, ExactlyOne, ImplsHaveType, DifferentClosures

\* Most steps move no closure: the calls above the first are of the same
\* functions as before.
LEMMA NothingMoves ==
    ASSUME PlacesInv, UNCHANGED <<type_decls, trait_impls, specs>>,
           2 .. Len(frames') = 2 .. Len(frames),
           \A k \in 2 .. Len(frames) : frames'[k].fun = frames[k].fun
    PROVE  PlacesInv'
<1>1. ASSUME NEW f
      PROVE  /\ Collecting(f)' <=> Collecting(f)
             /\ InPreconditions(f)' <=> InPreconditions(f)
             /\ InPostconditions(f)' <=> InPostconditions(f)
             /\ InSpecClosures(f)' <=> InSpecClosures(f)
  BY DEF Collecting, InPreconditions, InPostconditions, InSpecClosures, specs
<1>2. \A c \in Closures : OnePlace(c)'
  BY <1>1 DEF PlacesInv, OnePlace, ExactlyOne
<1>3. ImplsHaveType' /\ DifferentClosures'
  BY DEF PlacesInv, ImplsHaveType, DifferentClosures
<1>4. QED
  BY <1>2, <1>3 DEF PlacesInv

\* A closure whose impls are all there is not collected yet, and now it is
\* being collected.
LEMMA CollectMoves == ASSUME IInv, PlacesInv, CollectClosure PROVE PlacesInv'
<1> DEFINE c == BlockOf(Top).closure
           n == Len(frames)
<1>0. TypeOK
  BY DEF IInv
<1>1. /\ frames # <<>> /\ ~Finished(Top) /\ BlockOf(Top).kind \in SpecKinds
      /\ Impls(c) \subseteq trait_impls
      /\ type_decls' = type_decls \ {c}
      /\ trait_impls' = trait_impls \ Impls(c)
      /\ Enter(Method(c, "Fn"))
      /\ UNCHANGED specs
  BY DEF CollectClosure
<1>2. c \in Closures
  BY <1>0, <1>1, TopFacts, TerminatorFields
<1> HIDE DEF c
<1>3. c \in type_decls
  BY <1>1, <1>2 DEF PlacesInv, ImplsHaveType
<1>4. /\ n \in Nat \ {0} /\ Len(frames') = n + 1
      /\ \A k \in 1 .. n : frames'[k] = frames[k]
      /\ frames'[n + 1].fun = Method(c, "Fn")
  BY <1>0, <1>1, <1>2, TopFacts, EnterFacts, MethodIsFun
<1> HIDE DEF n
<1>5. /\ ~Collecting(Method(c, "Fn")) /\ ~InPreconditions(Method(c, "Fn"))
      /\ ~InPostconditions(Method(c, "Fn")) /\ ~InSpecClosures(Method(c, "Fn"))
  BY <1>2, <1>3 DEF PlacesInv, OnePlace, ExactlyOne
<1>6. \A f : Collecting(f)' <=> Collecting(f) \/ f = Method(c, "Fn")
  <2>1. \A f : Collecting(f)' <=> \E k \in 2 .. n + 1 : frames'[k].fun = f
    BY <1>4 DEF Collecting
  <2>2. \A f : Collecting(f) <=> \E k \in 2 .. n : frames[k].fun = f
    BY DEF Collecting, n
  <2>3. 2 .. n + 1 = (2 .. n) \union {n + 1}
    BY <1>4
  <2>4. \A k \in 2 .. n : frames'[k] = frames[k]
    BY <1>4
  <2>5. QED
    BY <1>4, <2>1, <2>2, <2>3, <2>4
<1>7. \A f : /\ InPreconditions(f)' <=> InPreconditions(f)
             /\ InPostconditions(f)' <=> InPostconditions(f)
             /\ InSpecClosures(f)' <=> InSpecClosures(f)
  BY <1>1 DEF InPreconditions, InPostconditions, InSpecClosures, specs
<1>8. ASSUME NEW d \in Closures PROVE OnePlace(d)'
  <2>1. CASE d = c
    BY <1>1, <1>5, <1>6, <1>7, <2>1 DEF OnePlace, ExactlyOne
  <2>2. CASE d # c
    <3>1. Method(d, "Fn") # Method(c, "Fn")
      BY <2>2 DEF Method
    <3>2. d \in type_decls' <=> d \in type_decls
      BY <1>1, <2>2
    <3>3. Collecting(Method(d, "Fn"))' <=> Collecting(Method(d, "Fn"))
      BY <1>6, <3>1
    <3>4. QED
      BY <1>7, <3>2, <3>3 DEF PlacesInv, OnePlace, ExactlyOne
  <2>3. QED
    BY <2>1, <2>2
<1>9. ImplsHaveType'
  <2> SUFFICES ASSUME NEW d \in Closures, Impls(d) \subseteq trait_impls'
               PROVE  d \in type_decls'
    BY DEF ImplsHaveType
  <2>1. d \in type_decls
    BY <1>1 DEF PlacesInv, ImplsHaveType
  <2>2. <<d, "Fn">> \in Impls(d)
    BY DEF Impls, FnTraits
  <2>3. d # c
    BY <1>1, <2>2
  <2>4. QED
    BY <1>1, <2>1, <2>3
<1>10. DifferentClosures'
  <2> SUFFICES ASSUME NEW j \in 2 .. n + 1, NEW k \in 2 .. n + 1, j < k
               PROVE  frames'[j].fun # frames'[k].fun
    BY <1>4 DEF DifferentClosures
  <2>1. j \in 2 .. n /\ frames'[j] = frames[j]
    BY <1>4
  <2>2. CASE k = n + 1
    BY <1>4, <1>5, <2>1, <2>2 DEF Collecting, n
  <2>3. CASE k # n + 1
    <3>1. k \in 2 .. n /\ frames'[k] = frames[k]
      BY <1>4, <2>3
    <3>2. QED
      BY <2>1, <3>1 DEF PlacesInv, DifferentClosures, n
  <2>4. QED
    BY <2>2, <2>3
<1>11. QED
  BY <1>8, <1>9, <1>10 DEF PlacesInv

\* What is in a list that grows at its end.
LEMMA Grown ==
    ASSUME NEW s \in Seq(FunIds), NEW x \in FunIds
    PROVE  \A f : f \in ToSet(Append(s, x)) <=> f \in ToSet(s) \/ f = x
<1>1. /\ Len(Append(s, x)) = Len(s) + 1 /\ Len(s) \in Nat
      /\ \A i \in 1 .. Len(s) : Append(s, x)[i] = s[i]
      /\ Append(s, x)[Len(s) + 1] = x
      /\ DOMAIN s = 1 .. Len(s) /\ DOMAIN Append(s, x) = 1 .. Len(s) + 1
  OBVIOUS
<1>2. 1 .. Len(s) + 1 = (1 .. Len(s)) \union {Len(s) + 1}
  BY <1>1
<1>3. QED
  BY <1>1, <1>2 DEF ToSet

\* The closure on top of the stack joins exactly one list.
LEMMA AttachFacts ==
    ASSUME TypeOK, NEW caller \in Frames, NEW x \in FunIds, Attach(caller, x)
    PROVE  \/ \A f : /\ InPreconditions(f)' <=> InPreconditions(f) \/ f = x
                     /\ InPostconditions(f)' <=> InPostconditions(f)
                     /\ InSpecClosures(f)' <=> InSpecClosures(f)
           \/ \A f : /\ InPreconditions(f)' <=> InPreconditions(f)
                     /\ InPostconditions(f)' <=> InPostconditions(f) \/ f = x
                     /\ InSpecClosures(f)' <=> InSpecClosures(f)
           \/ \A f : /\ InPreconditions(f)' <=> InPreconditions(f)
                     /\ InPostconditions(f)' <=> InPostconditions(f)
                     /\ InSpecClosures(f)' <=> InSpecClosures(f) \/ f = x
<1> DEFINE h == caller.fun
<1>1. h \in FunIds
  BY DEF Frames
<1>2. /\ preconditions \in [FunIds -> Seq(FunIds)]
      /\ postconditions \in [FunIds -> Seq(FunIds)]
      /\ spec_closures \in Seq(FunIds)
  BY DEF TypeOK
<1>3. \/ /\ preconditions' = [preconditions EXCEPT ![h] = Append(@, x)]
         /\ UNCHANGED <<postconditions, spec_closures>>
      \/ /\ postconditions' = [postconditions EXCEPT ![h] = Append(@, x)]
         /\ UNCHANGED <<preconditions, spec_closures>>
      \/ /\ spec_closures' = Append(spec_closures, x)
         /\ UNCHANGED <<preconditions, postconditions>>
  BY DEF Attach
<1> HIDE DEF h
<1>4. CASE /\ preconditions' = [preconditions EXCEPT ![h] = Append(@, x)]
           /\ UNCHANGED <<postconditions, spec_closures>>
  <2> DEFINE before == preconditions
             after == preconditions'
  <2>0. /\ before \in [FunIds -> Seq(FunIds)]
        /\ after[h] = Append(before[h], x)
        /\ \A g \in FunIds : g # h => after[g] = before[g]
    BY <1>1, <1>2, <1>4
  <2>1. \A f : (\E g \in FunIds : f \in ToSet(after[g]))
                 <=> (\E g \in FunIds : f \in ToSet(before[g])) \/ f = x
    <3> HIDE DEF before, after
    <3>1. before[h] \in Seq(FunIds)
      BY <1>1, <2>0
    <3>2. \A f : f \in ToSet(after[h]) <=> f \in ToSet(before[h]) \/ f = x
      BY <2>0, <3>1, Grown
    <3>3. QED
      BY <1>1, <2>0, <3>2
  <2>2. QED
    BY <1>4, <2>1 DEF InPreconditions, InPostconditions, InSpecClosures
<1>5. CASE /\ postconditions' = [postconditions EXCEPT ![h] = Append(@, x)]
           /\ UNCHANGED <<preconditions, spec_closures>>
  <2> DEFINE before == postconditions
             after == postconditions'
  <2>0. /\ before \in [FunIds -> Seq(FunIds)]
        /\ after[h] = Append(before[h], x)
        /\ \A g \in FunIds : g # h => after[g] = before[g]
    BY <1>1, <1>2, <1>5
  <2>1. \A f : (\E g \in FunIds : f \in ToSet(after[g]))
                 <=> (\E g \in FunIds : f \in ToSet(before[g])) \/ f = x
    <3> HIDE DEF before, after
    <3>1. before[h] \in Seq(FunIds)
      BY <1>1, <2>0
    <3>2. \A f : f \in ToSet(after[h]) <=> f \in ToSet(before[h]) \/ f = x
      BY <2>0, <3>1, Grown
    <3>3. QED
      BY <1>1, <2>0, <3>2
  <2>2. QED
    BY <1>5, <2>1 DEF InPreconditions, InPostconditions, InSpecClosures
<1>6. CASE /\ spec_closures' = Append(spec_closures, x)
           /\ UNCHANGED <<preconditions, postconditions>>
  BY <1>2, <1>6, Grown DEF InPreconditions, InPostconditions, InSpecClosures
<1>7. QED
  BY <1>3, <1>4, <1>5, <1>6

\* The closure that was being collected is in a list, and on the stack no more.
LEMMA ReturnMoves == ASSUME IInv, PlacesInv, ReturnToCaller PROVE PlacesInv'
<1> DEFINE n == Len(frames)
           caller == Last(Callers)
           x == Top.fun
<1>0. TypeOK /\ Waiting
  BY DEF IInv, CallsOK
<1>1. /\ n > 1 /\ Attach(caller, x) /\ frames' = Advance(Callers)
      /\ UNCHANGED <<type_decls, trait_impls>>
  BY DEF ReturnToCaller, crate
<1>2. /\ n \in Nat /\ frames # <<>> /\ caller \in Frames
      /\ Callers \in Seq(Frames) /\ Callers # <<>> /\ Len(Callers) = n - 1
      /\ \A k \in 1 .. n - 1 : Callers[k] = frames[k]
  BY <1>0, <1>1, CallersFacts
<1>3. x \in FunIds /\ x = frames[n].fun
  BY <1>0, <1>2, TopFacts
<1>4. Len(frames') = n - 1 /\ \A k \in 1 .. n - 1 : frames'[k].fun = frames[k].fun
  BY <1>1, <1>2, AdvanceFacts
<1> HIDE DEF x, caller
<1>5. \A k \in 2 .. n - 1 : frames[k].fun # x
  <2> SUFFICES ASSUME NEW k \in 2 .. n - 1 PROVE frames[k].fun # frames[n].fun
    BY <1>3
  <2>1. k \in 2 .. Len(frames) /\ n \in 2 .. Len(frames) /\ k < n
    BY <1>1, <1>2
  <2>2. QED
    BY <2>1 DEF PlacesInv, DifferentClosures
<1> HIDE DEF n
<1>6. \A f : Collecting(f)' <=> Collecting(f) /\ f # x
  <2>1. \A f : Collecting(f)' <=> \E k \in 2 .. n - 1 : frames[k].fun = f
    BY <1>2, <1>4 DEF Collecting
  <2>2. \A f : Collecting(f) <=> \E k \in 2 .. n : frames[k].fun = f
    BY DEF Collecting, n
  <2>3. 2 .. n = (2 .. n - 1) \union {n}
    BY <1>1, <1>2
  <2>4. QED
    BY <1>3, <1>5, <2>1, <2>2, <2>3
<1>7. Collecting(x)
  BY <1>1, <1>2, <1>3 DEF Collecting, n
<1>8. ASSUME NEW c \in Closures PROVE OnePlace(c)'
  <2> DEFINE f == Method(c, "Fn")
  <2>1. c \in type_decls' <=> c \in type_decls
    BY <1>1
  <2>2. OnePlace(c)
    BY DEF PlacesInv
  <2>3. CASE f = x
    <3>1. /\ Collecting(f) /\ c \notin type_decls /\ ~InPreconditions(f)
          /\ ~InPostconditions(f) /\ ~InSpecClosures(f)
      BY <1>7, <2>2, <2>3 DEF OnePlace, ExactlyOne
    <3>2. ~Collecting(f)'
      BY <1>6, <2>3
    <3>3. QED
      BY <1>0, <1>1, <1>2, <1>3, <2>1, <2>3, <3>1, <3>2, AttachFacts DEF OnePlace, ExactlyOne
  <2>4. CASE f # x
    <3>1. Collecting(f)' <=> Collecting(f)
      BY <1>6, <2>4
    <3>2. /\ InPreconditions(f)' <=> InPreconditions(f)
          /\ InPostconditions(f)' <=> InPostconditions(f)
          /\ InSpecClosures(f)' <=> InSpecClosures(f)
      BY <1>0, <1>1, <1>2, <1>3, <2>4, AttachFacts
    <3>3. QED
      BY <2>1, <2>2, <3>1, <3>2 DEF OnePlace, ExactlyOne
  <2>5. QED
    BY <2>3, <2>4
<1>9. ImplsHaveType'
  BY <1>1 DEF PlacesInv, ImplsHaveType
<1>10. DifferentClosures'
  <2> SUFFICES ASSUME NEW j \in 2 .. n - 1, NEW k \in 2 .. n - 1, j < k
               PROVE  frames'[j].fun # frames'[k].fun
    BY <1>4 DEF DifferentClosures
  <2>1. j \in 2 .. Len(frames) /\ k \in 2 .. Len(frames)
    BY <1>2 DEF n
  <2>2. frames'[j].fun = frames[j].fun /\ frames'[k].fun = frames[k].fun
    BY <1>2, <1>4
  <2>3. QED
    BY <2>1, <2>2 DEF PlacesInv, DifferentClosures
<1>11. QED
  BY <1>8, <1>9, <1>10 DEF PlacesInv

LEMMA PlacesStep == ASSUME IInv, PlacesInv, [Next]_vars PROVE PlacesInv'
<1>0. TypeOK /\ frames \in Seq(Frames) /\ Len(frames) \in Nat
  BY DEF IInv, TypeOK, Frames
<1>1. CASE TakeItem \/ SkipItem \/ RunPass \/ PutItemBack \/ UNCHANGED vars
  <2>1. UNCHANGED <<type_decls, trait_impls, specs, frames>>
    BY <1>1 DEF TakeItem, SkipItem, RunPass, PutItemBack, vars, crate, specs
  <2>2. QED
    BY <2>1, NothingMoves
<1>2. CASE StartCollect
  <2>1. /\ frames = <<>> /\ Enter(item) /\ item \in FunIds
        /\ UNCHANGED <<type_decls, trait_impls, specs>>
    BY <1>0, <1>2 DEF StartCollect, TypeOK, crate
  <2>2. Len(frames') = 1 /\ Len(frames) = 0
    BY <1>0, <2>1, EnterFacts
  <2>3. 2 .. Len(frames') = 2 .. Len(frames) /\ 2 .. Len(frames) = {}
    BY <2>2
  <2>4. QED
    BY <2>1, <2>3, NothingMoves
<1>3. CASE FinishCollect
  <2>1. /\ Len(frames) = 1 /\ frames' = <<>>
        /\ UNCHANGED <<type_decls, trait_impls, specs>>
    BY <1>3 DEF FinishCollect, crate
  <2>2. 2 .. Len(frames') = 2 .. Len(frames) /\ 2 .. Len(frames) = {}
    BY <2>1
  <2>3. QED
    BY <2>1, <2>2, NothingMoves
<1>4. CASE PassBlock \/ CollectEntry
  <2>1. /\ frames # <<>> /\ frames' = Advance(frames)
        /\ UNCHANGED <<type_decls, trait_impls, specs>>
    BY <1>4 DEF PassBlock, CollectEntry, crate
  <2>2. /\ Len(frames') = Len(frames)
        /\ \A k \in 1 .. Len(frames) : frames'[k].fun = frames[k].fun
    BY <1>0, <2>1, AdvanceFacts
  <2>3. \A k \in 2 .. Len(frames) : frames'[k].fun = frames[k].fun
    BY <1>0, <2>2
  <2>4. QED
    BY <2>1, <2>2, <2>3, NothingMoves
<1>5. CASE CollectClosure
  BY <1>5, CollectMoves
<1>6. CASE ReturnToCaller
  BY <1>6, ReturnMoves
<1>7. QED
  BY <1>1, <1>2, <1>3, <1>4, <1>5, <1>6 DEF Next

-----------------------------------------------------------------------------
(* The theorem *)

\* In every crate, with any nesting and any order of the ids, each contract is
\* an item, in the middle of its collection, or in exactly one of the lists.
THEOREM OnePlaceAlways == Spec => []ClosureIsInOnePlace
<1>1. Init => PlacesInv
  BY InitPlaces
<1>2. IInv /\ PlacesInv /\ [Next]_vars => PlacesInv'
  BY PlacesStep
<1>3. PlacesInv => ClosureIsInOnePlace
  BY PlacesTold DEF PlacesInv
<1>4. QED
  BY <1>1, <1>2, <1>3, Invariance, PTL DEF Spec

-----------------------------------------------------------------------------
(* The stack of calls, exactly.  Their functions are different ones that are *)
(* out of the table, the item at the bottom; each call but the last waits at *)
(* the block that hands over the closure collected above it.                 *)

AllDifferent == \A j, k \in 1 .. Len(frames) : frames[j].fun = frames[k].fun => j = k
OutOfTable == \A k \in 1 .. Len(frames) : frames[k].fun \notin fun_decls
ItemAtBottom == frames # <<>> => frames[1].fun = item
WaitsForNext == \A k \in 1 .. Len(frames) - 1 :
                  frames[k + 1].fun = Method(BlockOf(frames[k]).closure, "Fn")
InBody == \A k \in 1 .. Len(frames) : frames[k].next <= Len(terms[frames[k].fun]) + 1

StackInv == AllDifferent /\ OutOfTable /\ ItemAtBottom /\ WaitsForNext /\ InBody

\* Outside of the collection there are no calls.
LEMMA OutsideCollection ==
    ASSUME IInv, TakeItem \/ SkipItem \/ RunPass \/ PutItemBack
    PROVE  /\ frames = <<>> /\ frames' = <<>>
           /\ UNCHANGED <<transformed, terms, written, type_decls, trait_impls>>
           /\ UNCHANGED <<preconditions, postconditions, spec_closures>>
<1>1. item = None \/ pass # COLLECT
  <2>1. COLLECT # LastPass + 1
    BY PassNumbers
  <2>2. item = None \/ pass # COLLECT \/ pass = LastPass + 1
    BY DEF TakeItem, SkipItem, RunPass, PutItemBack
  <2>3. QED
    BY <2>1, <2>2
<1>2. frames = <<>>
  BY <1>1 DEF IInv, CallsOK, InBatch
<1>3. /\ frames' = frames
      /\ UNCHANGED <<transformed, terms, written, type_decls, trait_impls>>
      /\ UNCHANGED <<preconditions, postconditions, spec_closures>>
  <2>1. CASE TakeItem
    BY <2>1 DEF TakeItem, specs
  <2>2. CASE SkipItem
    BY <2>2 DEF SkipItem, crate, specs
  <2>3. CASE RunPass
    BY <2>3 DEF RunPass, crate, specs
  <2>4. CASE PutItemBack
    BY <2>4 DEF PutItemBack, specs
  <2>5. QED
    BY <2>1, <2>2, <2>3, <2>4
<1>4. QED
  BY <1>2, <1>3

\* A call goes on to its next block, maybe with its terminator replaced; the
\* calls below it are as before.
LEMMA StackAdvances ==
    ASSUME TypeOK, StackInv, NEW n \in 1 .. Len(frames), Len(frames') = n,
           frames[n].next <= Len(terms[frames[n].fun]),
           UNCHANGED <<fun_decls, item>>,
           \A k \in 1 .. n : frames'[k].fun = frames[k].fun,
           \A k \in 1 .. n - 1 : frames'[k] = frames[k],
           frames'[n].next = frames[n].next + 1,
           \A f \in FunIds : Len(terms'[f]) = Len(terms[f]),
           \A f \in FunIds : \A i \in 1 .. Len(terms[f]) :
               f # frames[n].fun => terms'[f][i] = terms[f][i],
           Waiting
    PROVE  StackInv'
<1>1. frames \in Seq(Frames) /\ Len(frames) \in Nat
  BY DEF TypeOK, Frames
<1>2. \A k \in 1 .. n : k \in 1 .. Len(frames) /\ frames[k] \in Frames
  BY <1>1
<1>3. \A k \in 1 .. n : frames[k].fun \in FunIds
  BY <1>2 DEF Frames
<1>4. AllDifferent' /\ OutOfTable'
  BY <1>2 DEF StackInv, AllDifferent, OutOfTable
<1>5. ItemAtBottom'
  <2>1. 1 \in 1 .. n /\ frames # <<>>
    BY <1>1
  <2>2. QED
    BY <2>1 DEF StackInv, ItemAtBottom
<1>6. WaitsForNext'
  <2> SUFFICES ASSUME NEW k \in 1 .. n - 1
               PROVE  frames'[k + 1].fun = Method(BlockOf(frames[k])'.closure, "Fn")
    BY DEF WaitsForNext, BlockOf
  <2>1. /\ k \in 1 .. n /\ k + 1 \in 1 .. n /\ k # n /\ k \in 1 .. Len(frames) - 1
        /\ frames'[k] = frames[k]
    BY <1>1
  <2>2. frames[k].fun # frames[n].fun
    BY <1>2, <2>1 DEF StackInv, AllDifferent
  <2>3. frames[k].next \in 1 .. Len(terms[frames[k].fun])
    <3>1. frames[k].next \in Nat \ {0} /\ frames[k].next <= Len(terms[frames[k].fun])
      BY <1>2, <2>1 DEF Frames, Waiting
    <3>2. QED
      BY <1>3, <2>1, <3>1, BodyFacts
  <2>4. BlockOf(frames[k])' = BlockOf(frames[k])
    BY <1>3, <2>1, <2>2, <2>3 DEF BlockOf
  <2>5. QED
    BY <2>1, <2>4 DEF StackInv, WaitsForNext
<1>7. InBody'
  <2> SUFFICES ASSUME NEW k \in 1 .. n
               PROVE  frames'[k].next <= Len(terms'[frames'[k].fun]) + 1
    BY DEF InBody
  <2>1. Len(terms'[frames'[k].fun]) = Len(terms[frames[k].fun])
    BY <1>3
  <2>2. CASE k = n
    <3>1. frames[n].next \in Nat /\ Len(terms[frames[n].fun]) \in Nat
      BY <1>2, <1>3, BodyFacts DEF Frames
    <3>2. QED
      BY <2>1, <2>2, <3>1
  <2>3. CASE k # n
    BY <1>2, <2>1, <2>3 DEF StackInv, InBody
  <2>4. QED
    BY <2>2, <2>3
<1>8. QED
  BY <1>4, <1>5, <1>6, <1>7 DEF StackInv

\* A closure's call begins: its method leaves the table, so that it is none
\* of the functions below it.
LEMMA StackGrows == ASSUME IInv, StackInv, CollectClosure PROVE StackInv'
<1> DEFINE c == BlockOf(Top).closure
           n == Len(frames)
           x == Method(c, "Fn")
<1>0. TypeOK
  BY DEF IInv
<1>1. /\ frames # <<>> /\ ~Finished(Top) /\ BlockOf(Top).kind \in SpecKinds
      /\ Methods(c) \subseteq fun_decls
      /\ fun_decls' = fun_decls \ Methods(c)
      /\ Enter(x)
      /\ UNCHANGED <<item, terms>>
  BY DEF CollectClosure
<1>2. c \in Closures /\ Top = frames[n] /\ n \in Nat \ {0}
  BY <1>0, <1>1, TopFacts, TerminatorFields
<1>3. c = BlockOf(frames[n]).closure
  BY <1>2
<1> HIDE DEF c
<1>4. x \in FunIds /\ x \in Methods(c)
  BY <1>2, MethodIsFun DEF Methods, FnTraits
<1>5. /\ Len(frames') = n + 1
      /\ \A k \in 1 .. n : frames'[k] = frames[k]
      /\ frames'[n + 1] = Frame(x) /\ Frame(x).fun = x
  BY <1>0, <1>1, <1>4, EnterFacts
<1>6. x \in fun_decls /\ x \notin fun_decls'
  BY <1>1, <1>4
<1>7. \A k \in 1 .. n : frames[k].fun # x
  BY <1>6 DEF StackInv, OutOfTable
<1>8. Frame(x).next <= Len(terms[x]) + 1
  BY <1>0, <1>4, BodyFacts DEF Frame
<1> HIDE DEF x
<1>9. 1 .. n + 1 = (1 .. n) \union {n + 1}
  BY <1>2
<1>10. AllDifferent' /\ OutOfTable' /\ InBody'
  <2>1. OutOfTable'
    BY <1>1, <1>5, <1>6, <1>9 DEF StackInv, OutOfTable
  <2>2. InBody'
    BY <1>1, <1>5, <1>8, <1>9 DEF StackInv, InBody
  <2>3. AllDifferent'
    BY <1>5, <1>7, <1>9 DEF StackInv, AllDifferent
  <2>4. QED
    BY <2>1, <2>2, <2>3
<1>11. ItemAtBottom'
  BY <1>1, <1>2, <1>5 DEF StackInv, ItemAtBottom
<1>12. WaitsForNext'
  <2> SUFFICES ASSUME NEW k \in 1 .. n
               PROVE  frames'[k + 1].fun = Method(BlockOf(frames[k])'.closure, "Fn")
    BY <1>5, <1>2 DEF WaitsForNext, BlockOf
  <2>1. BlockOf(frames[k])' = BlockOf(frames[k])
    BY <1>1, <1>5 DEF BlockOf
  <2>2. CASE k = n
    BY <1>3, <1>5, <2>1, <2>2 DEF x
  <2>3. CASE k # n
    <3>1. k \in 1 .. n - 1 /\ k + 1 \in 1 .. n
      BY <1>2, <2>3
    <3>2. QED
      BY <1>5, <2>1, <3>1 DEF StackInv, WaitsForNext, n
  <2>4. QED
    BY <2>2, <2>3
<1>13. QED
  BY <1>10, <1>11, <1>12 DEF StackInv

LEMMA StackStep == ASSUME IInv, StackInv, [Next]_vars PROVE StackInv'
<1>0. TypeOK /\ Waiting /\ frames \in Seq(Frames) /\ Len(frames) \in Nat
  BY DEF IInv, CallsOK, TypeOK, Frames
<1>1. CASE UNCHANGED vars
  BY <1>1 DEF vars, crate, StackInv, AllDifferent, OutOfTable, ItemAtBottom, WaitsForNext,
              InBody, BlockOf
<1>2. CASE TakeItem \/ SkipItem \/ RunPass \/ PutItemBack \/ FinishCollect
  <2>1. frames' = <<>>
    <3>1. CASE FinishCollect
      BY <3>1 DEF FinishCollect
    <3>2. CASE TakeItem \/ SkipItem \/ RunPass \/ PutItemBack
      BY <3>2, OutsideCollection
    <3>3. QED
      BY <1>2, <3>1, <3>2
  <2>2. QED
    BY <2>1 DEF StackInv, AllDifferent, OutOfTable, ItemAtBottom, WaitsForNext, InBody
<1>3. CASE StartCollect
  <2>1. /\ frames = <<>> /\ Enter(item) /\ item \in FunIds /\ item \notin fun_decls
        /\ UNCHANGED <<fun_decls, item, terms>>
    BY <1>0, <1>3 DEF StartCollect, TypeOK, crate
  <2>2. Len(frames) = 0
    BY <2>1
  <2>3. Len(frames') = 1 /\ frames'[1] = Frame(item) /\ Frame(item).fun = item
    BY <1>0, <2>1, <2>2, EnterFacts
  <2>4. Frame(item).next <= Len(terms[item]) + 1
    BY <1>0, <2>1, BodyFacts DEF Frame
  <2>5. AllDifferent' /\ OutOfTable' /\ ItemAtBottom' /\ WaitsForNext' /\ InBody'
    BY <2>1, <2>3, <2>4 DEF AllDifferent, OutOfTable, ItemAtBottom, WaitsForNext, InBody
  <2>6. QED
    BY <2>5 DEF StackInv
<1>4. CASE PassBlock \/ CollectEntry
  <2>1. /\ frames # <<>> /\ frames' = Advance(frames) /\ ~Finished(Top)
        /\ UNCHANGED <<fun_decls, item>>
        /\ UNCHANGED terms \/ SetTerminator(Top, Goto)
    BY <1>4 DEF PassBlock, CollectEntry, crate
  <2>2. /\ Len(frames) \in Nat \ {0} /\ Top = frames[Len(frames)]
        /\ Top \in Frames /\ Top.next <= Len(terms[Top.fun])
    BY <1>0, <2>1, TopFacts DEF Frames
  <2>3. /\ Len(frames') = Len(frames)
        /\ \A k \in 1 .. Len(frames) : frames'[k].fun = frames[k].fun
        /\ \A k \in 1 .. Len(frames) - 1 : frames'[k] = frames[k]
        /\ frames'[Len(frames)].next = frames[Len(frames)].next + 1
    BY <1>0, <2>1, AdvanceFacts
  <2>4. /\ \A f \in FunIds : Len(terms'[f]) = Len(terms[f])
        /\ \A f \in FunIds : \A i \in 1 .. Len(terms[f]) :
               f # Top.fun => terms'[f][i] = terms[f][i]
    BY <1>0, <2>1, <2>2, SetTerminatorFacts, TerminatorFields
  <2>5. Len(frames) \in 1 .. Len(frames)
    BY <2>2
  <2>6. QED
    BY <1>0, <2>1, <2>2, <2>3, <2>4, <2>5, StackAdvances
<1>5. CASE CollectClosure
  BY <1>5, StackGrows
<1>6. CASE ReturnToCaller
  <2> DEFINE caller == Last(Callers)
             n == Len(frames) - 1
  <2>1. /\ Len(frames) > 1 /\ Attach(caller, Top.fun) /\ frames' = Advance(Callers)
        /\ UNCHANGED <<fun_decls, item>>
    BY <1>6 DEF ReturnToCaller, crate
  <2>2. /\ Callers \in Seq(Frames) /\ Callers # <<>> /\ Len(Callers) = n
        /\ \A k \in 1 .. n : Callers[k] = frames[k]
        /\ caller = frames[n] /\ caller \in Frames
        /\ caller.next <= Len(terms[caller.fun])
    BY <1>0, <2>1, CallersFacts
  <2>3. n \in 1 .. Len(frames) /\ n \in 1 .. n
    BY <1>0, <2>1
  <2>4. /\ Len(frames') = n
        /\ \A k \in 1 .. n : frames'[k].fun = frames[k].fun
        /\ \A k \in 1 .. n - 1 : frames'[k] = frames[k]
        /\ frames'[n].next = frames[n].next + 1
    <3> HIDE DEF n
    <3>1. /\ Len(Advance(Callers)) = n
          /\ \A k \in 1 .. n : Advance(Callers)[k].fun = Callers[k].fun
          /\ \A k \in 1 .. n - 1 : Advance(Callers)[k] = Callers[k]
          /\ Advance(Callers)[n].next = Callers[n].next + 1
      BY <2>2, AdvanceFacts
    <3>2. \A k \in 1 .. n - 1 : k \in 1 .. n
      BY <2>3
    <3>3. QED
      BY <2>1, <2>2, <2>3, <3>1, <3>2
  <2>5. \E t \in Terminators : SetTerminator(caller, t)
    <3>1. Len(spec_closures) + 1 \in Nat
      BY <1>0 DEF TypeOK
    <3>2. QED
      BY <2>1, <3>1, TerminatorFields DEF Attach
  <2>6. /\ \A f \in FunIds : Len(terms'[f]) = Len(terms[f])
        /\ \A f \in FunIds : \A i \in 1 .. Len(terms[f]) :
               f # caller.fun => terms'[f][i] = terms[f][i]
    <3> HIDE DEF caller
    <3>1. QED
      BY <1>0, <2>2, <2>5, SetTerminatorFacts
  <2> HIDE DEF n, caller
  <2>7. QED
    BY <1>0, <2>1, <2>2, <2>3, <2>4, <2>6, StackAdvances
<1>7. QED
  BY <1>1, <1>2, <1>3, <1>4, <1>5, <1>6 DEF Next

-----------------------------------------------------------------------------
(* How far each function has come *)

\* What BlocksDone is, when the functions on the stack are different.
DoneTold ==
    /\ \A k \in 1 .. Len(frames) : BlocksDone(frames[k].fun) = frames[k].next - 1
    /\ \A f \in FunIds :
           (\A k \in 1 .. Len(frames) : frames[k].fun # f)
             => BlocksDone(f) = IF f \in transformed THEN Len(written[f]) ELSE 0

LEMMA DoneOf == TypeOK /\ AllDifferent => DoneTold
<1> SUFFICES ASSUME TypeOK, AllDifferent PROVE DoneTold
  OBVIOUS
<1>1. DOMAIN frames = 1 .. Len(frames)
  BY DEF TypeOK
<1>2. ASSUME NEW k \in 1 .. Len(frames)
      PROVE  BlocksDone(frames[k].fun) = frames[k].next - 1
  <2> DEFINE f == frames[k].fun
             j == CHOOSE i \in DOMAIN frames : frames[i].fun = f
  <2>1. \E i \in DOMAIN frames : frames[i].fun = f
    BY <1>1
  <2>2. j \in DOMAIN frames /\ frames[j].fun = f
    BY <2>1
  <2>3. j = k
    BY <1>1, <2>2 DEF AllDifferent
  <2>4. QED
    BY <2>1, <2>3 DEF BlocksDone
<1>3. ASSUME NEW f \in FunIds, \A k \in 1 .. Len(frames) : frames[k].fun # f
      PROVE  BlocksDone(f) = IF f \in transformed THEN Len(written[f]) ELSE 0
  BY <1>1, <1>3 DEF BlocksDone
<1>4. QED
  BY <1>2, <1>3 DEF DoneTold

LEMMA DoneOfNext == TypeOK' /\ AllDifferent' => DoneTold'
BY DoneOf, PTL

\* A function's call begins where the function has been left.
LEMMA DoneOnEnter ==
    ASSUME TypeOK, StackInv, TypeOK', StackInv', NEW x \in FunIds, Enter(x),
           \A k \in 1 .. Len(frames) : frames[k].fun # x,
           UNCHANGED written, Len(terms[x]) = Len(written[x])
    PROVE  \A f \in FunIds : BlocksDone(f)' = BlocksDone(f)
<1> DEFINE n == Len(frames)
<1>1. /\ n \in Nat /\ Len(frames') = n + 1
      /\ \A k \in 1 .. n : frames'[k] = frames[k]
      /\ frames'[n + 1] = Frame(x) /\ Frame(x).fun = x
      /\ transformed' = transformed \union {x}
  BY EnterFacts
<1>2. DoneTold /\ DoneTold'
  BY DoneOf, DoneOfNext DEF StackInv
<1>3. 1 .. n + 1 = (1 .. n) \union {n + 1}
  BY <1>1
<1> SUFFICES ASSUME NEW f \in FunIds PROVE BlocksDone(f)' = BlocksDone(f)
  OBVIOUS
<1>4. CASE \E k \in 1 .. n : frames[k].fun = f
  <2>1. PICK k \in 1 .. n : frames[k].fun = f
    BY <1>4
  <2>2. k \in 1 .. Len(frames') /\ frames'[k] = frames[k]
    BY <1>1, <1>3
  <2>3. BlocksDone(f)' = frames'[k].next - 1
    BY <1>2, <2>1, <2>2 DEF DoneTold
  <2>4. QED
    BY <1>2, <2>1, <2>2, <2>3 DEF DoneTold
<1>5. CASE f = x
  <2>1. BlocksDone(x) = IF x \in transformed THEN Len(written[x]) ELSE 0
    BY <1>2 DEF DoneTold
  <2>2. n + 1 \in 1 .. Len(frames')
    BY <1>1
  <2>3. BlocksDone(x)' = Frame(x).next - 1
    BY <1>1, <1>2, <2>2 DEF DoneTold
  <2>4. Frame(x).next - 1 = IF x \in transformed THEN Len(terms[x]) ELSE 0
    BY BodyFacts DEF Frame
  <2>5. QED
    BY <1>5, <2>1, <2>3, <2>4
<1>6. CASE f # x /\ \A k \in 1 .. n : frames[k].fun # f
  <2>1. \A k \in 1 .. Len(frames') : frames'[k].fun # f
    BY <1>1, <1>3, <1>6
  <2>2. f \in transformed' <=> f \in transformed
    BY <1>1, <1>6
  <2>3. BlocksDone(f) = IF f \in transformed THEN Len(written[f]) ELSE 0
    BY <1>2, <1>6 DEF DoneTold
  <2>4. BlocksDone(f)' = IF f \in transformed' THEN Len(written[f]) ELSE 0
    BY <1>2, <2>1 DEF DoneTold
  <2>5. QED
    BY <2>2, <2>3, <2>4
<1>7. QED
  BY <1>4, <1>5, <1>6

\* The calls above the n-th, which are through with their functions, return;
\* the functions of the others, but that of the n-th, have come to where they were.
LEMMA DoneOnReturn ==
    ASSUME TypeOK, Seen, StackInv, TypeOK', StackInv', NEW n \in 0 .. Len(frames),
           Len(frames') = n,
           \A k \in n + 1 .. Len(frames) : Finished(frames[k]),
           \A k \in 1 .. n : frames'[k].fun = frames[k].fun,
           \A k \in 1 .. n - 1 : frames'[k] = frames[k],
           \A f \in FunIds : Len(terms[f]) = Len(written[f]),
           UNCHANGED <<transformed, written>>,
           NEW f \in FunIds, n > 0 => f # frames[n].fun
    PROVE  BlocksDone(f)' = BlocksDone(f)
<1>1. DoneTold /\ DoneTold' /\ Len(frames) \in Nat
  <2>1. Len(frames) \in Nat
    BY DEF TypeOK
  <2>2. QED
    BY <2>1, DoneOf, DoneOfNext DEF StackInv
<1>2. 1 .. Len(frames) = (1 .. n - 1) \union {k \in {n} : n > 0} \union (n + 1 .. Len(frames))
  BY <1>1
<1>3. 1 .. n = (1 .. n - 1) \union {k \in {n} : n > 0}
  OBVIOUS
<1>4. CASE \E k \in 1 .. n - 1 : frames[k].fun = f
  <2>1. PICK k \in 1 .. n - 1 : frames[k].fun = f
    BY <1>4
  <2>2. k \in 1 .. Len(frames') /\ k \in 1 .. Len(frames) /\ frames'[k] = frames[k]
    BY <1>2, <1>3
  <2>3. BlocksDone(f)' = frames'[k].next - 1
    BY <1>1, <2>1, <2>2 DEF DoneTold
  <2>4. QED
    BY <1>1, <2>1, <2>2, <2>3 DEF DoneTold
<1>5. CASE \A k \in 1 .. n - 1 : frames[k].fun # f
  <2>1. \A k \in 1 .. Len(frames') : frames'[k].fun # f
    BY <1>3, <1>5
  <2>2. BlocksDone(f)' = IF f \in transformed THEN Len(written[f]) ELSE 0
    BY <1>1, <2>1 DEF DoneTold
  <2>3. CASE \E k \in n + 1 .. Len(frames) : frames[k].fun = f
    <3>1. PICK k \in n + 1 .. Len(frames) : frames[k].fun = f
      BY <2>3
    <3>2. k \in 1 .. Len(frames)
      BY <1>2
    <3>3. /\ BlocksDone(f) = frames[k].next - 1
          /\ f \in transformed
          /\ frames[k].next <= Len(terms[f]) + 1
      BY <1>1, <3>1, <3>2 DEF DoneTold, Seen, StackInv, InBody
    <3>4. frames[k].next > Len(terms[f])
      BY <3>1 DEF Finished
    <3>5. frames[k].next \in Nat /\ Len(terms[f]) \in Nat
      <4>1. frames \in Seq(Frames)
        BY DEF TypeOK, Frames
      <4>2. frames[k] \in Frames
        BY <3>2, <4>1
      <4>3. QED
        BY <4>2, BodyFacts DEF Frames
    <3>6. QED
      BY <2>2, <3>3, <3>4, <3>5
  <2>4. CASE \A k \in n + 1 .. Len(frames) : frames[k].fun # f
    <3>1. \A k \in 1 .. Len(frames) : frames[k].fun # f
      BY <1>2, <1>5, <2>4
    <3>2. QED
      BY <1>1, <2>2, <3>1 DEF DoneTold
  <2>5. QED
    BY <2>3, <2>4
<1>6. QED
  BY <1>4, <1>5

-----------------------------------------------------------------------------
(* The blocks, and the lists *)

\* What a block is when it is dealt with: no call of a builtin or its mark, and
\* a reference to the closure that it handed over if that is in the table.
SameLength == \A f \in FunIds : Len(terms[f]) = Len(written[f])
StillWritten == \A f \in FunIds : \A i \in 1 .. Len(written[f]) :
                  BlocksDone(f) < i => terms[f][i] = written[f][i]
Encoding == SpecKinds \union {"entry"}
DealtWith == \A f \in FunIds : \A i \in 1 .. Len(written[f]) :
               i <= BlocksDone(f) =>
                 /\ terms[f][i].kind \notin Encoding
                 /\ written[f][i].kind \in SpecKinds => written[f][i].closure \notin type_decls

RefersTo(t, call) == /\ t.spec_closure_id \in DOMAIN spec_closures
                     /\ spec_closures[t.spec_closure_id] = Method(call.closure, "Fn")
CarriedInPlace == \A f \in FunIds : \A i \in 1 .. Len(written[f]) :
                    /\ terms[f][i].kind = "contract"
                         <=> /\ i <= BlocksDone(f)
                             /\ written[f][i].kind \in {"contract_assert", "quant"}
                    /\ terms[f][i].kind = "contract" => RefersTo(terms[f][i], written[f][i])

BlocksInv == SameLength /\ StillWritten /\ DealtWith /\ CarriedInPlace /\ ContractsInOrder

\* The list is as long as the calls go, when a block of another kind is passed.
LEMMA NoneToHold ==
    ASSUME NEW list, NEW f, NEW kind, NEW n \in Nat,
           HoldsInOrder(list, f, kind, n), written[f][n + 1].kind # kind
    PROVE  HoldsInOrder(list, f, kind, n + 1)
<1>1. 1 .. n + 1 = (1 .. n) \union {n + 1}
  OBVIOUS
<1>2. Calling(f, kind, n + 1) = Calling(f, kind, n)
  BY <1>1 DEF Calling
<1>3. QED
  BY <1>2 DEF HoldsInOrder

\* And with the closure of one more call, when that is in the block.
LEMMA OneMoreToHold ==
    ASSUME NEW S, NEW list \in Seq(S), NEW f, NEW kind, NEW n \in Nat,
           HoldsInOrder(list, f, kind, n), written[f][n + 1].kind = kind,
           NEW x, x = Method(written[f][n + 1].closure, "Fn")
    PROVE  HoldsInOrder(Append(list, x), f, kind, n + 1)
<1> DEFINE new == Append(list, x)
           m == Len(list)
<1>1. /\ m \in Nat /\ DOMAIN list = 1 .. m /\ DOMAIN new = 1 .. m + 1
      /\ \A j \in 1 .. m : new[j] = list[j]
      /\ new[m + 1] = x
      /\ 1 .. m + 1 = (1 .. m) \union {m + 1}
  OBVIOUS
<1> HIDE DEF new, m
<1>2. 1 .. n + 1 = (1 .. n) \union {n + 1}
  OBVIOUS
<1>3. Calling(f, kind, n + 1) = Calling(f, kind, n) \union {n + 1}
  BY <1>2 DEF Calling
<1>4. \A i \in Calling(f, kind, n) : i \in Nat /\ i < n + 1
  BY DEF Calling
<1>5. PICK at \in [DOMAIN list -> Calling(f, kind, n)] :
        /\ \A i \in Calling(f, kind, n) : \E j \in DOMAIN list : at[j] = i
        /\ \A j, k \in DOMAIN list : j < k => at[j] < at[k]
        /\ \A j \in DOMAIN list : list[j] = Method(written[f][at[j]].closure, "Fn")
  BY DEF HoldsInOrder
<1> DEFINE to == [j \in 1 .. m + 1 |-> IF j = m + 1 THEN n + 1 ELSE at[j]]
<1>6. /\ \A j \in 1 .. m : to[j] = at[j] /\ at[j] \in Calling(f, kind, n)
      /\ to[m + 1] = n + 1
      /\ to \in [DOMAIN new -> Calling(f, kind, n + 1)]
  <2>1. \A j \in 1 .. m : j # m + 1 /\ j \in 1 .. m + 1
    BY <1>1
  <2>2. \A j \in 1 .. m : to[j] = at[j] /\ at[j] \in Calling(f, kind, n)
    BY <1>1, <1>5, <2>1
  <2>3. m + 1 \in 1 .. m + 1 /\ to[m + 1] = n + 1
    BY <1>1
  <2>4. \A j \in 1 .. m + 1 : to[j] \in Calling(f, kind, n + 1)
    <3> HIDE DEF to
    <3>1. QED
      BY <1>1, <1>3, <2>2, <2>3
  <2>5. QED
    BY <1>1, <2>2, <2>3, <2>4
<1> HIDE DEF to
<1>7. \A i \in Calling(f, kind, n + 1) : \E j \in DOMAIN new : to[j] = i
  <2> SUFFICES ASSUME NEW i \in Calling(f, kind, n + 1)
               PROVE  \E j \in 1 .. m + 1 : to[j] = i
    BY <1>1
  <2>1. CASE i = n + 1
    BY <1>1, <1>6, <2>1
  <2>2. CASE i \in Calling(f, kind, n)
    <3>1. PICK j \in 1 .. m : at[j] = i
      BY <1>1, <1>5, <2>2
    <3>2. QED
      BY <1>1, <1>6, <3>1
  <2>3. QED
    BY <1>3, <2>1, <2>2
<1>8. \A j, k \in DOMAIN new : j < k => to[j] < to[k]
  <2> SUFFICES ASSUME NEW j \in 1 .. m + 1, NEW k \in 1 .. m + 1, j < k
               PROVE  to[j] < to[k]
    BY <1>1
  <2>1. j \in 1 .. m
    BY <1>1
  <2>2. CASE k = m + 1
    BY <1>4, <1>6, <2>1, <2>2
  <2>3. CASE k \in 1 .. m
    BY <1>1, <1>5, <1>6, <2>1, <2>3
  <2>4. QED
    BY <1>1, <2>2, <2>3
<1>9. \A j \in DOMAIN new : new[j] = Method(written[f][to[j]].closure, "Fn")
  <2> SUFFICES ASSUME NEW j \in 1 .. m + 1
               PROVE  new[j] = Method(written[f][to[j]].closure, "Fn")
    BY <1>1
  <2>1. CASE j = m + 1
    BY <1>1, <1>6, <2>1
  <2>2. CASE j \in 1 .. m
    BY <1>1, <1>5, <1>6, <2>2
  <2>3. QED
    BY <1>1, <2>1, <2>2
<1>10. \E at2 \in [DOMAIN new -> Calling(f, kind, n + 1)] :
        /\ \A i \in Calling(f, kind, n + 1) : \E j \in DOMAIN new : at2[j] = i
        /\ \A j, k \in DOMAIN new : j < k => at2[j] < at2[k]
        /\ \A j \in DOMAIN new : new[j] = Method(written[f][at2[j]].closure, "Fn")
  BY <1>6, <1>7, <1>8, <1>9
<1>11. QED
  BY <1>10 DEF HoldsInOrder, new

\* Before the batch nothing is done, and the lists are empty.
LEMMA InitBlocks == Init => StackInv /\ BlocksInv
<1> SUFFICES ASSUME Init PROVE StackInv /\ BlocksInv
  OBVIOUS
<1>1. /\ frames = <<>> /\ transformed = {} /\ written = terms
      /\ \A f \in FunIds : preconditions[f] = <<>> /\ postconditions[f] = <<>>
      /\ \E p \in Programs : terms = p.terms
  BY DEF Init
<1>2. StackInv
  BY <1>1 DEF StackInv, AllDifferent, OutOfTable, ItemAtBottom, WaitsForNext, InBody
<1>3. \A f : BlocksDone(f) = 0
  BY <1>1 DEF BlocksDone
<1>4. \A f, kind : HoldsInOrder(<<>>, f, kind, 0)
  <2>1. \A f, kind : Calling(f, kind, 0) = {}
    BY DEF Calling
  <2>2. <<>> \in [DOMAIN <<>> -> {}]
    OBVIOUS
  <2>3. QED
    BY <2>1, <2>2 DEF HoldsInOrder
<1>5. ContractsInOrder
  BY <1>1, <1>3, <1>4 DEF ContractsInOrder
<1>6. SameLength /\ StillWritten /\ DealtWith
  <2>1. SameLength /\ StillWritten
    BY <1>1 DEF SameLength, StillWritten
  <2>2. \A f \in FunIds : \A i \in 1 .. Len(written[f]) : ~(i <= BlocksDone(f))
    BY <1>3
  <2>3. QED
    BY <2>1, <2>2 DEF DealtWith
<1>7. CarriedInPlace
  <2>1. /\ \A f \in FunIds : terms[f] \in Seq(Terminators)
        /\ \A f \in FunIds : \A i \in DOMAIN terms[f] : terms[f][i].kind # "contract"
    BY <1>1, ProgramsAssumption
  <2>2. \A f \in FunIds : \A i \in 1 .. Len(written[f]) :
          terms[f][i].kind # "contract" /\ ~(i <= BlocksDone(f))
    BY <1>1, <1>3, <2>1
  <2>3. QED
    BY <2>2 DEF CarriedInPlace
<1>8. QED
  BY <1>2, <1>5, <1>6, <1>7 DEF BlocksInv

\* Most steps deal with no block.
LEMMA NoBlockOn ==
    ASSUME BlocksInv, \A f \in FunIds : BlocksDone(f)' = BlocksDone(f),
           UNCHANGED <<terms, written, preconditions, postconditions, spec_closures>>,
           type_decls' \subseteq type_decls
    PROVE  BlocksInv'
<1>1. \A f \in FunIds :
        /\ HoldsInOrder(preconditions[f], f, "precondition", BlocksDone(f))'
        /\ HoldsInOrder(postconditions[f], f, "postcondition", BlocksDone(f))'
  BY DEF BlocksInv, ContractsInOrder, HoldsInOrder, Calling
<1>2. ContractsInOrder'
  BY <1>1 DEF ContractsInOrder
<1>3. SameLength' /\ StillWritten' /\ DealtWith' /\ CarriedInPlace'
  BY DEF BlocksInv, SameLength, StillWritten, DealtWith, CarriedInPlace, RefersTo
<1>4. QED
  BY <1>2, <1>3 DEF BlocksInv

\* What dealing with a block makes of a list of contracts.
Follows(grown, list, kind, t) ==
    grown = IF t.kind = kind THEN Append(list, Method(t.closure, "Fn")) ELSE list

\* A step that deals with block i of h.
LEMMA OneBlockOn ==
    ASSUME TypeOK, BlocksInv, UNCHANGED written, type_decls' \subseteq type_decls,
           NEW h \in FunIds, NEW i \in 1 .. Len(written[h]),
           BlocksDone(h) = i - 1, BlocksDone(h)' = i,
           \A f \in FunIds : f # h => BlocksDone(f)' = BlocksDone(f),
           \A f \in FunIds : Len(terms'[f]) = Len(terms[f]),
           \A f \in FunIds : \A j \in 1 .. Len(terms[f]) :
               f # h \/ j # i => terms'[f][j] = terms[f][j],
           terms'[h][i].kind \notin Encoding,
           written[h][i].kind \in SpecKinds => written[h][i].closure \notin type_decls,
           \A id \in DOMAIN spec_closures :
               id \in DOMAIN spec_closures' /\ spec_closures'[id] = spec_closures[id],
           terms'[h][i].kind = "contract"
               <=> written[h][i].kind \in {"contract_assert", "quant"},
           terms'[h][i].kind = "contract"
               => /\ terms'[h][i].spec_closure_id \in DOMAIN spec_closures'
                  /\ spec_closures'[terms'[h][i].spec_closure_id]
                       = Method(written[h][i].closure, "Fn"),
           \A f \in FunIds : f # h => /\ preconditions'[f] = preconditions[f]
                                     /\ postconditions'[f] = postconditions[f],
           Follows(preconditions'[h], preconditions[h], "precondition", written[h][i]),
           Follows(postconditions'[h], postconditions[h], "postcondition", written[h][i])
    PROVE  BlocksInv'
<1>1. \A f \in FunIds : Len(terms[f]) = Len(written[f]) /\ Len(written[f]) \in Nat
  BY DEF BlocksInv, SameLength, TypeOK
<1>2. SameLength'
  BY <1>1 DEF SameLength
<1>3. StillWritten'
  <2> SUFFICES ASSUME NEW f \in FunIds, NEW j \in 1 .. Len(written[f]), BlocksDone(f)' < j
               PROVE  terms'[f][j] = written[f][j]
    BY DEF StillWritten
  <2>1. BlocksDone(f) < j /\ (f # h \/ j # i)
    BY <1>1
  <2>2. QED
    BY <1>1, <2>1 DEF BlocksInv, StillWritten
<1>4. DealtWith'
  <2> SUFFICES ASSUME NEW f \in FunIds, NEW j \in 1 .. Len(written[f]), j <= BlocksDone(f)'
               PROVE  /\ terms'[f][j].kind \notin Encoding
                      /\ written[f][j].kind \in SpecKinds
                           => written[f][j].closure \notin type_decls'
    BY DEF DealtWith
  <2>1. CASE f = h /\ j = i
    BY <2>1
  <2>2. CASE f # h \/ j # i
    <3>1. j <= BlocksDone(f)
      BY <1>1, <2>2
    <3>2. terms'[f][j] = terms[f][j]
      BY <1>1, <2>2
    <3>3. QED
      BY <3>1, <3>2 DEF BlocksInv, DealtWith
  <2>3. QED
    BY <2>1, <2>2
<1>5. /\ HoldsInOrder(preconditions[h], h, "precondition", i - 1)
      /\ HoldsInOrder(postconditions[h], h, "postcondition", i - 1)
      /\ preconditions[h] \in Seq(FunIds) /\ postconditions[h] \in Seq(FunIds)
      /\ i - 1 \in Nat /\ i = i - 1 + 1
  BY <1>1 DEF BlocksInv, ContractsInOrder, TypeOK
<1>6. /\ HoldsInOrder(preconditions'[h], h, "precondition", i)
      /\ HoldsInOrder(postconditions'[h], h, "postcondition", i)
  <2> DEFINE n == i - 1
  <2>1. n \in Nat /\ i = n + 1
    BY <1>5
  <2> HIDE DEF n
  <2>2. ASSUME NEW kind, NEW list \in Seq(FunIds), NEW grown,
               HoldsInOrder(list, h, kind, n), Follows(grown, list, kind, written[h][n + 1])
        PROVE  HoldsInOrder(grown, h, kind, n + 1)
    <3>1. CASE written[h][n + 1].kind = kind
      BY <2>1, <2>2, <3>1, OneMoreToHold DEF Follows
    <3>2. CASE written[h][n + 1].kind # kind
      BY <2>1, <2>2, <3>2, NoneToHold DEF Follows
    <3>3. QED
      BY <3>1, <3>2
  <2>3. /\ HoldsInOrder(preconditions[h], h, "precondition", n)
        /\ HoldsInOrder(postconditions[h], h, "postcondition", n)
    BY <1>5 DEF n
  <2>4. QED
    BY <1>5, <2>1, <2>2, <2>3
<1>7. ASSUME NEW f \in FunIds
      PROVE  /\ HoldsInOrder(preconditions'[f], f, "precondition", BlocksDone(f)')
             /\ HoldsInOrder(postconditions'[f], f, "postcondition", BlocksDone(f)')
  <2>1. CASE f = h
    BY <1>6, <2>1
  <2>2. CASE f # h
    BY <2>2 DEF BlocksInv, ContractsInOrder
  <2>3. QED
    BY <2>1, <2>2
<1>8. ContractsInOrder'
  <2>1. \A f \in FunIds :
          /\ HoldsInOrder(preconditions[f], f, "precondition", BlocksDone(f))'
          /\ HoldsInOrder(postconditions[f], f, "postcondition", BlocksDone(f))'
    <3> SUFFICES ASSUME NEW f \in FunIds
                 PROVE  /\ HoldsInOrder(preconditions[f], f, "precondition", BlocksDone(f))'
                        /\ HoldsInOrder(postconditions[f], f, "postcondition", BlocksDone(f))'
      OBVIOUS
    <3> DEFINE pre == preconditions'[f]
               post == postconditions'[f]
               n == BlocksDone(f)'
    <3>1. HoldsInOrder(pre, f, "precondition", n) /\ HoldsInOrder(post, f, "postcondition", n)
      BY <1>7
    <3>2. /\ HoldsInOrder(preconditions[f], f, "precondition", BlocksDone(f))'
               <=> HoldsInOrder(pre, f, "precondition", n)
          /\ HoldsInOrder(postconditions[f], f, "postcondition", BlocksDone(f))'
               <=> HoldsInOrder(post, f, "postcondition", n)
      <4> HIDE DEF n
      <4>1. written' = written
        OBVIOUS
      <4>2. QED
        BY <4>1 DEF HoldsInOrder, Calling, n
    <3>3. QED
      BY <3>1, <3>2
  <2>2. QED
    BY <2>1 DEF ContractsInOrder
<1>9. CarriedInPlace'
  <2> SUFFICES ASSUME NEW f \in FunIds, NEW j \in 1 .. Len(written[f])
               PROVE  /\ terms'[f][j].kind = "contract"
                           <=> /\ j <= BlocksDone(f)'
                               /\ written[f][j].kind \in {"contract_assert", "quant"}
                      /\ terms'[f][j].kind = "contract"
                           => /\ terms'[f][j].spec_closure_id \in DOMAIN spec_closures'
                              /\ spec_closures'[terms'[f][j].spec_closure_id]
                                   = Method(written[f][j].closure, "Fn")
    BY DEF CarriedInPlace, RefersTo
  <2>1. CASE f = h /\ j = i
    BY <1>1, <2>1
  <2>2. CASE f # h \/ j # i
    <3>1. j <= BlocksDone(f)' <=> j <= BlocksDone(f)
      BY <1>1, <2>2
    <3>2. terms'[f][j] = terms[f][j]
      BY <1>1, <2>2
    <3>3. QED
      BY <3>1, <3>2 DEF BlocksInv, CarriedInPlace, RefersTo
  <2>3. QED
    BY <2>1, <2>2
<1>10. QED
  BY <1>2, <1>3, <1>4, <1>8, <1>9 DEF BlocksInv

\* A block is passed by the call on top, or its mark removed.
LEMMA PassOn ==
    ASSUME IInv, StackInv, BlocksInv, TypeOK', StackInv', PassBlock \/ CollectEntry
    PROVE  BlocksInv'
<1> DEFINE n == Len(frames)
<1>h. PICK h, i : h = Top.fun /\ i = Top.next
  OBVIOUS
<1>0. TypeOK /\ Seen /\ DoneTold /\ DoneTold'
  BY DoneOf, DoneOfNext DEF IInv, CallsOK, StackInv
<1>1. /\ frames # <<>> /\ frames' = Advance(frames) /\ ~Finished(Top)
      /\ UNCHANGED <<written, transformed, type_decls, preconditions, postconditions>>
      /\ UNCHANGED spec_closures
      /\ \/ BlockOf(Top).kind \notin Encoding /\ UNCHANGED terms
         \/ BlockOf(Top).kind = "entry" /\ SetTerminator(Top, Goto)
  BY DEF PassBlock, CollectEntry, crate, specs, Encoding
<1>2. /\ n \in Nat \ {0} /\ Top = frames[n] /\ h \in FunIds /\ i \in Nat \ {0}
      /\ Top \in Frames /\ i \in 1 .. Len(terms[h])
  BY <1>0, <1>1, <1>h, TopFacts DEF Frames
<1>3. /\ Len(frames') = n
      /\ \A k \in 1 .. n : frames'[k].fun = frames[k].fun
      /\ \A k \in 1 .. n - 1 : frames'[k] = frames[k]
      /\ frames'[n].next = i + 1
  <2>1. frames \in Seq(Frames)
    BY <1>0 DEF TypeOK, Frames
  <2>2. QED
    BY <1>1, <1>2, <1>h, <2>1, AdvanceFacts
<1>4. SameLength /\ i \in 1 .. Len(written[h])
  BY <1>2 DEF BlocksInv, SameLength
<1>5. BlocksDone(h) = i - 1 /\ BlocksDone(h)' = i
  <2>1. n \in 1 .. Len(frames) /\ n \in 1 .. Len(frames')
    BY <1>2, <1>3
  <2>2. frames'[n].fun = h
    BY <1>2, <1>3, <1>h, <2>1
  <2>3. BlocksDone(h)' = frames'[n].next - 1
    BY <1>0, <2>1, <2>2 DEF DoneTold
  <2>4. QED
    BY <1>0, <1>2, <1>3, <1>h, <2>1, <2>3 DEF DoneTold
<1>6. \A f \in FunIds : f # h => BlocksDone(f)' = BlocksDone(f)
  <2>1. n \in 0 .. Len(frames) /\ \A k \in n + 1 .. Len(frames) : Finished(frames[k])
    BY <1>2
  <2>2. \A f \in FunIds : Len(terms[f]) = Len(written[f])
    BY <1>4 DEF SameLength
  <2> HIDE DEF n
  <2>3. QED
    BY <1>0, <1>1, <1>2, <1>3, <1>h, <2>1, <2>2, DoneOnReturn
<1>7. terms[h][i] = written[h][i]
  BY <1>2, <1>4, <1>5 DEF BlocksInv, StillWritten
<1>8. /\ \A f \in FunIds : Len(terms'[f]) = Len(terms[f])
      /\ \A f \in FunIds : \A j \in 1 .. Len(terms[f]) :
             f # h \/ j # i => terms'[f][j] = terms[f][j]
      /\ terms'[h][i].kind \notin Encoding
  <2>1. CASE BlockOf(Top).kind \notin Encoding /\ UNCHANGED terms
    BY <1>h, <2>1 DEF BlockOf
  <2>2. CASE SetTerminator(Top, Goto)
    <3>1. "goto" \notin Encoding
      BY DEF Encoding, SpecKinds
    <3>2. QED
      BY <1>0, <1>2, <1>h, <2>2, <3>1, SetTerminatorFacts, TerminatorFields
  <2>3. QED
    BY <1>1, <2>1, <2>2
<1>9. written[h][i].kind \notin SpecKinds
  BY <1>1, <1>7, <1>h DEF BlockOf, Encoding, SpecKinds
<1>10. /\ Follows(preconditions'[h], preconditions[h], "precondition", written[h][i])
       /\ Follows(postconditions'[h], postconditions[h], "postcondition", written[h][i])
  BY <1>1, <1>9 DEF Follows, SpecKinds
<1>11. terms'[h][i].kind # "contract"
  <2>1. terms[h][i].kind # "contract"
    BY <1>2, <1>4, <1>5 DEF BlocksInv, CarriedInPlace
  <2>2. CASE UNCHANGED terms
    BY <2>1, <2>2
  <2>3. CASE SetTerminator(Top, Goto)
    BY <1>0, <1>2, <1>h, <2>3, SetTerminatorFacts, TerminatorFields
  <2>4. QED
    BY <1>1, <2>2, <2>3
<1>12. written[h][i].kind \notin {"contract_assert", "quant"}
  BY <1>9 DEF SpecKinds
<1>13. QED
  BY <1>0, <1>1, <1>2, <1>4, <1>5, <1>6, <1>8, <1>9, <1>10, <1>11, <1>12, OneBlockOn

\* A closure that was collected joins the lists of the call that waits for it.
LEMMA ReturnOn ==
    ASSUME IInv, PlacesInv, StackInv, BlocksInv, TypeOK', StackInv', ReturnToCaller
    PROVE  BlocksInv'
<1> DEFINE n == Len(frames) - 1
           caller == Last(Callers)
           c == BlockOf(caller).closure
<1>h. PICK h, i : h = caller.fun /\ i = caller.next
  OBVIOUS
<1>0. TypeOK /\ Waiting /\ Seen /\ DoneTold /\ DoneTold'
  BY DoneOf, DoneOfNext DEF IInv, CallsOK, StackInv
<1>1. /\ Len(frames) > 1 /\ Finished(Top) /\ Attach(caller, Top.fun)
      /\ frames' = Advance(Callers)
      /\ UNCHANGED <<written, transformed, type_decls>>
  BY DEF ReturnToCaller, crate
<1>2. /\ Callers \in Seq(Frames) /\ Callers # <<>> /\ Len(Callers) = n
      /\ \A k \in 1 .. n : Callers[k] = frames[k]
      /\ caller = frames[n] /\ caller \in Frames
      /\ i <= Len(terms[h]) /\ BlockOf(caller).kind \in SpecKinds
      /\ Len(frames) \in Nat /\ frames # <<>>
  BY <1>0, <1>1, <1>h, CallersFacts
<1>3. /\ n \in Nat \ {0} /\ n + 1 = Len(frames) /\ Top = frames[n + 1]
      /\ n \in 1 .. Len(frames) - 1 /\ n \in 1 .. Len(frames)
      /\ n + 1 .. Len(frames) = {n + 1}
  BY <1>0, <1>1, <1>2, TopFacts
<1>4. /\ h \in FunIds /\ i \in Nat \ {0} /\ Len(terms[h]) \in Nat /\ i \in 1 .. Len(terms[h])
  BY <1>0, <1>2, <1>h, BodyFacts DEF Frames
<1>5. Top.fun = Method(c, "Fn")
  BY <1>2, <1>3 DEF StackInv, WaitsForNext
<1>6. SameLength /\ i \in 1 .. Len(written[h])
  BY <1>4 DEF BlocksInv, SameLength
<1> HIDE DEF n
<1>7. /\ Len(frames') = n
      /\ \A k \in 1 .. n : frames'[k].fun = frames[k].fun
      /\ \A k \in 1 .. n - 1 : frames'[k] = frames[k]
      /\ frames'[n].next = i + 1
  <2>1. /\ Len(Advance(Callers)) = n
        /\ \A k \in 1 .. n : Advance(Callers)[k].fun = Callers[k].fun
        /\ \A k \in 1 .. n - 1 : Advance(Callers)[k] = Callers[k]
        /\ Advance(Callers)[n].next = Callers[n].next + 1
    BY <1>2, AdvanceFacts
  <2>2. \A k \in 1 .. n - 1 : k \in 1 .. n
    BY <1>3
  <2>3. n \in 1 .. n
    BY <1>3
  <2>4. QED
    BY <1>1, <1>2, <1>h, <2>1, <2>2, <2>3
<1>8. BlocksDone(h) = i - 1 /\ BlocksDone(h)' = i
  <2>1. n \in 1 .. Len(frames')
    BY <1>3, <1>7
  <2>2. frames'[n].fun = h
    BY <1>2, <1>3, <1>7, <1>h, <2>1
  <2>3. BlocksDone(h)' = frames'[n].next - 1
    BY <1>0, <2>1, <2>2 DEF DoneTold
  <2>4. QED
    BY <1>0, <1>2, <1>3, <1>4, <1>7, <1>h, <2>3 DEF DoneTold
<1>9. \A f \in FunIds : f # h => BlocksDone(f)' = BlocksDone(f)
  <2>1. n \in 0 .. Len(frames) /\ \A k \in n + 1 .. Len(frames) : Finished(frames[k])
    BY <1>1, <1>3
  <2>2. \A f \in FunIds : Len(terms[f]) = Len(written[f])
    BY <1>6 DEF SameLength
  <2>3. QED
    BY <1>0, <1>1, <1>2, <1>7, <1>h, <2>1, <2>2, DoneOnReturn
<1>10. BlockOf(caller) = written[h][i]
  <2>1. terms[h][i] = written[h][i]
    BY <1>4, <1>6, <1>8 DEF BlocksInv, StillWritten
  <2>2. QED
    BY <1>h, <2>1 DEF BlockOf
<1>11. /\ \A f \in FunIds : Len(terms'[f]) = Len(terms[f])
       /\ \A f \in FunIds : \A j \in 1 .. Len(terms[f]) :
              f # h \/ j # i => terms'[f][j] = terms[f][j]
       /\ terms'[h][i].kind \notin Encoding
  <2>1. Len(spec_closures) + 1 \in Nat
    BY <1>0 DEF TypeOK
  <2>2. PICK t \in Terminators : SetTerminator(caller, t) /\ t.kind \in {"goto", "contract"}
    BY <1>1, <2>1, TerminatorFields DEF Attach
  <2>3. t.kind \notin Encoding
    BY <2>2 DEF Encoding, SpecKinds
  <2>4. QED
    <3> HIDE DEF caller
    <3>1. QED
      BY <1>0, <1>2, <1>4, <1>h, <2>2, <2>3, SetTerminatorFacts
<1>12. c \in Closures /\ c \notin type_decls
  <2>1. BlockOf(caller) \in Terminators
    <3>1. terms[h] \in Seq(Terminators)
      BY <1>0, <1>4 DEF TypeOK
    <3>2. QED
      BY <1>4, <1>h, <3>1 DEF BlockOf
  <2>2. c \in Closures
    BY <1>2, <2>1, TerminatorFields
  <2>3. Collecting(Method(c, "Fn"))
    <3>1. n + 1 \in 2 .. Len(frames)
      BY <1>3
    <3>2. QED
      BY <1>3, <1>5, <3>1 DEF Collecting
  <2>4. OnePlace(c)
    BY <2>2 DEF PlacesInv
  <2>5. QED
    BY <2>2, <2>3, <2>4 DEF OnePlace, ExactlyOne
<1>13. \/ /\ written[h][i].kind = "precondition"
          /\ preconditions' = [preconditions EXCEPT ![h] = Append(@, Method(c, "Fn"))]
          /\ postconditions' = postconditions
       \/ /\ written[h][i].kind = "postcondition"
          /\ postconditions' = [postconditions EXCEPT ![h] = Append(@, Method(c, "Fn"))]
          /\ preconditions' = preconditions
       \/ /\ written[h][i].kind \in {"contract_assert", "quant"}
          /\ preconditions' = preconditions
          /\ postconditions' = postconditions
  BY <1>1, <1>5, <1>10, <1>h DEF Attach
<1>14. /\ Follows(preconditions'[h], preconditions[h], "precondition", written[h][i])
       /\ Follows(postconditions'[h], postconditions[h], "postcondition", written[h][i])
       /\ \A f \in FunIds : f # h => /\ preconditions'[f] = preconditions[f]
                                     /\ postconditions'[f] = postconditions[f]
  <2>1. c = written[h][i].closure
    BY <1>10
  <2>2. h \in DOMAIN preconditions /\ h \in DOMAIN postconditions
    BY <1>0, <1>4 DEF TypeOK
  <2>3. \A f \in FunIds : f \in DOMAIN preconditions /\ f \in DOMAIN postconditions
    BY <1>0 DEF TypeOK
  <2> HIDE DEF c
  <2>4. QED
    BY <1>13, <2>1, <2>2, <2>3 DEF Follows
<1>15. written[h][i].kind \in SpecKinds => written[h][i].closure \notin type_decls
  BY <1>10, <1>12
<1> HIDE DEF c
<1>16. /\ \A id \in DOMAIN spec_closures :
              id \in DOMAIN spec_closures' /\ spec_closures'[id] = spec_closures[id]
       /\ terms'[h][i].kind = "contract"
            <=> written[h][i].kind \in {"contract_assert", "quant"}
       /\ terms'[h][i].kind = "contract"
            => /\ terms'[h][i].spec_closure_id \in DOMAIN spec_closures'
               /\ spec_closures'[terms'[h][i].spec_closure_id]
                    = Method(written[h][i].closure, "Fn")
  <2>1. /\ spec_closures \in Seq(FunIds) /\ Len(spec_closures) + 1 \in Nat
        /\ Method(c, "Fn") \in FunIds
    BY <1>0, <1>12, MethodIsFun DEF TypeOK
  <2>2. c = written[h][i].closure
    BY <1>10 DEF c
  <2>3. CASE /\ written[h][i].kind \in {"precondition", "postcondition"}
             /\ SetTerminator(caller, Goto) /\ UNCHANGED spec_closures
    <3>1. terms'[h][i].kind = "goto"
      <4> HIDE DEF caller
      <4>1. QED
        BY <1>0, <1>2, <1>4, <1>h, <2>3, SetTerminatorFacts, TerminatorFields
    <3>2. QED
      BY <2>3, <3>1
  <2>4. CASE /\ written[h][i].kind \in {"contract_assert", "quant"}
             /\ SetTerminator(caller, Contract(Len(spec_closures) + 1))
             /\ spec_closures' = Append(spec_closures, Method(c, "Fn"))
    <3>1. terms'[h][i] = Contract(Len(spec_closures) + 1)
      <4> HIDE DEF caller
      <4>1. QED
        BY <1>0, <1>2, <1>4, <1>h, <2>1, <2>4, SetTerminatorFacts, TerminatorFields
    <3>2. /\ terms'[h][i].kind = "contract"
          /\ terms'[h][i].spec_closure_id = Len(spec_closures) + 1
      BY <2>1, <3>1, TerminatorFields
    <3>3. /\ DOMAIN spec_closures = 1 .. Len(spec_closures)
          /\ DOMAIN spec_closures' = 1 .. Len(spec_closures) + 1
          /\ \A id \in 1 .. Len(spec_closures) : spec_closures'[id] = spec_closures[id]
          /\ spec_closures'[Len(spec_closures) + 1] = Method(c, "Fn")
          /\ Len(spec_closures) \in Nat
      BY <2>1, <2>4
    <3>4. QED
      BY <2>2, <2>4, <3>2, <3>3
  <2>5. QED
    BY <1>1, <1>5, <1>10, <2>3, <2>4 DEF Attach
<1>17. QED
  BY <1>0, <1>1, <1>4, <1>6, <1>8, <1>9, <1>11, <1>14, <1>15, <1>16, OneBlockOn

LEMMA BlocksStep ==
    ASSUME IInv, PlacesInv, StackInv, BlocksInv, [Next]_vars, IInv', StackInv'
    PROVE  BlocksInv'
<1>0. TypeOK /\ TypeOK' /\ Seen
  BY DEF IInv, CallsOK
<1>1. CASE UNCHANGED vars
  <2>1. /\ \A f \in FunIds : BlocksDone(f)' = BlocksDone(f)
        /\ UNCHANGED <<terms, written, preconditions, postconditions, type_decls>>
        /\ UNCHANGED spec_closures
    BY <1>1 DEF vars, crate, specs, BlocksDone
  <2>2. QED
    BY <2>1, NoBlockOn
<1>2. CASE TakeItem \/ SkipItem \/ RunPass \/ PutItemBack
  <2>1. /\ frames = <<>> /\ frames' = <<>>
        /\ UNCHANGED <<transformed, terms, written, type_decls>>
        /\ UNCHANGED <<preconditions, postconditions, spec_closures>>
    BY <1>2, OutsideCollection
  <2>2. \A f \in FunIds : BlocksDone(f)' = BlocksDone(f)
    BY <2>1 DEF BlocksDone
  <2>3. QED
    BY <2>1, <2>2, NoBlockOn
<1>3. CASE StartCollect
  <2>1. /\ frames = <<>> /\ Enter(item) /\ item \in FunIds
        /\ UNCHANGED <<type_decls, terms, written, preconditions, postconditions>>
        /\ UNCHANGED spec_closures
    BY <1>0, <1>3 DEF StartCollect, TypeOK, crate, specs
  <2>2. Len(terms[item]) = Len(written[item])
    BY <2>1 DEF BlocksInv, SameLength
  <2>3. 1 .. Len(frames) = {}
    BY <2>1
  <2>4. \A f \in FunIds : BlocksDone(f)' = BlocksDone(f)
    BY <1>0, <2>1, <2>2, <2>3, DoneOnEnter
  <2>5. QED
    BY <2>1, <2>4, NoBlockOn
<1>4. CASE FinishCollect
  <2>1. /\ Len(frames) = 1 /\ Finished(Top) /\ frames' = <<>>
        /\ UNCHANGED <<transformed, terms, written, type_decls>>
        /\ UNCHANGED <<preconditions, postconditions, spec_closures>>
    BY <1>4 DEF FinishCollect, crate, specs
  <2>2. /\ 0 \in 0 .. Len(frames) /\ Len(frames') = 0
        /\ \A k \in 0 + 1 .. Len(frames) : Finished(frames[k])
        /\ 1 .. 0 = {} /\ 1 .. 0 - 1 = {}
    BY <2>1 DEF Top, Last
  <2>3. \A f \in FunIds : Len(terms[f]) = Len(written[f])
    BY DEF BlocksInv, SameLength
  <2>4. \A f \in FunIds : BlocksDone(f)' = BlocksDone(f)
    BY <1>0, <2>1, <2>2, <2>3, DoneOnReturn
  <2>5. QED
    BY <2>1, <2>4, NoBlockOn
<1>5. CASE PassBlock \/ CollectEntry
  BY <1>0, <1>5, PassOn
<1>6. CASE CollectClosure
  <2> DEFINE x == Method(BlockOf(Top).closure, "Fn")
  <2>1. /\ frames # <<>> /\ ~Finished(Top) /\ BlockOf(Top).kind \in SpecKinds
        /\ Methods(BlockOf(Top).closure) \subseteq fun_decls
        /\ Enter(x)
        /\ type_decls' \subseteq type_decls
        /\ UNCHANGED <<terms, written, preconditions, postconditions, spec_closures>>
    BY <1>6 DEF CollectClosure, specs
  <2>2. x \in FunIds /\ x \in fun_decls
    <3>1. BlockOf(Top).closure \in Closures
      BY <1>0, <2>1, TopFacts, TerminatorFields
    <3>2. x \in Methods(BlockOf(Top).closure)
      BY DEF Methods, FnTraits
    <3>3. QED
      BY <2>1, <3>1, <3>2, MethodIsFun
  <2>3. Len(terms[x]) = Len(written[x])
    BY <2>2 DEF BlocksInv, SameLength
  <2>4. \A k \in 1 .. Len(frames) : frames[k].fun # x
    BY <2>2 DEF StackInv, OutOfTable
  <2>5. PICK y : y = x
    OBVIOUS
  <2>6. \A f \in FunIds : BlocksDone(f)' = BlocksDone(f)
    <3> HIDE DEF x
    <3>1. QED
      BY <1>0, <2>1, <2>2, <2>3, <2>4, <2>5, DoneOnEnter
  <2>7. QED
    BY <2>1, <2>6, NoBlockOn
<1>7. CASE ReturnToCaller
  BY <1>0, <1>7, ReturnOn
<1>8. QED
  BY <1>1, <1>2, <1>3, <1>4, <1>5, <1>6, <1>7 DEF Next

\* In every crate the contracts of a function are those written in its own
\* blocks, in their order, however many closures inside these were collected,
\* and moved into lists, in between.
THEOREM OrderKept == Spec => []ContractsInOrder
<1>1. Init => PlacesInv /\ StackInv /\ BlocksInv
  BY InitPlaces, InitBlocks
<1>2. IInv /\ IInv' /\ PlacesInv /\ StackInv /\ BlocksInv /\ [Next]_vars
        => PlacesInv' /\ StackInv' /\ BlocksInv'
  <2> SUFFICES ASSUME IInv, IInv', PlacesInv, StackInv, BlocksInv, [Next]_vars
               PROVE  PlacesInv' /\ StackInv' /\ BlocksInv'
    OBVIOUS
  <2>1. PlacesInv' /\ StackInv'
    BY PlacesStep, StackStep
  <2>2. QED
    BY <2>1, BlocksStep
<1>3. BlocksInv => ContractsInOrder
  BY DEF BlocksInv
<1>4. QED
  BY <1>1, <1>2, <1>3, Invariance, PTL DEF Spec

-----------------------------------------------------------------------------
(* Which items have been visited.  A closure is gone once it is collected;   *)
(* functions out of the table are the item, or methods of closures that are  *)
(* gone, whose Fn method has been collected with them.                       *)

Gone == Closures \ type_decls

GoneForGood == \A c \in Gone : /\ Method(c, "Fn") \in transformed
                               /\ \A f \in Methods(c) : f \notin fun_decls /\ f # item
AbsentAreGone == \A f \in FunIds :
                   f \in fun_decls \/ f = item \/ \E c \in Gone : f \in Methods(c)
ToBeVisited == \A f \in FunIds : \/ f \in ToSet(todo)
                                  \/ (f = item /\ pass <= COLLECT)
                                  \/ f \in transformed
                                  \/ \E c \in Gone : f \in Methods(c)
ImplsHaveTypes == \A c \in Closures, t \in FnTraits :
                    <<c, t>> \in trait_impls => c \in type_decls
OfAProgram == \E p \in Programs : written = p.terms

ItemsInv == GoneForGood /\ AbsentAreGone /\ ToBeVisited /\ ImplsHaveTypes /\ OfAProgram

LEMMA InitItems == Init => ItemsInv
<1> SUFFICES ASSUME Init PROVE ItemsInv
  OBVIOUS
<1>1. PICK p \in Programs : terms = p.terms /\ todo = p.order
  BY DEF Init
<1>2. ToSet(todo) = FunIds
  BY <1>1, OrderAssumption
<1>3. /\ written = terms /\ Gone = {} /\ fun_decls = FunIds /\ type_decls = Closures
  BY DEF Init, Gone
<1>4. GoneForGood /\ AbsentAreGone /\ ToBeVisited
  BY <1>2, <1>3 DEF GoneForGood, AbsentAreGone, ToBeVisited
<1>5. ImplsHaveTypes /\ OfAProgram
  BY <1>1, <1>3 DEF ImplsHaveTypes, OfAProgram
<1>6. QED
  BY <1>4, <1>5 DEF ItemsInv

\* What there is to take out of a list: its head, and what is in its tail.
LEMMA HeadAndTail ==
    ASSUME NEW S, NEW s \in Seq(S), s # <<>>
    PROVE  ToSet(s) = {Head(s)} \union ToSet(Tail(s))
<1> DEFINE n == Len(s)
<1>1. /\ n \in Nat \ {0} /\ DOMAIN s = 1 .. n /\ DOMAIN Tail(s) = 1 .. n - 1
      /\ \A i \in 1 .. n - 1 : Tail(s)[i] = s[i + 1]
      /\ Head(s) = s[1]
  OBVIOUS
<1> HIDE DEF n
<1>2. \A i \in 1 .. n : i = 1 \/ (i - 1 \in 1 .. n - 1 /\ i = i - 1 + 1)
  BY <1>1
<1>3. \A i \in 1 .. n - 1 : i + 1 \in 1 .. n
  BY <1>1
<1>4. 1 \in 1 .. n
  BY <1>1
<1>5. \A x : (\E i \in 1 .. n : s[i] = x)
             <=> x = Head(s) \/ \E i \in 1 .. n - 1 : Tail(s)[i] = x
  BY <1>1, <1>2, <1>3, <1>4
<1>6. QED
  BY <1>1, <1>5 DEF ToSet

LEMMA ItemsStep ==
    ASSUME IInv, StackInv, ItemsInv, [Next]_vars
    PROVE  ItemsInv'
<1>0. /\ TypeOK /\ Seen /\ InBatch /\ None \notin FunIds
      /\ COLLECT \in Nat /\ LastPass \in Nat /\ 1 <= COLLECT /\ COLLECT <= LastPass
      /\ pass \in Nat
  BY NoneAssumption, PassNumbers DEF IInv, CallsOK, TypeOK
<1>1. CASE \/ UNCHANGED vars
           \/ PassBlock \/ CollectEntry \/ ReturnToCaller
  <2>1. UNCHANGED <<fun_decls, type_decls, trait_impls, todo, item, pass, transformed, written>>
    <3>1. CASE UNCHANGED vars
      BY <3>1 DEF vars, crate
    <3>2. CASE PassBlock
      BY <3>2 DEF PassBlock, crate
    <3>3. CASE CollectEntry
      BY <3>3 DEF CollectEntry, crate
    <3>4. CASE ReturnToCaller
      BY <3>4 DEF ReturnToCaller, crate
    <3>5. QED
      BY <1>1, <3>1, <3>2, <3>3, <3>4
  <2>2. QED
    BY <2>1 DEF ItemsInv, GoneForGood, AbsentAreGone, ToBeVisited, ImplsHaveTypes, OfAProgram,
                Gone
<1>2. CASE TakeItem
  <2>1. /\ item = None /\ todo # <<>> /\ Head(todo) \in fun_decls
        /\ item' = Head(todo) /\ todo' = Tail(todo) /\ pass' = 1
        /\ fun_decls' = fun_decls \ {Head(todo)}
        /\ UNCHANGED <<type_decls, trait_impls, transformed, written>>
    BY <1>2 DEF TakeItem
  <2>2. ToSet(todo) = {item'} \union ToSet(todo')
    BY <1>0, <2>1, HeadAndTail DEF TypeOK
  <2>3. GoneForGood'
    BY <2>1 DEF ItemsInv, GoneForGood, Gone
  <2>4. AbsentAreGone' /\ ImplsHaveTypes' /\ OfAProgram'
    BY <1>0, <2>1 DEF ItemsInv, AbsentAreGone, ImplsHaveTypes, OfAProgram, Gone
  <2>5. ToBeVisited'
    BY <1>0, <2>1, <2>2 DEF ItemsInv, ToBeVisited, Gone
  <2>6. QED
    BY <2>3, <2>4, <2>5 DEF ItemsInv
<1>3. CASE SkipItem
  <2>1. /\ item = None /\ todo # <<>> /\ Head(todo) \notin fun_decls
        /\ todo' = Tail(todo)
        /\ UNCHANGED <<fun_decls, type_decls, trait_impls, item, pass, transformed, written>>
    BY <1>3 DEF SkipItem, crate
  <2>2. ToSet(todo) = {Head(todo)} \union ToSet(todo') /\ Head(todo) \in FunIds
    BY <1>0, <2>1, HeadAndTail DEF TypeOK
  <2>3. \E c \in Gone : Head(todo) \in Methods(c)
    BY <1>0, <2>1, <2>2 DEF ItemsInv, AbsentAreGone
  <2>4. ToBeVisited'
    BY <2>1, <2>2, <2>3 DEF ItemsInv, ToBeVisited, Gone
  <2>5. QED
    BY <2>1, <2>4 DEF ItemsInv, GoneForGood, AbsentAreGone, ImplsHaveTypes, OfAProgram, Gone
<1>4. CASE RunPass
  <2>1. /\ pass # COLLECT /\ pass' = pass + 1
        /\ UNCHANGED <<fun_decls, type_decls, trait_impls, todo, item, transformed, written>>
    BY <1>4 DEF RunPass, crate
  <2>2. pass <= COLLECT => pass' <= COLLECT
    BY <1>0, <2>1
  <2>3. ToBeVisited'
    BY <2>1, <2>2 DEF ItemsInv, ToBeVisited, Gone, COLLECT
  <2>4. QED
    BY <2>1, <2>3 DEF ItemsInv, GoneForGood, AbsentAreGone, ImplsHaveTypes, OfAProgram, Gone
<1>5. CASE PutItemBack
  <2>1. /\ pass = LastPass + 1 /\ fun_decls' = fun_decls \union {item} /\ item # None
        /\ item' = None
        /\ UNCHANGED <<type_decls, trait_impls, todo, pass, transformed, written>>
    BY <1>5 DEF PutItemBack
  <2>2. ~(pass <= COLLECT)
    BY <1>0, <2>1
  <2>3. \A c \in Closures : \A f \in Methods(c) : f \in FunIds
    BY DEF Methods, Method, FunIds
  <2>4. GoneForGood'
    BY <1>0, <2>1, <2>3 DEF ItemsInv, GoneForGood, Gone
  <2>5. AbsentAreGone' /\ ImplsHaveTypes' /\ OfAProgram'
    BY <2>1 DEF ItemsInv, AbsentAreGone, ImplsHaveTypes, OfAProgram, Gone
  <2>6. ToBeVisited'
    BY <2>1, <2>2 DEF ItemsInv, ToBeVisited, Gone
  <2>7. QED
    BY <2>4, <2>5, <2>6 DEF ItemsInv
<1>6. CASE StartCollect
  <2>1. /\ transformed' = transformed \union {item}
        /\ UNCHANGED <<fun_decls, type_decls, trait_impls, todo, item, pass, written>>
    BY <1>6 DEF StartCollect, Enter, crate
  <2>2. QED
    BY <2>1 DEF ItemsInv, GoneForGood, AbsentAreGone, ToBeVisited, ImplsHaveTypes, OfAProgram,
                Gone, COLLECT
<1>7. CASE FinishCollect
  <2>1. /\ Len(frames) = 1 /\ pass' = pass + 1
        /\ UNCHANGED <<fun_decls, type_decls, trait_impls, todo, item, transformed, written>>
    BY <1>7 DEF FinishCollect, crate
  <2>2. frames # <<>> /\ 1 \in 1 .. Len(frames)
    BY <2>1
  <2>3. item \in transformed
    BY <1>0, <2>2 DEF StackInv, ItemAtBottom, Seen
  <2>4. ToBeVisited'
    <3> SUFFICES ASSUME NEW f \in FunIds,
                        ~(f \in ToSet(todo) \/ f \in transformed)
                 PROVE  \E c \in Gone : f \in Methods(c)
      BY <2>1 DEF ToBeVisited, Gone
    <3>1. f # item
      BY <2>3
    <3>2. QED
      BY <3>1 DEF ItemsInv, ToBeVisited
  <2>5. QED
    BY <2>1, <2>4 DEF ItemsInv, GoneForGood, AbsentAreGone, ImplsHaveTypes, OfAProgram, Gone
<1>8. CASE CollectClosure
  <2>1. PICK c : c = BlockOf(Top).closure
    OBVIOUS
  <2>2. /\ frames # <<>> /\ ~Finished(Top) /\ BlockOf(Top).kind \in SpecKinds
        /\ Methods(c) \subseteq fun_decls
        /\ type_decls' = type_decls \ {c}
        /\ trait_impls' = trait_impls \ Impls(c)
        /\ fun_decls' = fun_decls \ Methods(c)
        /\ transformed' = transformed \union {Method(c, "Fn")}
        /\ UNCHANGED <<todo, item, pass, written>>
    BY <1>8, <2>1 DEF CollectClosure, Enter
  <2>3. c \in Closures
    BY <1>0, <2>1, <2>2, TopFacts, TerminatorFields
  <2>4. item \notin fun_decls
    BY <1>0, NoneAssumption DEF TypeOK
  <2>5. Gone' = Gone \union {c}
    BY <2>2, <2>3 DEF Gone
  <2>6. GoneForGood'
    BY <2>2, <2>4, <2>5 DEF ItemsInv, GoneForGood
  <2>7. AbsentAreGone' /\ OfAProgram'
    BY <2>2, <2>5 DEF ItemsInv, AbsentAreGone, OfAProgram
  <2>8. ToBeVisited'
    BY <2>2, <2>5 DEF ItemsInv, ToBeVisited, COLLECT
  <2>9. ImplsHaveTypes'
    BY <2>2 DEF ItemsInv, ImplsHaveTypes, Impls
  <2>10. QED
    BY <2>6, <2>7, <2>8, <2>9 DEF ItemsInv
<1>9. QED
  BY <1>1, <1>2, <1>3, <1>4, <1>5, <1>6, <1>7, <1>8 DEF Next

\* At the end every body that contracts are written in has been dealt with to
\* its last block, so that every closure is gone.
LEMMA NothingLeft ==
    ASSUME IInv, StackInv, BlocksInv, ItemsInv
    PROVE  NoEncodingLeft
<1> SUFFICES ASSUME BatchDone
             PROVE  /\ type_decls = {} /\ trait_impls = {} /\ fun_decls \subseteq Hosts
                    /\ \A f \in FunIds : \A t \in ToSet(terms[f]) :
                           t.kind \notin SpecKinds \union {"entry"}
  BY DEF NoEncodingLeft
<1>0. TypeOK /\ None \notin FunIds /\ item = None /\ todo = <<>> /\ frames = <<>>
  BY NoneAssumption DEF IInv, CallsOK, InBatch, BatchDone
<1>1. PICK p \in Programs : written = p.terms
  BY DEF ItemsInv, OfAProgram
<1>2. DoneTold
  BY <1>0, DoneOf DEF StackInv
<1>3. \A f \in FunIds : /\ BlocksDone(f) = IF f \in transformed THEN Len(written[f]) ELSE 0
                        /\ Len(written[f]) \in Nat /\ Len(terms[f]) = Len(written[f])
                        /\ DOMAIN terms[f] = 1 .. Len(terms[f])
                        /\ DOMAIN written[f] = 1 .. Len(written[f])
  <2>1. 1 .. Len(frames) = {}
    BY <1>0
  <2>2. \A f \in FunIds : Len(terms[f]) = Len(written[f])
    BY DEF BlocksInv, SameLength
  <2>3. \A f \in FunIds : terms[f] \in Seq(Terminators) /\ written[f] \in Seq(Terminators)
    BY <1>0 DEF TypeOK
  <2>4. QED
    BY <1>2, <2>1, <2>2, <2>3 DEF DoneTold
<1>4. ToSet(todo) = {}
  BY <1>0 DEF ToSet
<1>5. \A f \in BodiesWritten : f \in FunIds /\ f \in transformed
  <2> SUFFICES ASSUME NEW f \in BodiesWritten PROVE f \in FunIds /\ f \in transformed
    OBVIOUS
  <2>1. f \in FunIds
    BY MethodIsFun DEF BodiesWritten, FunIds
  <2>2. ASSUME NEW c \in Gone, f \in Methods(c) PROVE f \in transformed
    <3>1. f = Method(c, "Fn")
      BY <2>2, HostsAssumption DEF BodiesWritten, Methods, Method, FnTraits, Gone
    <3>2. QED
      BY <3>1 DEF ItemsInv, GoneForGood
  <2>3. QED
    BY <1>0, <1>4, <2>1, <2>2 DEF ItemsInv, ToBeVisited
<1>6. type_decls = {}
  <2> SUFFICES ASSUME NEW c \in Closures PROVE c \notin type_decls
    BY <1>0 DEF TypeOK
  <2>1. PICK f \in BodiesWritten : \E i \in DOMAIN written[f] :
                written[f][i].kind \in SpecKinds /\ written[f][i].closure = c
    BY <1>1, WrittenAssumption DEF HandsOver
  <2>2. PICK i \in DOMAIN written[f] :
                written[f][i].kind \in SpecKinds /\ written[f][i].closure = c
    BY <2>1
  <2>3. f \in FunIds /\ i \in 1 .. Len(written[f]) /\ i <= BlocksDone(f)
    BY <1>3, <1>5, <2>2
  <2>4. QED
    BY <2>2, <2>3 DEF BlocksInv, DealtWith
<1>7. trait_impls = {}
  <2>1. trait_impls \subseteq Closures \X FnTraits
    BY <1>0 DEF TypeOK
  <2>2. \A x \in trait_impls : \E c \in Closures, t \in FnTraits : x = <<c, t>>
    BY <2>1
  <2>3. QED
    BY <1>6, <2>2 DEF ItemsInv, ImplsHaveTypes
<1>8. fun_decls \subseteq Hosts
  <2>1. \A c \in Closures : \A f \in Methods(c) : f \notin fun_decls
    BY <1>6 DEF ItemsInv, GoneForGood, Gone
  <2>2. \A f \in Closures \X FnTraits : \E c \in Closures : f \in Methods(c)
    BY DEF Methods, Method
  <2>3. QED
    BY <1>0, <2>1, <2>2 DEF TypeOK, FunIds
<1>9. ASSUME NEW f \in FunIds, NEW i \in 1 .. Len(written[f])
      PROVE  terms[f][i].kind \notin Encoding
  <2>1. CASE f \in transformed
    <3>1. i <= BlocksDone(f)
      BY <1>3, <2>1
    <3>2. QED
      BY <3>1 DEF BlocksInv, DealtWith
  <2>2. CASE f \notin transformed
    <3>1. f \notin BodiesWritten /\ BlocksDone(f) < i
      BY <1>3, <1>5, <2>2
    <3>2. terms[f][i] = written[f][i]
      BY <3>1 DEF BlocksInv, StillWritten
    <3>3. i \in DOMAIN written[f]
      BY <1>3
    <3>4. QED
      BY <1>1, <3>1, <3>2, <3>3, WrittenAssumption DEF Encoding
  <2>3. QED
    BY <2>1, <2>2
<1>10. \A f \in FunIds : \A t \in ToSet(terms[f]) : t.kind \notin SpecKinds \union {"entry"}
  BY <1>3, <1>9 DEF ToSet, Encoding
<1>11. QED
  BY <1>6, <1>7, <1>8, <1>10

\* In every crate, with any nesting and any order of the ids, the batch leaves
\* no item of a closure, no call of a builtin and no mark in front of one.
THEOREM EncodingRemoved == Spec => []NoEncodingLeft
<1>1. Init => PlacesInv /\ StackInv /\ BlocksInv /\ ItemsInv
  BY InitPlaces, InitBlocks, InitItems
<1>2. IInv /\ IInv' /\ PlacesInv /\ StackInv /\ BlocksInv /\ ItemsInv /\ [Next]_vars
        => PlacesInv' /\ StackInv' /\ BlocksInv' /\ ItemsInv'
  <2> SUFFICES ASSUME IInv, IInv', PlacesInv, StackInv, BlocksInv, ItemsInv, [Next]_vars
               PROVE  PlacesInv' /\ StackInv' /\ BlocksInv' /\ ItemsInv'
    OBVIOUS
  <2>1. PlacesInv' /\ StackInv' /\ ItemsInv'
    BY PlacesStep, StackStep, ItemsStep
  <2>2. QED
    BY <2>1, BlocksStep
<1>3. IInv /\ StackInv /\ BlocksInv /\ ItemsInv => NoEncodingLeft
  BY NothingLeft
<1>4. QED
  BY <1>1, <1>2, <1>3, Invariance, PTL DEF Spec

-----------------------------------------------------------------------------
(* The contracts under a function: those written in it, in these, and so on, *)
(* as the program has them before the batch                                  *)

Called(f) == {Method(c, "Fn") : c \in {d \in Closures :
                \E i \in DOMAIN written[f] : HandsOver(written[f][i], d)}}
HoldsCalled(S, h) == h \in S /\ \A f \in S : Called(f) \subseteq S
Under(h) == {g \in BodiesWritten : \A S \in SUBSET BodiesWritten : HoldsCalled(S, h) => g \in S}

LEMMA CalledAreMethods ==
    \A f : \A g \in Called(f) : /\ g \in BodiesWritten /\ g \notin Hosts
                              /\ \E c \in Closures : g = Method(c, "Fn")
<1> SUFFICES ASSUME NEW f, NEW g \in Called(f)
             PROVE  /\ g \in BodiesWritten /\ g \notin Hosts
                    /\ \E c \in Closures : g = Method(c, "Fn")
  OBVIOUS
<1>1. PICK c \in Closures : g = Method(c, "Fn")
  BY DEF Called
<1>2. g \in Closures \X FnTraits
  BY <1>1 DEF Method, FnTraits
<1>3. QED
  BY <1>1, <1>2, HostsAssumption DEF BodiesWritten

\* It is the least set that has the function and, with each body, what that calls.
LEMMA UnderFacts ==
    ASSUME NEW h \in Hosts
    PROVE  /\ Under(h) \subseteq BodiesWritten
           /\ HoldsCalled(Under(h), h)
           /\ \A S \in SUBSET BodiesWritten : HoldsCalled(S, h) => Under(h) \subseteq S
           /\ Under(h) \intersect Hosts = {h}
<1>1. h \in BodiesWritten
  BY DEF BodiesWritten
<1>2. HoldsCalled(Under(h), h)
  <2>1. h \in Under(h)
    BY <1>1 DEF Under, HoldsCalled
  <2>2. ASSUME NEW f \in Under(h), NEW g \in Called(f) PROVE g \in Under(h)
    <3> SUFFICES ASSUME NEW S \in SUBSET BodiesWritten, HoldsCalled(S, h) PROVE g \in S
      BY CalledAreMethods DEF Under
    <3>1. f \in S
      BY DEF Under
    <3>2. QED
      BY <3>1 DEF HoldsCalled
  <2>3. QED
    BY <2>1, <2>2 DEF HoldsCalled
<1>3. \A S \in SUBSET BodiesWritten : HoldsCalled(S, h) => Under(h) \subseteq S
  BY DEF Under
<1>4. Under(h) \intersect Hosts = {h}
  <2> DEFINE S == {h} \union (BodiesWritten \ Hosts)
  <2>1. S \in SUBSET BodiesWritten /\ HoldsCalled(S, h)
    BY <1>1, CalledAreMethods DEF HoldsCalled
  <2>2. Under(h) \subseteq S
    BY <1>3, <2>1
  <2>3. h \in Under(h)
    BY <1>2 DEF HoldsCalled
  <2>4. QED
    BY <2>2, <2>3
<1>5. QED
  BY <1>2, <1>3, <1>4 DEF Under

\* What a program's assumptions say of the bodies as they were written.
LEMMA WrittenFacts ==
    ASSUME OfAProgram
    PROVE  /\ \A f, g \in FunIds : \A x \in Called(f) : x \in Called(g) => f = g
           /\ \A c \in Closures : \E f \in BodiesWritten : Method(c, "Fn") \in Called(f)
           /\ \A c \in Closures : \A i \in DOMAIN written[Method(c, "Fn")] :
                 written[Method(c, "Fn")][i].kind \notin {"precondition", "postcondition"}
           /\ \A f \in FunIds : \A i \in DOMAIN written[f] : written[f][i].kind # "contract"
<1>1. PICK p \in Programs : written = p.terms
  BY DEF OfAProgram
<1>2. ASSUME NEW f \in FunIds, NEW g \in FunIds, NEW x, x \in Called(f), x \in Called(g)
      PROVE  f = g
  <2>1. PICK c \in Closures : /\ x = Method(c, "Fn")
                              /\ \E i \in DOMAIN written[f] : HandsOver(written[f][i], c)
    BY <1>2 DEF Called
  <2>2. PICK d \in Closures : /\ x = Method(d, "Fn")
                              /\ \E i \in DOMAIN written[g] : HandsOver(written[g][i], d)
    BY <1>2 DEF Called
  <2>3. c = d
    BY <2>1, <2>2 DEF Method
  <2>4. QED
    BY <1>1, <2>1, <2>2, <2>3, WrittenAssumption
<1>3. ASSUME NEW c \in Closures PROVE \E f \in BodiesWritten : Method(c, "Fn") \in Called(f)
  <2>1. PICK f \in BodiesWritten : \E i \in DOMAIN written[f] : HandsOver(written[f][i], c)
    BY <1>1, WrittenAssumption
  <2>2. QED
    BY <2>1 DEF Called
<1>4. \A c \in Closures : \A i \in DOMAIN written[Method(c, "Fn")] :
         written[Method(c, "Fn")][i].kind \notin {"precondition", "postcondition"}
  BY <1>1, WrittenAssumption
<1>5. \A f \in FunIds : \A i \in DOMAIN written[f] : written[f][i].kind # "contract"
  BY <1>1, ProgramsAssumption
<1>6. QED
  BY <1>2, <1>3, <1>4, <1>5

LEMMA BodiesAreFuns == BodiesWritten \subseteq FunIds
BY MethodIsFun DEF BodiesWritten, FunIds

\* A contract is under one function at most: what is under another one can be
\* taken away without a call that leads there.
LEMMA UnderOne ==
    ASSUME OfAProgram, NEW h \in Hosts, NEW k \in Hosts, h # k
    PROVE  Under(h) \intersect Under(k) = {}
<1> DEFINE S == Under(h) \ Under(k)
<1>1. h \in S
  BY UnderFacts DEF HoldsCalled
<1>2. ASSUME NEW f \in S, NEW g \in Called(f) PROVE g \in S
  <2>1. g \in Under(h) /\ f \in BodiesWritten /\ g \notin Hosts
    BY UnderFacts, CalledAreMethods DEF HoldsCalled
  <2>2. ASSUME g \in Under(k) PROVE FALSE
    <3> DEFINE T == Under(k) \ {g}
    <3>1. k \in T /\ T \in SUBSET BodiesWritten
      BY <2>1, UnderFacts DEF HoldsCalled
    <3>2. ASSUME NEW e \in T, NEW x \in Called(e) PROVE x \in T
      <4>1. x \in Under(k) /\ e \in BodiesWritten
        BY UnderFacts DEF HoldsCalled
      <4>2. x # g
        BY <2>1, <4>1, WrittenFacts, BodiesAreFuns
      <4>3. QED
        BY <4>1, <4>2
    <3>3. HoldsCalled(T, k)
      BY <3>1, <3>2 DEF HoldsCalled
    <3>4. QED
      BY <2>2, <3>1, <3>3, UnderFacts
  <2>3. QED
    BY <2>1, <2>2
<1>3. S \in SUBSET BodiesWritten /\ HoldsCalled(S, h)
  BY <1>1, <1>2, UnderFacts DEF HoldsCalled
<1>4. QED
  BY <1>3, UnderFacts

\* Every contract is under a function: the first in the order of ids that was
\* not would be called by one ahead of it that is not either.
LEMMA UnderSome ==
    ASSUME OfAProgram, NEW c \in Closures
    PROVE  \E h \in Hosts : Method(c, "Fn") \in Under(h)
<1>1. PICK p \in Programs : written = p.terms
  BY DEF OfAProgram
<1> DEFINE r == p.order
           Covered(f) == \E h \in Hosts : f \in Under(h)
           T == {k \in DOMAIN r : r[k] \in BodiesWritten /\ ~Covered(r[k])}
<1>2. /\ r \in Seq(FunIds) /\ ToSet(r) = FunIds
      /\ \A d \in Closures : \A f \in FunIds : \A i \in DOMAIN written[f] :
            HandsOver(written[f][i], d) =>
              \A k, l \in DOMAIN r : r[k] = f /\ r[l] \in Methods(d) => k < l
  BY <1>1, ProgramsAssumption, OrderAssumption
<1>3. \A f \in FunIds : \E k \in DOMAIN r : r[k] = f
  BY <1>2 DEF ToSet
<1>4. DOMAIN r \subseteq Nat
  BY <1>2
<1> HIDE DEF r
<1>5. SUFFICES ASSUME T # {} PROVE FALSE
  <2>1. Method(c, "Fn") \in BodiesWritten /\ Method(c, "Fn") \in FunIds
    BY MethodIsFun DEF BodiesWritten
  <2>2. PICK k \in DOMAIN r : r[k] = Method(c, "Fn")
    BY <1>3, <2>1
  <2>3. T = {} => Covered(Method(c, "Fn"))
    BY <2>1, <2>2
  <2>4. QED
    BY <2>3
<1>6. PICK n \in T : \A m \in T : n <= m
  BY <1>4, <1>5, LeastNumber
<1>7. n \in DOMAIN r /\ r[n] \in BodiesWritten /\ ~Covered(r[n])
  BY <1>6
<1>8. \A h \in Hosts : Covered(h)
  BY UnderFacts DEF HoldsCalled
<1>9. PICK d \in Closures : r[n] = Method(d, "Fn")
  BY <1>7, <1>8 DEF BodiesWritten
<1>10. PICK f \in BodiesWritten : Method(d, "Fn") \in Called(f)
  BY WrittenFacts
<1>11. ~Covered(f)
  BY <1>7, <1>9, <1>10, UnderFacts DEF HoldsCalled
<1>12. PICK k \in DOMAIN r : r[k] = f
  BY <1>3, BodiesAreFuns
<1>13. k < n
  <2>1. \E i \in DOMAIN written[f] : HandsOver(written[f][i], d)
    BY <1>10 DEF Called, Method
  <2>2. r[n] \in Methods(d)
    BY <1>9 DEF Methods, FnTraits
  <2>3. QED
    BY <1>2, <1>7, <1>12, <2>1, <2>2, BodiesAreFuns
<1>14. k \in T
  BY <1>11, <1>12
<1>15. QED
  BY <1>4, <1>6, <1>13, <1>14

-----------------------------------------------------------------------------
(* The items of the batch are functions: when a closure's turn comes, the    *)
(* body that hands it over has had its own, and the closure is gone.         *)

NoRepeats == \A k, l \in DOMAIN todo : todo[k] = todo[l] => k = l
CallersAhead == \A c \in Closures : \A f \in FunIds :
                  Method(c, "Fn") \in Called(f) =>
                    \A k, l \in DOMAIN todo : todo[k] = f /\ todo[l] \in Methods(c) => k < l
ItemPassed == item \notin ToSet(todo)
ItemIsHost == item \in Hosts \union {None}
HostsBegun == \A h \in Hosts : h \in transformed =>
                h \notin ToSet(todo) /\ (h = item => COLLECT <= pass)

HostsInv == NoRepeats /\ CallersAhead /\ ItemPassed /\ ItemIsHost /\ HostsBegun

LEMMA InitHosts == Init => HostsInv
<1> SUFFICES ASSUME Init PROVE HostsInv
  OBVIOUS
<1>1. PICK p \in Programs : terms = p.terms /\ todo = p.order
  BY DEF Init
<1>2. /\ written = terms /\ item = None /\ transformed = {}
  BY DEF Init
<1>3. NoRepeats
  BY <1>1, OrderAssumption DEF NoRepeats
<1>4. CallersAhead
  <2> SUFFICES ASSUME NEW c \in Closures, NEW f \in FunIds, Method(c, "Fn") \in Called(f)
               PROVE  \A k, l \in DOMAIN todo : todo[k] = f /\ todo[l] \in Methods(c) => k < l
    BY DEF CallersAhead
  <2>1. \E i \in DOMAIN written[f] : HandsOver(written[f][i], c)
    BY DEF Called, Method
  <2>2. QED
    BY <1>1, <1>2, <2>1, OrderAssumption
<1>5. ItemPassed
  BY <1>1, <1>2, NoneAssumption, OrderAssumption DEF ItemPassed
<1>6. QED
  BY <1>2, <1>3, <1>4, <1>5 DEF HostsInv, ItemIsHost, HostsBegun

\* Between two collections, a body that was seen has been dealt with.
LEMMA SeenIsDone ==
    ASSUME TypeOK, StackInv, BlocksInv, frames = <<>>, NEW f \in FunIds
    PROVE  /\ Len(written[f]) \in Nat /\ DOMAIN written[f] = 1 .. Len(written[f])
           /\ BlocksDone(f) = IF f \in transformed THEN Len(written[f]) ELSE 0
           /\ f \in transformed =>
                \A c \in Closures : Method(c, "Fn") \in Called(f) => c \in Gone
<1>1. DoneTold
  BY DoneOf DEF StackInv
<1>2. /\ DOMAIN written[f] = 1 .. Len(written[f]) /\ Len(written[f]) \in Nat
  <2>1. written[f] \in Seq(Terminators)
    BY DEF TypeOK
  <2>2. QED
    BY <2>1
<1>3. BlocksDone(f) = IF f \in transformed THEN Len(written[f]) ELSE 0
  <2>1. 1 .. Len(frames) = {}
    OBVIOUS
  <2>2. QED
    BY <1>1, <2>1 DEF DoneTold
<1>4. ASSUME f \in transformed, NEW c \in Closures, Method(c, "Fn") \in Called(f)
      PROVE  c \in Gone
  <2>1. PICK i \in DOMAIN written[f] : HandsOver(written[f][i], c)
    BY <1>4 DEF Called, Method
  <2>2. i \in 1 .. Len(written[f]) /\ i <= BlocksDone(f)
    BY <1>2, <1>3, <1>4, <2>1
  <2>3. c \notin type_decls
    BY <2>1, <2>2 DEF BlocksInv, DealtWith, HandsOver
  <2>4. QED
    BY <2>3 DEF Gone
<1>5. QED
  BY <1>2, <1>3, <1>4

\* The body that hands a closure over has been seen, when it is not to come,
\* and the closure is gone with it.
LEMMA CallerDone ==
    ASSUME IInv, StackInv, BlocksInv, ItemsInv, frames = <<>>,
           NEW f \in BodiesWritten, f \notin ToSet(todo), f = item => COLLECT < pass
    PROVE  /\ f \in transformed
           /\ \A c \in Closures : Method(c, "Fn") \in Called(f) => c \in Gone
<1>0. TypeOK
  BY DEF IInv
<1>1. f \in FunIds
  BY BodiesAreFuns
<1>2. f \in transformed
  <2>1. f = item => ~(pass <= COLLECT)
    BY PassNumbers, <1>0 DEF TypeOK
  <2>2. CASE \E d \in Gone : f \in Methods(d)
    <3>1. PICK d \in Gone : f \in Methods(d)
      BY <2>2
    <3>2. f = Method(d, "Fn")
      BY <3>1, HostsAssumption DEF BodiesWritten, Methods, Method, FnTraits, Gone
    <3>3. QED
      BY <3>1, <3>2 DEF ItemsInv, GoneForGood
  <2>3. QED
    BY <1>1, <2>1, <2>2 DEF ItemsInv, ToBeVisited
<1>3. QED
  BY <1>0, <1>1, <1>2, SeenIsDone

\* The list of ids goes on.
LEMMA TodoGoesOn ==
    ASSUME TypeOK, HostsInv, todo # <<>>, todo' = Tail(todo), UNCHANGED written
    PROVE  /\ NoRepeats' /\ CallersAhead'
           /\ ToSet(todo) = {Head(todo)} \union ToSet(todo')
           /\ Head(todo) \notin ToSet(todo')
           /\ Head(todo) \in FunIds
           /\ 1 \in DOMAIN todo /\ todo[1] = Head(todo)
<1> DEFINE n == Len(todo)
<1>1. todo \in Seq(FunIds)
  BY DEF TypeOK
<1>2. /\ n \in Nat \ {0} /\ DOMAIN todo = 1 .. n /\ DOMAIN todo' = 1 .. n - 1
      /\ \A i \in 1 .. n - 1 : todo'[i] = todo[i + 1]
      /\ Head(todo) = todo[1] /\ Head(todo) \in FunIds
  BY <1>1
<1> HIDE DEF n
<1>3. \A i \in DOMAIN todo' : i \in Nat /\ i + 1 \in DOMAIN todo /\ i + 1 # 1 /\ todo'[i] = todo[i + 1]
  BY <1>2
<1>4. NoRepeats'
  <2> SUFFICES ASSUME NEW k \in DOMAIN todo', NEW l \in DOMAIN todo', todo'[k] = todo'[l]
               PROVE  k = l
    BY DEF NoRepeats
  <2>1. k + 1 = l + 1
    BY <1>3 DEF HostsInv, NoRepeats
  <2>2. QED
    BY <1>3, <2>1
<1>5. CallersAhead'
  <2> SUFFICES ASSUME NEW c \in Closures, NEW f \in FunIds, Method(c, "Fn") \in Called(f)',
                      NEW k \in DOMAIN todo', NEW l \in DOMAIN todo',
                      todo'[k] = f, todo'[l] \in Methods(c)
               PROVE  k < l
    BY DEF CallersAhead
  <2>1. Method(c, "Fn") \in Called(f)
    BY DEF Called
  <2>2. k + 1 < l + 1
    BY <1>3, <2>1 DEF HostsInv, CallersAhead
  <2>3. QED
    BY <1>3, <2>2
<1>6. 1 \in DOMAIN todo
  BY <1>2
<1>7. \A i \in DOMAIN todo' : todo'[i] # Head(todo)
  BY <1>2, <1>3, <1>6 DEF HostsInv, NoRepeats
<1>8. Head(todo) \notin ToSet(todo')
  BY <1>7 DEF ToSet
<1>9. QED
  BY <1>1, <1>2, <1>4, <1>5, <1>6, <1>8, HeadAndTail

\* A function whose turn comes is not a closure's.
LEMMA TakenIsHost ==
    ASSUME IInv, StackInv, BlocksInv, ItemsInv, HostsInv, item = None, todo # <<>>,
           Head(todo) \in fun_decls
    PROVE  Head(todo) \in Hosts
<1>0. TypeOK /\ frames = <<>> /\ None \notin FunIds
  BY NoneAssumption DEF IInv, CallsOK, InBatch
<1>1. todo \in Seq(FunIds)
  BY <1>0 DEF TypeOK
<1>2. 1 \in DOMAIN todo /\ todo[1] = Head(todo) /\ Head(todo) \in FunIds /\ DOMAIN todo \subseteq Nat \ {0}
  BY <1>1
<1> SUFFICES ASSUME NEW c \in Closures, NEW t \in FnTraits, Head(todo) = <<c, t>> PROVE FALSE
  BY <1>2 DEF FunIds
<1>3. Head(todo) \in Methods(c)
  BY DEF Methods, Method
<1>4. PICK f \in BodiesWritten : Method(c, "Fn") \in Called(f)
  BY WrittenFacts DEF ItemsInv
<1>5. f \in FunIds /\ f # item
  BY <1>0, <1>4, BodiesAreFuns
<1>6. f \notin ToSet(todo)
  <2> SUFFICES ASSUME NEW k \in DOMAIN todo, todo[k] = f PROVE FALSE
    BY DEF ToSet
  <2>1. k < 1
    BY <1>2, <1>3, <1>4, <1>5 DEF HostsInv, CallersAhead
  <2>2. QED
    BY <1>2, <2>1
<1>7. c \in Gone
  BY <1>0, <1>4, <1>5, <1>6, CallerDone
<1>8. QED
  BY <1>3, <1>7 DEF ItemsInv, GoneForGood

LEMMA HostsStep ==
    ASSUME IInv, StackInv, BlocksInv, ItemsInv, HostsInv, [Next]_vars
    PROVE  HostsInv'
<1>0. /\ TypeOK /\ InBatch /\ pass \in Nat /\ COLLECT \in Nat /\ None \notin FunIds
      /\ Hosts \subseteq FunIds
  BY NoneAssumption, PassNumbers DEF IInv, CallsOK, TypeOK, FunIds
<1>1. CASE \/ UNCHANGED vars
           \/ PassBlock \/ CollectEntry \/ ReturnToCaller
  <2>1. UNCHANGED <<todo, item, pass, transformed, written>>
    <3>1. CASE UNCHANGED vars
      BY <3>1 DEF vars
    <3>2. CASE PassBlock
      BY <3>2 DEF PassBlock
    <3>3. CASE CollectEntry
      BY <3>3 DEF CollectEntry
    <3>4. CASE ReturnToCaller
      BY <3>4 DEF ReturnToCaller
    <3>5. QED
      BY <1>1, <3>1, <3>2, <3>3, <3>4
  <2>2. QED
    BY <2>1 DEF HostsInv, NoRepeats, CallersAhead, ItemPassed, ItemIsHost, HostsBegun, Called,
                COLLECT
<1>2. CASE TakeItem
  <2>1. /\ item = None /\ todo # <<>> /\ Head(todo) \in fun_decls
        /\ item' = Head(todo) /\ todo' = Tail(todo)
        /\ UNCHANGED <<transformed, written>>
    BY <1>2 DEF TakeItem
  <2>2. /\ NoRepeats' /\ CallersAhead' /\ ToSet(todo) = {item'} \union ToSet(todo')
        /\ item' \notin ToSet(todo')
    BY <1>0, <2>1, TodoGoesOn
  <2>3. item' \in Hosts
    BY <2>1, TakenIsHost
  <2>4. HostsBegun'
    BY <2>1, <2>2 DEF HostsInv, HostsBegun
  <2>5. QED
    BY <2>2, <2>3, <2>4 DEF HostsInv, ItemPassed, ItemIsHost
<1>3. CASE SkipItem
  <2>1. /\ item = None /\ todo # <<>> /\ todo' = Tail(todo)
        /\ UNCHANGED <<item, pass, transformed, written>>
    BY <1>3 DEF SkipItem
  <2>2. NoRepeats' /\ CallersAhead' /\ ToSet(todo) = {Head(todo)} \union ToSet(todo')
    BY <1>0, <2>1, TodoGoesOn
  <2>3. HostsBegun' /\ ItemPassed' /\ ItemIsHost'
    BY <2>1, <2>2 DEF HostsInv, HostsBegun, ItemPassed, ItemIsHost, COLLECT
  <2>4. QED
    BY <2>2, <2>3 DEF HostsInv
<1>4. CASE RunPass \/ FinishCollect
  <2>1. pass' = pass + 1 /\ UNCHANGED <<todo, item, transformed, written>>
    BY <1>4 DEF RunPass, FinishCollect
  <2>2. COLLECT <= pass => COLLECT <= pass'
    BY <1>0, <2>1
  <2>3. HostsBegun'
    BY <2>1, <2>2 DEF HostsInv, HostsBegun, COLLECT
  <2>4. QED
    BY <2>1, <2>3 DEF HostsInv, NoRepeats, CallersAhead, ItemPassed, ItemIsHost, Called
<1>5. CASE PutItemBack
  <2>1. item' = None /\ UNCHANGED <<todo, transformed, written>>
    BY <1>5 DEF PutItemBack
  <2>2. None \notin ToSet(todo)
    BY <1>0 DEF ToSet, TypeOK
  <2>3. HostsBegun'
    BY <1>0, <2>1 DEF HostsInv, HostsBegun
  <2>4. QED
    BY <2>1, <2>2, <2>3 DEF HostsInv, NoRepeats, CallersAhead, ItemPassed, ItemIsHost, Called
<1>6. CASE StartCollect
  <2>1. /\ transformed' = transformed \union {item} /\ pass = COLLECT
        /\ UNCHANGED <<todo, item, pass, written>>
    BY <1>6 DEF StartCollect, Enter
  <2>2. HostsBegun'
    BY <1>0, <2>1 DEF HostsInv, HostsBegun, ItemPassed, COLLECT
  <2>3. QED
    BY <2>1, <2>2 DEF HostsInv, NoRepeats, CallersAhead, ItemPassed, ItemIsHost, Called
<1>7. CASE CollectClosure
  <2>1. PICK c : c = BlockOf(Top).closure
    OBVIOUS
  <2>2. /\ frames # <<>> /\ ~Finished(Top) /\ BlockOf(Top).kind \in SpecKinds
        /\ transformed' = transformed \union {Method(c, "Fn")}
        /\ UNCHANGED <<todo, item, pass, written>>
    BY <1>7, <2>1 DEF CollectClosure, Enter
  <2>3. c \in Closures
    BY <1>0, <2>1, <2>2, TopFacts, TerminatorFields
  <2>4. Method(c, "Fn") \notin Hosts
    BY <2>3, HostsAssumption DEF Method, FnTraits
  <2>5. HostsBegun'
    BY <2>2, <2>4 DEF HostsInv, HostsBegun, COLLECT
  <2>6. QED
    BY <2>2, <2>5 DEF HostsInv, NoRepeats, CallersAhead, ItemPassed, ItemIsHost, Called
<1>8. QED
  BY <1>1, <1>2, <1>3, <1>4, <1>5, <1>6, <1>7 DEF Next

-----------------------------------------------------------------------------
(* What the passes visit of a function: itself before the collection, and    *)
(* behind it all the contracts under it.                                     *)

\* Between two collections, the lists and the table hold closures that the
\* function hands over, and all of them when it has been seen.
HoldsBodies(f) == CarriedBy(f) \union ToSet(preconditions[f]) \union ToSet(postconditions[f])

LEMMA HeldAreCalled ==
    ASSUME TypeOK, StackInv, BlocksInv, frames = <<>>, NEW f \in FunIds
    PROVE  /\ HoldsBodies(f) \subseteq Called(f)
           /\ f \notin transformed => HoldsBodies(f) = {}
           /\ f \in transformed => Called(f) \subseteq HoldsBodies(f)
<1> DEFINE n == Len(written[f])
<1>1. /\ written[f] \in Seq(Terminators) /\ terms[f] \in Seq(Terminators)
      /\ preconditions[f] \in Seq(FunIds) /\ postconditions[f] \in Seq(FunIds)
  BY DEF TypeOK
<1>2. /\ n \in Nat /\ DOMAIN written[f] = 1 .. n /\ DOMAIN terms[f] = 1 .. n
      /\ \A i \in 1 .. n : written[f][i] \in Terminators
  BY <1>1 DEF BlocksInv, SameLength
<1>3. BlocksDone(f) = IF f \in transformed THEN n ELSE 0
  BY SeenIsDone
<1>4. /\ HoldsInOrder(preconditions[f], f, "precondition", BlocksDone(f))
      /\ HoldsInOrder(postconditions[f], f, "postcondition", BlocksDone(f))
  BY DEF BlocksInv, ContractsInOrder
<1>5. \A i \in 1 .. n :
        /\ terms[f][i].kind = "contract"
             <=> i <= BlocksDone(f) /\ written[f][i].kind \in {"contract_assert", "quant"}
        /\ terms[f][i].kind = "contract" => RefersTo(terms[f][i], written[f][i])
  BY DEF BlocksInv, CarriedInPlace
<1> HIDE DEF n
<1>6. ASSUME NEW i \in 1 .. n, written[f][i].kind \in SpecKinds
      PROVE  Method(written[f][i].closure, "Fn") \in Called(f)
  BY <1>2, <1>6, TerminatorFields DEF Called, HandsOver
<1>7. ASSUME NEW t \in ToSet(terms[f]), t.kind = "contract"
      PROVE  spec_closures[t.spec_closure_id] \in Called(f) /\ f \in transformed
  <2>1. PICK i \in 1 .. n : t = terms[f][i]
    BY <1>2 DEF ToSet
  <2>2. /\ i <= BlocksDone(f)
        /\ written[f][i].kind \in SpecKinds
        /\ spec_closures[t.spec_closure_id] = Method(written[f][i].closure, "Fn")
    BY <1>5, <1>7, <2>1 DEF RefersTo, SpecKinds
  <2>3. f \in transformed
    BY <1>3, <2>2
  <2>4. QED
    BY <1>6, <2>2, <2>3
<1>8. ASSUME NEW list, NEW kind \in SpecKinds, HoldsInOrder(list, f, kind, BlocksDone(f)),
             NEW x \in ToSet(list)
      PROVE  x \in Called(f) /\ f \in transformed
  <2>1. PICK at \in [DOMAIN list -> Calling(f, kind, BlocksDone(f))] :
          \A j \in DOMAIN list : list[j] = Method(written[f][at[j]].closure, "Fn")
    BY <1>8 DEF HoldsInOrder
  <2>2. PICK j \in DOMAIN list : x = list[j]
    BY <1>8 DEF ToSet
  <2>3. at[j] \in 1 .. BlocksDone(f) /\ written[f][at[j]].kind = kind
    BY <2>1 DEF Calling
  <2>4. at[j] \in 1 .. n /\ f \in transformed
    BY <1>3, <2>3
  <2>5. QED
    BY <1>6, <2>1, <2>2, <2>3, <2>4
<1>9. ASSUME f \in transformed, NEW x \in Called(f) PROVE x \in HoldsBodies(f)
  <2>1. PICK c \in Closures, i \in 1 .. n : x = Method(c, "Fn") /\ HandsOver(written[f][i], c)
    BY <1>2 DEF Called
  <2>2. i \in 1 .. BlocksDone(f) /\ written[f][i].closure = c
    BY <1>3, <1>9, <2>1 DEF HandsOver
  <2>3. ASSUME NEW list, NEW kind, HoldsInOrder(list, f, kind, BlocksDone(f)),
               written[f][i].kind = kind
        PROVE  x \in ToSet(list)
    <3>1. PICK at \in [DOMAIN list -> Calling(f, kind, BlocksDone(f))] :
            /\ \A m \in Calling(f, kind, BlocksDone(f)) : \E j \in DOMAIN list : at[j] = m
            /\ \A j \in DOMAIN list : list[j] = Method(written[f][at[j]].closure, "Fn")
      BY <2>3 DEF HoldsInOrder
    <3>2. i \in Calling(f, kind, BlocksDone(f))
      BY <2>2, <2>3 DEF Calling
    <3>3. PICK j \in DOMAIN list : at[j] = i
      BY <3>1, <3>2
    <3>4. list[j] = x
      BY <2>1, <2>2, <3>1, <3>3
    <3>5. QED
      BY <3>4 DEF ToSet
  <2>4. CASE written[f][i].kind \in {"precondition", "postcondition"}
    BY <1>4, <2>3, <2>4 DEF HoldsBodies
  <2>5. CASE written[f][i].kind \in {"contract_assert", "quant"}
    <3>1. terms[f][i].kind = "contract" /\ RefersTo(terms[f][i], written[f][i])
      BY <1>5, <2>2, <2>5
    <3>2. terms[f][i] \in ToSet(terms[f])
      BY <1>2 DEF ToSet
    <3>3. x \in CarriedBy(f)
      BY <2>1, <2>2, <3>1, <3>2 DEF CarriedBy, RefersTo
    <3>4. QED
      BY <3>3 DEF HoldsBodies
  <2>6. QED
    BY <2>1, <2>4, <2>5 DEF HandsOver, SpecKinds
<1>10. CarriedBy(f) \subseteq Called(f) /\ (f \notin transformed => CarriedBy(f) = {})
  BY <1>7 DEF CarriedBy
<1>11. /\ ToSet(preconditions[f]) \union ToSet(postconditions[f]) \subseteq Called(f)
       /\ f \notin transformed => /\ ToSet(preconditions[f]) = {}
                                 /\ ToSet(postconditions[f]) = {}
  BY <1>4, <1>8 DEF SpecKinds
<1>12. QED
  BY <1>9, <1>10, <1>11 DEF HoldsBodies

\* The lists of a closure are empty: none is called from it but by reference.
LEMMA ClosuresHaveNoLists ==
    ASSUME TypeOK, StackInv, BlocksInv, OfAProgram, frames = <<>>, NEW c \in Closures
    PROVE  LET f == Method(c, "Fn")
           IN  ToSet(preconditions[f]) = {} /\ ToSet(postconditions[f]) = {}
<1>1. PICK f : f = Method(c, "Fn")
  OBVIOUS
<1>2. f \in FunIds
  BY <1>1, MethodIsFun
<1>3. /\ DOMAIN written[f] = 1 .. Len(written[f]) /\ Len(written[f]) \in Nat
      /\ BlocksDone(f) = IF f \in transformed THEN Len(written[f]) ELSE 0
  BY <1>2, SeenIsDone
<1>4. \A i \in DOMAIN written[f] : written[f][i].kind \notin {"precondition", "postcondition"}
  BY <1>1, WrittenFacts
<1>5. \A i \in 1 .. BlocksDone(f) : i \in DOMAIN written[f]
  BY <1>3
<1>6. ASSUME NEW list, NEW kind \in {"precondition", "postcondition"},
             HoldsInOrder(list, f, kind, BlocksDone(f))
      PROVE  ToSet(list) = {}
  <2>1. Calling(f, kind, BlocksDone(f)) = {}
    BY <1>4, <1>5 DEF Calling
  <2>2. \E at \in [DOMAIN list -> Calling(f, kind, BlocksDone(f))] : TRUE
    BY <1>6 DEF HoldsInOrder
  <2>3. DOMAIN list = {}
    BY <2>1, <2>2
  <2>4. QED
    BY <2>3 DEF ToSet
<1>7. /\ HoldsInOrder(preconditions[f], f, "precondition", BlocksDone(f))
      /\ HoldsInOrder(postconditions[f], f, "postcondition", BlocksDone(f))
  BY <1>2 DEF BlocksInv, ContractsInOrder
<1>8. QED
  BY <1>1, <1>6, <1>7

LEMMA BodiesBefore ==
    ASSUME TypeOK, StackInv, BlocksInv, frames = <<>>, NEW h \in Hosts, h \notin transformed
    PROVE  BodiesVisited(h) = {h}
<1>1. h \in FunIds /\ h \in BodiesWritten
  BY DEF FunIds, BodiesWritten
<1>2. HoldsBodies(h) = {}
  BY <1>1, HeldAreCalled
<1>3. HoldsBodiesOf({h}, h)
  BY <1>2 DEF HoldsBodiesOf, HoldsBodies
<1>4. BodiesVisited(h) \subseteq {h}
  BY <1>1, <1>3 DEF BodiesVisited
<1>5. h \in BodiesVisited(h)
  BY DEF BodiesVisited, HoldsBodiesOf
<1>6. QED
  BY <1>4, <1>5

\* What is under a function that was seen has been seen with it.
LEMMA SeenUnder ==
    ASSUME TypeOK, StackInv, BlocksInv, ItemsInv, frames = <<>>, NEW h \in Hosts,
           h \in transformed
    PROVE  Under(h) \subseteq transformed
<1> DEFINE D == BodiesWritten \intersect transformed
<1>1. h \in D
  BY DEF BodiesWritten
<1>2. ASSUME NEW f \in D, NEW g \in Called(f) PROVE g \in D
  <2>1. PICK c \in Closures : g = Method(c, "Fn")
    BY CalledAreMethods
  <2>2. f \in FunIds
    BY BodiesAreFuns
  <2>3. c \in Gone
    BY <2>1, <2>2, SeenIsDone
  <2>4. g \in transformed
    BY <2>1, <2>3 DEF ItemsInv, GoneForGood
  <2>5. QED
    BY <2>4, CalledAreMethods
<1>3. D \in SUBSET BodiesWritten /\ HoldsCalled(D, h)
  BY <1>1, <1>2 DEF HoldsCalled
<1>4. QED
  BY <1>3, UnderFacts

LEMMA BodiesAfter ==
    ASSUME TypeOK, StackInv, BlocksInv, ItemsInv, frames = <<>>, NEW h \in Hosts,
           h \in transformed
    PROVE  BodiesVisited(h) = Under(h)
<1>1. h \in FunIds /\ h \in BodiesWritten /\ BodiesWritten \union {h} = BodiesWritten
  BY DEF FunIds, BodiesWritten
<1>2. h \in Under(h) /\ \A f \in Under(h) : f \in FunIds /\ Called(f) \subseteq Under(h)
  BY UnderFacts, BodiesAreFuns DEF HoldsCalled
<1>3. BodiesVisited(h) \subseteq Under(h)
  <2>1. \A f \in Under(h) : HoldsBodies(f) \subseteq Under(h)
    BY <1>2, HeldAreCalled
  <2>2. HoldsBodiesOf(Under(h), h)
    BY <1>2, <2>1 DEF HoldsBodiesOf, HoldsBodies
  <2>3. QED
    BY <1>1, <2>2, UnderFacts DEF BodiesVisited
<1>4. Under(h) \subseteq BodiesVisited(h)
  <2> SUFFICES ASSUME NEW S \in SUBSET BodiesWritten, HoldsBodiesOf(S, h)
               PROVE  Under(h) \subseteq S
    BY <1>1, UnderFacts DEF BodiesVisited
  <2> DEFINE T == S \intersect Under(h)
  <2>1. h \in T
    BY <1>2 DEF HoldsBodiesOf
  <2>2. ASSUME NEW f \in T, NEW g \in Called(f) PROVE g \in T
    <3>1. f \in transformed
      BY SeenUnder
    <3>2. g \in HoldsBodies(f)
      BY <1>2, <3>1, HeldAreCalled
    <3>3. CASE f = h
      <4>1. HoldsBodies(h) \subseteq S
        BY <2>1 DEF HoldsBodiesOf, HoldsBodies
      <4>2. QED
        BY <1>2, <3>2, <3>3, <4>1
    <3>4. CASE f # h
      <4>1. f \notin Hosts /\ f \in BodiesWritten
        BY <3>4, UnderFacts
      <4>2. PICK c \in Closures : f = Method(c, "Fn")
        BY <4>1 DEF BodiesWritten
      <4>3. g \in CarriedBy(f)
        BY <3>2, <4>2, ClosuresHaveNoLists DEF HoldsBodies, ItemsInv
      <4>4. g \in S
        BY <4>3 DEF HoldsBodiesOf
      <4>5. QED
        BY <1>2, <4>4
    <3>5. QED
      BY <3>3, <3>4
  <2>3. T \in SUBSET BodiesWritten /\ HoldsCalled(T, h)
    BY <2>1, <2>2 DEF HoldsCalled
  <2>4. QED
    BY <2>3, UnderFacts
<1>5. QED
  BY <1>3, <1>4

-----------------------------------------------------------------------------
(* The logs: how many passes have run on a function, and under it, from where *)
(* the batch has come to.                                                     *)

RanOn(n) == [k \in 1 .. n |-> IF k < COLLECT THEN k ELSE k + 1]
RanUnder(n) == [k \in 1 .. n |-> COLLECT + k]
PassesOn(h) == IF h \in ToSet(todo) THEN 0
               ELSE IF h # item THEN PassesBefore + PassesAfter
               ELSE IF pass <= COLLECT THEN pass - 1 ELSE pass - 2
PassesUnder(h) == IF h \in ToSet(todo) THEN 0
                  ELSE IF h # item THEN PassesAfter
                  ELSE IF pass <= COLLECT THEN 0 ELSE pass - COLLECT - 1

LogsInv == \A h \in Hosts : /\ applied[h] = RanOn(PassesOn(h))
                            /\ \A f \in Under(h) \ {h} : applied[f] = RanUnder(PassesUnder(h))

LEMMA RanOneMore ==
    ASSUME NEW n \in Nat
    PROVE  /\ Append(RanOn(n), IF n + 1 < COLLECT THEN n + 1 ELSE n + 2) = RanOn(n + 1)
           /\ Append(RanUnder(n), COLLECT + (n + 1)) = RanUnder(n + 1)
<1>1. COLLECT \in Nat
  BY PassNumbers
<1>2. ASSUME NEW m \in Nat,
             NEW s \in Seq(Nat), NEW t \in Seq(Nat), Len(s) = m, Len(t) = m + 1,
             \A k \in 1 .. m : s[k] = t[k]
      PROVE  Append(s, t[m + 1]) = t
  <2>1. PICK x : x = t[m + 1]
    OBVIOUS
  <2>2. x \in Nat
    BY <1>2, <2>1
  <2>3. /\ Append(s, x) \in Seq(Nat) /\ Len(Append(s, x)) = m + 1
        /\ \A k \in 1 .. m : Append(s, x)[k] = s[k]
        /\ Append(s, x)[m + 1] = x
    BY <1>2, <2>2
  <2>4. \A k \in 1 .. m + 1 : k \in 1 .. m \/ k = m + 1
    OBVIOUS
  <2>5. \A k \in 1 .. m + 1 : Append(s, x)[k] = t[k]
    BY <1>2, <2>1, <2>3, <2>4
  <2>6. QED
    BY <1>2, <2>1, <2>3, <2>5
<1>3. /\ RanOn(n) \in Seq(Nat) /\ RanOn(n + 1) \in Seq(Nat)
      /\ Len(RanOn(n)) = n /\ Len(RanOn(n + 1)) = n + 1
      /\ RanUnder(n) \in Seq(Nat) /\ RanUnder(n + 1) \in Seq(Nat)
      /\ Len(RanUnder(n)) = n /\ Len(RanUnder(n + 1)) = n + 1
  BY <1>1 DEF RanOn, RanUnder
<1>4. /\ \A k \in 1 .. n : RanOn(n)[k] = RanOn(n + 1)[k]
      /\ \A k \in 1 .. n : RanUnder(n)[k] = RanUnder(n + 1)[k]
      /\ RanOn(n + 1)[n + 1] = IF n + 1 < COLLECT THEN n + 1 ELSE n + 2
      /\ RanUnder(n + 1)[n + 1] = COLLECT + (n + 1)
  BY <1>1 DEF RanOn, RanUnder
<1>5. /\ Append(RanOn(n), RanOn(n + 1)[n + 1]) = RanOn(n + 1)
      /\ Append(RanUnder(n), RanUnder(n + 1)[n + 1]) = RanUnder(n + 1)
  BY <1>2, <1>3, <1>4
<1>6. QED
  BY <1>4, <1>5

LEMMA InitLogs == Init => LogsInv
<1> SUFFICES ASSUME Init, NEW h \in Hosts
             PROVE  /\ applied[h] = RanOn(PassesOn(h))
                    /\ \A f \in Under(h) \ {h} : applied[f] = RanUnder(PassesUnder(h))
  BY DEF LogsInv
<1>1. PICK p \in Programs : todo = p.order
  BY DEF Init
<1>2. h \in ToSet(todo) /\ \A f \in FunIds : applied[f] = <<>>
  BY <1>1, OrderAssumption DEF Init, FunIds
<1>3. PassesOn(h) = 0 /\ PassesUnder(h) = 0
  BY <1>2 DEF PassesOn, PassesUnder
<1>4. RanOn(0) = <<>> /\ RanUnder(0) = <<>>
  BY DEF RanOn, RanUnder
<1>5. h \in FunIds /\ Under(h) \subseteq FunIds
  BY UnderFacts, BodiesAreFuns DEF FunIds
<1>6. QED
  BY <1>2, <1>3, <1>4, <1>5

\* What is under a function is the program's.
LEMMA UnderStays == UNCHANGED written => \A h \in Hosts : Under(h)' = Under(h)
BY DEF Under, HoldsCalled, Called

\* The logs, when none grows.
LEMMA LogsKept ==
    ASSUME LogsInv, UNCHANGED <<written, applied>>,
           \A h \in Hosts : PassesOn(h)' = PassesOn(h) /\ PassesUnder(h)' = PassesUnder(h)
    PROVE  LogsInv'
<1> SUFFICES ASSUME NEW h \in Hosts
             PROVE  /\ applied'[h] = RanOn(PassesOn(h)')
                    /\ \A f \in Under(h)' \ {h} : applied'[f] = RanUnder(PassesUnder(h)')
  BY DEF LogsInv, RanOn, RanUnder, COLLECT
<1>1. Under(h)' = Under(h)
  BY UnderStays
<1>2. QED
  BY <1>1 DEF LogsInv

\* A pass in front of the collection runs on the function alone, one behind it
\* on the function and on all that is under it.
LEMMA RunPassLogs ==
    ASSUME IInv, StackInv, BlocksInv, ItemsInv, HostsInv, LogsInv, RunPass
    PROVE  LogsInv'
<1>0. /\ TypeOK /\ frames = <<>> /\ pass \in Nat \ {0} /\ COLLECT \in Nat \ {0}
      /\ UNCHANGED <<todo, item, written>> /\ pass' = pass + 1
      /\ pass # COLLECT /\ item \in Hosts /\ item \in FunIds
      /\ item \notin ToSet(todo)
  <2>1. COLLECT \in Nat \ {0} /\ LastPass \in Nat
    BY PassNumbers
  <2>2. frames = <<>>
    BY OutsideCollection
  <2>3. pass \in Nat \ {0} /\ TypeOK
    BY <2>1 DEF IInv, TypeOK
  <2>4. QED
    BY <2>1, <2>2, <2>3 DEF RunPass, HostsInv, ItemIsHost, ItemPassed, FunIds
<1>1. applied' = [f \in FunIds |-> IF f \in BodiesVisited(item) THEN Append(applied[f], pass)
                                   ELSE applied[f]]
  BY DEF RunPass
<1>2. \A h \in Hosts : /\ h \in FunIds /\ h \in Under(h) /\ Under(h) \subseteq FunIds
                       /\ Under(h) \intersect Hosts = {h}
  BY UnderFacts, BodiesAreFuns DEF FunIds, HoldsCalled
<1> SUFFICES ASSUME NEW h \in Hosts
             PROVE  /\ applied'[h] = RanOn(PassesOn(h)')
                    /\ \A f \in Under(h)' \ {h} : applied'[f] = RanUnder(PassesUnder(h)')
  BY DEF LogsInv, RanOn, RanUnder, COLLECT
<1>3. Under(h)' = Under(h)
  BY <1>0, UnderStays
<1>4. /\ applied[h] = RanOn(PassesOn(h))
      /\ \A f \in Under(h) \ {h} : applied[f] = RanUnder(PassesUnder(h))
  BY DEF LogsInv
<1>5. BodiesVisited(item) = IF pass < COLLECT THEN {item} ELSE Under(item)
  <2>1. CASE pass < COLLECT
    <3>1. item \notin transformed
      BY <1>0, <2>1 DEF HostsInv, HostsBegun
    <3>2. QED
      BY <1>0, <2>1, <3>1, BodiesBefore DEF IInv
  <2>2. CASE ~(pass < COLLECT)
    <3>1. ~(pass <= COLLECT)
      BY <1>0, <2>2
    <3>2. \A c \in Gone : item \notin Methods(c)
      BY <1>0, HostsAssumption DEF Methods, Method, FnTraits, Gone
    <3>3. item \in transformed
      BY <1>0, <3>1, <3>2 DEF ItemsInv, ToBeVisited
    <3>4. QED
      BY <1>0, <2>2, <3>3, BodiesAfter
  <2>3. QED
    BY <2>1, <2>2
<1>6. CASE h # item
  <2>1. PassesOn(h)' = PassesOn(h) /\ PassesUnder(h)' = PassesUnder(h)
    BY <1>0, <1>6 DEF PassesOn, PassesUnder
  <2>2. ASSUME NEW f \in Under(h), f \in BodiesVisited(item) PROVE FALSE
    <3>1. f \in Under(item)
      BY <1>0, <1>2, <1>5, <2>2
    <3>2. Under(item) \intersect Under(h) = {}
      BY <1>0, <1>6, UnderOne DEF ItemsInv
    <3>3. QED
      BY <2>2, <3>1, <3>2
  <2>3. \A f \in Under(h) : applied'[f] = applied[f]
    BY <1>1, <1>2, <2>2
  <2>4. QED
    BY <1>2, <1>3, <1>4, <2>1, <2>3
<1>7. CASE h = item
  <2>1. item \in BodiesVisited(item)
    BY <1>0, <1>2, <1>5
  <2>2. applied'[item] = Append(applied[item], pass)
    BY <1>0, <1>1, <2>1
  <2>3. CASE pass < COLLECT
    <3>1. /\ PassesOn(item) = pass - 1 /\ PassesOn(item)' = pass - 1 + 1
          /\ PassesUnder(item) = 0 /\ PassesUnder(item)' = 0
      <4>1. COLLECT' = COLLECT
        BY DEF COLLECT
      <4>2. QED
        BY <1>0, <2>3, <4>1 DEF PassesOn, PassesUnder
    <3>2. pass = IF pass - 1 + 1 < COLLECT THEN pass - 1 + 1 ELSE pass - 1 + 2
      BY <1>0, <2>3
    <3>3. applied'[item] = RanOn(PassesOn(item)')
      <4>1. pass - 1 \in Nat
        BY <1>0
      <4>2. QED
        BY <1>4, <1>7, <2>2, <3>1, <3>2, <4>1, RanOneMore
    <3>4. \A f \in Under(item) \ {item} : applied'[f] = applied[f]
      BY <1>0, <1>1, <1>2, <1>5, <2>3
    <3>5. QED
      BY <1>0, <1>3, <1>4, <1>7, <3>1, <3>3, <3>4
  <2>4. CASE COLLECT < pass
    <3>1. /\ PassesOn(item) = pass - 2 /\ PassesOn(item)' = pass - 2 + 1
          /\ PassesUnder(item) = pass - COLLECT - 1
          /\ PassesUnder(item)' = pass - COLLECT - 1 + 1
      <4>1. COLLECT' = COLLECT
        BY DEF COLLECT
      <4>2. QED
        BY <1>0, <2>4, <4>1 DEF PassesOn, PassesUnder
    <3>2. /\ pass = IF pass - 2 + 1 < COLLECT THEN pass - 2 + 1 ELSE pass - 2 + 2
          /\ pass = COLLECT + (pass - COLLECT - 1 + 1)
          /\ pass - 2 \in Nat /\ pass - COLLECT - 1 \in Nat
      BY <1>0, <2>4
    <3>3. applied'[item] = RanOn(PassesOn(item)')
      BY <1>4, <1>7, <2>2, <3>1, <3>2, RanOneMore
    <3>4. \A f \in Under(item) \ {item} : applied'[f] = Append(applied[f], pass)
      BY <1>0, <1>1, <1>2, <1>5, <2>4
    <3>5. \A f \in Under(item) \ {item} : applied'[f] = RanUnder(PassesUnder(item)')
      BY <1>4, <1>7, <3>1, <3>2, <3>4, RanOneMore
    <3>6. QED
      BY <1>0, <1>3, <1>7, <3>3, <3>5
  <2>5. QED
    BY <1>0, <2>3, <2>4
<1>8. QED
  BY <1>6, <1>7

LEMMA LogsStep ==
    ASSUME IInv, StackInv, BlocksInv, ItemsInv, HostsInv, LogsInv, [Next]_vars
    PROVE  LogsInv'
<1>0. /\ TypeOK /\ pass \in Nat /\ COLLECT \in Nat \ {0} /\ COLLECT' = COLLECT
      /\ None \notin FunIds /\ Hosts \subseteq FunIds
      /\ PassesBefore \in Nat /\ PassesAfter \in Nat
  <2>1. COLLECT \in Nat \ {0} /\ LastPass \in Nat
    BY PassNumbers
  <2>2. TypeOK /\ pass \in Nat
    BY <2>1 DEF IInv, TypeOK
  <2>3. QED
    BY <2>1, <2>2, NoneAssumption, PassesAssumption DEF COLLECT, FunIds
<1>1. CASE \/ UNCHANGED vars
           \/ StartCollect \/ PassBlock \/ CollectEntry \/ CollectClosure \/ ReturnToCaller
  <2>1. UNCHANGED <<todo, item, pass, written, applied>>
    <3>1. CASE UNCHANGED vars
      BY <3>1 DEF vars
    <3>2. CASE PassBlock
      BY <3>2 DEF PassBlock
    <3>3. CASE CollectEntry
      BY <3>3 DEF CollectEntry
    <3>4. CASE ReturnToCaller
      BY <3>4 DEF ReturnToCaller
    <3>5. CASE StartCollect
      BY <3>5 DEF StartCollect
    <3>6. CASE CollectClosure
      BY <3>6 DEF CollectClosure
    <3>7. QED
      BY <1>1, <3>1, <3>2, <3>3, <3>4, <3>5, <3>6
  <2>2. QED
    BY <1>0, <2>1, LogsKept DEF PassesOn, PassesUnder
<1>2. CASE TakeItem
  <2>1. /\ item = None /\ todo # <<>> /\ Head(todo) \in fun_decls
        /\ item' = Head(todo) /\ todo' = Tail(todo) /\ pass' = 1
        /\ UNCHANGED <<written, applied>>
    BY <1>2 DEF TakeItem
  <2>2. ToSet(todo) = {item'} \union ToSet(todo') /\ item' \notin ToSet(todo')
    BY <1>0, <2>1, TodoGoesOn
  <2>3. ASSUME NEW h \in Hosts
        PROVE  PassesOn(h)' = PassesOn(h) /\ PassesUnder(h)' = PassesUnder(h)
    <3>1. h # item
      BY <1>0, <2>1
    <3>2. CASE h = item'
      BY <1>0, <2>1, <2>2, <3>1, <3>2 DEF PassesOn, PassesUnder
    <3>3. CASE h # item'
      BY <2>2, <3>1, <3>3 DEF PassesOn, PassesUnder
    <3>4. QED
      BY <3>2, <3>3
  <2>4. QED
    BY <2>1, <2>3, LogsKept
<1>3. CASE SkipItem
  <2>1. /\ item = None /\ todo # <<>> /\ Head(todo) \notin fun_decls /\ todo' = Tail(todo)
        /\ UNCHANGED <<item, pass, written, applied>>
    BY <1>3 DEF SkipItem
  <2>2. ToSet(todo) = {Head(todo)} \union ToSet(todo') /\ Head(todo) \in FunIds
    BY <1>0, <2>1, TodoGoesOn
  <2>3. Head(todo) \notin Hosts
    <3>1. PICK c \in Gone : Head(todo) \in Methods(c)
      BY <1>0, <2>1, <2>2 DEF ItemsInv, AbsentAreGone
    <3>2. QED
      BY <3>1, HostsAssumption DEF Methods, Method, FnTraits, Gone
  <2>4. \A h \in Hosts : PassesOn(h)' = PassesOn(h) /\ PassesUnder(h)' = PassesUnder(h)
    BY <1>0, <2>1, <2>2, <2>3 DEF PassesOn, PassesUnder
  <2>5. QED
    BY <2>1, <2>4, LogsKept
<1>4. CASE RunPass
  BY <1>4, RunPassLogs
<1>5. CASE FinishCollect
  <2>1. /\ pass' = pass + 1 /\ UNCHANGED <<todo, item, written, applied>>
        /\ frames # <<>>
    BY <1>5 DEF FinishCollect
  <2>2. pass = COLLECT
    BY <2>1 DEF IInv, CallsOK, InBatch
  <2>3. \A h \in Hosts : PassesOn(h)' = PassesOn(h) /\ PassesUnder(h)' = PassesUnder(h)
    BY <1>0, <2>1, <2>2 DEF PassesOn, PassesUnder
  <2>4. QED
    BY <2>1, <2>3, LogsKept
<1>6. CASE PutItemBack
  <2>1. /\ pass = LastPass + 1 /\ item' = None /\ UNCHANGED <<todo, pass, written, applied>>
    BY <1>6 DEF PutItemBack
  <2>2. item \notin ToSet(todo)
    BY DEF HostsInv, ItemPassed
  <2>3. /\ ~(pass <= COLLECT) /\ pass - 2 = PassesBefore + PassesAfter
        /\ pass - COLLECT - 1 = PassesAfter
    BY <1>0, <2>1 DEF LastPass, COLLECT
  <2>4. ASSUME NEW h \in Hosts
        PROVE  PassesOn(h)' = PassesOn(h) /\ PassesUnder(h)' = PassesUnder(h)
    <3>1. h # item'
      BY <1>0, <2>1
    <3>2. CASE h = item
      BY <1>0, <2>1, <2>2, <2>3, <3>1, <3>2 DEF PassesOn, PassesUnder
    <3>3. CASE h # item
      BY <2>1, <3>1, <3>3 DEF PassesOn, PassesUnder
    <3>4. QED
      BY <3>2, <3>3
  <2>5. QED
    BY <2>1, <2>4, LogsKept
<1>7. QED
  BY <1>1, <1>2, <1>3, <1>4, <1>5, <1>6 DEF Next

LEMMA AllLogged ==
    ASSUME IInv, ItemsInv, LogsInv
    PROVE  CleanupReachesEveryBody
<1> SUFFICES ASSUME BatchDone
             PROVE  /\ \A f \in Hosts : applied[f] = RanOn(PassesBefore + PassesAfter)
                    /\ \A c \in Closures : applied[Method(c, "Fn")] = RanUnder(PassesAfter)
  BY DEF CleanupReachesEveryBody, RanOn, RanUnder
<1>1. \A h \in Hosts : PassesOn(h) = PassesBefore + PassesAfter /\ PassesUnder(h) = PassesAfter
  <2>1. \A h \in Hosts : h # item
    BY NoneAssumption DEF BatchDone, FunIds
  <2>2. ToSet(todo) = {}
    BY DEF BatchDone, ToSet
  <2>3. QED
    BY <2>1, <2>2 DEF PassesOn, PassesUnder
<1>2. \A h \in Hosts : applied[h] = RanOn(PassesBefore + PassesAfter)
  BY <1>1 DEF LogsInv
<1>3. ASSUME NEW c \in Closures PROVE applied[Method(c, "Fn")] = RanUnder(PassesAfter)
  <2>1. PICK h \in Hosts : Method(c, "Fn") \in Under(h)
    BY UnderSome DEF ItemsInv
  <2>2. Method(c, "Fn") # h
    BY HostsAssumption DEF Method, FnTraits
  <2>3. QED
    BY <1>1, <2>1, <2>2 DEF LogsInv
<1>4. QED
  BY <1>2, <1>3

\* In every crate, whatever the nesting of its contracts and the order of the
\* ids, each pass but the collection runs on each function once, in order, and
\* on each contract exactly those behind the collection.
THEOREM CleanupReached == Spec => []CleanupReachesEveryBody
<1>1. Init => PlacesInv /\ StackInv /\ BlocksInv /\ ItemsInv /\ HostsInv /\ LogsInv
  BY InitPlaces, InitBlocks, InitItems, InitHosts, InitLogs
<1>2. IInv /\ IInv' /\ PlacesInv /\ StackInv /\ BlocksInv /\ ItemsInv /\ HostsInv /\ LogsInv
        /\ [Next]_vars
        => PlacesInv' /\ StackInv' /\ BlocksInv' /\ ItemsInv' /\ HostsInv' /\ LogsInv'
  <2> SUFFICES ASSUME IInv, IInv', PlacesInv, StackInv, BlocksInv, ItemsInv, HostsInv, LogsInv,
                      [Next]_vars
               PROVE  PlacesInv' /\ StackInv' /\ BlocksInv' /\ ItemsInv' /\ HostsInv' /\ LogsInv'
    OBVIOUS
  <2>1. PlacesInv' /\ StackInv' /\ ItemsInv'
    BY PlacesStep, StackStep, ItemsStep
  <2>2. BlocksInv'
    BY <2>1, BlocksStep
  <2>3. HostsInv' /\ LogsInv'
    BY HostsStep, LogsStep
  <2>4. QED
    BY <2>1, <2>2, <2>3
<1>3. IInv /\ ItemsInv /\ LogsInv => CleanupReachesEveryBody
  BY AllLogged
<1>4. QED
  BY <1>1, <1>2, <1>3, Invariance, PTL DEF Spec

-----------------------------------------------------------------------------
(* The way to name_map: the collection of invariants keeps what is proved of *)
(* the batch, and each body that it moves has a type for an owner.           *)

\* A type whose implementation is still to come has no invariants yet, so
\* that the assignment of its list takes no body from its owner.
TablesOK ==
    /\ impls \in Seq([type : Types, method : Hosts])
    /\ \A i, j \in 1 .. Len(impls) : i # j => impls[i].type # impls[j].type
    /\ \A i \in 1 .. Len(impls) : invariants[impls[i].type] = <<>>
    /\ spec_bodies \in Seq(Hosts)
    /\ invariants \in [Types -> Seq(Nat)]
    /\ SpecBodiesOwned

NamesInv == IInv /\ TablesOK

\* The state that the invariant of the batch is about does not change.
LEMMA BatchUntouched ==
    ASSUME IInv,
           UNCHANGED <<type_decls, trait_impls, todo, item, pass, frames, transformed,
                       terms, specs, written, applied>>,
           fun_decls' \subseteq fun_decls
    PROVE  IInv'
<1>1. TypeOK'
  BY DEF specs, IInv, TypeOK
<1>2. CallsOK'
  BY DEF specs, IInv, CallsOK, Waiting, Seen, Different, InBatch, Finished, BlockOf
<1>3. SpecClosuresReferencedOnce'
  BY DEF specs, IInv, SpecClosuresReferencedOnce
<1>4. QED
  BY <1>1, <1>2, <1>3 DEF IInv

\* The elements of a sequence.
LEMMA ElementOf == ASSUME NEW S, NEW s \in Seq(S), NEW i \in 1 .. Len(s) PROVE s[i] \in S
  OBVIOUS

\* The tail of a sequence, by its elements.
LEMMA TailOf == ASSUME NEW S, NEW s \in Seq(S), s # <<>>
                PROVE  /\ Head(s) = s[1] /\ s[1] \in S
                       /\ Tail(s) \in Seq(S)
                       /\ Len(Tail(s)) = Len(s) - 1
                       /\ \A i \in 1 .. Len(s) - 1 : Tail(s)[i] = s[i + 1]
  OBVIOUS

\* An element more at the end of a sequence.
LEMMA AppendTo == ASSUME NEW S, NEW s \in Seq(S), NEW e \in S
                  PROVE  /\ Append(s, e) \in Seq(S)
                         /\ DOMAIN Append(s, e) = 1 .. Len(s) + 1
                         /\ DOMAIN s = 1 .. Len(s)
                         /\ Len(s) \in Nat
  OBVIOUS

LEMMA TablesStep == ASSUME NamesInv, CollectInvariant PROVE TablesOK'
<1> DEFINE Impl == [type : Types, method : Hosts]
           impl == Head(impls)
           id == Len(spec_bodies) + 1
<1>0. /\ impls \in Seq(Impl) /\ impls # <<>> /\ impls' = Tail(impls)
      /\ spec_bodies' = Append(spec_bodies, impl.method)
      /\ invariants' = [invariants EXCEPT ![impl.type] = <<id>>]
  BY DEF NamesInv, TablesOK, CollectInvariant
<1>a. /\ impl = impls[1] /\ impls[1] \in Impl /\ Len(impls) \in Nat
      /\ impls' \in Seq(Impl)
      /\ Len(impls') = Len(impls) - 1
      /\ \A i \in 1 .. Len(impls) - 1 : impls'[i] = impls[i + 1]
  <2> HIDE DEF Impl
  <2>1. Len(impls) \in Nat
    BY <1>0
  <2>2. QED
    BY <1>0, <2>1, TailOf
<1>1. /\ impl = impls[1] /\ impl.type \in Types /\ impl.method \in Hosts
      /\ impls' \in Seq(Impl)
      /\ Len(impls') = Len(impls) - 1 /\ Len(impls) \in Nat
      /\ \A i \in 1 .. Len(impls') : impls'[i] = impls[i + 1] /\ i + 1 \in 1 .. Len(impls)
  BY <1>a
<1>2. 1 \in 1 .. Len(impls)
  BY <1>0, <1>1
<1>b. \A i, j \in 1 .. Len(impls) : i # j => impls[i].type # impls[j].type
  BY DEF NamesInv, TablesOK
<1>3. invariants[impl.type] = <<>>
  BY <1>1, <1>2 DEF NamesInv, TablesOK
<1>4. /\ spec_bodies' \in Seq(Hosts)
      /\ DOMAIN spec_bodies' = DOMAIN spec_bodies \union {id} /\ id \in Nat
  <2>1. spec_bodies \in Seq(Hosts)
    BY DEF NamesInv, TablesOK
  <2>2. QED
    BY <1>0, <1>1, <2>1, AppendTo
<1>5. /\ invariants' \in [Types -> Seq(Nat)]
      /\ invariants'[impl.type] = <<id>>
      /\ \A t \in Types : t # impl.type => invariants'[t] = invariants[t]
  <2>1. invariants \in [Types -> Seq(Nat)] /\ <<id>> \in Seq(Nat)
    BY <1>4 DEF NamesInv, TablesOK
  <2>2. QED
    BY <1>0, <1>1, <2>1
<1>6. \A i, j \in 1 .. Len(impls') : i # j => impls'[i].type # impls'[j].type
  <2> SUFFICES ASSUME NEW i \in 1 .. Len(impls'), NEW j \in 1 .. Len(impls'), i # j
               PROVE  impls'[i].type # impls'[j].type
    OBVIOUS
  <2>1. i + 1 \in 1 .. Len(impls) /\ j + 1 \in 1 .. Len(impls) /\ i + 1 # j + 1
    BY <1>1
  <2>2. impls[i + 1].type # impls[j + 1].type
    BY <2>1, <1>b
  <2>3. QED
    BY <1>1, <2>2
<1>7. \A i \in 1 .. Len(impls') : invariants'[impls'[i].type] = <<>>
  <2> SUFFICES ASSUME NEW i \in 1 .. Len(impls')
               PROVE  invariants'[impls'[i].type] = <<>>
    OBVIOUS
  <2>1. impls'[i] = impls[i + 1] /\ i + 1 \in 1 .. Len(impls) /\ i + 1 # 1
    BY <1>1
  <2>2. impls[i + 1].type # impl.type /\ impls[i + 1].type \in Types
    <3>1. impls[i + 1].type # impls[1].type
      BY <1>2, <1>b, <2>1
    <3>2. impls[i + 1].type \in Types
      <4>1. impls[i + 1] \in Impl
        <5> HIDE DEF Impl
        <5>1. QED
          BY <1>0, <2>1, ElementOf
      <4>2. QED
        BY <4>1
    <3>3. QED
      BY <1>1, <3>1, <3>2
  <2>3. invariants[impls[i + 1].type] = <<>>
    BY <2>1 DEF NamesInv, TablesOK
  <2>4. QED
    BY <1>5, <2>1, <2>2, <2>3
<1>8. SpecBodiesOwned'
  <2> SUFFICES ASSUME NEW k \in DOMAIN spec_bodies'
               PROVE  \E t \in Types : invariants'[t] = <<k>>
    BY DEF SpecBodiesOwned
  <2>1. CASE k = id
    BY <1>1, <1>5, <2>1
  <2>2. CASE k \in DOMAIN spec_bodies
    <3>1. PICK t \in Types : invariants[t] = <<k>>
      BY <2>2 DEF NamesInv, TablesOK, SpecBodiesOwned
    <3>2. t # impl.type
      <4>1. <<k>> # <<>>
        OBVIOUS
      <4>2. QED
        BY <1>3, <3>1, <4>1
    <3>3. QED
      BY <1>5, <3>1, <3>2
  <2>3. QED
    BY <1>4, <2>1, <2>2
<1>9. QED
  BY <1>1, <1>4, <1>5, <1>6, <1>7, <1>8 DEF TablesOK

\* In every crate, from the batch to name_map, the bodies that were collected
\* have an owner: an entry of the table of spec closures is referred to by
\* exactly one terminator, one of the table of invariants is in a type's list.
THEOREM NamesInvariance == NamesSpec => []NamesInv
<1>1. NamesInit => NamesInv
  <2> SUFFICES ASSUME NamesInit PROVE NamesInv
    OBVIOUS
  <2>1. IInv
    BY InitInv DEF NamesInit
  <2>2. impls \in Seq([type : Types, method : Hosts])
        /\ \A i, j \in 1 .. Len(impls) : i # j => impls[i].type # impls[j].type
    <3>1. /\ impls \in Seq([type : Types, method : Hosts])
          /\ \A i, j \in DOMAIN impls : i # j => impls[i].type # impls[j].type
      BY ImplsAssumption DEF NamesInit
    <3>2. DOMAIN impls = 1 .. Len(impls)
      BY <3>1
    <3>3. QED
      BY <3>1, <3>2
  <2>3. \A i \in 1 .. Len(impls) : impls[i].type \in Types
    <3> SUFFICES ASSUME NEW i \in 1 .. Len(impls) PROVE impls[i].type \in Types
      OBVIOUS
    <3> DEFINE Impl == [type : Types, method : Hosts]
    <3>0. impls \in Seq(Impl)
      BY <2>2
    <3>1. impls[i] \in Impl
      <4> HIDE DEF Impl
      <4>1. QED
        BY <3>0, ElementOf
    <3>2. QED
      BY <3>1
  <2>4. QED
    BY <2>1, <2>2, <2>3 DEF NamesInit, NamesInv, TablesOK, SpecBodiesOwned
<1>2. NamesInv /\ [NamesNext]_allVars => NamesInv'
  <2> SUFFICES ASSUME NamesInv, [NamesNext]_allVars PROVE NamesInv'
    OBVIOUS
  <2> DEFINE Same == UNCHANGED tables
  <2>1. Same => TablesOK'
    BY DEF NamesInv, TablesOK, tables, SpecBodiesOwned
  <2>2. UNCHANGED vars => IInv'
    BY BatchUntouched DEF NamesInv, vars, crate
  <2>3. CASE RunBatch
    <3>1. IInv'
      BY <2>3, TypeStep, CallsStep, ReferencesStep DEF NamesInv, IInv, RunBatch
    <3>2. QED
      BY <2>1, <2>3, <3>1 DEF NamesInv, RunBatch
  <2>4. CASE EndBatch \/ BuildNames \/ UNCHANGED allVars
    BY <2>1, <2>2, <2>4 DEF NamesInv, EndBatch, BuildNames, allVars
  <2>5. CASE CollectInvariant
    <3>1. IInv'
      <4>1. UNCHANGED <<type_decls, trait_impls, todo, item, pass, frames, transformed,
                        terms, specs, written, applied>>
            /\ fun_decls' \subseteq fun_decls
        BY <2>5 DEF CollectInvariant
      <4>2. QED
        BY <4>1, BatchUntouched DEF NamesInv
    <3>2. QED
      BY <2>5, <3>1, TablesStep DEF NamesInv
  <2>6. QED
    BY <2>3, <2>4, <2>5 DEF NamesNext
<1>3. QED
  BY <1>1, <1>2, PTL DEF NamesSpec

\* In every crate each entry of the table of spec closures is referred to by
\* exactly one terminator, also when the invariants of types were collected.
THEOREM ReferencedOnceWhenNamed == NamesSpec => []SpecClosuresReferencedOnce
<1>1. NamesInv => SpecClosuresReferencedOnce
  BY DEF NamesInv, IInv
<1>2. QED
  BY <1>1, NamesInvariance, PTL

\* In every crate each body of an invariant is in the list of a type, which is
\* where name_map looks for it.
THEOREM InvariantsHaveOwners == NamesSpec => []SpecBodiesOwned
<1>1. NamesInv => SpecBodiesOwned
  BY DEF NamesInv, TablesOK
<1>2. QED
  BY <1>1, NamesInvariance, PTL

-----------------------------------------------------------------------------
(* How deep the bodies of a program are nested *)

\* Functions are at depth 0, and what a body calls is one deeper than it is.
DepthsOK(depth) ==
    /\ depth \in [BodiesWritten -> 0 .. Cardinality(Closures)]
    /\ \A h \in Hosts : depth[h] = 0
    /\ \A g \in BodiesWritten : \A f \in Called(g) : depth[f] = depth[g] + 1

\* The layers of bodies: the functions, what they call, what that calls.
Layers(L) == /\ L \in [Nat -> SUBSET BodiesWritten]
             /\ L[0] = Hosts
             /\ \A n \in Nat : L[n + 1] = UNION {Called(g) : g \in L[n]}

LEMMA LayersExist == \E L : Layers(L)
<1> PICK step : step = [S \in SUBSET BodiesWritten |-> UNION {Called(g) : g \in S}]
  OBVIOUS
<1>1. Hosts \in SUBSET BodiesWritten
  BY DEF BodiesWritten
<1>2. step \in [SUBSET BodiesWritten -> SUBSET BodiesWritten]
  <2>1. ASSUME NEW S \in SUBSET BodiesWritten
        PROVE  UNION {Called(g) : g \in S} \in SUBSET BodiesWritten
    BY CalledAreMethods
  <2>2. QED
    BY <2>1
<1>3. PICK L : Iterated(L, SUBSET BodiesWritten, Hosts, step)
  BY <1>1, <1>2, Iterates, Zenon
<1>4. /\ L \in [Nat -> SUBSET BodiesWritten] /\ L[0] = Hosts
      /\ \A n \in Nat : L[n + 1] = step[L[n]]
  BY <1>3 DEF Iterated
<1>5. \A n \in Nat : L[n + 1] = UNION {Called(g) : g \in L[n]}
  BY <1>4
<1>6. QED
  BY <1>4, <1>5 DEF Layers

\* Every body is in a layer,
LEMMA SomeLayer ==
    ASSUME OfAProgram, NEW L, Layers(L), NEW f \in BodiesWritten
    PROVE  \E n \in Nat : f \in L[n]
<1> DEFINE S == {g \in BodiesWritten : \E n \in Nat : g \in L[n]}
<1>1. \A h \in Hosts : h \in S
  BY DEF Layers, BodiesWritten
<1>2. ASSUME NEW g \in S, NEW x \in Called(g) PROVE x \in S
  <2>1. PICK n \in Nat : g \in L[n]
    OBVIOUS
  <2>2. x \in L[n + 1] /\ n + 1 \in Nat
    BY <2>1 DEF Layers
  <2>3. QED
    BY <2>2, CalledAreMethods
<1>3. \A h \in Hosts : Under(h) \subseteq S
  <2> SUFFICES ASSUME NEW h \in Hosts PROVE Under(h) \subseteq S
    OBVIOUS
  <2>1. S \in SUBSET BodiesWritten /\ HoldsCalled(S, h)
    BY <1>1, <1>2 DEF HoldsCalled
  <2> HIDE DEF S
  <2>2. QED
    BY <2>1, UnderFacts
<1>4. CASE f \in Hosts
  BY <1>1, <1>4
<1>5. CASE f \notin Hosts
  <2>1. PICK c \in Closures : f = Method(c, "Fn")
    BY <1>5 DEF BodiesWritten
  <2>2. PICK h \in Hosts : f \in Under(h)
    BY <2>1, UnderSome
  <2>3. QED
    BY <1>3, <2>2
<1>6. QED
  BY <1>4, <1>5

\* and in one only: what calls it is in the layer before.
LEMMA LayerBefore ==
    ASSUME NEW L, Layers(L), NEW n \in Nat, NEW f \in L[n], f \notin Hosts
    PROVE  n # 0 /\ n - 1 \in Nat /\ \E g \in L[n - 1] : f \in Called(g)
<1>1. n # 0 /\ n - 1 \in Nat /\ (n - 1) + 1 = n
  BY DEF Layers
<1>2. L[n] = UNION {Called(g) : g \in L[n - 1]}
  BY <1>1 DEF Layers
<1>3. QED
  BY <1>1, <1>2

LEMMA OneLayer ==
    ASSUME OfAProgram, NEW L, Layers(L), NEW m \in Nat, NEW n \in Nat,
           NEW f, f \in L[m], f \in L[n]
    PROVE  m = n
<1> DEFINE T == {k \in Nat : \E l \in Nat : \E g \in BodiesWritten :
                               g \in L[k] /\ g \in L[l] /\ k # l}
<1>1. SUFFICES ASSUME T # {} PROVE FALSE
  <2>1. f \in BodiesWritten
    BY DEF Layers
  <2>2. QED
    BY <2>1
<1>2. PICK k \in T : \A j \in T : k <= j
  <2>1. T \subseteq Nat
    OBVIOUS
  <2> HIDE DEF T
  <2>2. QED
    BY <1>1, <2>1, LeastNumber
<1>3. PICK l \in Nat, g \in BodiesWritten : g \in L[k] /\ g \in L[l] /\ k # l
  BY <1>2
<1>4. CASE g \in Hosts
  <2>1. ASSUME NEW i \in Nat, i # 0, g \in L[i] PROVE FALSE
    <3>1. i - 1 \in Nat /\ (i - 1) + 1 = i
      BY <2>1
    <3>2. L[i] = UNION {Called(e) : e \in L[i - 1]}
      BY <3>1 DEF Layers
    <3>3. QED
      BY <1>4, <2>1, <3>2, CalledAreMethods
  <2>2. QED
    BY <1>3, <2>1
<1>5. CASE g \notin Hosts
  <2>1. k # 0 /\ k - 1 \in Nat /\ \E e \in L[k - 1] : g \in Called(e)
    BY <1>3, <1>5, LayerBefore
  <2>2. l # 0 /\ l - 1 \in Nat /\ \E e \in L[l - 1] : g \in Called(e)
    BY <1>3, <1>5, LayerBefore
  <2>3. PICK d \in L[k - 1], e \in L[l - 1] : g \in Called(d) /\ g \in Called(e)
    BY <2>1, <2>2
  <2>4. d \in BodiesWritten /\ e \in BodiesWritten
    BY <2>1, <2>2 DEF Layers
  <2>5. d = e
    BY <2>3, <2>4, WrittenFacts, BodiesAreFuns
  <2>6. k - 1 \in T
    BY <1>3, <2>1, <2>2, <2>3, <2>4, <2>5
  <2>7. QED
    BY <1>2, <2>1, <2>6
<1>6. QED
  BY <1>4, <1>5

\* The bodies around one are of different closures but for the outermost.
LEMMA LayersBounded ==
    ASSUME OfAProgram, NEW L, Layers(L)
    PROVE  \A n \in Nat : L[n] # {} => n <= Cardinality(Closures)
<1> DEFINE Shallow(n) == {c \in Closures : \E k \in 1 .. n : Method(c, "Fn") \in L[k]}
           T == {n \in Nat : L[n] # {} => n <= Cardinality(Shallow(n))}
<1>1. \A n \in Nat : /\ Shallow(n) \subseteq Closures /\ IsFiniteSet(Shallow(n))
                     /\ Cardinality(Shallow(n)) \in Nat
                     /\ Cardinality(Shallow(n)) <= Cardinality(Closures)
  BY ClosuresAssumption, FS_Subset, FS_CardinalityType
<1>2. 0 \in T
  BY <1>1
<1>3. ASSUME NEW n \in T PROVE n + 1 \in T
  <2> SUFFICES ASSUME L[n + 1] # {} PROVE n + 1 <= Cardinality(Shallow(n + 1))
    OBVIOUS
  <2>1. PICK f : f \in L[n + 1]
    OBVIOUS
  <2>2. PICK g \in L[n] : f \in Called(g)
    BY <2>1 DEF Layers
  <2>3. PICK c \in Closures : f = Method(c, "Fn")
    BY <2>2, CalledAreMethods
  <2>4. c \notin Shallow(n)
    <3> SUFFICES ASSUME NEW k \in 1 .. n, f \in L[k] PROVE FALSE
      BY <2>3
    <3>1. k \in Nat /\ n + 1 \in Nat /\ k # n + 1
      OBVIOUS
    <3>2. QED
      BY <2>1, <3>1, OneLayer
  <2>5. c \in Shallow(n + 1)
    BY <2>1, <2>3
  <2>6. Shallow(n) \subseteq Shallow(n + 1)
    <3>1. 1 .. n \subseteq 1 .. n + 1
      OBVIOUS
    <3>2. QED
      BY <3>1
  <2>7. n \in Nat /\ n + 1 \in Nat /\ n <= Cardinality(Shallow(n))
    BY <2>2
  <2> HIDE DEF Shallow
  <2>8. Cardinality(Shallow(n)) <= Cardinality(Shallow(n + 1))
        /\ Cardinality(Shallow(n)) # Cardinality(Shallow(n + 1))
    BY <1>1, <2>4, <2>5, <2>6, <2>7, FS_Subset
  <2>9. QED
    BY <1>1, <2>7, <2>8
<1>4. T \subseteq Nat
  OBVIOUS
<1> HIDE DEF T
<1>5. T = Nat
  BY <1>2, <1>3, <1>4, AllNumbers
<1> HIDE DEF Shallow
<1>6. Cardinality(Closures) \in Nat
  BY ClosuresAssumption, FS_CardinalityType
<1>7. QED
  BY <1>1, <1>5, <1>6 DEF T

LEMMA DepthsExist == OfAProgram => \E depth : DepthsOK(depth)
<1> SUFFICES ASSUME OfAProgram PROVE \E depth : DepthsOK(depth)
  OBVIOUS
<1>1. PICK L : Layers(L)
  BY LayersExist
<1> DEFINE N == Cardinality(Closures)
           depth == [f \in BodiesWritten |-> CHOOSE n \in Nat : f \in L[n]]
<1>2. ASSUME NEW f \in BodiesWritten PROVE depth[f] \in Nat /\ f \in L[depth[f]]
  <2>1. \E n \in Nat : f \in L[n]
    BY <1>1, SomeLayer
  <2>2. QED
    BY <2>1
<1>3. ASSUME NEW n \in Nat, NEW f \in L[n] PROVE f \in BodiesWritten /\ depth[f] = n
  <2>1. f \in BodiesWritten
    BY <1>1, <1>3 DEF Layers
  <2>2. QED
    BY <1>1, <1>2, <1>3, <2>1, OneLayer
<1> HIDE DEF depth
<1>4. depth \in [BodiesWritten -> 0 .. N]
  <2>1. N \in Nat
    BY ClosuresAssumption, FS_CardinalityType
  <2>2. \A f \in BodiesWritten : depth[f] <= N
    BY <1>1, <1>2, LayersBounded
  <2>3. \A f \in BodiesWritten : depth[f] \in 0 .. N
    BY <1>2, <2>1, <2>2
  <2>4. QED
    BY <2>3 DEF depth
<1>5. \A h \in Hosts : depth[h] = 0
  BY <1>1, <1>3 DEF Layers
<1>6. ASSUME NEW g \in BodiesWritten, NEW f \in Called(g) PROVE depth[f] = depth[g] + 1
  <2>1. depth[g] \in Nat /\ depth[g] + 1 \in Nat /\ g \in L[depth[g]]
    BY <1>2
  <2>2. f \in L[depth[g] + 1]
    BY <1>1, <2>1 DEF Layers
  <2>3. QED
    BY <1>3, <2>1, <2>2
<1>7. QED
  BY <1>4, <1>5, <1>6 DEF DepthsOK

-----------------------------------------------------------------------------
(* What the specification computes *)

LEMMA EnclosesCalled ==
    ASSUME written \in [FunIds -> Seq(Terminators)], NEW g \in BodiesWritten
    PROVE  \A f : Encloses(g, f) <=> f \in Called(g)
<1>1. g \in FunIds /\ written[g] \in Seq(Terminators)
  BY BodiesAreFuns
<1>2. \A i \in DOMAIN written[g] : written[g][i] \in Terminators
  BY <1>1
<1>3. \A i \in DOMAIN written[g] :
         written[g][i].kind \in SpecKinds => written[g][i].closure \in Closures
  BY <1>2, TerminatorFields
<1>4. QED
  BY <1>3 DEF Encloses, Called, HandsOver, ToSet

\* Outwards of a body there is one body at each distance up to its depth.
LEMMA DepthTold ==
    ASSUME OfAProgram, written \in [FunIds -> Seq(Terminators)],
           NEW depth, DepthsOK(depth), NEW f \in BodiesWritten
    PROVE  NestingDepth(f) = depth[f]
<1> DEFINE Around(S) == {g \in BodiesWritten : \E h \in S : Encloses(g, h)}
           Outwards[n \in Nat] == IF n = 0 THEN {f} ELSE Around(Outwards[n - 1])
           N == Cardinality(Closures)
<1>1. NestingDepth(f) = Cardinality({n \in 1 .. N : Outwards[n] # {}})
  BY DEF NestingDepth
<1>2. \A S : Around(S) \in SUBSET BodiesWritten
  OBVIOUS
<1>3. \A S : Around(S) = {g \in BodiesWritten : \E h \in S : h \in Called(g)}
  BY EnclosesCalled
<1> HIDE DEF Around
<1>4. \E o : o = [n \in Nat |-> IF n = 0 THEN {f} ELSE Around(o[n - 1])]
  <2> HIDE DEF Outwards
  <2> PICK step : step = [S \in SUBSET BodiesWritten |-> Around(S)]
    OBVIOUS
  <2>1. step \in [SUBSET BodiesWritten -> SUBSET BodiesWritten] /\ {f} \in SUBSET BodiesWritten
    BY <1>2
  <2>2. PICK o : Iterated(o, SUBSET BodiesWritten, {f}, step)
    BY <2>1, Iterates, Zenon
  <2>3. /\ o \in [Nat -> SUBSET BodiesWritten] /\ o[0] = {f}
        /\ \A n \in Nat : o[n + 1] = step[o[n]]
    BY <2>2 DEF Iterated
  <2>4. ASSUME NEW n \in Nat, n # 0 PROVE o[n] = Around(o[n - 1])
    <3>1. n - 1 \in Nat /\ (n - 1) + 1 = n
      BY <2>4
    <3>2. o[n] = step[o[n - 1]] /\ o[n - 1] \in SUBSET BodiesWritten
      BY <2>3, <3>1
    <3>3. QED
      BY <3>2
  <2>5. o = [n \in Nat |-> IF n = 0 THEN {f} ELSE Around(o[n - 1])]
    BY <2>3, <2>4
  <2>6. QED
    BY <2>5
<1>5. Outwards = [n \in Nat |-> IF n = 0 THEN {f} ELSE Around(Outwards[n - 1])]
  BY <1>4
<1> HIDE DEF Outwards
<1>6. Outwards[0] = {f} /\ \A n \in Nat : Outwards[n + 1] = Around(Outwards[n])
  <2>1. Outwards[0] = {f} /\ \A n \in Nat : n # 0 => Outwards[n] = Around(Outwards[n - 1])
    BY <1>5
  <2>2. ASSUME NEW n \in Nat PROVE Outwards[n + 1] = Around(Outwards[n])
    <3>1. n + 1 \in Nat /\ n + 1 # 0 /\ n + 1 - 1 = n
      OBVIOUS
    <3>2. Outwards[n + 1] = Around(Outwards[n + 1 - 1])
      BY <2>1, <3>1
    <3>3. QED
      BY <3>1, <3>2
  <2>3. QED
    BY <2>1, <2>2
<1>7. /\ N \in Nat /\ \A g \in BodiesWritten : depth[g] \in Nat /\ depth[g] <= N
      /\ \A g \in BodiesWritten : \A x \in Called(g) : depth[x] = depth[g] + 1
  <2>1. N \in Nat
    BY ClosuresAssumption, FS_CardinalityType
  <2>2. \A g \in BodiesWritten : depth[g] \in 0 .. N
    BY DEF DepthsOK
  <2>3. QED
    BY <2>1, <2>2 DEF DepthsOK
<1> DEFINE AtDistance(n) == /\ \A g \in Outwards[n] : g \in BodiesWritten /\ depth[f] = depth[g] + n
                            /\ n <= depth[f] => Outwards[n] # {}
           T == {n \in Nat : AtDistance(n)}
<1>8. 0 \in T
  <2>1. depth[f] \in Nat
    BY <1>7
  <2>2. depth[f] = depth[f] + 0
    BY <2>1
  <2>3. QED
    BY <1>6, <2>2
<1>9. ASSUME NEW n \in T PROVE n + 1 \in T
  <2>0. n \in Nat
    OBVIOUS
  <2>1. n \in Nat /\ n + 1 \in Nat /\ AtDistance(n)
    OBVIOUS
  <2>2. Outwards[n + 1] = {g \in BodiesWritten : \E h \in Outwards[n] : h \in Called(g)}
    BY <1>3, <1>6, <2>1
  <2>3. ASSUME NEW g \in Outwards[n + 1]
        PROVE  g \in BodiesWritten /\ depth[f] = depth[g] + (n + 1)
    <3>1. PICK h \in Outwards[n] : h \in Called(g) /\ g \in BodiesWritten
      BY <2>2
    <3>2. depth[f] = depth[h] + n /\ depth[h] = depth[g] + 1
          /\ depth[g] \in Nat /\ depth[h] \in Nat
      BY <1>7, <2>1, <3>1
    <3>3. depth[f] = depth[g] + (n + 1)
      <4>1. \A d \in Nat : d + 1 + n = d + (n + 1)
        BY <2>0
      <4>2. QED
        BY <3>2, <4>1
    <3>4. QED
      BY <3>1, <3>3
  <2>4. ASSUME n + 1 <= depth[f] PROVE Outwards[n + 1] # {}
    <3>1. n <= depth[f]
      BY <1>7, <2>1, <2>4
    <3>2. PICK h \in Outwards[n] : h \in BodiesWritten /\ depth[f] = depth[h] + n
      BY <2>1, <3>1
    <3>3. depth[h] # 0
      BY <1>7, <2>1, <2>4, <3>2
    <3>4. h \notin Hosts
      BY <3>3 DEF DepthsOK
    <3>5. PICK c \in Closures : h = Method(c, "Fn")
      BY <3>2, <3>4 DEF BodiesWritten
    <3>6. PICK g \in BodiesWritten : h \in Called(g)
      BY <3>5, WrittenFacts
    <3>7. QED
      BY <2>2, <3>2, <3>6
  <2>5. QED
    BY <2>1, <2>3, <2>4
<1>10. T \subseteq Nat
  OBVIOUS
<1> HIDE DEF T, N
<1>11. T = Nat
  BY <1>8, <1>9, <1>10, AllNumbers
<1>12. \A n \in Nat : Outwards[n] # {} <=> n <= depth[f]
  <2> SUFFICES ASSUME NEW n \in Nat, Outwards[n] # {} PROVE n <= depth[f]
    BY <1>11 DEF T
  <2>1. PICK g \in Outwards[n] : g \in BodiesWritten /\ depth[f] = depth[g] + n
    BY <1>11 DEF T
  <2>2. QED
    BY <1>7, <2>1
<1>13. {n \in 1 .. N : Outwards[n] # {}} = 1 .. depth[f]
  <2>1. depth[f] \in Nat /\ depth[f] <= N
    BY <1>7
  <2>2. QED
    BY <1>7, <1>12, <2>1
<1>14. Cardinality(1 .. depth[f]) = depth[f]
  <2>1. depth[f] \in Int /\ 1 \in Int /\ depth[f] \in Nat
    BY <1>7
  <2>2. QED
    BY <2>1, FS_Interval
<1>15. QED
  BY <1>1, <1>13, <1>14

-----------------------------------------------------------------------------
(* What name_map finds.  Behind the batch a body's lists and terminators have *)
(* what it calls, and the functions are owned, by the crate or by a type;     *)
(* those that were moved to a type had no lists to lose.                      *)

NoLists(f) == ToSet(preconditions[f]) = {} /\ ToSet(postconditions[f]) = {}
AllCollected ==
    /\ \A f \in BodiesWritten : HoldsBodies(f) = Called(f)
    /\ \A f \in FunIds : CarriedBy(f) \subseteq BodiesWritten
    /\ \A c \in Closures : NoLists(Method(c, "Fn"))
HostsOwned ==
    /\ fun_decls \union ToSet(spec_bodies) = Hosts
    /\ \A h \in ToSet(spec_bodies) : NoLists(h)
    /\ \A t \in Types : invariants[t] = <<>> \/ \E id \in DOMAIN spec_bodies : invariants[t] = <<id>>

LEMMA OwnedTold ==
    ASSUME TablesOK, HostsOwned
    PROVE  Owned = {<<h, 0>> : h \in Hosts}
                   \union {<<f, 1>> : f \in UNION {ToSet(preconditions[g]) \union ToSet(postconditions[g]) :
                                                     g \in Hosts}}
<1>1. {spec_bodies[id] : id \in UNION {ToSet(invariants[t]) : t \in Types}} = ToSet(spec_bodies)
  <2>1. ASSUME NEW id, ToSet(<<id>>) # {id} PROVE FALSE
    BY <2>1 DEF ToSet
  <2>2. ToSet(<<>>) = {}
    BY DEF ToSet
  <2>3. ASSUME NEW t \in Types, NEW id \in ToSet(invariants[t]) PROVE id \in DOMAIN spec_bodies
    BY <2>1, <2>2 DEF HostsOwned
  <2>4. ASSUME NEW id \in DOMAIN spec_bodies PROVE \E t \in Types : id \in ToSet(invariants[t])
    <3>1. PICK t \in Types : invariants[t] = <<id>>
      BY DEF TablesOK, SpecBodiesOwned
    <3>2. QED
      BY <2>1, <3>1
  <2>5. UNION {ToSet(invariants[t]) : t \in Types} = DOMAIN spec_bodies
    BY <2>3, <2>4
  <2>6. QED
    BY <2>5 DEF ToSet
<1>2. {<<spec_bodies[id], 0>> : id \in UNION {ToSet(invariants[t]) : t \in Types}}
        \union {<<f, 0>> : f \in fun_decls} = {<<h, 0>> : h \in Hosts}
  <2>1. {<<spec_bodies[id], 0>> : id \in UNION {ToSet(invariants[t]) : t \in Types}}
          = {<<h, 0>> : h \in ToSet(spec_bodies)}
    BY <1>1
  <2>2. QED
    BY <2>1 DEF HostsOwned
<1>3. UNION {ToSet(preconditions[g]) \union ToSet(postconditions[g]) : g \in fun_decls}
        = UNION {ToSet(preconditions[g]) \union ToSet(postconditions[g]) : g \in Hosts}
  BY DEF HostsOwned, NoLists
<1>4. QED
  BY <1>2, <1>3 DEF Owned

LEMMA MappedTold ==
    ASSUME OfAProgram, AllCollected, TablesOK, HostsOwned, NEW depth, DepthsOK(depth)
    PROVE  Mapped = {<<f, depth[f]>> : f \in BodiesWritten}
<1> DEFINE Pairs == BodiesWritten \X Nat
           Inside(S) == UNION {Carried(body) : body \in S}
           Within[n \in Nat] == IF n = 0 THEN Owned
                                ELSE LET before == Within[n - 1]
                                     IN  before \union UNION {Carried(body) : body \in before}
           N == Cardinality(Closures)
<1>1. Mapped = Within[N]
  BY DEF Mapped
<1>2. /\ N \in Nat /\ \A g \in BodiesWritten : depth[g] \in Nat /\ depth[g] <= N
      /\ \A g \in BodiesWritten : \A x \in Called(g) : depth[x] = depth[g] + 1
      /\ \A h \in Hosts : depth[h] = 0
  <2>1. N \in Nat
    BY ClosuresAssumption, FS_CardinalityType
  <2>2. \A g \in BodiesWritten : depth[g] \in 0 .. N
    BY DEF DepthsOK
  <2>3. QED
    BY <2>1, <2>2 DEF DepthsOK
<1>3. /\ Hosts \subseteq BodiesWritten
      /\ \A f \in BodiesWritten : /\ CarriedBy(f) \subseteq Called(f)
                                  /\ ToSet(preconditions[f]) \union ToSet(postconditions[f]) \subseteq Called(f)
                                  /\ Called(f) \subseteq BodiesWritten
  BY CalledAreMethods DEF AllCollected, HoldsBodies, BodiesWritten
<1>4. ASSUME NEW body \in Pairs PROVE Carried(body) \subseteq Pairs
  <2>1. body[1] \in BodiesWritten /\ body[2] + 1 \in Nat
    OBVIOUS
  <2>2. QED
    BY <1>3, <2>1 DEF Carried
<1>5. Owned \subseteq Pairs
  BY <1>3, OwnedTold
<1>6. \E w : w = [n \in Nat |-> IF n = 0 THEN Owned
                                ELSE w[n - 1] \union UNION {Carried(body) : body \in w[n - 1]}]
  <2> PICK step : step = [S \in SUBSET Pairs |-> S \union Inside(S)]
    OBVIOUS
  <2>0. \A S \in SUBSET Pairs : S \union Inside(S) \in SUBSET Pairs
    BY <1>4
  <2> HIDE DEF Pairs
  <2>1. step \in [SUBSET Pairs -> SUBSET Pairs] /\ Owned \in SUBSET Pairs
    BY <1>5, <2>0
  <2>2. PICK w : Iterated(w, SUBSET Pairs, Owned, step)
    BY <2>1, Iterates, Zenon
  <2>3. /\ w \in [Nat -> SUBSET Pairs] /\ w[0] = Owned
        /\ \A n \in Nat : w[n + 1] = step[w[n]]
    BY <2>2 DEF Iterated
  <2> HIDE DEF Inside
  <2>4. ASSUME NEW n \in Nat, n # 0 PROVE w[n] = w[n - 1] \union Inside(w[n - 1])
    <3>1. n - 1 \in Nat /\ (n - 1) + 1 = n
      BY <2>4
    <3>2. w[n] = step[w[n - 1]] /\ w[n - 1] \in SUBSET Pairs
      BY <2>3, <3>1
    <3>3. QED
      BY <3>2
  <2>5. w = [n \in Nat |-> IF n = 0 THEN Owned ELSE w[n - 1] \union Inside(w[n - 1])]
    BY <2>3, <2>4
  <2>6. QED
    BY <2>5 DEF Inside
<1>7. Within = [n \in Nat |-> IF n = 0 THEN Owned
                              ELSE Within[n - 1] \union UNION {Carried(body) : body \in Within[n - 1]}]
  BY <1>6
<1> HIDE DEF Within
<1>8. Within[0] = Owned /\ \A n \in Nat : Within[n + 1] = Within[n] \union Inside(Within[n])
  <2>1. Within[0] = Owned /\ \A n \in Nat : n # 0 => Within[n] = Within[n - 1] \union Inside(Within[n - 1])
    BY <1>7
  <2> HIDE DEF Inside
  <2>2. ASSUME NEW n \in Nat PROVE Within[n + 1] = Within[n] \union Inside(Within[n])
    <3>1. n + 1 \in Nat /\ n + 1 # 0 /\ n + 1 - 1 = n
      OBVIOUS
    <3>2. Within[n + 1] = Within[n + 1 - 1] \union Inside(Within[n + 1 - 1])
      BY <2>1, <3>1
    <3>3. QED
      BY <3>1, <3>2
  <2>3. QED
    BY <2>1, <2>2
\* Each round finds the bodies that are one deeper, at the depth that they have.
<1> DEFINE Told == {<<f, depth[f]>> : f \in BodiesWritten}
           Found(n) == /\ Owned \subseteq Within[n]
                       /\ Within[n] \subseteq Told
                       /\ \A f \in BodiesWritten : depth[f] <= n => <<f, depth[f]>> \in Within[n]
           T == {n \in Nat : Found(n)}
<1>9. Owned \subseteq Told
  <2>1. \A h \in Hosts : <<h, 0>> \in Told
    BY <1>2, <1>3
  <2>2. ASSUME NEW g \in Hosts, NEW f \in ToSet(preconditions[g]) \union ToSet(postconditions[g])
        PROVE  <<f, 1>> \in Told
    <3>1. g \in BodiesWritten /\ f \in Called(g) /\ f \in BodiesWritten
      BY <1>3
    <3>2. depth[f] = 1
      BY <1>2, <3>1
    <3>3. QED
      BY <3>1, <3>2
  <2> HIDE DEF Told
  <2>3. QED
    BY <2>1, <2>2, OwnedTold
<1>10. 0 \in T
  <2>1. ASSUME NEW f \in BodiesWritten, depth[f] <= 0 PROVE <<f, depth[f]>> \in Owned
    <3>1. f \in Hosts
      <4> SUFFICES ASSUME f \notin Hosts PROVE FALSE
        OBVIOUS
      <4>1. PICK g \in BodiesWritten : f \in Called(g)
        BY WrittenFacts DEF BodiesWritten
      <4>2. depth[f] = depth[g] + 1 /\ depth[g] \in Nat
        BY <1>2, <4>1
      <4>3. QED
        BY <2>1, <4>2
    <3>2. QED
      BY <1>2, <3>1, OwnedTold
  <2>2. QED
    BY <1>8, <1>9, <2>1
<1>11. ASSUME NEW n \in T PROVE n + 1 \in T
  <2>0. n \in Nat
    OBVIOUS
  <2>1. n + 1 \in Nat /\ Found(n)
    OBVIOUS
  <2>2. Within[n] \subseteq Within[n + 1]
    BY <1>8, <2>0
  <2>3. ASSUME NEW body \in Within[n] PROVE Carried(body) \subseteq Told
    <3>1. PICK g \in BodiesWritten : body = <<g, depth[g]>>
      BY <2>1
    <3>2. Carried(body) = {<<f, depth[g] + 1>> : f \in CarriedBy(g)}
      BY <3>1 DEF Carried
    <3>3. \A f \in CarriedBy(g) : f \in BodiesWritten /\ depth[f] = depth[g] + 1
      BY <1>2, <1>3
    <3>4. QED
      BY <3>2, <3>3
  <2>4. Within[n + 1] \subseteq Told
    BY <1>8, <2>0, <2>1, <2>3
  <2>5. ASSUME NEW f \in BodiesWritten, depth[f] <= n + 1 PROVE <<f, depth[f]>> \in Within[n + 1]
    <3>1. CASE depth[f] <= n
      BY <2>1, <2>2, <3>1
    <3>2. CASE ~(depth[f] <= n)
      <4>1. depth[f] = n + 1 /\ depth[f] # 0
        BY <1>2, <2>0, <2>5, <3>2
      <4>2. f \notin Hosts
        BY <1>2, <4>1
      <4>3. PICK g \in BodiesWritten : f \in Called(g)
        BY <4>2, WrittenFacts DEF BodiesWritten
      <4>4. depth[g] = n /\ depth[f] = depth[g] + 1
        BY <1>2, <2>0, <4>1, <4>3
      <4>5. CASE f \in CarriedBy(g)
        <5>1. <<g, n>> \in Within[n]
          BY <2>0, <2>1, <4>4
        <5>2. <<f, n + 1>> \in Carried(<<g, n>>)
          BY <4>5 DEF Carried
        <5>3. QED
          BY <1>8, <2>0, <4>1, <5>1, <5>2
      <4>6. CASE f \notin CarriedBy(g)
        <5>1. f \in ToSet(preconditions[g]) \union ToSet(postconditions[g])
          BY <4>3, <4>6 DEF AllCollected, HoldsBodies
        <5>2. g \in Hosts
          BY <5>1 DEF AllCollected, NoLists, BodiesWritten
        <5>3. depth[f] = 1
          BY <1>2, <4>4, <5>2
        <5>4. <<f, 1>> \in Owned
          BY <5>1, <5>2, OwnedTold
        <5>5. QED
          BY <2>1, <2>2, <5>3, <5>4
      <4>7. QED
        BY <4>5, <4>6
    <3>3. QED
      BY <3>1, <3>2
  <2>6. QED
    BY <2>1, <2>2, <2>4, <2>5
<1>12. T \subseteq Nat
  OBVIOUS
<1> HIDE DEF T, Told
<1>13. T = Nat
  BY <1>10, <1>11, <1>12, AllNumbers
<1>14. Found(N)
  BY <1>2, <1>13 DEF T
<1>15. QED
  BY <1>1, <1>2, <1>14 DEF Told

-----------------------------------------------------------------------------
(* From the batch to name_map *)

\* A function without pre- and postconditions gets no lists.
LEMMA NoneNoLists ==
    ASSUME TypeOK, StackInv, BlocksInv, frames = <<>>, NEW f \in FunIds,
           \A i \in DOMAIN written[f] : written[f][i].kind \notin {"precondition", "postcondition"}
    PROVE  NoLists(f)
<1>1. /\ DOMAIN written[f] = 1 .. Len(written[f]) /\ Len(written[f]) \in Nat
      /\ BlocksDone(f) = IF f \in transformed THEN Len(written[f]) ELSE 0
  BY SeenIsDone
<1>2. \A i \in 1 .. BlocksDone(f) : i \in DOMAIN written[f]
  BY <1>1
<1>3. ASSUME NEW list, NEW kind \in {"precondition", "postcondition"},
             HoldsInOrder(list, f, kind, BlocksDone(f))
      PROVE  ToSet(list) = {}
  <2>1. Calling(f, kind, BlocksDone(f)) = {}
    BY <1>2 DEF Calling
  <2>2. \E at \in [DOMAIN list -> Calling(f, kind, BlocksDone(f))] : TRUE
    BY <1>3 DEF HoldsInOrder
  <2>3. DOMAIN list = {}
    BY <2>1, <2>2
  <2>4. QED
    BY <2>3 DEF ToSet
<1>4. /\ HoldsInOrder(preconditions[f], f, "precondition", BlocksDone(f))
      /\ HoldsInOrder(postconditions[f], f, "postcondition", BlocksDone(f))
  BY DEF BlocksInv, ContractsInOrder
<1>5. QED
  BY <1>3, <1>4 DEF NoLists

BatchInv == PlacesInv /\ StackInv /\ BlocksInv /\ ItemsInv /\ HostsInv

LEMMA BatchStep == ASSUME IInv, BatchInv, [Next]_vars, IInv' PROVE BatchInv'
<1>1. PlacesInv' /\ StackInv' /\ ItemsInv'
  BY PlacesStep, StackStep, ItemsStep DEF BatchInv
<1>2. BlocksInv'
  BY <1>1, BlocksStep DEF BatchInv
<1>3. HostsInv'
  BY HostsStep DEF BatchInv
<1>4. QED
  BY <1>1, <1>2, <1>3 DEF BatchInv

\* At the end of the batch all is collected, and the table has the functions.
LEMMA BatchEnds ==
    ASSUME IInv, BatchInv, BatchDone
    PROVE  AllCollected /\ fun_decls = Hosts /\ frames = <<>>
<1>0. /\ TypeOK /\ frames = <<>> /\ None \notin FunIds /\ item = None /\ ToSet(todo) = {}
      /\ StackInv /\ BlocksInv /\ ItemsInv
  BY NoneAssumption DEF IInv, CallsOK, InBatch, BatchDone, ToSet, BatchInv
<1>1. ASSUME NEW f \in BodiesWritten PROVE HoldsBodies(f) = Called(f)
  <2>1. f \in FunIds
    BY BodiesAreFuns
  <2>2. f \in transformed
    BY <1>0, <2>1, CallerDone
  <2>3. QED
    BY <1>0, <2>1, <2>2, HeldAreCalled
<1>2. \A c \in Closures : NoLists(Method(c, "Fn"))
  BY <1>0, ClosuresHaveNoLists DEF NoLists, ItemsInv
<1>3. fun_decls \subseteq Hosts
  BY <1>0, NothingLeft DEF NoEncodingLeft
<1>4. ASSUME NEW h \in Hosts PROVE h \in fun_decls
  <2>1. h \in FunIds /\ h # item
    BY <1>0 DEF FunIds
  <2>2. \A c \in Closures : h \notin Methods(c)
    BY HostsAssumption DEF Methods, Method
  <2>3. QED
    BY <1>0, <2>1, <2>2 DEF ItemsInv, AbsentAreGone, Gone
<1>5. \A f \in FunIds : CarriedBy(f) \subseteq BodiesWritten
  BY <1>0, HeldAreCalled, CalledAreMethods DEF HoldsBodies
<1>6. QED
  BY <1>0, <1>1, <1>2, <1>3, <1>4, <1>5 DEF AllCollected

\* What is known at each stage.
ImplsPlain ==
    \A i \in 1 .. Len(impls) : \A k \in DOMAIN written[impls[i].method] :
        written[impls[i].method][k].kind \notin {"precondition", "postcondition"}
ImplsWait == \A i \in 1 .. Len(impls) : /\ impls[i].method \in fun_decls
                                        /\ NoLists(impls[i].method)
NamesTold == \E depth : /\ DepthsOK(depth)
                        /\ names = {<<f, depth[f]>> : f \in BodiesWritten}
StageInv ==
    /\ \A i, j \in 1 .. Len(impls) : i # j => impls[i].method # impls[j].method
    /\ stage = "batch" => /\ BatchInv /\ ImplsPlain
                          /\ spec_bodies = <<>> /\ \A t \in Types : invariants[t] = <<>>
    /\ stage = "non_body" => OfAProgram /\ AllCollected /\ HostsOwned /\ ImplsWait
    /\ stage = "named" => OfAProgram /\ NamesTold

\* What is collected stays so while bodies and lists do not change.
LEMMA CollectedStays ==
    ASSUME UNCHANGED <<terms, preconditions, postconditions, spec_closures, written>>
    PROVE  /\ OfAProgram => OfAProgram'
           /\ AllCollected => AllCollected'
<1>1. \A f \in BodiesWritten : Called(f)' = Called(f)
  BY DEF Called
<1>2. \A f : CarriedBy(f)' = CarriedBy(f)
  BY DEF CarriedBy
<1>3. \A f \in BodiesWritten : HoldsBodies(f)' = HoldsBodies(f)
  BY <1>2 DEF HoldsBodies
<1>4. \A c \in Closures : NoLists(Method(c, "Fn"))' <=> NoLists(Method(c, "Fn"))
  BY DEF NoLists
<1>5. QED
  BY <1>1, <1>2, <1>3, <1>4 DEF OfAProgram, AllCollected

LEMMA InitStage == NamesInit => StageInv
<1> SUFFICES ASSUME NamesInit PROVE StageInv
  OBVIOUS
<1>1. Init /\ impls \in InvariantImpls
  BY DEF NamesInit
<1>2. BatchInv
  BY <1>1, InitPlaces, InitBlocks, InitItems, InitHosts DEF BatchInv
<1>3. /\ impls \in Seq([type : Types, method : Hosts])
      /\ \A i, j \in DOMAIN impls : i # j => impls[i].method # impls[j].method
  BY <1>1, ImplsAssumption
<1>4. DOMAIN impls = 1 .. Len(impls)
  BY <1>3
<1>5. ImplsPlain
  <2> SUFFICES ASSUME NEW i \in 1 .. Len(impls), NEW k \in DOMAIN written[impls[i].method]
               PROVE  written[impls[i].method][k].kind \notin {"precondition", "postcondition"}
    BY DEF ImplsPlain
  <2>1. IsExpression(impls[i].method) /\ written = terms
    BY <1>4 DEF NamesInit, Init
  <2>2. written[impls[i].method][k] \in ToSet(terms[impls[i].method])
    BY <2>1 DEF ToSet
  <2>3. QED
    BY <2>1, <2>2 DEF IsExpression
<1>6. QED
  BY <1>2, <1>3, <1>4, <1>5 DEF StageInv, NamesInit

LEMMA EndBatchStage == ASSUME NamesInv, StageInv, EndBatch PROVE StageInv'
<1>1. /\ IInv /\ BatchInv /\ BatchDone /\ ImplsPlain /\ spec_bodies = <<>>
      /\ \A t \in Types : invariants[t] = <<>>
      /\ impls \in Seq([type : Types, method : Hosts])
  BY DEF NamesInv, TablesOK, StageInv, EndBatch
<1>2. /\ UNCHANGED <<vars, tables, names>> /\ stage' = "non_body"
      /\ UNCHANGED <<crate, terms, specs, written, impls, spec_bodies, invariants>>
  BY DEF EndBatch, vars, tables
<1>3. AllCollected /\ fun_decls = Hosts /\ OfAProgram /\ frames = <<>>
  BY <1>1, BatchEnds DEF BatchInv, ItemsInv
<1>4. HostsOwned
  <2>1. ToSet(<<>>) = {}
    BY DEF ToSet
  <2>2. QED
    BY <1>1, <1>3, <2>1 DEF HostsOwned
<1>5. ImplsWait
  <2> SUFFICES ASSUME NEW i \in 1 .. Len(impls)
               PROVE  impls[i].method \in fun_decls /\ NoLists(impls[i].method)
    BY DEF ImplsWait
  <2>1. impls[i].method \in Hosts
    <3> DEFINE Impl == [type : Types, method : Hosts]
    <3>1. impls[i] \in Impl
      <4> HIDE DEF Impl
      <4>1. impls \in Seq(Impl)
        BY <1>1 DEF Impl
      <4>2. QED
        BY <4>1, ElementOf
    <3>2. QED
      BY <3>1
  <2>2. impls[i].method \in FunIds
    BY <2>1 DEF FunIds
  <2>3. \A k \in DOMAIN written[impls[i].method] :
            written[impls[i].method][k].kind \notin {"precondition", "postcondition"}
    BY <1>1 DEF ImplsPlain
  <2>4. QED
    BY <1>1, <1>3, <2>1, <2>2, <2>3, NoneNoLists DEF IInv, BatchInv
<1>6. OfAProgram' /\ AllCollected' /\ HostsOwned' /\ ImplsWait'
  <2>1. OfAProgram' /\ AllCollected'
    BY <1>2, <1>3, CollectedStays DEF specs
  <2>2. HostsOwned'
    BY <1>2, <1>4 DEF HostsOwned, NoLists, crate, specs
  <2>3. ImplsWait'
    BY <1>2, <1>5 DEF ImplsWait, NoLists, crate, specs
  <2>4. QED
    BY <2>1, <2>2, <2>3
<1>7. \A i, j \in 1 .. Len(impls') : i # j => impls'[i].method # impls'[j].method
  BY <1>2 DEF StageInv
<1>8. QED
  BY <1>2, <1>6, <1>7 DEF StageInv

LEMMA CollectInvariantStage == ASSUME NamesInv, StageInv, CollectInvariant PROVE StageInv'
<1> PICK m : m = Head(impls).method
  OBVIOUS
<1>1. /\ stage = "non_body" /\ stage' = stage /\ impls # <<>> /\ impls' = Tail(impls)
      /\ fun_decls' = fun_decls \ {m} /\ spec_bodies' = Append(spec_bodies, m)
      /\ invariants' = [invariants EXCEPT ![Head(impls).type] = <<Len(spec_bodies) + 1>>]
      /\ UNCHANGED <<terms, preconditions, postconditions, spec_closures, written>>
  BY DEF CollectInvariant, specs
<1>2. /\ OfAProgram /\ AllCollected /\ HostsOwned /\ ImplsWait
      /\ \A i, j \in 1 .. Len(impls) : i # j => impls[i].method # impls[j].method
      /\ impls \in Seq([type : Types, method : Hosts]) /\ spec_bodies \in Seq(Hosts)
      /\ invariants \in [Types -> Seq(Nat)]
  BY <1>1 DEF StageInv, NamesInv, TablesOK
<1>3. /\ Head(impls) = impls[1] /\ Len(impls) \in Nat \ {0}
      /\ impls[1].method \in Hosts /\ impls[1].type \in Types
      /\ Len(impls') = Len(impls) - 1
      /\ \A i \in 1 .. Len(impls') : impls'[i] = impls[i + 1]
                                     /\ i + 1 \in 1 .. Len(impls) /\ i + 1 # 1
  <2> DEFINE Impl == [type : Types, method : Hosts]
  <2>1. impls \in Seq(Impl)
    BY <1>2
  <2>2. impls[1] \in Impl
    <3> HIDE DEF Impl
    <3>1. QED
      BY <1>1, <2>1, TailOf
  <2>3. /\ Len(impls) \in Nat \ {0}
        /\ Head(impls) = impls[1] /\ Len(impls') = Len(impls) - 1
        /\ \A i \in 1 .. Len(impls) - 1 : impls'[i] = impls[i + 1]
    <3> HIDE DEF Impl
    <3>1. QED
      BY <1>1, <2>1, TailOf
  <2>4. QED
    BY <2>2, <2>3
<1>4. 1 \in 1 .. Len(impls) /\ m = impls[1].method
  BY <1>3
<1>5. m \in Hosts /\ m \in fun_decls /\ NoLists(m)
  BY <1>2, <1>3, <1>4 DEF ImplsWait
<1>6. /\ ToSet(spec_bodies') = ToSet(spec_bodies) \union {m}
      /\ DOMAIN spec_bodies' = DOMAIN spec_bodies \union {Len(spec_bodies) + 1}
  <2>1. /\ DOMAIN spec_bodies' = 1 .. Len(spec_bodies) + 1
        /\ DOMAIN spec_bodies = 1 .. Len(spec_bodies) /\ Len(spec_bodies) \in Nat
        /\ \A i \in 1 .. Len(spec_bodies) : spec_bodies'[i] = spec_bodies[i]
        /\ spec_bodies'[Len(spec_bodies) + 1] = m
    BY <1>1, <1>2, <1>5
  <2>2. 1 .. Len(spec_bodies) + 1 = (1 .. Len(spec_bodies)) \union {Len(spec_bodies) + 1}
    BY <2>1
  <2>3. QED
    BY <2>1, <2>2 DEF ToSet
<1>7. HostsOwned'
  <2>1. \A h \in ToSet(spec_bodies)' : NoLists(h)'
    BY <1>1, <1>2, <1>5, <1>6 DEF HostsOwned, NoLists
  <2>2. fun_decls' \union ToSet(spec_bodies)' = Hosts
    BY <1>1, <1>2, <1>5, <1>6 DEF HostsOwned
  <2>3. ASSUME NEW t \in Types
        PROVE  invariants'[t] = <<>> \/ \E id \in DOMAIN spec_bodies' : invariants'[t] = <<id>>
    BY <1>1, <1>2, <1>6 DEF HostsOwned
  <2>4. QED
    BY <2>1, <2>2, <2>3 DEF HostsOwned
<1>8. ImplsWait'
  <2>1. ASSUME NEW i \in 1 .. Len(impls')
        PROVE  /\ impls'[i].method \in fun_decls'
               /\ ToSet(preconditions'[impls'[i].method]) = {}
               /\ ToSet(postconditions'[impls'[i].method]) = {}
    <3>1. impls'[i] = impls[i + 1] /\ i + 1 \in 1 .. Len(impls) /\ i + 1 # 1
      BY <1>3
    <3>2. impls[i + 1].method # m
      BY <1>2, <1>3, <1>4, <3>1
    <3>3. impls[i + 1].method \in fun_decls /\ NoLists(impls[i + 1].method)
      BY <1>2, <3>1 DEF ImplsWait
    <3>4. QED
      BY <1>1, <3>1, <3>2, <3>3 DEF NoLists
  <2>2. QED
    BY <2>1 DEF ImplsWait, NoLists
<1>9. OfAProgram' /\ AllCollected'
  BY <1>1, <1>2, CollectedStays
<1>10. \A i, j \in 1 .. Len(impls') : i # j => impls'[i].method # impls'[j].method
  <2> SUFFICES ASSUME NEW i \in 1 .. Len(impls'), NEW j \in 1 .. Len(impls'), i # j
               PROVE  impls'[i].method # impls'[j].method
    OBVIOUS
  <2>1. i + 1 \in 1 .. Len(impls) /\ j + 1 \in 1 .. Len(impls) /\ i + 1 # j + 1
    BY <1>3
  <2>2. QED
    BY <1>2, <1>3, <2>1
<1>11. QED
  BY <1>1, <1>7, <1>8, <1>9, <1>10 DEF StageInv

LEMMA BuildNamesStage == ASSUME NamesInv, StageInv, BuildNames PROVE StageInv'
<1>1. /\ OfAProgram /\ AllCollected /\ HostsOwned /\ TablesOK
  BY DEF StageInv, NamesInv, BuildNames
<1>2. names' = Mapped /\ stage' = "named" /\ written' = written /\ impls' = impls
  BY DEF BuildNames, vars, tables
<1>3. PICK depth : DepthsOK(depth)
  BY <1>1, DepthsExist
<1>4. names' = {<<f, depth[f]>> : f \in BodiesWritten}
  BY <1>1, <1>2, <1>3, MappedTold
<1>5. DepthsOK(depth)'
  BY <1>2, <1>3 DEF DepthsOK, Called
<1>6. OfAProgram' /\ NamesTold'
  BY <1>1, <1>2, <1>4, <1>5 DEF OfAProgram, NamesTold
<1>7. QED
  BY <1>2, <1>6 DEF StageInv

LEMMA StageStep == ASSUME NamesInv, StageInv, [NamesNext]_allVars, NamesInv' PROVE StageInv'
<1>1. CASE UNCHANGED allVars
  <2>1. UNCHANGED <<crate, terms, specs, written, impls, spec_bodies, invariants, stage, names>>
        /\ UNCHANGED vars
    BY <1>1 DEF allVars, vars, tables
  <2>2. BatchInv => BatchInv'
    BY <2>1, BatchStep DEF NamesInv
  <2>3. (OfAProgram => OfAProgram') /\ (AllCollected => AllCollected')
    BY <2>1, CollectedStays DEF specs
  <2>4. /\ HostsOwned => HostsOwned'
        /\ ImplsWait => ImplsWait'
        /\ ImplsPlain => ImplsPlain'
    BY <2>1 DEF HostsOwned, ImplsWait, ImplsPlain, NoLists, crate, specs
  <2>5. NamesTold => NamesTold'
    BY <2>1 DEF NamesTold, DepthsOK, Called
  <2>6. QED
    BY <2>1, <2>2, <2>3, <2>4, <2>5 DEF StageInv
<1>2. CASE RunBatch
  <2>1. /\ stage = "batch" /\ Next
        /\ UNCHANGED <<stage, impls, spec_bodies, invariants, names>>
    BY <1>2 DEF RunBatch, tables
  <2>2. BatchInv'
    BY <2>1, BatchStep DEF NamesInv, StageInv
  <2>3. written' = written
    BY <2>1 DEF Next, TakeItem, SkipItem, RunPass, PutItemBack, StartCollect, FinishCollect,
       PassBlock, CollectEntry, CollectClosure, ReturnToCaller, vars
  <2>4. QED
    BY <2>1, <2>2, <2>3 DEF StageInv, ImplsPlain
<1>3. QED
  BY <1>1, <1>2, EndBatchStage, CollectInvariantStage, BuildNamesStage DEF NamesNext

LEMMA NestingTold == NamesInv /\ StageInv => NamesTellNesting
<1> SUFFICES ASSUME NamesInv, StageInv, Named, NEW f \in BodiesWritten
             PROVE  {body \in names : body[1] = f} = {<<f, NestingDepth(f)>>}
  BY DEF NamesTellNesting
<1>1. OfAProgram /\ NamesTold
  BY DEF StageInv, Named
<1>2. PICK depth : /\ DepthsOK(depth)
                   /\ names = {<<g, depth[g]>> : g \in BodiesWritten}
  BY <1>1 DEF NamesTold
<1>3. NestingDepth(f) = depth[f]
  BY <1>1, <1>2, DepthTold DEF NamesInv, IInv, TypeOK
<1>4. QED
  BY <1>2, <1>3

\* In every crate, with contracts nested to any depth, and whichever functions
\* are invariants of types: every body gets names for its depth, and no other.
THEOREM NestingIsTold == NamesSpec => []NamesTellNesting
<1>1. NamesInit => StageInv
  BY InitStage
<1>2. NamesInv /\ NamesInv' /\ StageInv /\ [NamesNext]_allVars => StageInv'
  BY StageStep
<1>3. NamesInv /\ StageInv => NamesTellNesting
  BY NestingTold
<1>4. QED
  BY <1>1, <1>2, <1>3, NamesInvariance, PTL DEF NamesSpec

-----------------------------------------------------------------------------
(* No unwrap and no assertion fails *)

\* No more of a function's blocks are dealt with than it has.
LEMMA DoneBounded ==
    ASSUME TypeOK, StackInv, SameLength
    PROVE  \A f \in FunIds : BlocksDone(f) \in Nat /\ BlocksDone(f) <= Len(written[f])
<1>1. DoneTold
  BY DoneOf DEF StackInv
<1> SUFFICES ASSUME NEW f \in FunIds
             PROVE  BlocksDone(f) \in Nat /\ BlocksDone(f) <= Len(written[f])
  OBVIOUS
<1>2. Len(written[f]) \in Nat /\ Len(terms[f]) = Len(written[f])
  <2>1. written[f] \in Seq(Terminators)
    BY DEF TypeOK
  <2>2. QED
    BY <2>1 DEF SameLength
<1>3. CASE \E k \in 1 .. Len(frames) : frames[k].fun = f
  <2>1. PICK k \in 1 .. Len(frames) : frames[k].fun = f
    BY <1>3
  <2>2. frames[k] \in Frames
    <3>1. frames \in Seq(Frames)
      BY DEF TypeOK, Frames
    <3> HIDE DEF Frames
    <3>2. QED
      BY <3>1
  <2>3. frames[k].next \in Nat \ {0} /\ frames[k].next <= Len(written[f]) + 1
    BY <1>2, <2>1, <2>2 DEF Frames, StackInv, InBody
  <2>4. BlocksDone(f) = frames[k].next - 1
    BY <1>1, <2>1 DEF DoneTold
  <2>5. QED
    BY <1>2, <2>3, <2>4
<1>4. CASE \A k \in 1 .. Len(frames) : frames[k].fun # f
  BY <1>1, <1>2, <1>4 DEF DoneTold
<1>5. QED
  BY <1>3, <1>4

\* A closure that is gone was handed over by a block that was dealt with, or
\* by one at which a call below the top waits.
LEMMA GoneHandedOver ==
    ASSUME IInv, PlacesInv, StackInv, BlocksInv, NEW c \in Closures, c \notin type_decls
    PROVE  \E g \in FunIds : \E i \in 1 .. Len(written[g]) :
              /\ HandsOver(written[g][i], c)
              /\ \/ i <= BlocksDone(g)
                 \/ \E k \in 1 .. Len(frames) - 1 : frames[k].fun = g
<1> PICK x : x = Method(c, "Fn")
  OBVIOUS
<1>0. /\ TypeOK /\ DoneTold /\ OnePlace(c) /\ SameLength /\ Len(frames) \in Nat
      /\ \A f \in FunIds : /\ terms[f] \in Seq(Terminators) /\ written[f] \in Seq(Terminators)
                           /\ Len(terms[f]) = Len(written[f]) /\ Len(written[f]) \in Nat
                           /\ DOMAIN terms[f] = 1 .. Len(written[f])
  <2>1. \A f \in FunIds : /\ terms[f] \in Seq(Terminators) /\ written[f] \in Seq(Terminators)
                          /\ Len(terms[f]) = Len(written[f])
    BY DEF IInv, TypeOK, BlocksInv, SameLength
  <2>2. QED
    BY <2>1, DoneOf DEF IInv, TypeOK, StackInv, PlacesInv, BlocksInv
<1>1. ASSUME NEW d, x = Method(d, "Fn") PROVE d = c
  BY <1>1 DEF Method
<1>2. ASSUME NEW f \in FunIds, NEW list, NEW kind \in SpecKinds,
             HoldsInOrder(list, f, kind, BlocksDone(f)), x \in ToSet(list)
      PROVE  \E i \in 1 .. Len(written[f]) : HandsOver(written[f][i], c) /\ i <= BlocksDone(f)
  <2>1. PICK at \in [DOMAIN list -> Calling(f, kind, BlocksDone(f))] :
          \A j \in DOMAIN list : list[j] = Method(written[f][at[j]].closure, "Fn")
    BY <1>2 DEF HoldsInOrder
  <2>2. PICK j \in DOMAIN list : x = list[j]
    BY <1>2 DEF ToSet
  <2>3. at[j] \in 1 .. BlocksDone(f) /\ written[f][at[j]].kind = kind
    BY <2>1 DEF Calling
  <2>4. BlocksDone(f) \in Nat /\ BlocksDone(f) <= Len(written[f])
    BY <1>0, DoneBounded, <1>2 DEF IInv
  <2>5. at[j] \in 1 .. Len(written[f]) /\ at[j] <= BlocksDone(f)
    BY <1>0, <2>3, <2>4
  <2>6. written[f][at[j]].closure = c
    BY <1>1, <2>1, <2>2
  <2>7. QED
    BY <2>3, <2>5, <2>6 DEF HandsOver
<1>3. CASE Collecting(x)
  <2>1. PICK k \in 2 .. Len(frames) : frames[k].fun = x
    BY <1>3 DEF Collecting
  <2>2. k - 1 \in 1 .. Len(frames) - 1 /\ (k - 1) + 1 = k
    BY <1>0, <2>1
  <2>3. x = Method(BlockOf(frames[k - 1]).closure, "Fn")
    BY <2>1, <2>2 DEF StackInv, WaitsForNext
  <2> PICK h, i : h = frames[k - 1].fun /\ i = frames[k - 1].next
    OBVIOUS
  <2>4. /\ h \in FunIds /\ i \in Nat \ {0} /\ i <= Len(terms[h])
        /\ terms[h][i].kind \in SpecKinds /\ terms[h][i].closure = c
    <3>1. frames[k - 1] \in Frames
      <4>1. frames \in Seq(Frames) /\ k - 1 \in 1 .. Len(frames)
        BY <1>0, <2>2 DEF TypeOK, Frames
      <4> HIDE DEF Frames
      <4>2. QED
        BY <4>1
    <3>2. frames[k - 1].next <= Len(terms[frames[k - 1].fun])
          /\ BlockOf(frames[k - 1]).kind \in SpecKinds
      BY <2>2 DEF IInv, CallsOK, Waiting
    <3>3. QED
      BY <1>1, <2>3, <3>1, <3>2 DEF BlockOf, Frames
  <2>5. BlocksDone(h) = i - 1
    <3>1. k - 1 \in 1 .. Len(frames)
      BY <1>0, <2>2
    <3>2. QED
      BY <1>0, <3>1 DEF DoneTold
  <2>6. i \in 1 .. Len(written[h]) /\ BlocksDone(h) < i
    BY <1>0, <2>4, <2>5
  <2>7. terms[h][i] = written[h][i]
    BY <2>4, <2>6 DEF BlocksInv, StillWritten
  <2>8. HandsOver(written[h][i], c)
    BY <2>4, <2>7 DEF HandsOver
  <2>9. QED
    BY <2>2, <2>4, <2>6, <2>8
<1>4. CASE InPreconditions(x)
  <2>1. PICK f \in FunIds : x \in ToSet(preconditions[f])
    BY <1>4 DEF InPreconditions
  <2>2. HoldsInOrder(preconditions[f], f, "precondition", BlocksDone(f))
    BY DEF BlocksInv, ContractsInOrder
  <2>3. QED
    BY <1>2, <2>1, <2>2 DEF SpecKinds
<1>5. CASE InPostconditions(x)
  <2>1. PICK f \in FunIds : x \in ToSet(postconditions[f])
    BY <1>5 DEF InPostconditions
  <2>2. HoldsInOrder(postconditions[f], f, "postcondition", BlocksDone(f))
    BY DEF BlocksInv, ContractsInOrder
  <2>3. QED
    BY <1>2, <2>1, <2>2 DEF SpecKinds
<1>6. CASE InSpecClosures(x)
  <2>1. PICK id \in DOMAIN spec_closures : x = spec_closures[id]
    BY <1>6 DEF InSpecClosures, ToSet
  <2>2. PICK f \in FunIds : \E i \in DOMAIN terms[f] : terms[f][i] = Contract(id)
    BY DEF IInv, SpecClosuresReferencedOnce
  <2>3. PICK i \in 1 .. Len(written[f]) : terms[f][i] = Contract(id)
    BY <1>0, <2>2
  <2>4. terms[f][i].kind = "contract" /\ terms[f][i].spec_closure_id = id
    BY <2>3 DEF Contract
  <2>5. /\ i <= BlocksDone(f) /\ written[f][i].kind \in SpecKinds
        /\ spec_closures[id] = Method(written[f][i].closure, "Fn")
    BY <2>4 DEF BlocksInv, CarriedInPlace, RefersTo, SpecKinds
  <2>6. QED
    BY <1>1, <2>1, <2>5 DEF HandsOver
<1>7. QED
  BY <1>0, <1>3, <1>4, <1>5, <1>6 DEF OnePlace, ExactlyOne

\* The closure at whose call the collection has come has all of its items.
TypesHaveImpls == \A c \in type_decls : Impls(c) \subseteq trait_impls

LEMMA TypesHaveImplsStep == ASSUME TypesHaveImpls, [Next]_vars PROVE TypesHaveImpls'
<1>1. CASE CollectClosure
  <2>1. \A c, d : c # d => Impls(c) \intersect Impls(d) = {}
    BY DEF Impls
  <2>2. QED
    BY <1>1, <2>1 DEF CollectClosure, TypesHaveImpls
<1>2. CASE ~CollectClosure
  <2>1. UNCHANGED <<type_decls, trait_impls>>
    BY <1>2 DEF Next, TakeItem, SkipItem, RunPass, PutItemBack, StartCollect, FinishCollect,
       PassBlock, CollectEntry, ReturnToCaller, vars, crate
  <2>2. QED
    BY <2>1 DEF TypesHaveImpls
<1>3. QED
  BY <1>1, <1>2

LEMMA ItemsAreThere ==
    ASSUME IInv, BatchInv, TypesHaveImpls,
           frames # <<>>, ~Finished(Top), BlockOf(Top).kind \in SpecKinds
    PROVE  /\ Impls(BlockOf(Top).closure) \subseteq trait_impls
           /\ Methods(BlockOf(Top).closure) \subseteq fun_decls
<1> PICK c, h, i : c = BlockOf(Top).closure /\ h = Top.fun /\ i = Top.next
  OBVIOUS
<1>0. /\ TypeOK /\ PlacesInv /\ StackInv /\ BlocksInv /\ DoneTold /\ OfAProgram
      /\ AbsentAreGone /\ ItemIsHost
  BY DoneOf DEF IInv, BatchInv, StackInv, ItemsInv, HostsInv
<1>1. /\ Len(frames) \in Nat \ {0} /\ Top = frames[Len(frames)]
      /\ h \in FunIds /\ i \in Nat \ {0} /\ i \in 1 .. Len(terms[h])
      /\ c \in Closures /\ HandsOver(terms[h][i], c)
  <2>1. BlockOf(Top) = terms[h][i]
    BY DEF BlockOf
  <2>2. QED
    BY <1>0, <2>1, TopFacts, TerminatorFields DEF HandsOver
<1>2. Len(frames) \in 1 .. Len(frames)
  BY <1>1
<1>3. BlocksDone(h) = i - 1
  BY <1>0, <1>1, <1>2 DEF DoneTold
<1>4. /\ Len(terms[h]) = Len(written[h]) /\ BlocksDone(h) < i
      /\ \A f \in FunIds : DOMAIN written[f] = 1 .. Len(written[f])
  BY <1>0, <1>1, <1>3 DEF BlocksInv, SameLength, TypeOK
<1>5. HandsOver(written[h][i], c)
  BY <1>0, <1>1, <1>4 DEF BlocksInv, StillWritten
<1>6. c \in type_decls
  <2> SUFFICES ASSUME c \notin type_decls PROVE FALSE
    OBVIOUS
  <2>0. PICK g \in FunIds : \E j \in 1 .. Len(written[g]) :
          /\ HandsOver(written[g][j], c)
          /\ j <= BlocksDone(g) \/ \E k \in 1 .. Len(frames) - 1 : frames[k].fun = g
    BY <1>0, <1>1, GoneHandedOver
  <2>1. PICK j \in 1 .. Len(written[g]) :
          /\ HandsOver(written[g][j], c)
          /\ j <= BlocksDone(g) \/ \E k \in 1 .. Len(frames) - 1 : frames[k].fun = g
    BY <2>0
  <2>2. PICK p \in Programs : written = p.terms
    BY <1>0 DEF OfAProgram
  <2>3. g = h /\ j = i
    BY <1>1, <1>4, <1>5, <2>1, <2>2, WrittenAssumption
  <2>4. ~(j <= BlocksDone(g))
    BY <1>1, <1>3, <2>3
  <2>5. PICK k \in 1 .. Len(frames) - 1 : frames[k].fun = frames[Len(frames)].fun
    BY <1>1, <2>1, <2>3, <2>4
  <2>6. k \in 1 .. Len(frames) /\ k # Len(frames)
    BY <1>1
  <2>7. QED
    BY <1>0, <1>2, <2>5, <2>6 DEF StackInv, AllDifferent
<1>7. ASSUME NEW f \in Methods(c) PROVE f \in fun_decls
  <2>1. f \in Closures \X FnTraits /\ f \in FunIds
    BY <1>1 DEF Methods, Method, FunIds
  <2>2. f # item
    BY <1>0, <2>1, HostsAssumption, NoneAssumption DEF ItemIsHost
  <2>3. \A d \in Gone : f \notin Methods(d)
    BY <1>6 DEF Gone, Methods, Method
  <2>4. QED
    BY <1>0, <2>1, <2>2, <2>3 DEF AbsentAreGone
<1>8. QED
  BY <1>6, <1>7 DEF TypesHaveImpls

\* Where the code would panic, what it relies on holds: the slot that an item
\* is put back to is empty, a closure's items are in the crate's tables when
\* it is collected, the block to which a collected closure's call returns
\* hands a closure over, the method of an invariant is in its slot, and each
\* body of the two tables has got names.
NoPanic ==
    /\ item # None => item \notin fun_decls
    /\ frames # <<>> /\ ~Finished(Top) /\ BlockOf(Top).kind \in SpecKinds =>
          /\ Impls(BlockOf(Top).closure) \subseteq trait_impls
          /\ Methods(BlockOf(Top).closure) \subseteq fun_decls
    /\ Len(frames) > 1 => BlockOf(Last(Callers)).kind \in SpecKinds
    /\ stage = "non_body" /\ impls # <<>> => Head(impls).method \in fun_decls
    /\ stage = "non_body" /\ impls = <<>> =>
          ToSet(spec_bodies) \union ToSet(spec_closures) \subseteq {body[1] : body \in Mapped}

\* The collection is over when the batch is.
CallsInv == IF stage = "batch" THEN TypesHaveImpls ELSE frames = <<>>

LEMMA CallsInvStep == ASSUME NamesInv, CallsInv, [NamesNext]_allVars PROVE CallsInv'
<1>1. CASE UNCHANGED allVars
  <2>1. UNCHANGED <<stage, frames, type_decls, trait_impls>>
    BY <1>1 DEF allVars, vars, crate
  <2>2. QED
    BY <2>1 DEF CallsInv, TypesHaveImpls
<1>2. CASE RunBatch
  BY <1>2, TypesHaveImplsStep DEF RunBatch, CallsInv
<1>3. CASE EndBatch
  <2>1. frames = <<>>
    BY <1>3 DEF NamesInv, IInv, CallsOK, InBatch, EndBatch, BatchDone
  <2>2. QED
    BY <1>3, <2>1 DEF EndBatch, CallsInv, vars
<1>4. CASE CollectInvariant \/ BuildNames
  BY <1>4 DEF CollectInvariant, BuildNames, CallsInv, vars
<1>5. QED
  BY <1>1, <1>2, <1>3, <1>4 DEF NamesNext

LEMMA TablesGetNames ==
    ASSUME NamesInv, StageInv, stage = "non_body"
    PROVE  ToSet(spec_bodies) \union ToSet(spec_closures) \subseteq {body[1] : body \in Mapped}
<1>1. /\ IInv /\ TypeOK /\ OfAProgram /\ AllCollected /\ HostsOwned /\ TablesOK
  BY DEF NamesInv, IInv, StageInv
<1>2. PICK depth : DepthsOK(depth)
  BY <1>1, DepthsExist
<1>3. Mapped = {<<f, depth[f]>> : f \in BodiesWritten}
  BY <1>1, <1>2, MappedTold
<1>4. BodiesWritten \subseteq {body[1] : body \in Mapped}
  <2>1. ASSUME NEW f \in BodiesWritten PROVE f \in {body[1] : body \in Mapped}
    <3>1. <<f, depth[f]>> \in Mapped /\ <<f, depth[f]>>[1] = f
      BY <1>3
    <3>2. QED
      BY <3>1
  <2>2. QED
    BY <2>1
<1>5. ToSet(spec_bodies) \subseteq BodiesWritten
  BY <1>1 DEF HostsOwned, BodiesWritten
<1>6. ASSUME NEW id \in DOMAIN spec_closures PROVE spec_closures[id] \in BodiesWritten
  <2>1. PICK f \in FunIds : \E i \in DOMAIN terms[f] : terms[f][i] = Contract(id)
    BY <1>1 DEF IInv, SpecClosuresReferencedOnce
  <2>2. Contract(id) \in ToSet(terms[f])
    BY <2>1 DEF ToSet
  <2>3. spec_closures[id] \in CarriedBy(f)
    BY <2>2 DEF CarriedBy, Contract
  <2>4. QED
    BY <1>1, <2>3 DEF AllCollected
<1>7. QED
  BY <1>4, <1>5, <1>6 DEF ToSet

\* In every crate no unwrap and no assertion fails, of the batch that deletes
\* what it has yet to visit, of the collection, or of name_map.
THEOREM NeverPanics == NamesSpec => []NoPanic
<1>1. NamesInit => StageInv /\ CallsInv
  <2>1. Init /\ stage = "batch" => CallsInv
    BY DEF Init, CallsInv, TypesHaveImpls, Impls
  <2>2. QED
    BY <2>1, InitStage DEF NamesInit
<1>2. NamesInv /\ NamesInv' /\ StageInv /\ CallsInv /\ [NamesNext]_allVars => StageInv' /\ CallsInv'
  BY StageStep, CallsInvStep
<1>3. NamesInv /\ StageInv /\ CallsInv => NoPanic
  <2> SUFFICES ASSUME NamesInv, StageInv, CallsInv PROVE NoPanic
    OBVIOUS
  <2>1. IInv /\ TypeOK
    BY DEF NamesInv, IInv
  <2>2. item # None => item \notin fun_decls
    BY <2>1 DEF TypeOK
  <2>3. ASSUME frames # <<>>, ~Finished(Top), BlockOf(Top).kind \in SpecKinds
        PROVE  /\ Impls(BlockOf(Top).closure) \subseteq trait_impls
               /\ Methods(BlockOf(Top).closure) \subseteq fun_decls
    <3>1. BatchInv /\ TypesHaveImpls
      BY <2>3 DEF StageInv, CallsInv
    <3>2. QED
      BY <2>1, <2>3, <3>1, ItemsAreThere
  <2>4. ASSUME Len(frames) > 1 PROVE BlockOf(Last(Callers)).kind \in SpecKinds
    <3>1. Last(Callers) = frames[Len(frames) - 1]
      BY <2>1, <2>4, CallersFacts DEF IInv, CallsOK
    <3>2. Len(frames) - 1 \in 1 .. Len(frames) - 1
      BY <2>1, <2>4 DEF TypeOK
    <3>3. QED
      BY <2>1, <3>1, <3>2 DEF IInv, CallsOK, Waiting
  <2>5. ASSUME stage = "non_body", impls # <<>> PROVE Head(impls).method \in fun_decls
    <3>1. ImplsWait
      BY <2>5 DEF StageInv
    <3>2. Head(impls) = impls[1] /\ 1 \in 1 .. Len(impls)
      <4> PICK Impl : Impl = [type : Types, method : Hosts]
        OBVIOUS
      <4>1. impls \in Seq(Impl)
        BY DEF NamesInv, TablesOK
      <4>2. QED
        BY <2>5, <4>1, TailOf
    <3>3. QED
      BY <3>1, <3>2 DEF ImplsWait
  <2>6. QED
    BY <2>2, <2>3, <2>4, <2>5, TablesGetNames DEF NoPanic
<1>4. QED
  BY <1>1, <1>2, <1>3, NamesInvariance, PTL DEF NamesSpec
=============================================================================
