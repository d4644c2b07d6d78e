------------------------ MODULE TranslateQueueProofs ------------------------
(* Proofs about TranslateQueue, for any crate, any number of items and of    *)
(* methods: type correctness, that no slot is filled twice, that no method   *)
(* is left without its functions, that what is translated in the end does    *)
(* not depend on any order, and that the queue implements LazyItems.         *)
EXTENDS TranslateQueue, FixedPoints, SequenceTheorems

StackItems(stack) == {stack[k].item : k \in DOMAIN stack}
Distinct(stack) == \A k, l \in DOMAIN stack : stack[k].item = stack[l].item => k = l

-----------------------------------------------------------------------------
(* Sequences and their elements *)

LEMMA EmptyHasNone == ElementsOf(<<>>) = {} /\ StackItems(<<>>) = {}
  BY DEF ElementsOf, StackItems

LEMMA TailElements ==
  ASSUME NEW S, NEW s \in Seq(S), s # <<>>
  PROVE  /\ Tail(s) \in Seq(S)
         /\ Head(s) \in S
         /\ ElementsOf(s) = {Head(s)} \union ElementsOf(Tail(s))
  <1>1. /\ Tail(s) \in Seq(S) /\ Head(s) \in S /\ Len(s) \in Nat \ {0}
        /\ DOMAIN s = 1 .. Len(s) /\ DOMAIN Tail(s) = 1 .. Len(s) - 1
        /\ Head(s) = s[1] /\ \A k \in 1 .. Len(s) - 1 : Tail(s)[k] = s[k + 1]
    OBVIOUS
  <1>2. ASSUME NEW k \in 1 .. Len(s), k # 1
        PROVE  k - 1 \in 1 .. Len(s) - 1 /\ s[k] = Tail(s)[k - 1]
    BY <1>1, <1>2
  <1>3. ElementsOf(s) \subseteq {Head(s)} \union ElementsOf(Tail(s))
    <2> SUFFICES ASSUME NEW k \in 1 .. Len(s)
                 PROVE  s[k] \in {Head(s)} \union ElementsOf(Tail(s))
      BY <1>1 DEF ElementsOf
    <2>1. CASE k = 1
      BY <1>1, <2>1
    <2>2. CASE k # 1
      BY <1>1, <1>2, <2>2 DEF ElementsOf
    <2> QED BY <2>1, <2>2
  <1>4. {Head(s)} \union ElementsOf(Tail(s)) \subseteq ElementsOf(s)
    BY <1>1 DEF ElementsOf
  <1> QED BY <1>1, <1>3, <1>4

LEMMA ConcatElements ==
  ASSUME NEW S, NEW s \in Seq(S), NEW t \in Seq(S)
  PROVE  /\ s \o t \in Seq(S)
         /\ ElementsOf(s \o t) = ElementsOf(s) \union ElementsOf(t)
  <1>1. /\ s \o t \in Seq(S) /\ Len(s) \in Nat /\ Len(t) \in Nat
        /\ DOMAIN s = 1 .. Len(s) /\ DOMAIN t = 1 .. Len(t)
        /\ DOMAIN (s \o t) = 1 .. Len(s) + Len(t)
        /\ \A k \in 1 .. Len(s) + Len(t) :
              (s \o t)[k] = IF k <= Len(s) THEN s[k] ELSE t[k - Len(s)]
    OBVIOUS
  <1>2. ElementsOf(s \o t) \subseteq ElementsOf(s) \union ElementsOf(t)
    <2> SUFFICES ASSUME NEW k \in 1 .. Len(s) + Len(t)
                 PROVE  (s \o t)[k] \in ElementsOf(s) \union ElementsOf(t)
      BY <1>1 DEF ElementsOf
    <2>1. CASE k <= Len(s)
      BY <1>1, <2>1 DEF ElementsOf
    <2>2. CASE ~(k <= Len(s))
      <3>1. k - Len(s) \in 1 .. Len(t) /\ (s \o t)[k] = t[k - Len(s)]
        BY <1>1, <2>2
      <3> QED BY <1>1, <3>1 DEF ElementsOf
    <2> QED BY <2>1, <2>2
  <1>3. ElementsOf(s) \subseteq ElementsOf(s \o t)
    <2> SUFFICES ASSUME NEW k \in 1 .. Len(s) PROVE s[k] \in ElementsOf(s \o t)
      BY <1>1 DEF ElementsOf
    <2>1. k \in 1 .. Len(s) + Len(t) /\ (s \o t)[k] = s[k]
      BY <1>1
    <2> QED BY <1>1, <2>1 DEF ElementsOf
  <1>4. ElementsOf(t) \subseteq ElementsOf(s \o t)
    <2> SUFFICES ASSUME NEW k \in 1 .. Len(t) PROVE t[k] \in ElementsOf(s \o t)
      BY <1>1 DEF ElementsOf
    <2>1. k + Len(s) \in 1 .. Len(s) + Len(t) /\ (s \o t)[k + Len(s)] = t[k]
      BY <1>1
    <2> QED BY <1>1, <2>1 DEF ElementsOf
  <1> QED BY <1>1, <1>2, <1>3, <1>4

LEMMA AppendElements ==
  ASSUME NEW S, NEW s \in Seq(S), NEW x \in S
  PROVE  /\ Append(s, x) \in Seq(S)
         /\ ElementsOf(Append(s, x)) = ElementsOf(s) \union {x}
  <1>1. /\ Append(s, x) \in Seq(S) /\ Len(s) \in Nat
        /\ DOMAIN s = 1 .. Len(s) /\ DOMAIN Append(s, x) = 1 .. Len(s) + 1
        /\ Append(s, x)[Len(s) + 1] = x
        /\ \A k \in 1 .. Len(s) : Append(s, x)[k] = s[k]
    OBVIOUS
  <1>2. \A k \in 1 .. Len(s) + 1 : k = Len(s) + 1 \/ k \in 1 .. Len(s)
    BY <1>1
  <1>3. ElementsOf(Append(s, x)) \subseteq ElementsOf(s) \union {x}
    BY <1>1, <1>2 DEF ElementsOf
  <1>4. ElementsOf(s) \union {x} \subseteq ElementsOf(Append(s, x))
    <2>1. Len(s) + 1 \in 1 .. Len(s) + 1 /\ \A k \in 1 .. Len(s) : k \in 1 .. Len(s) + 1
      BY <1>1
    <2> QED BY <1>1, <2>1 DEF ElementsOf
  <1> QED BY <1>1, <1>3, <1>4

\* An iteration over a hash set yields its elements and nothing else.
LEMMA OrdersAreSequences ==
  ASSUME NEW S, S \subseteq Items, NEW s \in Orders(S)
  PROVE  s \in Seq(Items) /\ ElementsOf(s) = S
  <1>1. IsFiniteSet(S)
    BY ItemsAssumption, FS_Subset
  <1>2. Cardinality(S) \in Nat
    BY <1>1, FS_CardinalityType
  <1>3. s \in [1 .. Cardinality(S) -> S] /\ \A x \in S : \E k \in DOMAIN s : s[k] = x
    BY DEF Orders
  <1>4. s \in Seq(Items)
    BY <1>2, <1>3
  <1> QED BY <1>3, <1>4 DEF ElementsOf

-----------------------------------------------------------------------------
(* The stack *)

\* Two stacks with the same items in the same places have the same items, and
\* have them once or more than once alike.
LEMMA SameItems ==
  ASSUME NEW s, NEW t, DOMAIN s = DOMAIN t,
         \A k \in DOMAIN s : t[k].item = s[k].item
  PROVE  /\ StackItems(t) = StackItems(s)
         /\ Distinct(s) => Distinct(t)
  BY DEF StackItems, Distinct

LEMMA FrameFields ==
  ASSUME NEW f \in Frames
  PROVE  /\ f.item \in Items /\ f.next \in Nat \ {0} /\ f.failed \in BOOLEAN
         /\ [f EXCEPT !.next = @ + 1] \in Frames
         /\ [f EXCEPT !.failed = TRUE] \in Frames
         /\ [f EXCEPT !.next = @ + 1].item = f.item
         /\ [f EXCEPT !.failed = TRUE].item = f.item
  <1>1. f.item \in Items /\ f.next \in Nat \ {0} /\ f.failed \in BOOLEAN
    BY DEF Frames
  <1>2. f = [item |-> f.item, next |-> f.next, failed |-> f.failed]
    BY DEF Frames
  <1>3. /\ [f EXCEPT !.next = @ + 1] = [item |-> f.item, next |-> f.next + 1, failed |-> f.failed]
        /\ [f EXCEPT !.failed = TRUE] = [item |-> f.item, next |-> f.next, failed |-> TRUE]
    <2>1. ASSUME NEW a \in Items, NEW b \in Nat \ {0}, NEW c \in BOOLEAN
          PROVE  [[item |-> a, next |-> b, failed |-> c] EXCEPT !.next = @ + 1]
                       = [item |-> a, next |-> b + 1, failed |-> c]
      OBVIOUS
    <2>2. ASSUME NEW a, NEW b, NEW c, NEW d
          PROVE  [[item |-> a, next |-> b, failed |-> c] EXCEPT !.failed = d]
                       = [item |-> a, next |-> b, failed |-> d]
      OBVIOUS
    <2>3. [f EXCEPT !.next = @ + 1] = [item |-> f.item, next |-> f.next + 1, failed |-> f.failed]
      BY <1>1, <1>2, <2>1
    <2>4. [[item |-> f.item, next |-> f.next, failed |-> f.failed] EXCEPT !.failed = TRUE]
            = [item |-> f.item, next |-> f.next, failed |-> TRUE]
      BY <2>2, Zenon
    <2>5. [f EXCEPT !.failed = TRUE] = [item |-> f.item, next |-> f.next, failed |-> TRUE]
      BY <1>2, <2>4, Zenon
    <2> QED BY <2>3, <2>5
  <1>4. f.next + 1 \in Nat \ {0}
    BY <1>1
  <1>5. /\ [item |-> f.item, next |-> f.next + 1, failed |-> f.failed] \in Frames
        /\ [item |-> f.item, next |-> f.next, failed |-> TRUE] \in Frames
    BY <1>1, <1>4 DEF Frames
  <1> QED BY <1>1, <1>3, <1>5

\* What the step of the top item does to its own frame leaves the items.
LEMMA ReplaceTop ==
  ASSUME NEW s \in Seq(Frames), s # <<>>, NEW f \in Frames, f.item = s[Len(s)].item
  PROVE  LET t == [s EXCEPT ![Len(s)] = f]
         IN  /\ t \in Seq(Frames) /\ t # <<>>
             /\ StackItems(t) = StackItems(s)
             /\ Distinct(s) => Distinct(t)
  <1> DEFINE t == [s EXCEPT ![Len(s)] = f]
  <1>1. Len(s) \in Nat \ {0} /\ DOMAIN s = 1 .. Len(s) /\ \A k \in 1 .. Len(s) : s[k] \in Frames
    OBVIOUS
  <1>2. t = [k \in 1 .. Len(s) |-> IF k = Len(s) THEN f ELSE s[k]]
    BY <1>1
  <1> HIDE DEF t
  <1>3. t \in Seq(Frames) /\ Len(t) = Len(s) /\ DOMAIN t = DOMAIN s
    <2>1. t \in [1 .. Len(s) -> Frames] /\ DOMAIN t = 1 .. Len(s)
      BY <1>1, <1>2
    <2> QED BY <1>1, <2>1
  <1>4. \A k \in DOMAIN s : t[k].item = s[k].item
    BY <1>1, <1>2
  <1>5. t # <<>>
    BY <1>1, <1>3
  <1> QED BY <1>3, <1>4, <1>5, SameItems DEF t

LEMMA AdvancedStack ==
  ASSUME NEW s \in Seq(Frames), s # <<>>
  PROVE  /\ Advanced(s) \in Seq(Frames) /\ Advanced(s) # <<>>
         /\ StackItems(Advanced(s)) = StackItems(s)
         /\ Distinct(s) => Distinct(Advanced(s))
  <1>1. Len(s) \in DOMAIN s /\ s[Len(s)] \in Frames
    OBVIOUS
  <1> DEFINE f == [s[Len(s)] EXCEPT !.next = @ + 1]
  <1>2. f \in Frames /\ f.item = s[Len(s)].item
    BY <1>1, FrameFields
  <1>3. Advanced(s) = [s EXCEPT ![Len(s)] = f]
    BY <1>1 DEF Advanced
  <1> HIDE DEF f
  <1> QED BY <1>2, <1>3, ReplaceTop

LEMMA GivenStack ==
  ASSUME NEW s \in Seq(Frames), s # <<>>
  PROVE  /\ GivenNoTranslation(s) \in Seq(Frames) /\ GivenNoTranslation(s) # <<>>
         /\ StackItems(GivenNoTranslation(s)) = StackItems(s)
         /\ Distinct(s) => Distinct(GivenNoTranslation(s))
  <1>1. Len(s) \in DOMAIN s /\ s[Len(s)] \in Frames
    OBVIOUS
  <1> DEFINE f == [s[Len(s)] EXCEPT !.failed = TRUE]
             t == [s EXCEPT ![Len(s)].failed = TRUE]
  <1>2. f \in Frames /\ f.item = s[Len(s)].item
    BY <1>1, FrameFields
  <1>3. t = [s EXCEPT ![Len(s)] = f]
    BY <1>1
  <1> HIDE DEF f
  <1>4. /\ t \in Seq(Frames) /\ t # <<>>
        /\ StackItems(t) = StackItems(s)
        /\ Distinct(s) => Distinct(t)
    BY <1>2, <1>3, ReplaceTop
  <1>5. GivenNoTranslation(s) = t \/ GivenNoTranslation(s) = Advanced(s)
    BY DEF GivenNoTranslation
  <1> HIDE DEF t
  <1> QED BY <1>4, <1>5, AdvancedStack

LEMMA PushStack ==
  ASSUME NEW s \in Seq(Frames), NEW i \in Items, i \notin StackItems(s)
  PROVE  LET t == Append(s, Frame(i))
         IN  /\ t \in Seq(Frames) /\ t # <<>>
             /\ StackItems(t) = StackItems(s) \union {i}
             /\ Distinct(s) => Distinct(t)
  <1> DEFINE t == Append(s, Frame(i))
  <1>1. Frame(i) \in Frames /\ Frame(i).item = i
    BY DEF Frame, Frames
  <1>2. /\ t \in Seq(Frames) /\ Len(s) \in Nat /\ t # <<>>
        /\ DOMAIN s = 1 .. Len(s) /\ DOMAIN t = 1 .. Len(s) + 1
        /\ t[Len(s) + 1] = Frame(i)
        /\ \A k \in 1 .. Len(s) : t[k] = s[k]
    BY <1>1
  <1>3. \A k \in 1 .. Len(s) + 1 : k = Len(s) + 1 \/ k \in 1 .. Len(s)
    BY <1>2
  <1>4. Len(s) + 1 \in 1 .. Len(s) + 1 /\ \A k \in 1 .. Len(s) : k \in 1 .. Len(s) + 1
    BY <1>2
  <1> HIDE DEF t
  <1>5. StackItems(t) \subseteq StackItems(s) \union {i}
    BY <1>1, <1>2, <1>3 DEF StackItems
  <1>6. StackItems(s) \union {i} \subseteq StackItems(t)
    BY <1>1, <1>2, <1>4 DEF StackItems
  <1>7. \A k \in 1 .. Len(s) : t[k].item # i /\ t[k].item = s[k].item
    BY <1>2 DEF StackItems
  <1>8. Distinct(s) => Distinct(t)
    <2> SUFFICES ASSUME Distinct(s), NEW k \in 1 .. Len(s) + 1, NEW l \in 1 .. Len(s) + 1,
                        t[k].item = t[l].item
                 PROVE  k = l
      BY <1>2 DEF Distinct
    <2>1. CASE k = Len(s) + 1
      BY <1>1, <1>2, <1>3, <1>7, <2>1
    <2>2. CASE l = Len(s) + 1
      BY <1>1, <1>2, <1>3, <1>7, <2>2
    <2>3. CASE k \in 1 .. Len(s) /\ l \in 1 .. Len(s)
      BY <1>2, <1>7, <2>3 DEF Distinct
    <2> QED BY <1>3, <2>1, <2>2, <2>3
  <1> QED BY <1>2, <1>5, <1>6, <1>8 DEF t

LEMMA ShorterStack ==
  ASSUME NEW s \in Seq(Frames), s # <<>>
  PROVE  LET t == SubSeq(s, 1, Len(s) - 1)
         IN  /\ t \in Seq(Frames) /\ Len(t) = Len(s) - 1 /\ DOMAIN t = 1 .. Len(s) - 1
             /\ \A k \in 1 .. Len(s) - 1 : t[k] = s[k]
  <1> DEFINE t == SubSeq(s, 1, Len(s) - 1)
  <1>1. Len(s) \in Nat \ {0} /\ DOMAIN s = 1 .. Len(s) /\ \A k \in 1 .. Len(s) : s[k] \in Frames
    OBVIOUS
  <1>2. Len(s) - 1 \in Int /\ 1 \in Int /\ \A k \in 1 .. Len(s) - 1 : s[k] \in Frames
    BY <1>1
  <1>3. /\ t \in Seq(Frames)
        /\ Len(t) = IF 1 <= Len(s) - 1 THEN (Len(s) - 1) - 1 + 1 ELSE 0
        /\ \A k \in 1 .. (Len(s) - 1) - 1 + 1 : t[k] = s[1 + k - 1]
    BY <1>2, SubSeqProperties
  <1> HIDE DEF t
  <1>4. Len(t) = Len(s) - 1 /\ (Len(s) - 1) - 1 + 1 = Len(s) - 1
    <2>1. Len(t) = IF 1 <= Len(s) - 1 THEN (Len(s) - 1) - 1 + 1 ELSE 0
      BY <1>3
    <2>2. ASSUME NEW n \in Nat \ {0}
          PROVE  (IF 1 <= n - 1 THEN (n - 1) - 1 + 1 ELSE 0) = n - 1 /\ (n - 1) - 1 + 1 = n - 1
      OBVIOUS
    <2> QED BY <1>1, <2>1, <2>2
  <1>5. \A k \in 1 .. Len(s) - 1 : 1 + k - 1 = k
    BY <1>1
  <1> QED BY <1>3, <1>4, <1>5 DEF t

LEMMA PopStack ==
  ASSUME NEW s \in Seq(Frames), s # <<>>
  PROVE  LET t == SubSeq(s, 1, Len(s) - 1)
         IN  /\ t \in Seq(Frames)
             /\ StackItems(s) = StackItems(t) \union {s[Len(s)].item}
             /\ Distinct(s) => Distinct(t) /\ s[Len(s)].item \notin StackItems(t)
  <1> DEFINE t == SubSeq(s, 1, Len(s) - 1)
  <1>1. Len(s) \in Nat \ {0} /\ DOMAIN s = 1 .. Len(s) /\ \A k \in 1 .. Len(s) : s[k] \in Frames
    OBVIOUS
  <1>2. /\ t \in Seq(Frames) /\ DOMAIN t = 1 .. Len(s) - 1
        /\ \A k \in 1 .. Len(s) - 1 : t[k] = s[k]
    BY ShorterStack
  <1>3. /\ Len(s) \in 1 .. Len(s) /\ Len(s) \notin 1 .. Len(s) - 1
        /\ \A k \in 1 .. Len(s) : k = Len(s) \/ k \in 1 .. Len(s) - 1
        /\ \A k \in 1 .. Len(s) - 1 : k \in 1 .. Len(s)
    <2>1. ASSUME NEW n \in Nat \ {0}
          PROVE  /\ n \in 1 .. n /\ n \notin 1 .. n - 1
                 /\ \A k \in 1 .. n : k = n \/ k \in 1 .. n - 1
                 /\ \A k \in 1 .. n - 1 : k \in 1 .. n
      OBVIOUS
    <2> QED BY <1>1, <2>1
  <1> HIDE DEF t
  <1>4. StackItems(s) \subseteq StackItems(t) \union {s[Len(s)].item}
    BY <1>1, <1>2, <1>3 DEF StackItems
  <1>5. StackItems(t) \union {s[Len(s)].item} \subseteq StackItems(s)
    BY <1>1, <1>2, <1>3 DEF StackItems
  <1>6. Distinct(s) => Distinct(t)
    BY <1>1, <1>2, <1>3 DEF Distinct
  <1>7. Distinct(s) => s[Len(s)].item \notin StackItems(t)
    <2> SUFFICES ASSUME Distinct(s), NEW k \in 1 .. Len(s) - 1, s[Len(s)].item = t[k].item
                 PROVE  FALSE
      BY <1>2 DEF StackItems
    <2>1. k \in 1 .. Len(s) /\ t[k] = s[k]
      BY <1>2, <1>3
    <2>2. k = Len(s)
      BY <1>1, <1>3, <2>1 DEF Distinct
    <2> QED BY <1>3, <2>2
  <1> QED BY <1>2, <1>4, <1>5, <1>6, <1>7 DEF t

-----------------------------------------------------------------------------
(* The inductive invariant *)

Tried == processed \union unfilled \union StackItems(translate_stack)

\* The items that something asks for, as LazyItems has it.
Required == wanted \union {i \in Items : \E m \in used : <<m, i>> \in impls}

StackInv == /\ Distinct(translate_stack)
            /\ \A i \in StackItems(translate_stack) : i \notin translated

\* An implementation of a method is queued or processed once the method is
\* used, and waits among its implementors until then.
MethodsInv == /\ \A p \in impls : p[1] \in used =>
                    p[2] \in ElementsOf(items_to_translate) \union processed
              /\ \A p \in impls : p[1] \notin used => p[2] \in implementors[p[1]]
              /\ pc = "translate" =>
                    \A m \in Methods : \A i \in implementors[m] : <<m, i>> \in impls

QueueInv == /\ ElementsOf(items_to_translate) \subseteq Required
            /\ wanted \subseteq ElementsOf(items_to_translate) \union Tried

DoneInv == pc = "done" => /\ items_to_translate = <<>>
                          /\ translate_stack = <<>>
                          /\ \A p \in impls : p[1] \in used

IInv == TypeOK /\ StackInv /\ MethodsInv /\ QueueInv /\ DoneInv

LEMMA StepFields ==
  ASSUME NEW s \in Steps
  PROVE  /\ s.op = "enqueue" => s.item \in Items
         /\ s.op = "use" => s.method \in Methods
         /\ s.op = "implement" => s.method \in Methods /\ s.item \in Items
         /\ s.op = "reuse" => s.needs \in Items /\ s.method \in Methods /\ s.item \in Items
         /\ s.op = "need" => s.needs \in Items
  <1>1. CASE s \in {Enqueue(i) : i \in Items}
    BY <1>1 DEF Enqueue
  <1>2. CASE s \in {Use(m) : m \in Methods}
    BY <1>2 DEF Use
  <1>3. CASE s \in {Implement(m, i) : m \in Methods, i \in Items}
    BY <1>3 DEF Implement
  <1>4. CASE s \in {ReuseDefault(t, m, i) : t \in Items, m \in Methods, i \in Items}
    BY <1>4 DEF ReuseDefault
  <1>5. CASE s \in {Need(i) : i \in Items}
    BY <1>5 DEF Need
  <1>6. CASE s = Stop
    BY <1>6 DEF Stop
  <1> QED BY <1>1, <1>2, <1>3, <1>4, <1>5, <1>6 DEF Steps

LEMMA TopOfStack ==
  ASSUME TypeOK, translate_stack # <<>>
  PROVE  /\ Top \in Frames /\ Top.item \in Items
         /\ Top.item \in StackItems(translate_stack)
  <1>1. translate_stack \in Seq(Frames)
    BY DEF TypeOK
  <1>2. Len(translate_stack) \in DOMAIN translate_stack /\ Top \in Frames
    BY <1>1 DEF Top
  <1> QED BY <1>2, FrameFields DEF Top, StackItems

LEMMA StepOfTop ==
  ASSUME TypeOK, NEW op, At(op)
  PROVE  Step \in Steps /\ Step.op = op /\ translate_stack # <<>>
  <1>1. translate_stack # <<>> /\ Top.next \in DOMAIN program.steps[Top.item] /\ Step.op = op
    BY DEF At, InProgress, Step
  <1>2. Top.item \in Items
    BY <1>1, TopOfStack
  <1>3. program.steps[Top.item] \in Seq(Steps)
    BY <1>2 DEF TypeOK
  <1>4. Step \in Steps
    BY <1>1, <1>3 DEF Step
  <1> QED BY <1>1, <1>4

\* Who is at work is not done.
LEMMA NotDone ==
  ASSUME TypeOK, DoneInv, translate_stack # <<>>
  PROVE  pc = "translate"
  BY DEF TypeOK, DoneInv

-----------------------------------------------------------------------------
(* What is proved of the steps that change just the stack *)

LEMMA OnlyStack ==
  ASSUME IInv, translate_stack # <<>>,
         translate_stack' \in Seq(Frames), translate_stack' # <<>>,
         StackItems(translate_stack') = StackItems(translate_stack),
         Distinct(translate_stack) => Distinct(translate_stack'),
         UNCHANGED <<program, items_to_translate, processed, translated, used, implementors,
                     impls, pc, wanted, unfilled>>
  PROVE  IInv'
  <1>1. TypeOK'
    BY DEF IInv, TypeOK
  <1>2. StackInv'
    BY DEF IInv, StackInv
  <1>3. MethodsInv'
    BY DEF IInv, MethodsInv
  <1>4. QueueInv'
    BY DEF IInv, QueueInv, Required, Tried
  <1>5. DoneInv'
    BY NotDone DEF IInv, DoneInv
  <1> QED BY <1>1, <1>2, <1>3, <1>4, <1>5 DEF IInv

LEMMA FindTranslatedStep == IInv /\ FindTranslated => IInv'
  <1> SUFFICES ASSUME IInv, FindTranslated PROVE IInv'
    OBVIOUS
  <1>1. translate_stack # <<>> /\ translate_stack \in Seq(Frames)
    BY DEF FindTranslated, At, InProgress, IInv, TypeOK
  <1>2. translate_stack' = Advanced(translate_stack)
    BY DEF FindTranslated, Proceed
  <1> QED BY <1>1, <1>2, AdvancedStack, OnlyStack DEF FindTranslated

LEMMA DetectCycleStep == IInv /\ DetectCycle => IInv'
  <1> SUFFICES ASSUME IInv, DetectCycle PROVE IInv'
    OBVIOUS
  <1>1. translate_stack # <<>> /\ translate_stack \in Seq(Frames)
    BY DEF DetectCycle, At, InProgress, IInv, TypeOK
  <1>2. translate_stack' = GivenNoTranslation(translate_stack)
    BY DEF DetectCycle
  <1> QED BY <1>1, <1>2, GivenStack, OnlyStack DEF DetectCycle

-----------------------------------------------------------------------------
(* The steps of the loop over the queue *)

LEMMA TranslateItemStep == IInv /\ TranslateItem => IInv'
  <1> SUFFICES ASSUME IInv, TranslateItem PROVE IInv'
    OBVIOUS
  <1> DEFINE i == Head(items_to_translate)
             rest == Tail(items_to_translate)
  <1>1. /\ items_to_translate \in Seq(Items) /\ items_to_translate # <<>>
        /\ translate_stack = <<>> /\ i \notin processed
        /\ items_to_translate' = rest
        /\ processed' = processed \union {i}
        /\ translate_stack' = <<Frame(i)>>
        /\ pc = "translate"
    BY DEF IInv, TypeOK, TranslateItem, PopFront
  <1>2. UNCHANGED <<program, translated, used, implementors, impls, pc, wanted, unfilled>>
    BY DEF TranslateItem
  <1>3. i \in Items /\ rest \in Seq(Items)
        /\ ElementsOf(items_to_translate) = {i} \union ElementsOf(rest)
    BY <1>1, TailElements
  <1> HIDE DEF i, rest
  <1>4. /\ translate_stack' \in Seq(Frames) /\ translate_stack' # <<>>
        /\ StackItems(translate_stack') = {i}
        /\ Distinct(translate_stack')
    <2>1. Append(<<>>, Frame(i)) = <<Frame(i)>> /\ <<>> \in Seq(Frames) /\ Distinct(<<>>)
      BY DEF Distinct
    <2> QED BY <1>1, <1>3, <2>1, PushStack, EmptyHasNone
  <1>5. TypeOK'
    BY <1>1, <1>2, <1>3, <1>4 DEF IInv, TypeOK
  <1>6. StackInv'
    <2>1. i \notin translated
      BY <1>1 DEF IInv, TypeOK
    <2> QED BY <1>2, <1>4, <2>1 DEF StackInv
  <1>7. MethodsInv'
    BY <1>1, <1>2, <1>3 DEF IInv, MethodsInv
  <1>8. QueueInv'
    BY <1>1, <1>2, <1>3, <1>4, EmptyHasNone DEF IInv, QueueInv, Required, Tried
  <1>9. DoneInv'
    BY <1>1, <1>2 DEF DoneInv
  <1> QED BY <1>5, <1>6, <1>7, <1>8, <1>9 DEF IInv

LEMMA SkipItemStep == IInv /\ SkipItem => IInv'
  <1> SUFFICES ASSUME IInv, SkipItem PROVE IInv'
    OBVIOUS
  <1> DEFINE i == Head(items_to_translate)
             rest == Tail(items_to_translate)
  <1>1. /\ items_to_translate \in Seq(Items) /\ items_to_translate # <<>>
        /\ i \in processed /\ items_to_translate' = rest /\ pc = "translate"
    BY DEF IInv, TypeOK, SkipItem, PopFront
  <1>2. UNCHANGED <<program, processed, translated, translate_stack, used,
                    implementors, impls, pc, wanted, unfilled>>
    BY DEF SkipItem
  <1>3. i \in Items /\ rest \in Seq(Items)
        /\ ElementsOf(items_to_translate) = {i} \union ElementsOf(rest)
    BY <1>1, TailElements
  <1> HIDE DEF i, rest
  <1>4. TypeOK'
    BY <1>1, <1>2, <1>3 DEF IInv, TypeOK
  <1>5. StackInv'
    BY <1>2 DEF IInv, StackInv
  <1>6. MethodsInv'
    BY <1>1, <1>2, <1>3 DEF IInv, MethodsInv
  <1>7. QueueInv'
    BY <1>1, <1>2, <1>3 DEF IInv, QueueInv, Required, Tried
  <1>8. DoneInv'
    BY <1>1, <1>2 DEF DoneInv
  <1> QED BY <1>4, <1>5, <1>6, <1>7, <1>8 DEF IInv

LEMMA RemoveUnusedMethodsStep == IInv /\ RemoveUnusedMethods => IInv'
  <1> SUFFICES ASSUME IInv, RemoveUnusedMethods PROVE IInv'
    OBVIOUS
  <1>1. /\ translate_stack = <<>> /\ items_to_translate = <<>> /\ pc' = "done"
        /\ impls' = {p \in impls : p[1] \in used}
        /\ UNCHANGED <<program, items_to_translate, processed, translated, translate_stack,
                       used, implementors, wanted, unfilled>>
    BY DEF RemoveUnusedMethods
  <1>2. TypeOK'
    BY <1>1 DEF IInv, TypeOK
  <1>3. StackInv'
    BY <1>1 DEF IInv, StackInv
  <1>4. MethodsInv'
    BY <1>1 DEF IInv, MethodsInv
  <1>5. QueueInv'
    BY <1>1, EmptyHasNone DEF IInv, QueueInv, Required, Tried
  <1>6. DoneInv'
    BY <1>1 DEF DoneInv
  <1> QED BY <1>2, <1>3, <1>4, <1>5, <1>6 DEF IInv

-----------------------------------------------------------------------------
(* The steps that enqueue items *)

LEMMA RegisterAndEnqueueStep == IInv /\ RegisterAndEnqueue => IInv'
  <1> SUFFICES ASSUME IInv, RegisterAndEnqueue PROVE IInv'
    OBVIOUS
  <1>1. TypeOK /\ At("enqueue")
    BY DEF IInv, RegisterAndEnqueue
  <1>2. Step.item \in Items /\ translate_stack # <<>>
    BY <1>1, StepOfTop, StepFields
  <1> DEFINE i == Step.item
  <1>3. /\ items_to_translate' = Append(items_to_translate, i)
        /\ wanted' = wanted \union {i}
        /\ translate_stack' = Advanced(translate_stack)
        /\ UNCHANGED <<program, processed, translated, used, implementors, impls, pc, unfilled>>
    BY DEF RegisterAndEnqueue, Proceed
  <1> HIDE DEF i
  <1>4. i \in Items
    BY <1>2 DEF i
  <1>5. /\ items_to_translate' \in Seq(Items)
        /\ ElementsOf(items_to_translate') = ElementsOf(items_to_translate) \union {i}
    BY <1>1, <1>3, <1>4, AppendElements DEF TypeOK
  <1>6. /\ translate_stack' \in Seq(Frames) /\ translate_stack' # <<>>
        /\ StackItems(translate_stack') = StackItems(translate_stack)
        /\ Distinct(translate_stack) => Distinct(translate_stack')
    BY <1>1, <1>2, <1>3, AdvancedStack DEF TypeOK
  <1>7. TypeOK'
    BY <1>1, <1>3, <1>4, <1>5, <1>6 DEF TypeOK
  <1>8. StackInv'
    BY <1>3, <1>6 DEF IInv, StackInv
  <1>9. MethodsInv'
    BY <1>3, <1>5 DEF IInv, MethodsInv
  <1>10. QueueInv'
    BY <1>3, <1>5, <1>6 DEF IInv, QueueInv, Required, Tried
  <1>11. DoneInv'
    BY <1>1, <1>2, <1>3, NotDone DEF IInv, DoneInv
  <1> QED BY <1>7, <1>8, <1>9, <1>10, <1>11 DEF IInv

LEMMA MarkMethodAsUsedStep == IInv /\ MarkMethodAsUsed => IInv'
  <1> SUFFICES ASSUME IInv, MarkMethodAsUsed PROVE IInv'
    OBVIOUS
  <1>1. TypeOK /\ At("use")
    BY DEF IInv, MarkMethodAsUsed
  <1>2. Step.method \in Methods /\ translate_stack # <<>>
    BY <1>1, StepOfTop, StepFields
  <1>3. pc = "translate"
    BY <1>1, <1>2, NotDone DEF IInv
  <1> DEFINE m == Step.method
             S == implementors[m] \ translated
  <1>4. PICK s \in Orders(S) : items_to_translate' = items_to_translate \o s
    BY DEF MarkMethodAsUsed
  <1>5. /\ implementors' = [implementors EXCEPT ![m] = {}]
        /\ used' = used \union {m}
        /\ translate_stack' = Advanced(translate_stack)
        /\ UNCHANGED <<program, processed, translated, impls, pc, wanted, unfilled>>
    BY DEF MarkMethodAsUsed, Proceed
  <1>6. m \in Methods
    BY <1>2 DEF m
  <1> HIDE DEF m
  <1>7. S \subseteq Items /\ S \subseteq implementors[m] /\ implementors[m] \subseteq S \union translated
    BY <1>1, <1>6 DEF TypeOK
  <1> HIDE DEF S
  <1>8. s \in Seq(Items) /\ ElementsOf(s) = S
    BY <1>7, OrdersAreSequences
  <1>9. /\ items_to_translate' \in Seq(Items)
        /\ ElementsOf(items_to_translate') = ElementsOf(items_to_translate) \union S
    BY <1>1, <1>4, <1>8, ConcatElements DEF TypeOK
  <1>10. /\ translate_stack' \in Seq(Frames) /\ translate_stack' # <<>>
         /\ StackItems(translate_stack') = StackItems(translate_stack)
         /\ Distinct(translate_stack) => Distinct(translate_stack')
    BY <1>1, <1>2, <1>5, AdvancedStack DEF TypeOK
  <1>11. TypeOK'
    BY <1>1, <1>5, <1>6, <1>9, <1>10 DEF TypeOK
  <1>12. StackInv'
    BY <1>5, <1>10 DEF IInv, StackInv
  <1>13. \A n \in Methods : implementors'[n] = IF n = m THEN {} ELSE implementors[n]
    BY <1>1, <1>5, <1>6 DEF TypeOK
  <1>14. impls \subseteq Methods \X Items /\ translated \subseteq processed
    BY <1>1 DEF TypeOK
  <1>15. MethodsInv'
    <2>1. ASSUME NEW p \in impls, p[1] \in used'
          PROVE  p[2] \in ElementsOf(items_to_translate') \union processed
      <3>1. CASE p[1] \in used
        BY <1>9, <2>1, <3>1 DEF IInv, MethodsInv
      <3>2. CASE p[1] \notin used
        <4>1. p[1] = m /\ p[2] \in implementors[m]
          BY <1>5, <2>1, <3>2 DEF IInv, MethodsInv
        <4> QED BY <1>7, <1>9, <1>14, <4>1
      <3> QED BY <3>1, <3>2
    <2>2. ASSUME NEW p \in impls, p[1] \notin used'
          PROVE  p[2] \in implementors'[p[1]]
      <3>1. p[1] \in Methods /\ p[1] # m /\ p[1] \notin used
        BY <1>5, <1>14, <2>2
      <3> QED BY <1>13, <3>1 DEF IInv, MethodsInv
    <2>3. ASSUME NEW n \in Methods, NEW i \in implementors'[n]
          PROVE  <<n, i>> \in impls
      BY <1>3, <1>13, <2>3 DEF IInv, MethodsInv
    <2> QED BY <1>5, <2>1, <2>2, <2>3 DEF MethodsInv
  <1>16. QueueInv'
    <2>1. \A i \in S : <<m, i>> \in impls
      BY <1>3, <1>6, <1>7 DEF IInv, MethodsInv
    <2>2. S \subseteq Required' /\ Required \subseteq Required'
      BY <1>5, <1>7, <2>1 DEF Required
    <2> QED BY <1>5, <1>9, <1>10, <2>2 DEF IInv, QueueInv, Tried
  <1>17. DoneInv'
    BY <1>3, <1>5 DEF DoneInv
  <1> QED BY <1>11, <1>12, <1>15, <1>16, <1>17 DEF IInv

LEMMA RegisterMethodImplStep == IInv /\ RegisterMethodImpl => IInv'
  <1> SUFFICES ASSUME IInv, RegisterMethodImpl PROVE IInv'
    OBVIOUS
  <1>1. TypeOK /\ (At("implement") \/ At("reuse"))
    BY DEF IInv, RegisterMethodImpl
  <1>2. Step.method \in Methods /\ Step.item \in Items /\ translate_stack # <<>>
    BY <1>1, StepOfTop, StepFields
  <1>3. pc = "translate"
    BY <1>1, <1>2, NotDone DEF IInv
  <1> DEFINE m == Step.method
             i == Step.item
  <1>4. /\ EnqueueIfUsed(m, i)
        /\ impls' = impls \union {<<m, i>>}
        /\ translate_stack' = Advanced(translate_stack)
        /\ UNCHANGED <<program, processed, translated, used, pc, wanted, unfilled>>
    BY DEF RegisterMethodImpl, Proceed
  <1>5. m \in Methods /\ i \in Items
    BY <1>2 DEF m, i
  <1> HIDE DEF m, i
  <1>6. /\ translate_stack' \in Seq(Frames) /\ translate_stack' # <<>>
        /\ StackItems(translate_stack') = StackItems(translate_stack)
        /\ Distinct(translate_stack) => Distinct(translate_stack')
    BY <1>1, <1>2, <1>4, AdvancedStack DEF TypeOK
  <1>7. /\ items_to_translate' \in Seq(Items)
        /\ ElementsOf(items_to_translate) \subseteq ElementsOf(items_to_translate')
        /\ ElementsOf(items_to_translate') \subseteq ElementsOf(items_to_translate) \union {i}
        /\ m \in used => i \in ElementsOf(items_to_translate') \union processed
        /\ m \notin used => ElementsOf(items_to_translate') = ElementsOf(items_to_translate)
    <2>1. /\ Append(items_to_translate, i) \in Seq(Items)
          /\ ElementsOf(Append(items_to_translate, i)) = ElementsOf(items_to_translate) \union {i}
      BY <1>1, <1>5, AppendElements DEF TypeOK
    <2>2. items_to_translate \in Seq(Items) /\ translated \subseteq processed
      BY <1>1 DEF TypeOK
    <2> QED BY <1>4, <2>1, <2>2 DEF EnqueueIfUsed
  <1>8. /\ implementors' \in [Methods -> SUBSET Items]
        /\ \A n \in Methods : \/ implementors'[n] = implementors[n]
                              \/ n = m /\ implementors'[n] = implementors[n] \union {i}
        /\ m \notin used => i \in implementors'[m]
    BY <1>1, <1>4, <1>5 DEF EnqueueIfUsed, TypeOK
  <1>9. TypeOK'
    BY <1>1, <1>4, <1>5, <1>6, <1>7, <1>8 DEF TypeOK
  <1>10. StackInv'
    BY <1>4, <1>6 DEF IInv, StackInv
  <1>11. impls \subseteq Methods \X Items
    BY <1>1 DEF TypeOK
  <1>12. MethodsInv'
    <2>1. ASSUME NEW p \in impls', p[1] \in used
          PROVE  p[2] \in ElementsOf(items_to_translate') \union processed
      <3>1. CASE p \in impls
        BY <1>7, <2>1, <3>1 DEF IInv, MethodsInv
      <3>2. CASE p = <<m, i>>
        BY <1>7, <2>1, <3>2
      <3> QED BY <1>4, <3>1, <3>2
    <2>2. ASSUME NEW p \in impls', p[1] \notin used
          PROVE  p[2] \in implementors'[p[1]]
      <3>1. CASE p \in impls
        <4>1. p[1] \in Methods /\ p[2] \in implementors[p[1]]
          BY <1>11, <2>2, <3>1 DEF IInv, MethodsInv
        <4> QED BY <1>8, <4>1
      <3>2. CASE p = <<m, i>>
        BY <1>8, <2>2, <3>2
      <3> QED BY <1>4, <3>1, <3>2
    <2>3. ASSUME NEW n \in Methods, NEW j \in implementors'[n]
          PROVE  <<n, j>> \in impls'
      <3>1. CASE j \in implementors[n]
        BY <1>3, <1>4, <3>1 DEF IInv, MethodsInv
      <3>2. CASE n = m /\ j = i
        BY <1>4, <3>2
      <3> QED BY <1>8, <2>3, <3>1, <3>2
    <2> QED BY <1>4, <2>1, <2>2, <2>3 DEF MethodsInv
  <1>13. QueueInv'
    <2>1. Required \subseteq Required' /\ (m \in used => i \in Required')
      BY <1>4, <1>5 DEF Required
    <2>2. ElementsOf(items_to_translate') \subseteq Required'
      BY <1>7, <2>1 DEF IInv, QueueInv
    <2> QED BY <1>4, <1>6, <1>7, <2>2 DEF IInv, QueueInv, Tried
  <1>14. DoneInv'
    BY <1>3, <1>4 DEF DoneInv
  <1> QED BY <1>9, <1>10, <1>12, <1>13, <1>14 DEF IInv

-----------------------------------------------------------------------------
(* The steps that begin and end a translation in the middle of another one *)

LEMMA TranslateNowStep == IInv /\ TranslateNow => IInv'
  <1> SUFFICES ASSUME IInv, TranslateNow PROVE IInv'
    OBVIOUS
  <1>1. TypeOK /\ (At("need") \/ At("reuse"))
    BY DEF IInv, TranslateNow
  <1>2. Step.needs \in Items /\ translate_stack # <<>>
    BY <1>1, StepOfTop, StepFields
  <1>3. pc = "translate"
    BY <1>1, <1>2, NotDone DEF IInv
  <1> DEFINE i == Step.needs
  <1>4. /\ i \notin translated /\ ~OnStack(i)
        /\ translate_stack' = Append(translate_stack, Frame(i))
        /\ wanted' = wanted \union {i}
        /\ UNCHANGED <<program, items_to_translate, processed, translated, used, implementors,
                       impls, pc, unfilled>>
    BY DEF TranslateNow
  <1>5. i \in Items
    BY <1>2 DEF i
  <1> HIDE DEF i
  <1>6. i \notin StackItems(translate_stack)
    BY <1>4 DEF OnStack, StackItems
  <1>7. /\ translate_stack' \in Seq(Frames) /\ translate_stack' # <<>>
        /\ StackItems(translate_stack') = StackItems(translate_stack) \union {i}
        /\ Distinct(translate_stack) => Distinct(translate_stack')
    BY <1>1, <1>4, <1>5, <1>6, PushStack DEF TypeOK
  <1>8. TypeOK'
    BY <1>1, <1>4, <1>5, <1>7 DEF TypeOK
  <1>9. StackInv'
    BY <1>4, <1>7 DEF IInv, StackInv
  <1>10. MethodsInv'
    BY <1>4 DEF IInv, MethodsInv
  <1>11. QueueInv'
    BY <1>4, <1>7 DEF IInv, QueueInv, Required, Tried
  <1>12. DoneInv'
    BY <1>3, <1>4 DEF DoneInv
  <1> QED BY <1>8, <1>9, <1>10, <1>11, <1>12 DEF IInv

LEMMA FillSlotStep == IInv /\ FillSlot => IInv'
  <1> SUFFICES ASSUME IInv, FillSlot PROVE IInv'
    OBVIOUS
  <1>1. TypeOK /\ translate_stack # <<>> /\ translate_stack \in Seq(Frames)
    BY DEF IInv, FillSlot, InProgress, TypeOK
  <1>2. pc = "translate"
    BY <1>1, NotDone DEF IInv
  <1> DEFINE i == Top.item
  <1>3. /\ translated' = translated \union {i}
        /\ processed' = processed \union {i}
        /\ translate_stack' = Callers
        /\ UNCHANGED <<program, items_to_translate, used, implementors, impls, pc, wanted, unfilled>>
    BY DEF FillSlot
  <1>4. i \in Items
    BY <1>1, TopOfStack DEF i
  <1>5. /\ translate_stack' \in Seq(Frames)
        /\ StackItems(translate_stack) = StackItems(translate_stack') \union {i}
        /\ Distinct(translate_stack) =>
              Distinct(translate_stack') /\ i \notin StackItems(translate_stack')
    BY <1>1, <1>3, PopStack DEF Callers, Top, i
  <1> HIDE DEF i
  <1>6. TypeOK'
    BY <1>1, <1>3, <1>4, <1>5 DEF TypeOK
  <1>7. StackInv'
    BY <1>3, <1>5 DEF IInv, StackInv
  <1>8. MethodsInv'
    BY <1>3 DEF IInv, MethodsInv
  <1>9. QueueInv'
    BY <1>3, <1>5 DEF IInv, QueueInv, Required, Tried
  <1>10. DoneInv'
    BY <1>2, <1>3 DEF DoneInv
  <1> QED BY <1>6, <1>7, <1>8, <1>9, <1>10 DEF IInv

LEMMA GiveUpStep == IInv /\ GiveUp => IInv'
  <1> SUFFICES ASSUME IInv, GiveUp PROVE IInv'
    OBVIOUS
  <1>1. TypeOK /\ translate_stack # <<>> /\ translate_stack \in Seq(Frames)
    BY DEF IInv, GiveUp, TypeOK
  <1>2. pc = "translate"
    BY <1>1, NotDone DEF IInv
  <1> DEFINE i == Top.item
  <1>3. /\ unfilled' = unfilled \union {i}
        /\ translate_stack' = IF Callers = <<>> THEN <<>> ELSE GivenNoTranslation(Callers)
        /\ UNCHANGED <<program, items_to_translate, processed, translated, used, implementors,
                       impls, pc, wanted>>
    BY DEF GiveUp
  <1>4. i \in Items
    BY <1>1, TopOfStack DEF i
  <1>5. /\ Callers \in Seq(Frames)
        /\ StackItems(translate_stack) = StackItems(Callers) \union {i}
        /\ Distinct(translate_stack) => Distinct(Callers)
    BY <1>1, PopStack DEF Callers, Top, i
  <1> HIDE DEF i
  <1>6. /\ translate_stack' \in Seq(Frames)
        /\ StackItems(translate_stack') = StackItems(Callers)
        /\ Distinct(Callers) => Distinct(translate_stack')
    <2>1. CASE Callers = <<>>
      BY <1>3, <1>5, <2>1
    <2>2. CASE Callers # <<>>
      BY <1>3, <1>5, <2>2, GivenStack
    <2> QED BY <2>1, <2>2
  <1>7. TypeOK'
    BY <1>1, <1>3, <1>4, <1>6 DEF TypeOK
  <1>8. StackInv'
    BY <1>3, <1>5, <1>6 DEF IInv, StackInv
  <1>9. MethodsInv'
    BY <1>3 DEF IInv, MethodsInv
  <1>10. QueueInv'
    BY <1>3, <1>5, <1>6 DEF IInv, QueueInv, Required, Tried
  <1>11. DoneInv'
    BY <1>2, <1>3 DEF DoneInv
  <1> QED BY <1>7, <1>8, <1>9, <1>10, <1>11 DEF IInv

-----------------------------------------------------------------------------
(* The theorems *)

LEMMA InitInv == Init => IInv
  <1> SUFFICES ASSUME Init PROVE IInv
    OBVIOUS
  <1>1. /\ program \in Programs /\ items_to_translate = program.queue
        /\ processed = {} /\ translated = {} /\ translate_stack = <<>>
        /\ used = {} /\ implementors = [m \in Methods |-> {}] /\ impls = {}
        /\ pc = "translate" /\ wanted = ElementsOf(items_to_translate) /\ unfilled = {}
    BY DEF Init
  <1>2. items_to_translate \in Seq(Items) /\ program.steps \in [Items -> Seq(Steps)]
    BY <1>1, ProgramsAssumption
  <1>3. ElementsOf(items_to_translate) \subseteq Items
    BY <1>2 DEF ElementsOf
  <1>4. TypeOK
    BY <1>1, <1>2, <1>3 DEF TypeOK
  <1>5. StackInv
    BY <1>1, EmptyHasNone DEF StackInv, Distinct
  <1>6. MethodsInv
    BY <1>1 DEF MethodsInv
  <1>7. QueueInv
    BY <1>1 DEF QueueInv, Required
  <1>8. DoneInv
    BY <1>1 DEF DoneInv
  <1> QED BY <1>4, <1>5, <1>6, <1>7, <1>8 DEF IInv

LEMMA NextInv == IInv /\ [Next]_vars => IInv'
  <1>1. IInv /\ UNCHANGED vars => IInv'
    BY DEF IInv, vars, TypeOK, StackInv, MethodsInv, QueueInv, DoneInv, Required, Tried
  <1> QED BY <1>1, TranslateItemStep, SkipItemStep, RemoveUnusedMethodsStep,
             RegisterAndEnqueueStep, MarkMethodAsUsedStep, RegisterMethodImplStep,
             FindTranslatedStep, TranslateNowStep, DetectCycleStep, FillSlotStep,
             GiveUpStep DEF Next

\* The inductive invariant holds of every crate: the queue of translate()
\* with its method statuses, and the stack of get_or_translate.
THEOREM Inductive == Spec => []IInv
  BY InitInv, NextInv, PTL DEF Spec

\* The queue, the stack and the tables keep their types, and whatever has
\* its slot filled is recorded as processed (translate_items.rs:247).
THEOREM TypeCorrect == Spec => []TypeOK
  <1>1. IInv => TypeOK
    BY DEF IInv
  <1> QED BY <1>1, Inductive, PTL

\* set_slot never finds a slot filled, nor does a translation start anew
\* in the middle of itself (translate_items.rs:20, index_map.rs:89).
THEOREM SlotsFilledOnce == Spec => []EachSlotFilledOnce
  <1>1. IInv => EachSlotFilledOnce
    BY DEF IInv, StackInv, StackItems, Distinct, EachSlotFilledOnce
  <1> QED BY <1>1, Inductive, PTL

\* Traits and impls end up with no method whose function Charon did not try
\* to translate (mark_method_as_used and register_method_impl, in any order).
THEOREM NoMethodDangles == Spec => []NoDanglingMethods
  <1>1. IInv => NoDanglingMethods
    BY EmptyHasNone DEF IInv, DoneInv, MethodsInv, NoDanglingMethods
  <1> QED BY <1>1, Inductive, PTL

LEMMA AtWork == IInv /\ translate_stack # <<>> => pc = "translate" /\ Tried # {}
  <1> SUFFICES ASSUME IInv, translate_stack # <<>> PROVE pc = "translate" /\ Tried # {}
    OBVIOUS
  <1>1. pc = "translate"
    BY NotDone DEF IInv
  <1>2. Top.item \in StackItems(translate_stack)
    BY TopOfStack DEF IInv
  <1> QED BY <1>1, <1>2 DEF Tried

\* What LazyItems sees of a step.
LEMMA AbstractSteps ==
  /\ \A i \in Items : pc = "translate" /\ i \in Required /\ Tried' = Tried \union {i}
                      /\ UNCHANGED <<wanted, used, impls, pc>> => L!LNext
  /\ \A i \in Items : pc = "translate" /\ Tried # {} /\ Tried' = Tried \union {i}
                      /\ wanted' = wanted \union {i} /\ UNCHANGED <<used, impls, pc>> => L!LNext
  /\ pc = "translate" /\ Tried # {} /\ Tried' = Tried /\ UNCHANGED pc
       /\ wanted \subseteq wanted' /\ used \subseteq used' /\ impls \subseteq impls' => L!LNext
  /\ pc = "translate" /\ Required \subseteq Tried /\ Tried' = Tried
       /\ impls' = {p \in impls : p[1] \in used} /\ pc' = "done"
       /\ UNCHANGED <<wanted, used>> => L!LNext
  /\ Tried' = Tried /\ UNCHANGED <<wanted, used, impls, pc>> => UNCHANGED L!lvars
  <1> DEFINE T == processed \union unfilled
                    \union {translate_stack[k].item : k \in DOMAIN translate_stack}
  <1>1. Tried = T /\ Tried' = T' /\ L!Required = Required
    BY DEF Tried, StackItems, L!Required, Required
  <1>2. ASSUME NEW i \in Items, pc = "translate", i \in Required, Tried' = Tried \union {i},
               UNCHANGED <<wanted, used, impls, pc>>
        PROVE  L!LNext
    <2>1. L!Try(i)
      BY <1>1, <1>2 DEF L!Try
    <2> QED BY <1>2, <2>1 DEF L!LNext
  <1>3. ASSUME NEW i \in Items, pc = "translate", Tried # {}, Tried' = Tried \union {i},
               wanted' = wanted \union {i}, UNCHANGED <<used, impls, pc>>
        PROVE  L!LNext
    <2>1. L!TryOnDemand(i)
      BY <1>1, <1>3 DEF L!TryOnDemand
    <2> QED BY <1>3, <2>1 DEF L!LNext
  <1>4. ASSUME pc = "translate", Tried # {}, Tried' = Tried, UNCHANGED pc,
               wanted \subseteq wanted', used \subseteq used', impls \subseteq impls'
        PROVE  L!LNext
    <2>1. L!Learn
      BY <1>1, <1>4 DEF L!Learn
    <2> QED BY <1>4, <2>1 DEF L!LNext
  <1>5. ASSUME pc = "translate", Required \subseteq Tried, Tried' = Tried,
               impls' = {p \in impls : p[1] \in used}, pc' = "done",
               UNCHANGED <<wanted, used>>
        PROVE  L!LNext
    <2>1. L!Finish
      BY <1>1, <1>5 DEF L!Finish
    <2> QED BY <1>5, <2>1 DEF L!LNext
  <1>6. ASSUME Tried' = Tried, UNCHANGED <<wanted, used, impls, pc>>
        PROVE  UNCHANGED L!lvars
    BY <1>1, <1>6 DEF L!lvars
  <1> QED BY <1>2, <1>3, <1>4, <1>5, <1>6

LEMMA NextRefines == IInv /\ [Next]_vars => [L!LNext]_(L!lvars)
  <1> SUFFICES ASSUME IInv, [Next]_vars PROVE L!LNext \/ UNCHANGED L!lvars
    OBVIOUS
  <1> USE AbstractSteps
  <1>0. TypeOK /\ translate_stack \in Seq(Frames) /\ items_to_translate \in Seq(Items)
    BY DEF IInv, TypeOK
  <1>1. CASE TranslateItem
    <2> DEFINE i == Head(items_to_translate)
    <2>1. /\ translate_stack = <<>> /\ items_to_translate # <<>> /\ pc = "translate"
          /\ processed' = processed \union {i} /\ translate_stack' = <<Frame(i)>>
          /\ UNCHANGED <<unfilled, wanted, used, impls, pc>>
      BY <1>1 DEF TranslateItem, PopFront
    <2>2. i \in Items /\ i \in ElementsOf(items_to_translate)
      BY <1>0, <2>1, TailElements
    <2> HIDE DEF i
    <2>3. StackItems(<<Frame(i)>>) = {i}
      BY DEF StackItems, Frame
    <2>4. Tried' = Tried \union {i}
      BY <2>1, <2>3, EmptyHasNone DEF Tried
    <2>5. i \in Required
      BY <2>2 DEF IInv, QueueInv
    <2> QED BY <2>1, <2>2, <2>4, <2>5
  <1>2. CASE SkipItem
    BY <1>2 DEF SkipItem, Tried
  <1>3. CASE RemoveUnusedMethods
    <2>1. /\ pc = "translate" /\ translate_stack = <<>> /\ items_to_translate = <<>>
          /\ impls' = {p \in impls : p[1] \in used} /\ pc' = "done" /\ Tried' = Tried
          /\ UNCHANGED <<wanted, used>>
      BY <1>3 DEF RemoveUnusedMethods, Tried
    <2>2. wanted \subseteq Tried
      BY <2>1, EmptyHasNone DEF IInv, QueueInv
    <2>3. ASSUME NEW i \in Items, NEW m \in used, <<m, i>> \in impls
          PROVE  i \in Tried
      BY <2>1, <2>3, EmptyHasNone DEF IInv, MethodsInv, Tried
    <2>4. Required \subseteq Tried
      BY <2>2, <2>3 DEF Required
    <2> QED BY <2>1, <2>4
  <1>4. CASE RegisterAndEnqueue
    <2>1. translate_stack # <<>> /\ translate_stack' = Advanced(translate_stack)
      BY <1>4 DEF RegisterAndEnqueue, At, InProgress, Proceed
    <2>2. Tried' = Tried
      BY <1>0, <1>4, <2>1, AdvancedStack DEF RegisterAndEnqueue, Tried
    <2>3. wanted \subseteq wanted' /\ UNCHANGED <<used, impls, pc>>
      BY <1>4 DEF RegisterAndEnqueue
    <2> QED BY <2>1, <2>2, <2>3, AtWork
  <1>5. CASE MarkMethodAsUsed
    <2>1. translate_stack # <<>> /\ translate_stack' = Advanced(translate_stack)
      BY <1>5 DEF MarkMethodAsUsed, At, InProgress, Proceed
    <2>2. Tried' = Tried
      BY <1>0, <1>5, <2>1, AdvancedStack DEF MarkMethodAsUsed, Tried
    <2>3. used \subseteq used' /\ UNCHANGED <<wanted, impls, pc>>
      BY <1>5 DEF MarkMethodAsUsed
    <2> QED BY <2>1, <2>2, <2>3, AtWork
  <1>6. CASE RegisterMethodImpl
    <2>1. translate_stack # <<>> /\ translate_stack' = Advanced(translate_stack)
      BY <1>6 DEF RegisterMethodImpl, At, InProgress, Proceed
    <2>2. Tried' = Tried
      BY <1>0, <1>6, <2>1, AdvancedStack DEF RegisterMethodImpl, Tried
    <2>3. impls \subseteq impls' /\ UNCHANGED <<wanted, used, pc>>
      BY <1>6 DEF RegisterMethodImpl
    <2> QED BY <2>1, <2>2, <2>3, AtWork
  <1>7. CASE FindTranslated
    <2>1. translate_stack # <<>> /\ translate_stack' = Advanced(translate_stack)
      BY <1>7 DEF FindTranslated, At, InProgress, Proceed
    <2>2. Tried' = Tried
      BY <1>0, <1>7, <2>1, AdvancedStack DEF FindTranslated, Tried
    <2> QED BY <1>7, <2>2 DEF FindTranslated
  <1>8. CASE TranslateNow
    <2> DEFINE i == Step.needs
    <2>1. translate_stack # <<>> /\ ~OnStack(i) /\ wanted' = wanted \union {i}
          /\ translate_stack' = Append(translate_stack, Frame(i))
          /\ UNCHANGED <<processed, unfilled, used, impls, pc>>
      BY <1>8 DEF TranslateNow, At, InProgress
    <2>2. i \in Items
      BY <1>0, <1>8, StepOfTop, StepFields DEF TranslateNow
    <2> HIDE DEF i
    <2>3. i \notin StackItems(translate_stack)
      BY <2>1 DEF OnStack, StackItems
    <2>4. Tried' = Tried \union {i}
      BY <1>0, <2>1, <2>2, <2>3, PushStack DEF Tried
    <2> QED BY <2>1, <2>2, <2>4, AtWork
  <1>9. CASE DetectCycle
    <2>1. translate_stack # <<>> /\ translate_stack' = GivenNoTranslation(translate_stack)
      BY <1>9 DEF DetectCycle, At, InProgress
    <2>2. Tried' = Tried
      BY <1>0, <1>9, <2>1, GivenStack DEF DetectCycle, Tried
    <2> QED BY <1>9, <2>2 DEF DetectCycle
  <1>10. CASE FillSlot
    <2>1. translate_stack # <<>> /\ translate_stack' = Callers
          /\ processed' = processed \union {Top.item}
          /\ UNCHANGED <<unfilled, wanted, used, impls, pc>>
      BY <1>10 DEF FillSlot, InProgress
    <2>2. StackItems(translate_stack) = StackItems(Callers) \union {Top.item}
      BY <1>0, <2>1, PopStack DEF Callers, Top
    <2>3. Tried' = Tried
      BY <2>1, <2>2 DEF Tried
    <2> QED BY <2>1, <2>3
  <1>11. CASE GiveUp
    <2>1. translate_stack # <<>>
          /\ translate_stack' = (IF Callers = <<>> THEN <<>> ELSE GivenNoTranslation(Callers))
          /\ unfilled' = unfilled \union {Top.item}
          /\ UNCHANGED <<processed, wanted, used, impls, pc>>
      BY <1>11 DEF GiveUp
    <2>2. /\ StackItems(translate_stack) = StackItems(Callers) \union {Top.item}
          /\ Callers \in Seq(Frames)
      BY <1>0, <2>1, PopStack DEF Callers, Top
    <2>3. StackItems(translate_stack') = StackItems(Callers)
      BY <2>1, <2>2, GivenStack
    <2>4. Tried' = Tried
      BY <2>1, <2>2, <2>3 DEF Tried
    <2> QED BY <2>1, <2>4
  <1>12. CASE UNCHANGED vars
    BY <1>12 DEF vars, Tried
  <1> QED BY <1>1, <1>2, <1>3, <1>4, <1>5, <1>6, <1>7, <1>8, <1>9, <1>10, <1>11, <1>12 DEF Next

\* The queue with its statuses and its stack implements LazyItems: only what
\* is asked for is tried, and when the queue is empty all of it was.
THEOREM Refinement == Spec => ImplementsLazily
  <1>1. Init => L!LInit
    <2> SUFFICES ASSUME Init PROVE L!LInit
      OBVIOUS
    <2>1. /\ wanted = ElementsOf(items_to_translate) /\ used = {} /\ impls = {}
          /\ processed = {} /\ unfilled = {} /\ translate_stack = <<>> /\ pc = "translate"
      BY DEF Init
    <2>2. wanted \subseteq Items
      BY InitInv DEF IInv, TypeOK
    <2> QED BY <2>1, <2>2 DEF L!LInit
  <1> QED BY <1>1, Inductive, NextRefines, PTL DEF Spec, ImplementsLazily, L!LazySpec

-----------------------------------------------------------------------------
(* What is translated follows from the crate.  The two sets that say so are   *)
(* least fixed points.                                                        *)

Passes(s, S) == s.op # "stop" /\ (s.op = "need" => s.needs \in S)
AllPass(P, i, S) == \A k \in DOMAIN P[i] : Passes(P[i][k], S)

HealthySet(P, H) ==
  /\ H \subseteq Items
  /\ \A i \in Items : i \in H <=> AllPass(P, i, H)
  /\ \A S \in SUBSET Items : (\A i \in Items : AllPass(P, i, S) => i \in S) => H \subseteq S

LEMMA HealthyFacts == HealthySet(program.steps, Healthy)
  <1> DEFINE Kept(S) == {i \in Items : \A k \in DOMAIN program.steps[i] :
                           LET s == program.steps[i][k]
                           IN  /\ s.op # "stop"
                               /\ s.op = "need" => s.needs \in S}
             After[n \in Nat] == IF n = 0 THEN {}
                                 ELSE LET before == After[n - 1] IN Kept(before)
  <1>1. Healthy = After[Cardinality(Items)]
    BY DEF Healthy
  <1> PICK step : step = [S \in SUBSET Items |-> Kept(S)]
    OBVIOUS
  <1>2. step \in [SUBSET Items -> SUBSET Items] /\ Monotone(step, Items)
    BY DEF Monotone
  <1>3. \A S : Kept(S) \in SUBSET Items
    OBVIOUS
  <1>4. \A S : Kept(S) = {i \in Items : AllPass(program.steps, i, S)}
    BY DEF AllPass, Passes
  <1> HIDE DEF Kept
  <1>5. \E f : f = [n \in Nat |-> IF n = 0 THEN {} ELSE Kept(f[n - 1])]
    <2> HIDE DEF After
    <2>0. {} \in SUBSET Items
      OBVIOUS
    <2>1. PICK f : Iterated(f, SUBSET Items, {}, step)
      BY <1>2, <2>0, Iterates, Zenon
    <2>2. f \in [Nat -> SUBSET Items] /\ f[0] = {} /\ \A n \in Nat : f[n + 1] = step[f[n]]
      BY <2>1 DEF Iterated
    <2>3. ASSUME NEW n \in Nat, n # 0 PROVE f[n] = Kept(f[n - 1])
      <3>1. n - 1 \in Nat /\ (n - 1) + 1 = n
        BY <2>3
      <3>2. f[n] = step[f[n - 1]] /\ f[n - 1] \in SUBSET Items
        BY <2>2, <3>1
      <3>3. QED
        BY <3>2
    <2>4. f = [n \in Nat |-> IF n = 0 THEN {} ELSE Kept(f[n - 1])]
      BY <2>2, <2>3
    <2>5. QED
      BY <2>4
  <1>6. After = [n \in Nat |-> IF n = 0 THEN {} ELSE Kept(After[n - 1])]
    BY <1>5
  <1> HIDE DEF After
  <1>7. After \in [Nat -> SUBSET Items] /\ After[0] = {}
    BY <1>3, <1>6
  <1>8. ASSUME NEW n \in Nat PROVE After[n + 1] = step[After[n]]
    <2>1. n + 1 \in Nat /\ n + 1 # 0 /\ n + 1 - 1 = n /\ After[n] \in SUBSET Items
      BY <1>7
    <2>2. After[n + 1] = Kept(After[n])
      <3>1. \A m \in Nat : m # 0 => After[m] = Kept(After[m - 1])
        BY <1>6
      <3>2. After[n + 1] = Kept(After[n + 1 - 1])
        BY <2>1, <3>1
      <3>3. QED
        BY <2>1, <3>2
    <2>3. QED
      BY <2>1, <2>2
  <1>9. Ascends(After, {}, step, Items)
    <2>1. Iterated(After, SUBSET Items, {}, step)
      BY <1>7, <1>8 DEF Iterated
    <2>2. QED
      BY <1>2, <2>1 DEF Ascends
  <1>10. IsLeastFixedPoint(Healthy, step, {}, Items)
    BY <1>1, <1>9, ItemsAssumption, LeastFixedPoint, Zenon
  <1>11. /\ Healthy \subseteq Items /\ step[Healthy] = Healthy
         /\ \A S \in SUBSET Items : step[S] \subseteq S => Healthy \subseteq S
    BY <1>10 DEF IsLeastFixedPoint
  <1>12. \A S \in SUBSET Items : step[S] = {i \in Items : AllPass(program.steps, i, S)}
    BY <1>4
  <1>13. \A i \in Items : i \in Healthy <=> AllPass(program.steps, i, Healthy)
    <2>1. Healthy = {i \in Items : AllPass(program.steps, i, Healthy)}
      BY <1>11, <1>12
    <2>2. QED
      BY <2>1
  <1>14. ASSUME NEW S \in SUBSET Items, \A i \in Items : AllPass(program.steps, i, S) => i \in S
         PROVE  Healthy \subseteq S
    <2>1. step[S] \subseteq S
      BY <1>12, <1>14
    <2>2. QED
      BY <1>11, <2>1
  <1>15. QED
    BY <1>11, <1>13, <1>14 DEF HealthySet

\* What a set of items makes Charon translate, and the least set that has it.
ClosureSet(C, S, healthy) ==
  /\ C \subseteq Items /\ S \subseteq C
  /\ AskedBy(C, healthy) \subseteq C
  /\ \A T \in SUBSET Items : S \subseteq T /\ AskedBy(T, healthy) \subseteq T => C \subseteq T

LEMMA StepsOfAreSteps ==
    ASSUME program \in Programs, NEW i \in Items, NEW healthy, NEW s \in StepsOf(i, healthy)
    PROVE  s \in Steps
  BY ProgramsAssumption DEF StepsOf

LEMMA AskedByFacts ==
    ASSUME program \in Programs, NEW healthy
    PROVE  /\ \A S \in SUBSET Items : AskedBy(S, healthy) \subseteq Items
           /\ \A S, T \in SUBSET Items : S \subseteq T => AskedBy(S, healthy) \subseteq AskedBy(T, healthy)
  <1>1. ASSUME NEW S \in SUBSET Items, NEW x \in AskedBy(S, healthy) PROVE x \in Items
    <2>1. \E i \in S : \E s \in StepsOf(i, healthy) :
             \/ s.op \in {"enqueue", "implement", "reuse"} /\ x = s.item
             \/ s.op \in {"need", "reuse"} /\ x = s.needs
      BY DEF AskedBy
    <2>2. PICK s \in Steps : \/ s.op \in {"enqueue", "implement", "reuse"} /\ x = s.item
                             \/ s.op \in {"need", "reuse"} /\ x = s.needs
      BY <2>1, StepsOfAreSteps
    <2>3. QED
      BY <2>2 DEF Steps, Enqueue, Use, Implement, ReuseDefault, Need, Stop
  <1>2. ASSUME NEW S \in SUBSET Items, NEW T \in SUBSET Items, S \subseteq T
        PROVE  AskedBy(S, healthy) \subseteq AskedBy(T, healthy)
    <2>1. UNION {StepsOf(i, healthy) : i \in S} \subseteq UNION {StepsOf(i, healthy) : i \in T}
      BY <1>2
    <2>2. QED
      BY <2>1 DEF AskedBy
  <1>3. QED
    BY <1>1, <1>2

LEMMA ClosureFacts ==
    ASSUME program \in Programs, NEW S \in SUBSET Items, NEW healthy
    PROVE  ClosureSet(Closure(S, healthy), S, healthy)
  <1> DEFINE More(T) == T \union AskedBy(T, healthy)
             After[n \in Nat] == IF n = 0 THEN S
                                 ELSE LET before == After[n - 1] IN before \union AskedBy(before, healthy)
  <1>1. Closure(S, healthy) = After[Cardinality(Items)]
    BY DEF Closure
  <1> PICK step : step = [T \in SUBSET Items |-> More(T)]
    OBVIOUS
  <1> HIDE DEF After
  <1>2. step \in [SUBSET Items -> SUBSET Items] /\ Monotone(step, Items)
    <2>1. ASSUME NEW T \in SUBSET Items PROVE More(T) \in SUBSET Items
      BY AskedByFacts
    <2>2. ASSUME NEW T \in SUBSET Items, NEW U \in SUBSET Items, T \subseteq U
          PROVE  More(T) \subseteq More(U)
      BY <2>2, AskedByFacts
    <2> HIDE DEF More
    <2>3. QED
      BY <2>1, <2>2 DEF Monotone
  <1>3. S \subseteq step[S]
    OBVIOUS
  <1>4. \E f : /\ f = [n \in Nat |-> IF n = 0 THEN S ELSE f[n - 1] \union AskedBy(f[n - 1], healthy)]
               /\ Iterated(f, SUBSET Items, S, step)
    <2>1. PICK f : Iterated(f, SUBSET Items, S, step)
      BY <1>2, Iterates, Zenon
    <2>2. f \in [Nat -> SUBSET Items] /\ f[0] = S /\ \A n \in Nat : f[n + 1] = step[f[n]]
      BY <2>1 DEF Iterated
    <2>3. ASSUME NEW n \in Nat, n # 0 PROVE f[n] = f[n - 1] \union AskedBy(f[n - 1], healthy)
      <3>1. n - 1 \in Nat /\ (n - 1) + 1 = n
        BY <2>3
      <3>2. f[n] = step[f[n - 1]] /\ f[n - 1] \in SUBSET Items
        BY <2>2, <3>1
      <3>3. QED
        BY <3>2
    <2>4. f = [n \in Nat |-> IF n = 0 THEN S ELSE f[n - 1] \union AskedBy(f[n - 1], healthy)]
      BY <2>2, <2>3
    <2>5. QED
      BY <2>1, <2>4
  <1>5. After = [n \in Nat |-> IF n = 0 THEN S ELSE After[n - 1] \union AskedBy(After[n - 1], healthy)]
    BY <1>4 DEF After
  <1> HIDE DEF More
  <1>6. ASSUME NEW n \in Nat, After[n] \in SUBSET Items
        PROVE  After[n + 1] = step[After[n]] /\ After[n + 1] \in SUBSET Items
    <2>1. \A m \in Nat : m # 0 => After[m] = After[m - 1] \union AskedBy(After[m - 1], healthy)
      BY <1>5
    <2>2. After[n + 1] = More(After[n])
      <3>1. n + 1 \in Nat /\ n + 1 # 0 /\ n + 1 - 1 = n
        OBVIOUS
      <3>2. After[n + 1] = After[n + 1 - 1] \union AskedBy(After[n + 1 - 1], healthy)
        BY <2>1, <3>1
      <3>3. QED
        BY <3>1, <3>2 DEF More
    <2>3. QED
      BY <1>2, <1>6, <2>2
  <1>7. After[0] = S
    BY <1>5
  <1>8. \A n \in Nat : After[n] \in SUBSET Items
    <2> DEFINE N == {n \in Nat : After[n] \in SUBSET Items}
    <2>1. 0 \in N /\ N \subseteq Nat
      BY <1>7
    <2>2. ASSUME NEW n \in N PROVE n + 1 \in N
      <3>1. n \in Nat /\ After[n] \in SUBSET Items /\ n + 1 \in Nat
        OBVIOUS
      <3>2. After[n + 1] \in SUBSET Items
        BY <1>6, <3>1
      <3>3. QED
        BY <3>1, <3>2
    <2> HIDE DEF N
    <2>3. N = Nat
      BY <2>1, <2>2, AllNumbers
    <2>4. QED
      BY <2>3 DEF N
  <1>9. Ascends(After, S, step, Items)
    <2>1. After \in [Nat -> SUBSET Items]
      BY <1>5, <1>8
    <2>2. Iterated(After, SUBSET Items, S, step)
      BY <1>6, <1>7, <1>8, <2>1 DEF Iterated
    <2>3. QED
      BY <1>2, <1>3, <2>2 DEF Ascends
  <1>10. IsLeastFixedPoint(After[Cardinality(Items)], step, S, Items)
    BY <1>9, ItemsAssumption, LeastFixedPoint, Zenon
  <1> DEFINE C == Closure(S, healthy)
  <1>11. /\ C \subseteq Items /\ S \subseteq C /\ step[C] = C
         /\ \A T \in SUBSET Items : S \subseteq T /\ step[T] \subseteq T => C \subseteq T
    BY <1>1, <1>10 DEF IsLeastFixedPoint
  <1> HIDE DEF C
  <1>12. \A T \in SUBSET Items : step[T] = T \union AskedBy(T, healthy)
    BY DEF More
  <1>13. AskedBy(C, healthy) \subseteq C
    BY <1>11, <1>12
  <1>14. ASSUME NEW T \in SUBSET Items, S \subseteq T, AskedBy(T, healthy) \subseteq T
         PROVE  C \subseteq T
    BY <1>11, <1>12, <1>14
  <1>15. QED
    BY <1>11, <1>13, <1>14 DEF ClosureSet, C

-----------------------------------------------------------------------------
(* The invariant behind it.  H stands for the healthy items, C for all that   *)
(* the queue leads to, P for the steps of the crate's items, and R for the    *)
(* steps that took place.                                                     *)

Told(m, i) == <<m, i>> \in impls \/ (pc = "done" /\ m \notin used)
Recorded(s, H) ==
  /\ s.op = "enqueue" => s.item \in wanted
  /\ s.op = "use" => s.method \in used
  /\ s.op = "implement" => Told(s.method, s.item)
  /\ s.op \in {"need", "reuse"} => s.needs \in wanted \union Tried
  /\ s.op = "reuse" /\ s.needs \in H => Told(s.method, s.item)
RecordedSteps(H) == {s \in Steps : Recorded(s, H)}

\* A frame is past steps that take place and that it did not fail at,
Behind(P, f, H, R) ==
  \A k \in DOMAIN P[f.item] : k < f.next => Passes(P[f.item][k], H) /\ P[f.item][k] \in R
\* fails where no translation can be had,
Hopeless(P, f, H, R) ==
  LET s == P[f.item][f.next]
  IN  f.next \in DOMAIN P[f.item] /\ s.op = "need" /\ s.needs \notin H /\ s \in R
\* and waits for the translation of the frame above it.
Waiting(P, f, i) ==
  LET s == P[f.item][f.next]
  IN  f.next \in DOMAIN P[f.item] /\ s.op \in {"need", "reuse"} /\ s.needs = i

StackOK(P, stack, H, R) ==
  \A k \in DOMAIN stack :
      /\ Behind(P, stack[k], H, R)
      /\ stack[k].failed => k = Len(stack) /\ Hopeless(P, stack[k], H, R)
      /\ k # Len(stack) => Waiting(P, stack[k], stack[k + 1].item)

FilledOK(H) == \A i \in translated : \A k \in DOMAIN program.steps[i] :
                  Passes(program.steps[i][k], H) /\ program.steps[i][k] \in RecordedSteps(H)
UnfilledOK(H) == \A i \in unfilled : i \notin H /\ StepsOf(i, H) \subseteq RecordedSteps(H)
ProcessedOK == processed \subseteq translated \union unfilled \union StackItems(translate_stack)

Happens(s, C, H) == \E i \in C : s \in StepsOf(i, H)
WithinClosure(C, H) ==
  /\ ElementsOf(program.queue) \subseteq wanted
  /\ wanted \union Tried \subseteq C
  /\ \A m \in used : \E s \in Steps : s.op = "use" /\ Happens(s, C, H) /\ s.method = m
  /\ \A p \in impls : \E s \in Steps :
        /\ s.op = "implement" \/ (s.op = "reuse" /\ s.needs \in H)
        /\ Happens(s, C, H) /\ s.method = p[1] /\ s.item = p[2]

OrderInv(H, C) == /\ program \in Programs
                  /\ StackOK(program.steps, translate_stack, H, RecordedSteps(H))
                  /\ FilledOK(H) /\ UnfilledOK(H) /\ ProcessedOK
                  /\ WithinClosure(C, H)

LEMMA StackGrowsWith ==
    ASSUME NEW P, NEW s, NEW H, NEW R, NEW Q, R \subseteq Q, StackOK(P, s, H, R)
    PROVE  StackOK(P, s, H, Q)
  BY DEF StackOK, Behind, Hopeless

LEMMA StackPasses ==
    ASSUME NEW P \in [Items -> Seq(Steps)], NEW s \in Seq(Frames), s # <<>>,
           NEW H, NEW R, StackOK(P, s, H, R),
           ~s[Len(s)].failed,
           Passes(P[s[Len(s)].item][s[Len(s)].next], H), P[s[Len(s)].item][s[Len(s)].next] \in R
    PROVE  StackOK(P, Advanced(s), H, R)
  <1> PICK f : f = s[Len(s)]
    OBVIOUS
  <1> PICK g : g = [f EXCEPT !.next = @ + 1]
    OBVIOUS
  <1>1. /\ Len(s) \in Nat \ {0} /\ DOMAIN s = 1 .. Len(s) /\ f \in Frames
        /\ \A k \in 1 .. Len(s) : s[k] \in Frames
    OBVIOUS
  <1>2. g.item = f.item /\ g.next = f.next + 1 /\ g.failed = f.failed /\ f.next \in Nat
    BY <1>1 DEF Frames
  <1> PICK t : t = Advanced(s)
    OBVIOUS
  <1>3. t = [k \in 1 .. Len(s) |-> IF k = Len(s) THEN g ELSE s[k]]
    BY <1>1 DEF Advanced
  <1>4. DOMAIN t = 1 .. Len(s) /\ Len(t) = Len(s)
    BY <1>1, <1>3
  <1>5. t[Len(s)] = g /\ \A k \in 1 .. Len(s) : k # Len(s) => t[k] = s[k]
    <2>1. Len(s) \in 1 .. Len(s)
      BY <1>1
    <2>2. \A k \in 1 .. Len(s) : t[k] = IF k = Len(s) THEN g ELSE s[k]
      BY <1>3
    <2>3. QED
      BY <2>1, <2>2
  <1>6. Behind(P, g, H, R)
    <2> SUFFICES ASSUME NEW k \in DOMAIN P[f.item], k < g.next
                 PROVE  Passes(P[f.item][k], H) /\ P[f.item][k] \in R
      BY <1>2 DEF Behind
    <2>1. CASE k = f.next
      BY <2>1
    <2>2. CASE k < f.next
      BY <1>1, <2>2 DEF StackOK, Behind
    <2>3. k \in Nat
      BY <1>1 DEF Frames
    <2>4. QED
      BY <1>2, <2>1, <2>2, <2>3
  <1>7. ASSUME NEW k \in 1 .. Len(s)
        PROVE  /\ Behind(P, t[k], H, R)
               /\ t[k].failed => k = Len(t) /\ Hopeless(P, t[k], H, R)
               /\ k # Len(t) => Waiting(P, t[k], t[k + 1].item)
    <2>1. CASE k = Len(s)
      BY <1>2, <1>4, <1>5, <1>6, <2>1
    <2>2. CASE k # Len(s)
      <3>0. k + 1 \in 1 .. Len(s)
        BY <1>1, <2>2
      <3>1. t[k] = s[k] /\ t[k + 1].item = s[k + 1].item
        BY <1>2, <1>5, <2>2, <3>0
      <3>2. Behind(P, s[k], H, R) /\ ~s[k].failed /\ Waiting(P, s[k], s[k + 1].item)
        BY <1>1, <2>2 DEF StackOK
      <3>3. QED
        BY <3>1, <3>2
    <2>3. QED
      BY <2>1, <2>2
  <1>8. QED
    BY <1>4, <1>7 DEF StackOK

LEMMA StackFails ==
    ASSUME NEW P \in [Items -> Seq(Steps)], NEW s \in Seq(Frames), s # <<>>,
           NEW H, NEW R, StackOK(P, s, H, R),
           Hopeless(P, s[Len(s)], H, R)
    PROVE  StackOK(P, [s EXCEPT ![Len(s)].failed = TRUE], H, R)
  <1> PICK f : f = s[Len(s)]
    OBVIOUS
  <1> PICK g : g = [f EXCEPT !.failed = TRUE]
    OBVIOUS
  <1>1. /\ Len(s) \in Nat \ {0} /\ DOMAIN s = 1 .. Len(s) /\ f \in Frames
        /\ \A k \in 1 .. Len(s) : s[k] \in Frames
    OBVIOUS
  <1>2. g.item = f.item /\ g.next = f.next
    BY <1>1 DEF Frames
  <1> PICK t : t = [s EXCEPT ![Len(s)].failed = TRUE]
    OBVIOUS
  <1>3. t = [k \in 1 .. Len(s) |-> IF k = Len(s) THEN g ELSE s[k]]
    BY <1>1
  <1>4. DOMAIN t = 1 .. Len(s) /\ Len(t) = Len(s)
    BY <1>1, <1>3
  <1>5. t[Len(s)] = g /\ \A k \in 1 .. Len(s) : k # Len(s) => t[k] = s[k]
    <2>1. Len(s) \in 1 .. Len(s)
      BY <1>1
    <2>2. \A k \in 1 .. Len(s) : t[k] = IF k = Len(s) THEN g ELSE s[k]
      BY <1>3
    <2>3. QED
      BY <2>1, <2>2
  <1>6. Behind(P, g, H, R) /\ Hopeless(P, g, H, R)
    BY <1>1, <1>2 DEF StackOK, Behind, Hopeless
  <1>7. ASSUME NEW k \in 1 .. Len(s)
        PROVE  /\ Behind(P, t[k], H, R)
               /\ t[k].failed => k = Len(t) /\ Hopeless(P, t[k], H, R)
               /\ k # Len(t) => Waiting(P, t[k], t[k + 1].item)
    <2>1. CASE k = Len(s)
      BY <1>4, <1>5, <1>6, <2>1
    <2>2. CASE k # Len(s)
      <3>0. k + 1 \in 1 .. Len(s)
        BY <1>1, <2>2
      <3>1. t[k] = s[k] /\ t[k + 1].item = s[k + 1].item
        BY <1>2, <1>5, <2>2, <3>0
      <3>2. Behind(P, s[k], H, R) /\ ~s[k].failed /\ Waiting(P, s[k], s[k + 1].item)
        BY <1>1, <2>2 DEF StackOK
      <3>3. QED
        BY <3>1, <3>2
    <2>3. QED
      BY <2>1, <2>2
  <1>8. QED
    BY <1>4, <1>7 DEF StackOK

LEMMA StackPushed ==
    ASSUME NEW P \in [Items -> Seq(Steps)], NEW s \in Seq(Frames), NEW H, NEW R, StackOK(P, s, H, R), NEW i \in Items,
           s # <<>> => ~s[Len(s)].failed /\ Waiting(P, s[Len(s)], i)
    PROVE  StackOK(P, Append(s, Frame(i)), H, R)
  <1> PICK t : t = Append(s, Frame(i))
    OBVIOUS
  <1>1. Frame(i).item = i /\ Frame(i).next = 1 /\ ~Frame(i).failed
    BY DEF Frame
  <1>2. /\ Len(s) \in Nat /\ DOMAIN s = 1 .. Len(s) /\ DOMAIN t = 1 .. Len(s) + 1
        /\ Len(t) = Len(s) + 1
        /\ t[Len(s) + 1] = Frame(i) /\ \A k \in 1 .. Len(s) : t[k] = s[k]
    OBVIOUS
  <1>3. ASSUME NEW k \in 1 .. Len(s) + 1
        PROVE  /\ Behind(P, t[k], H, R)
               /\ t[k].failed => k = Len(t) /\ Hopeless(P, t[k], H, R)
               /\ k # Len(t) => Waiting(P, t[k], t[k + 1].item)
    <2>1. CASE k = Len(s) + 1
      <3>1. Behind(P, Frame(i), H, R)
        <4> SUFFICES ASSUME NEW j \in DOMAIN P[i], j < 1
                     PROVE  Passes(P[i][j], H) /\ P[i][j] \in R
          BY <1>1 DEF Behind
        <4>1. P[i] \in Seq(Steps)
          OBVIOUS
        <4>2. j \in Nat \ {0}
          BY <4>1
        <4>3. QED
          BY <4>2
      <3>2. QED
        BY <1>1, <1>2, <2>1, <3>1
    <2>2. CASE k = Len(s)
      <3>1. s # <<>> /\ k \in 1 .. Len(s)
        BY <1>2, <2>2
      <3>2. t[k] = s[Len(s)] /\ t[k + 1].item = i
        BY <1>1, <1>2, <2>2, <3>1
      <3>3. QED
        BY <1>2, <2>2, <3>1, <3>2 DEF StackOK
    <2>3. CASE k < Len(s)
      <3>1. k \in 1 .. Len(s) /\ k + 1 \in 1 .. Len(s) /\ k # Len(t)
        BY <1>2, <2>3
      <3>2. t[k] = s[k] /\ t[k + 1] = s[k + 1]
        BY <1>2, <3>1
      <3>3. QED
        BY <1>2, <2>3, <3>1, <3>2 DEF StackOK
    <2>4. k = Len(s) + 1 \/ k = Len(s) \/ k < Len(s)
      <3>1. ASSUME NEW n \in Nat, k \in 1 .. n + 1 PROVE k = n + 1 \/ k = n \/ k < n
        BY <3>1
      <3>2. QED
        BY <1>2, <3>1
    <2> HIDE DEF StackOK
    <2>5. QED
      BY <2>1, <2>2, <2>3, <2>4
  <1>4. QED
    BY <1>2, <1>3 DEF StackOK

LEMMA StackPopped ==
    ASSUME NEW P \in [Items -> Seq(Steps)], NEW s \in Seq(Frames), s # <<>>,
           NEW H, NEW R, StackOK(P, s, H, R)
    PROVE  LET t == SubSeq(s, 1, Len(s) - 1)
           IN  /\ StackOK(P, t, H, R)
               /\ t # <<>> => ~t[Len(t)].failed /\ Waiting(P, t[Len(t)], s[Len(s)].item)
  <1> PICK t : t = SubSeq(s, 1, Len(s) - 1)
    OBVIOUS
  <1>1. Len(s) \in Nat \ {0} /\ DOMAIN s = 1 .. Len(s)
    OBVIOUS
  <1>2. /\ t \in Seq(Frames) /\ Len(t) = Len(s) - 1 /\ DOMAIN t = 1 .. Len(s) - 1
        /\ \A k \in 1 .. Len(s) - 1 : t[k] = s[k]
    BY ShorterStack
  <1>3. ASSUME NEW k \in 1 .. Len(s) - 1
        PROVE  /\ Behind(P, t[k], H, R) /\ ~t[k].failed
               /\ Waiting(P, t[k], s[k + 1].item)
               /\ k # Len(t) => t[k + 1] = s[k + 1]
    <2>1. ASSUME NEW n \in Nat, k \in 1 .. n - 1
          PROVE  k \in 1 .. n /\ k # n /\ (k # n - 1 => k + 1 \in 1 .. n - 1)
      BY <2>1
    <2>2. k \in 1 .. Len(s) /\ k # Len(s) /\ (k # Len(s) - 1 => k + 1 \in 1 .. Len(s) - 1)
      BY <1>1, <2>1
    <2>3. t[k] = s[k] /\ (k # Len(t) => t[k + 1] = s[k + 1])
      BY <1>2, <2>2
    <2>4. QED
      BY <1>1, <2>2, <2>3 DEF StackOK
  <1>4. StackOK(P, t, H, R)
    BY <1>2, <1>3 DEF StackOK
  <1>5. ASSUME t # <<>> PROVE ~t[Len(t)].failed /\ Waiting(P, t[Len(t)], s[Len(s)].item)
    <2>1. Len(t) \in 1 .. Len(s) - 1 /\ Len(t) + 1 = Len(s)
      BY <1>1, <1>2, <1>5
    <2>2. QED
      BY <1>3, <2>1
  <1>6. QED
    BY <1>4, <1>5

\* An item that is on the stack and is needed there again, on top of it, does
\* not get a translation: those between need one another.
LEMMA CycleIsHopeless ==
    ASSUME NEW P \in [Items -> Seq(Steps)],
           \A i, j \in Items : \A k \in DOMAIN P[i] :
               P[i][k].op \in {"need", "reuse"} /\ (\E l \in DOMAIN P[j] : P[j][l].op = "reuse")
               => P[i][k].needs # j,
           NEW H, HealthySet(P, H), NEW s \in Seq(Frames), s # <<>>, NEW R, StackOK(P, s, H, R),
           NEW t \in StackItems(s), Waiting(P, s[Len(s)], t)
    PROVE  P[s[Len(s)].item][s[Len(s)].next].op = "need" /\ t \notin H
  <1>1. /\ Len(s) \in Nat \ {0} /\ DOMAIN s = 1 .. Len(s)
        /\ \A l \in 1 .. Len(s) : s[l] \in Frames
    OBVIOUS
  <1> PICK n : n = Len(s)
    OBVIOUS
  <1> DEFINE step(l) == P[s[l].item][s[l].next]
  <1>2. PICK k \in 1 .. n : s[k].item = t
    BY <1>1 DEF StackItems
  <1>3. ASSUME NEW l \in 1 .. n
        PROVE  /\ s[l].item \in Items /\ s[l].next \in DOMAIN P[s[l].item]
               /\ step(l).op \in {"need", "reuse"}
               /\ step(l).needs = IF l = n THEN t ELSE s[l + 1].item
    <2>1. Waiting(P, s[l], IF l = n THEN t ELSE s[l + 1].item)
      BY <1>1 DEF StackOK
    <2>2. s[l].item \in Items
      BY <1>1 DEF Frames
    <2>3. QED
      BY <2>1, <2>2 DEF Waiting
  <1> DEFINE Y == {s[l].item : l \in k .. n}
  <1>4. n \in Nat /\ \A l \in k .. n : l \in 1 .. n
    BY <1>1, <1>2
  <1>5. ASSUME NEW l \in k .. n
        PROVE  step(l).op = "need" /\ step(l).needs \in Y
    <2>1. \E j \in 1 .. n : step(j).needs = s[l].item
      <3>1. CASE l = k
        <4>1. n \in 1 .. n /\ step(n).needs = t
          BY <1>1, <1>3
        <4>2. QED
          BY <1>2, <3>1, <4>1
      <3>2. CASE l # k
        <4>1. l - 1 \in 1 .. n /\ l - 1 # n /\ l - 1 + 1 = l
          BY <1>2, <1>4, <3>2
        <4>2. step(l - 1).needs = s[l].item
          BY <1>3, <4>1
        <4>3. QED
          BY <4>1, <4>2
      <3>3. QED
        BY <3>1, <3>2
    <2>2. PICK j \in 1 .. n : step(j).needs = s[l].item
      BY <2>1
    <2>3. step(l).op # "reuse"
      BY <1>3, <1>4, <2>2
    <2>4. step(l).op = "need"
      BY <1>3, <1>4, <2>3
    <2>5. step(l).needs \in Y
      <3>1. CASE l = n
        <4>1. step(l).needs = t /\ k \in k .. n
          BY <1>2, <1>3, <1>4, <3>1
        <4>2. QED
          BY <1>2, <4>1
      <3>2. CASE l # n
        <4>1. step(l).needs = s[l + 1].item /\ l + 1 \in k .. n
          BY <1>3, <1>4, <3>2
        <4>2. QED
          BY <4>1
      <3>3. QED
        BY <3>1, <3>2
    <2>6. QED
      BY <2>4, <2>5
  <1>6. n \in k .. n /\ k \in k .. n
    BY <1>1, <1>2
  <1>7. H \intersect Y = {}
    <2>1. H \ Y \in SUBSET Items
      BY DEF HealthySet
    <2>2. ASSUME NEW i \in Items, AllPass(P, i, H \ Y) PROVE i \in H \ Y
      <3>1. AllPass(P, i, H)
        BY <2>2 DEF AllPass, Passes
      <3>2. i \in H
        BY <3>1 DEF HealthySet
      <3>3. ASSUME i \in Y PROVE FALSE
        <4>1. PICK l \in k .. n : i = s[l].item
          BY <3>3
        <4>2. s[l].next \in DOMAIN P[i] /\ step(l).op = "need" /\ step(l).needs \in Y
          BY <1>3, <1>4, <1>5, <4>1
        <4>3. step(l).needs \in H \ Y
          BY <2>2, <4>1, <4>2 DEF AllPass, Passes
        <4>4. QED
          BY <4>2, <4>3
      <3>4. QED
        BY <3>2, <3>3
    <2> HIDE DEF Y
    <2>3. H \subseteq H \ Y
      BY <2>1, <2>2 DEF HealthySet
    <2>4. QED
      BY <2>3
  <1>8. t \in Y
    BY <1>2, <1>6
  <1>9. QED
    BY <1>5, <1>6, <1>7, <1>8

-----------------------------------------------------------------------------
(* What the steps have in common *)

OrderState(H, C) == /\ IInv /\ OrderInv(H, C)
                    /\ HealthySet(program.steps, H)
                    /\ ClosureSet(C, ElementsOf(program.queue), H)

\* Nothing that took place is forgotten.
LEMMA RecordedStays ==
    ASSUME NEW H, pc = "translate", wanted \subseteq wanted', Tried \subseteq Tried',
           used \subseteq used',
           \A p \in impls : p \in impls' \/ (pc' = "done" /\ p[1] \notin used')
    PROVE  RecordedSteps(H) \subseteq RecordedSteps(H)'
  <1> SUFFICES ASSUME NEW s \in Steps, Recorded(s, H) PROVE Recorded(s, H)'
    BY DEF RecordedSteps
  <1>1. ASSUME NEW m, NEW i, Told(m, i) PROVE Told(m, i)'
    <2>1. <<m, i>> \in impls
      BY <1>1 DEF Told
    <2>2. <<m, i>> \in impls' \/ (pc' = "done" /\ m \notin used')
      BY <2>1
    <2>3. QED
      BY <2>2 DEF Told
  <1>2. QED
    BY <1>1 DEF Recorded

LEMMA ItemsStay ==
    ASSUME NEW H, program' = program, RecordedSteps(H) \subseteq RecordedSteps(H)'
    PROVE  /\ FilledOK(H) /\ translated' = translated => FilledOK(H)'
           /\ UnfilledOK(H) /\ unfilled' = unfilled => UnfilledOK(H)'
  BY DEF FilledOK, UnfilledOK, StepsOf

LEMMA HappensStays ==
    ASSUME NEW H, NEW C, program' = program
    PROVE  \A s : Happens(s, C, H) => Happens(s, C, H)'
  BY DEF Happens, StepsOf

\* What happens asks for nothing beyond C.
LEMMA AskedWithin ==
    ASSUME NEW H, NEW C, NEW S, ClosureSet(C, S, H), NEW s, Happens(s, C, H)
    PROVE  /\ s.op = "enqueue" => s.item \in C
           /\ s.op \in {"need", "reuse"} => s.needs \in C
  <1>1. PICK i \in C : s \in StepsOf(i, H)
    BY DEF Happens
  <1> DEFINE run == UNION {StepsOf(j, H) : j \in C}
  <1>2. s \in run
    BY <1>1
  <1> HIDE DEF run
  <1>3. s.op = "enqueue" => s.item \in {r.item : r \in {q \in run : q.op = "enqueue"}}
    BY <1>2
  <1>4. s.op \in {"need", "reuse"} => s.needs \in {r.needs : r \in {q \in run : q.op \in {"need", "reuse"}}}
    BY <1>2
  <1>5. /\ {r.item : r \in {q \in run : q.op = "enqueue"}} \subseteq AskedBy(C, H)
        /\ {r.needs : r \in {q \in run : q.op \in {"need", "reuse"}}} \subseteq AskedBy(C, H)
    BY DEF AskedBy, run
  <1>6. QED
    BY <1>3, <1>4, <1>5 DEF ClosureSet

LEMMA ImplsWithin ==
    ASSUME NEW H, NEW C, NEW S, ClosureSet(C, S, H),
           NEW s, Happens(s, C, H), s.op = "implement" \/ (s.op = "reuse" /\ s.needs \in H),
           NEW u, Happens(u, C, H), u.op = "use", u.method = s.method
    PROVE  s.item \in C
  <1> DEFINE run == UNION {StepsOf(j, H) : j \in C}
             uses == {r.method : r \in {q \in run : q.op = "use"}}
             told == {r \in run : \/ r.op = "implement" /\ r.method \in uses
                                  \/ r.op = "reuse" /\ r.method \in uses /\ r.needs \in H}
  <1>1. s \in run /\ u \in run
    BY DEF Happens
  <1>2. {r.item : r \in told} \subseteq AskedBy(C, H)
    BY DEF AskedBy
  <1> HIDE DEF run
  <1>3. u.method \in uses
    BY <1>1
  <1> HIDE DEF uses
  <1>4. s \in told
    BY <1>1, <1>3
  <1> HIDE DEF told
  <1>5. QED
    BY <1>2, <1>4 DEF ClosureSet

LEMMA RequiredWithin ==
    ASSUME NEW H, NEW C, OrderState(H, C)
    PROVE  Required \subseteq C
  <1> SUFFICES ASSUME NEW i \in Required PROVE i \in C
    OBVIOUS
  <1>1. CASE i \in wanted
    BY <1>1 DEF OrderState, OrderInv, WithinClosure
  <1>2. CASE i \notin wanted
    <2>1. PICK m \in used : <<m, i>> \in impls
      BY <1>2 DEF Required
    <2>2. PICK u \in Steps : u.op = "use" /\ Happens(u, C, H) /\ u.method = m
      BY DEF OrderState, OrderInv, WithinClosure
    <2>3. PICK s \in Steps : /\ s.op = "implement" \/ (s.op = "reuse" /\ s.needs \in H)
                             /\ Happens(s, C, H) /\ s.method = m /\ s.item = i
      BY <2>1 DEF OrderState, OrderInv, WithinClosure
    <2>4. QED
      BY <2>2, <2>3, ImplsWithin DEF OrderState
  <1>3. QED
    BY <1>1, <1>2

\* The step that is next in the frame on top is reached.
LEMMA StepHappens ==
    ASSUME NEW H, NEW C, OrderState(H, C), NEW op, At(op)
    PROVE  /\ Step \in Steps /\ Step.op = op /\ Happens(Step, C, H)
           /\ pc = "translate"
           /\ translate_stack \in Seq(Frames) /\ translate_stack # <<>>
           /\ Top = translate_stack[Len(translate_stack)] /\ ~Top.failed
           /\ Step = program.steps[Top.item][Top.next]
           /\ Top.next \in DOMAIN program.steps[Top.item]
           /\ Top.item \in Tried
           /\ program.steps \in [Items -> Seq(Steps)]
  <1>1. Step \in Steps /\ Step.op = op /\ translate_stack # <<>>
    BY StepOfTop DEF OrderState, IInv
  <1>2. Top.item \in Items /\ Top.item \in StackItems(translate_stack)
    BY <1>1, TopOfStack DEF OrderState, IInv
  <1>3. /\ ~Top.failed /\ Top.next \in DOMAIN program.steps[Top.item]
        /\ Step = program.steps[Top.item][Top.next]
        /\ Top = translate_stack[Len(translate_stack)]
    BY DEF At, InProgress, Step, Top
  <1>4. translate_stack \in Seq(Frames) /\ program.steps \in [Items -> Seq(Steps)]
    BY DEF OrderState, IInv, TypeOK
  <1>5. Behind(program.steps, Top, H, RecordedSteps(H))
    <2>1. Len(translate_stack) \in DOMAIN translate_stack
      BY <1>1, <1>4
    <2>2. QED
      BY <1>3, <2>1 DEF OrderState, OrderInv, StackOK
  <1>6. Step \in StepsOf(Top.item, H)
    <2>1. program.steps[Top.item] \in Seq(Steps)
      BY <1>2, <1>4
    <2>2. ASSUME NEW j \in 1 .. Top.next - 1
          PROVE  j \in DOMAIN program.steps[Top.item] /\ j < Top.next
      BY <1>3, <2>1
    <2>3. ASSUME NEW j \in 1 .. Top.next - 1
          PROVE  LET s == program.steps[Top.item][j] IN s.op # "stop" /\ (s.op = "need" => s.needs \in H)
      BY <1>5, <2>2 DEF Behind, Passes
    <2>4. QED
      BY <1>3, <2>3 DEF StepsOf
  <1>7. Top.item \in C /\ Top.item \in Tried
    BY <1>2 DEF Tried, OrderState, OrderInv, WithinClosure
  <1>8. pc = "translate"
    BY <1>1, NotDone DEF OrderState, IInv
  <1>9. QED
    BY <1>1, <1>3, <1>4, <1>6, <1>7, <1>8 DEF Happens

\* A step that takes place is behind the frame.
LEMMA AdvanceKeepsOrder ==
    ASSUME NEW H, NEW C, OrderState(H, C), NEW op, At(op),
           translate_stack' = Advanced(translate_stack),
           UNCHANGED <<program, translated, unfilled, processed, pc>>,
           wanted \subseteq wanted', used \subseteq used', impls \subseteq impls',
           NEW s, s = Step, Passes(s, H), Recorded(s, H)',
           WithinClosure(C, H)'
    PROVE  OrderInv(H, C)'
  <1>1. /\ s \in Steps /\ pc = "translate"
        /\ translate_stack \in Seq(Frames) /\ translate_stack # <<>>
        /\ Top = translate_stack[Len(translate_stack)] /\ ~Top.failed
        /\ s = program.steps[Top.item][Top.next]
        /\ program.steps \in [Items -> Seq(Steps)]
    BY StepHappens
  <1> PICK R : R = RecordedSteps(H)'
    OBVIOUS
  <1>2. StackItems(translate_stack') = StackItems(translate_stack)
    BY <1>1, AdvancedStack
  <1>3. Tried' = Tried
    BY <1>2 DEF Tried
  <1>4. RecordedSteps(H) \subseteq R
    <2>1. \A p \in impls : p \in impls'
      OBVIOUS
    <2>2. QED
      BY <1>1, <1>3, <2>1, RecordedStays
  <1>5. s \in R
    BY <1>1 DEF RecordedSteps
  <1>6. StackOK(program.steps, translate_stack, H, R)
    BY <1>4, StackGrowsWith DEF OrderState, OrderInv
  <1>7. StackOK(program.steps, translate_stack', H, R)
    BY <1>1, <1>5, <1>6, StackPasses
  <1>8. FilledOK(H)' /\ UnfilledOK(H)'
    BY <1>4, ItemsStay DEF OrderState, OrderInv
  <1>9. ProcessedOK'
    BY <1>2 DEF OrderState, OrderInv, ProcessedOK
  <1>10. program' \in Programs
    BY DEF OrderState, OrderInv
  <1>11. QED
    BY <1>7, <1>8, <1>9, <1>10 DEF OrderInv

LEMMA WithinStays ==
    ASSUME NEW H, NEW C, OrderState(H, C), program' = program,
           wanted \subseteq wanted', wanted' \subseteq C, Tried' \subseteq C,
           \A m \in used' : m \in used \/ \E s \in Steps : s.op = "use" /\ Happens(s, C, H) /\ s.method = m,
           \A p \in impls' : p \in impls \/ \E s \in Steps :
              /\ s.op = "implement" \/ (s.op = "reuse" /\ s.needs \in H)
              /\ Happens(s, C, H) /\ s.method = p[1] /\ s.item = p[2]
    PROVE  WithinClosure(C, H)'
  <1>1. \A s : Happens(s, C, H) => Happens(s, C, H)'
    BY HappensStays
  <1>2. WithinClosure(C, H)
    BY DEF OrderState, OrderInv
  <1>3. (ElementsOf(program.queue) \subseteq wanted /\ wanted \union Tried \subseteq C)'
    BY <1>2 DEF WithinClosure
  <1>4. ASSUME NEW m \in used'
        PROVE  \E s \in Steps : s.op = "use" /\ Happens(s, C, H)' /\ s.method = m
    BY <1>1, <1>2 DEF WithinClosure
  <1>5. ASSUME NEW p \in impls'
        PROVE  \E s \in Steps :
                  /\ s.op = "implement" \/ (s.op = "reuse" /\ s.needs \in H)
                  /\ Happens(s, C, H)' /\ s.method = p[1] /\ s.item = p[2]
    BY <1>1, <1>2 DEF WithinClosure
  <1>6. QED
    BY <1>3, <1>4, <1>5 DEF WithinClosure

\* What has been translated is healthy.
LEMMA TranslatedHealthy ==
    ASSUME NEW H, NEW C, OrderState(H, C)
    PROVE  translated \subseteq H /\ translated \subseteq Tried
  <1>1. translated \subseteq Items /\ translated \subseteq processed
    BY DEF OrderState, IInv, TypeOK
  <1>2. \A i \in translated : AllPass(program.steps, i, H)
    BY DEF OrderState, OrderInv, FilledOK, AllPass
  <1>3. QED
    BY <1>1, <1>2 DEF OrderState, HealthySet, Tried

-----------------------------------------------------------------------------
(* Each step keeps the invariant *)

LEMMA EnqueueKeepsOrder ==
    ASSUME NEW H, NEW C, OrderState(H, C), RegisterAndEnqueue
    PROVE  OrderInv(H, C)'
  <1> PICK s : s = Step
    OBVIOUS
  <1>1. /\ At("enqueue") /\ wanted' = wanted \union {s.item}
        /\ translate_stack' = Advanced(translate_stack)
        /\ UNCHANGED <<program, processed, translated, used, impls, pc, unfilled>>
    BY DEF RegisterAndEnqueue, Proceed
  <1>2. /\ s \in Steps /\ s.op = "enqueue" /\ Happens(s, C, H)
        /\ translate_stack \in Seq(Frames) /\ translate_stack # <<>>
    BY <1>1, StepHappens
  <1>3. s.item \in C
    BY <1>2, AskedWithin DEF OrderState
  <1>4. Tried' = Tried
    BY <1>1, <1>2, AdvancedStack DEF Tried
  <1>5. WithinClosure(C, H)
    BY DEF OrderState, OrderInv
  <1>6. WithinClosure(C, H)'
    <2>1. wanted' \subseteq C /\ Tried' \subseteq C
      BY <1>1, <1>3, <1>4, <1>5 DEF WithinClosure
    <2>2. QED
      BY <1>1, <2>1, WithinStays
  <1>7. Passes(s, H) /\ Recorded(s, H)'
    BY <1>1, <1>2 DEF Passes, Recorded
  <1>8. QED
    BY <1>1, <1>6, <1>7, AdvanceKeepsOrder

LEMMA UseKeepsOrder ==
    ASSUME NEW H, NEW C, OrderState(H, C), MarkMethodAsUsed
    PROVE  OrderInv(H, C)'
  <1> PICK s : s = Step
    OBVIOUS
  <1>1. /\ At("use") /\ used' = used \union {s.method}
        /\ translate_stack' = Advanced(translate_stack)
        /\ UNCHANGED <<program, processed, translated, wanted, impls, pc, unfilled>>
    BY DEF MarkMethodAsUsed, Proceed
  <1>2. /\ s \in Steps /\ s.op = "use" /\ Happens(s, C, H)
        /\ translate_stack \in Seq(Frames) /\ translate_stack # <<>>
    BY <1>1, StepHappens
  <1>3. Tried' = Tried
    BY <1>1, <1>2, AdvancedStack DEF Tried
  <1>4. WithinClosure(C, H)
    BY DEF OrderState, OrderInv
  <1>5. WithinClosure(C, H)'
    <2>1. wanted' \subseteq C /\ Tried' \subseteq C
      BY <1>1, <1>3, <1>4 DEF WithinClosure
    <2>2. \A m \in used' : m \in used \/ \E r \in Steps : r.op = "use" /\ Happens(r, C, H) /\ r.method = m
      BY <1>1, <1>2
    <2>3. QED
      BY <1>1, <2>1, <2>2, WithinStays
  <1>6. Passes(s, H) /\ Recorded(s, H)'
    BY <1>1, <1>2 DEF Passes, Recorded
  <1>7. QED
    BY <1>1, <1>5, <1>6, AdvanceKeepsOrder

LEMMA ImplKeepsOrder ==
    ASSUME NEW H, NEW C, OrderState(H, C), RegisterMethodImpl
    PROVE  OrderInv(H, C)'
  <1> PICK s : s = Step
    OBVIOUS
  <1>1. /\ At("implement") \/ (At("reuse") /\ s.needs \in translated)
        /\ impls' = impls \union {<<s.method, s.item>>}
        /\ translate_stack' = Advanced(translate_stack)
        /\ UNCHANGED <<program, processed, translated, used, wanted, pc, unfilled>>
    BY DEF RegisterMethodImpl, Proceed
  <1>2. /\ s \in Steps /\ Happens(s, C, H)
        /\ s.op = "implement" \/ (s.op = "reuse" /\ s.needs \in translated)
        /\ translate_stack \in Seq(Frames) /\ translate_stack # <<>>
    BY <1>1, StepHappens
  <1>3. Tried' = Tried
    BY <1>1, <1>2, AdvancedStack DEF Tried
  <1>4. WithinClosure(C, H)
    BY DEF OrderState, OrderInv
  <1>5. s.op = "reuse" => s.needs \in H /\ s.needs \in Tried
    BY <1>2, TranslatedHealthy
  <1>6. WithinClosure(C, H)'
    <2>1. wanted' \subseteq C /\ Tried' \subseteq C
      BY <1>1, <1>3, <1>4 DEF WithinClosure
    <2>2. \A p \in impls' : p \in impls \/ \E r \in Steps :
              /\ r.op = "implement" \/ (r.op = "reuse" /\ r.needs \in H)
              /\ Happens(r, C, H) /\ r.method = p[1] /\ r.item = p[2]
      BY <1>1, <1>2, <1>5
    <2>3. QED
      BY <1>1, <2>1, <2>2, WithinStays
  <1>7. Passes(s, H) /\ Recorded(s, H)'
    BY <1>1, <1>2, <1>3, <1>5 DEF Passes, Recorded, Told
  <1>8. PICK op : At(op)
    BY <1>1
  <1>9. impls \subseteq impls'
    BY <1>1
  <1>10. QED
    BY <1>1, <1>6, <1>7, <1>8, <1>9, AdvanceKeepsOrder

LEMMA FindKeepsOrder ==
    ASSUME NEW H, NEW C, OrderState(H, C), FindTranslated
    PROVE  OrderInv(H, C)'
  <1> PICK s : s = Step
    OBVIOUS
  <1>1. /\ At("need") /\ s.needs \in translated
        /\ translate_stack' = Advanced(translate_stack)
        /\ UNCHANGED <<program, processed, translated, used, impls, wanted, pc, unfilled>>
    BY DEF FindTranslated, Proceed
  <1>2. /\ s \in Steps /\ s.op = "need"
        /\ translate_stack \in Seq(Frames) /\ translate_stack # <<>>
    BY <1>1, StepHappens
  <1>3. Tried' = Tried
    BY <1>1, <1>2, AdvancedStack DEF Tried
  <1>4. WithinClosure(C, H)
    BY DEF OrderState, OrderInv
  <1>5. WithinClosure(C, H)'
    <2>1. wanted' \subseteq C /\ Tried' \subseteq C
      BY <1>1, <1>3, <1>4 DEF WithinClosure
    <2>2. QED
      BY <1>1, <2>1, WithinStays
  <1>6. Passes(s, H) /\ Recorded(s, H)'
    BY <1>1, <1>2, <1>3, TranslatedHealthy DEF Passes, Recorded
  <1>7. QED
    BY <1>1, <1>5, <1>6, AdvanceKeepsOrder

\* Steps that leave the items alone.
LEMMA StackKeepsOrder ==
    ASSUME NEW H, NEW C, OrderState(H, C), pc = "translate",
           UNCHANGED <<program, processed, translated, unfilled, used, impls, pc>>,
           wanted \subseteq wanted', wanted' \subseteq C, Tried' \subseteq C,
           StackItems(translate_stack) \subseteq StackItems(translate_stack'),
           NEW R, R = RecordedSteps(H)', RecordedSteps(H) \subseteq R => StackOK(program.steps, translate_stack', H, R)
    PROVE  OrderInv(H, C)'
  <1>1. Tried \subseteq Tried'
    BY DEF Tried
  <1>2. RecordedSteps(H) \subseteq R
    BY <1>1, RecordedStays
  <1>3. StackOK(program.steps, translate_stack', H, R)
    BY <1>2
  <1>4. FilledOK(H)' /\ UnfilledOK(H)'
    BY <1>2, ItemsStay DEF OrderState, OrderInv
  <1>5. ProcessedOK'
    BY DEF OrderState, OrderInv, ProcessedOK
  <1>6. WithinClosure(C, H)'
    BY WithinStays
  <1>7. program' \in Programs
    BY DEF OrderState, OrderInv
  <1>8. QED
    BY <1>3, <1>4, <1>5, <1>6, <1>7 DEF OrderInv

LEMMA NowKeepsOrder ==
    ASSUME NEW H, NEW C, OrderState(H, C), TranslateNow
    PROVE  OrderInv(H, C)'
  <1> PICK s : s = Step
    OBVIOUS
  <1>1. /\ At("need") \/ At("reuse")
        /\ ~OnStack(s.needs) /\ translate_stack' = Append(translate_stack, Frame(s.needs))
        /\ wanted' = wanted \union {s.needs}
        /\ UNCHANGED <<program, processed, translated, used, impls, pc, unfilled>>
    BY DEF TranslateNow
  <1>2. /\ s \in Steps /\ Happens(s, C, H) /\ s.op \in {"need", "reuse"}
        /\ pc = "translate"
        /\ translate_stack \in Seq(Frames) /\ translate_stack # <<>>
        /\ Top = translate_stack[Len(translate_stack)] /\ ~Top.failed
        /\ s = program.steps[Top.item][Top.next]
        /\ Top.next \in DOMAIN program.steps[Top.item]
        /\ program.steps \in [Items -> Seq(Steps)]
    BY <1>1, StepHappens
  <1>3. s.needs \in C /\ s.needs \in Items
    BY <1>2, AskedWithin DEF OrderState, ClosureSet
  <1>4. s.needs \notin StackItems(translate_stack)
    BY <1>1 DEF OnStack, StackItems
  <1>5. StackItems(translate_stack') = StackItems(translate_stack) \union {s.needs}
    BY <1>1, <1>2, <1>3, <1>4, PushStack
  <1>6. WithinClosure(C, H)
    BY DEF OrderState, OrderInv
  <1>7. wanted' \subseteq C /\ Tried' \subseteq C
    <2>1. Tried' = Tried \union {s.needs}
      BY <1>1, <1>5 DEF Tried
    <2>2. QED
      BY <1>1, <1>3, <1>6, <2>1 DEF WithinClosure
  <1>8. Waiting(program.steps, Top, s.needs)
    BY <1>2 DEF Waiting
  <1> PICK R : R = RecordedSteps(H)'
    OBVIOUS
  <1>9. ASSUME RecordedSteps(H) \subseteq R PROVE StackOK(program.steps, translate_stack', H, R)
    <2>1. StackOK(program.steps, translate_stack, H, R)
      BY <1>9, StackGrowsWith DEF OrderState, OrderInv
    <2>2. QED
      BY <1>1, <1>2, <1>3, <1>8, <2>1, StackPushed
  <1>10. wanted \subseteq wanted' /\ StackItems(translate_stack) \subseteq StackItems(translate_stack')
    BY <1>1, <1>5
  <1>11. QED
    BY <1>1, <1>2, <1>7, <1>9, <1>10, StackKeepsOrder

LEMMA CycleKeepsOrder ==
    ASSUME NEW H, NEW C, OrderState(H, C), DetectCycle
    PROVE  OrderInv(H, C)'
  <1> PICK s : s = Step
    OBVIOUS
  <1>1. /\ At("need") \/ At("reuse")
        /\ OnStack(s.needs) /\ translate_stack' = GivenNoTranslation(translate_stack)
        /\ UNCHANGED <<program, processed, translated, used, impls, wanted, pc, unfilled>>
    BY DEF DetectCycle
  <1>2. /\ s \in Steps /\ s.op \in {"need", "reuse"}
        /\ pc = "translate"
        /\ translate_stack \in Seq(Frames) /\ translate_stack # <<>>
        /\ Top = translate_stack[Len(translate_stack)] /\ ~Top.failed
        /\ s = program.steps[Top.item][Top.next]
        /\ Top.next \in DOMAIN program.steps[Top.item]
        /\ program.steps \in [Items -> Seq(Steps)]
    BY <1>1, StepHappens
  <1>3. s.needs \in StackItems(translate_stack)
    BY <1>1 DEF OnStack, StackItems
  <1>4. Waiting(program.steps, Top, s.needs)
    BY <1>2 DEF Waiting
  <1>5. s.op = "need" /\ s.needs \notin H
    <2> PICK P : P = program.steps
      OBVIOUS
    <2>1. \A i, j \in Items : \A k \in DOMAIN P[i] :
             P[i][k].op \in {"need", "reuse"} /\ (\E l \in DOMAIN P[j] : P[j][l].op = "reuse")
             => P[i][k].needs # j
      BY OnDemandAssumption DEF Reuses, OrderState, OrderInv
    <2> PICK st \in Seq(Frames) : st = translate_stack
      BY <1>2
    <2> PICK R : R = RecordedSteps(H)
      OBVIOUS
    <2> PICK t \in StackItems(st) : t = s.needs
      BY <1>3
    <2>2. StackOK(P, st, H, R) /\ HealthySet(P, H) /\ st # <<>> /\ P \in [Items -> Seq(Steps)]
          /\ Waiting(P, st[Len(st)], t)
      BY <1>2, <1>4 DEF OrderState, OrderInv
    <2>3. P[st[Len(st)].item][st[Len(st)].next].op = "need" /\ t \notin H
      BY <2>1, <2>2, CycleIsHopeless
    <2>4. QED
      BY <1>2, <2>3
  <1>6. translate_stack' = [translate_stack EXCEPT ![Len(translate_stack)].failed = TRUE]
    BY <1>1, <1>2, <1>5 DEF GivenNoTranslation
  <1>7. StackItems(translate_stack') = StackItems(translate_stack)
    BY <1>1, <1>2, GivenStack
  <1>8. Tried' = Tried
    BY <1>1, <1>7 DEF Tried
  <1>9. WithinClosure(C, H)
    BY DEF OrderState, OrderInv
  <1>10. wanted' \subseteq C /\ Tried' \subseteq C
    BY <1>1, <1>8, <1>9 DEF WithinClosure
  <1> PICK R : R = RecordedSteps(H)'
    OBVIOUS
  <1>11. ASSUME RecordedSteps(H) \subseteq R PROVE StackOK(program.steps, translate_stack', H, R)
    <2>1. StackOK(program.steps, translate_stack, H, R)
      BY <1>11, StackGrowsWith DEF OrderState, OrderInv
    <2>2. Recorded(s, H)'
      BY <1>3, <1>5, <1>8 DEF Recorded, Tried
    <2>3. s \in R
      BY <1>2, <2>2 DEF RecordedSteps
    <2>4. Hopeless(program.steps, Top, H, R)
      BY <1>2, <1>5, <2>3 DEF Hopeless
    <2>5. QED
      BY <1>2, <1>6, <2>1, <2>4, StackFails
  <1>12. QED
    BY <1>1, <1>2, <1>7, <1>10, <1>11, StackKeepsOrder

LEMMA TranslateKeepsOrder ==
    ASSUME NEW H, NEW C, OrderState(H, C), TranslateItem
    PROVE  OrderInv(H, C)'
  <1> PICK i : i = Head(items_to_translate)
    OBVIOUS
  <1>1. /\ pc = "translate" /\ translate_stack = <<>> /\ items_to_translate # <<>>
        /\ processed' = processed \union {i} /\ translate_stack' = <<Frame(i)>>
        /\ UNCHANGED <<program, translated, used, impls, pc, wanted, unfilled>>
    BY DEF TranslateItem, PopFront
  <1>2. i \in Items /\ i \in C
    <2>1. items_to_translate \in Seq(Items)
      BY DEF OrderState, IInv, TypeOK
    <2>2. i \in Items /\ i \in ElementsOf(items_to_translate)
      BY <1>1, <2>1, TailElements
    <2>3. ElementsOf(items_to_translate) \subseteq Required
      BY DEF OrderState, IInv, QueueInv
    <2>4. QED
      BY <2>2, <2>3, RequiredWithin
  <1>3. translate_stack' = Append(translate_stack, Frame(i))
    BY <1>1
  <1>4. StackItems(translate_stack) = {} /\ StackItems(translate_stack') = {i}
    BY <1>1, <1>2, <1>3, EmptyHasNone, PushStack DEF OrderState, IInv, TypeOK
  <1>5. Tried' = Tried \union {i}
    BY <1>1, <1>4 DEF Tried
  <1>6. WithinClosure(C, H)
    BY DEF OrderState, OrderInv
  <1>7. WithinClosure(C, H)'
    <2>1. wanted' \subseteq C /\ Tried' \subseteq C
      BY <1>1, <1>2, <1>5, <1>6 DEF WithinClosure
    <2>2. QED
      BY <1>1, <2>1, WithinStays
  <1> PICK R : R = RecordedSteps(H)'
    OBVIOUS
  <1>8. RecordedSteps(H) \subseteq R
    BY <1>1, <1>5, RecordedStays
  <1>9. FilledOK(H)' /\ UnfilledOK(H)'
    BY <1>1, <1>8, ItemsStay DEF OrderState, OrderInv
  <1>10. ProcessedOK'
    BY <1>1, <1>4 DEF OrderState, OrderInv, ProcessedOK
  <1>11. StackOK(program.steps, translate_stack', H, R)
    <2>1. StackOK(program.steps, translate_stack, H, R)
      BY <1>8, StackGrowsWith DEF OrderState, OrderInv
    <2>2. translate_stack \in Seq(Frames) /\ program.steps \in [Items -> Seq(Steps)]
      BY DEF OrderState, IInv, TypeOK
    <2>3. QED
      BY <1>1, <1>2, <1>3, <2>1, <2>2, StackPushed
  <1>12. program' \in Programs
    BY <1>1 DEF OrderState, OrderInv
  <1>13. QED
    BY <1>1, <1>7, <1>9, <1>10, <1>11, <1>12 DEF OrderInv

\* Of the loop over the queue, what neither translates nor ends anything,
LEMMA QuietKeepsOrder ==
    ASSUME NEW H, NEW C, OrderState(H, C),
           UNCHANGED <<program, processed, translated, translate_stack, used, impls, pc,
                       wanted, unfilled>>
    PROVE  OrderInv(H, C)'
  <1>1. Tried' = Tried
    BY DEF Tried
  <1>2. RecordedSteps(H)' = RecordedSteps(H)
    BY <1>1 DEF RecordedSteps, Recorded, Told
  <1>3. FilledOK(H)' /\ UnfilledOK(H)'
    BY <1>2, ItemsStay DEF OrderState, OrderInv
  <1>4. ProcessedOK'
    BY DEF OrderState, OrderInv, ProcessedOK
  <1>5. WithinClosure(C, H)
    BY DEF OrderState, OrderInv
  <1>6. WithinClosure(C, H)'
    <2>1. wanted' \subseteq C /\ Tried' \subseteq C
      BY <1>1, <1>5 DEF WithinClosure
    <2>2. QED
      BY <2>1, WithinStays
  <1>7. StackOK(program.steps, translate_stack, H, RecordedSteps(H)) /\ program \in Programs
    BY DEF OrderState, OrderInv
  <1>8. QED
    BY <1>2, <1>3, <1>4, <1>6, <1>7 DEF OrderInv

\* and the end of it.
LEMMA RemoveKeepsOrder ==
    ASSUME NEW H, NEW C, OrderState(H, C), RemoveUnusedMethods
    PROVE  OrderInv(H, C)'
  <1>1. /\ pc = "translate" /\ pc' = "done" /\ impls' = {p \in impls : p[1] \in used}
        /\ UNCHANGED <<program, processed, translated, translate_stack, used, wanted, unfilled>>
    BY DEF RemoveUnusedMethods
  <1>2. Tried' = Tried
    BY <1>1 DEF Tried
  <1> PICK R : R = RecordedSteps(H)'
    OBVIOUS
  <1>3. RecordedSteps(H) \subseteq R
    <2>1. \A p \in impls : p \in impls' \/ (pc' = "done" /\ p[1] \notin used')
      BY <1>1
    <2>2. QED
      BY <1>1, <1>2, <2>1, RecordedStays
  <1>4. FilledOK(H)' /\ UnfilledOK(H)'
    BY <1>1, <1>3, ItemsStay DEF OrderState, OrderInv
  <1>5. ProcessedOK'
    BY <1>1 DEF OrderState, OrderInv, ProcessedOK
  <1>6. WithinClosure(C, H)
    BY DEF OrderState, OrderInv
  <1>7. WithinClosure(C, H)'
    <2>1. wanted' \subseteq C /\ Tried' \subseteq C
      BY <1>1, <1>2, <1>6 DEF WithinClosure
    <2>2. \A p \in impls' : p \in impls
      BY <1>1
    <2>3. QED
      BY <1>1, <2>1, <2>2, WithinStays
  <1>8. StackOK(program.steps, translate_stack, H, R)
    BY <1>3, StackGrowsWith DEF OrderState, OrderInv
  <1>9. program' \in Programs
    BY <1>1 DEF OrderState, OrderInv
  <1>10. QED
    BY <1>1, <1>4, <1>5, <1>7, <1>8, <1>9 DEF OrderInv

\* The frame of what has all its steps behind it is popped.
LEMMA FillKeepsOrder ==
    ASSUME NEW H, NEW C, OrderState(H, C), FillSlot
    PROVE  OrderInv(H, C)'
  <1> PICK i : i = Top.item
    OBVIOUS
  <1>1. /\ translate_stack # <<>> /\ ~Top.failed /\ Top.next \notin DOMAIN program.steps[i]
        /\ translated' = translated \union {i} /\ processed' = processed \union {i}
        /\ translate_stack' = Callers
        /\ UNCHANGED <<program, used, impls, pc, wanted, unfilled>>
    BY DEF FillSlot, InProgress
  <1>2. /\ translate_stack \in Seq(Frames) /\ program.steps \in [Items -> Seq(Steps)]
        /\ pc = "translate"
    BY <1>1, NotDone DEF OrderState, IInv, TypeOK
  <1>3. Top = translate_stack[Len(translate_stack)] /\ Top.item = i /\ i \in Items
        /\ Len(translate_stack) \in DOMAIN translate_stack /\ Top \in Frames
    BY <1>1, <1>2, TopOfStack DEF Top, OrderState, IInv
  <1>4. StackItems(translate_stack) = StackItems(translate_stack') \union {i}
    BY <1>1, <1>2, <1>3, PopStack DEF Callers
  <1>5. Tried' = Tried
    BY <1>1, <1>4 DEF Tried
  <1> PICK R : R = RecordedSteps(H)'
    OBVIOUS
  <1>6. RecordedSteps(H) \subseteq R
    BY <1>1, <1>2, <1>5, RecordedStays
  <1>7. StackOK(program.steps, translate_stack, H, R)
    BY <1>6, StackGrowsWith DEF OrderState, OrderInv
  <1>8. StackOK(program.steps, translate_stack', H, R)
    BY <1>1, <1>2, <1>7, StackPopped DEF Callers
  <1>9. \A k \in DOMAIN program.steps[i] : Passes(program.steps[i][k], H) /\ program.steps[i][k] \in R
    <2>1. Behind(program.steps, Top, H, R)
      BY <1>3, <1>7 DEF StackOK
    <2>2. \A k \in DOMAIN program.steps[i] : k < Top.next
      <3>1. program.steps[i] \in Seq(Steps) /\ Top.next \in Nat \ {0}
        BY <1>2, <1>3 DEF Frames
      <3>2. QED
        BY <1>1, <3>1
    <2>3. QED
      BY <1>3, <2>1, <2>2 DEF Behind
  <1>10. FilledOK(H)'
    <2>1. \A j \in translated : \A k \in DOMAIN program.steps[j] :
             Passes(program.steps[j][k], H) /\ program.steps[j][k] \in R
      BY <1>6 DEF OrderState, OrderInv, FilledOK
    <2>2. QED
      BY <1>1, <1>9, <2>1 DEF FilledOK
  <1>11. UnfilledOK(H)'
    BY <1>1, <1>6, ItemsStay DEF OrderState, OrderInv
  <1>12. ProcessedOK'
    BY <1>1, <1>4 DEF OrderState, OrderInv, ProcessedOK
  <1>13. WithinClosure(C, H)
    BY DEF OrderState, OrderInv
  <1>14. WithinClosure(C, H)'
    <2>1. wanted' \subseteq C /\ Tried' \subseteq C
      BY <1>1, <1>5, <1>13 DEF WithinClosure
    <2>2. QED
      BY <1>1, <2>1, WithinStays
  <1>15. program' \in Programs
    BY <1>1 DEF OrderState, OrderInv
  <1>16. QED
    BY <1>1, <1>8, <1>10, <1>11, <1>12, <1>14, <1>15 DEF OrderInv

\* That of what is given up leaves a frame without the translation that it
\* waits for.
LEMMA GiveUpKeepsOrder ==
    ASSUME NEW H, NEW C, OrderState(H, C), GiveUp
    PROVE  OrderInv(H, C)'
  <1> PICK i : i = Top.item
    OBVIOUS
  <1> PICK st : st = Callers
    OBVIOUS
  <1>1. /\ translate_stack # <<>>
        /\ Top.failed \/ At("stop")
        /\ unfilled' = unfilled \union {i}
        /\ translate_stack' = IF st = <<>> THEN <<>> ELSE GivenNoTranslation(st)
        /\ UNCHANGED <<program, translated, processed, used, impls, pc, wanted>>
    BY DEF GiveUp
  <1>2. /\ translate_stack \in Seq(Frames) /\ program.steps \in [Items -> Seq(Steps)]
        /\ pc = "translate"
    BY <1>1, NotDone DEF OrderState, IInv, TypeOK
  <1>3. Top = translate_stack[Len(translate_stack)] /\ Top.item = i /\ i \in Items
        /\ Len(translate_stack) \in DOMAIN translate_stack /\ Top \in Frames
    BY <1>1, <1>2, TopOfStack DEF Top, OrderState, IInv
  <1>4. st \in Seq(Frames) /\ StackItems(translate_stack) = StackItems(st) \union {i}
    BY <1>1, <1>2, <1>3, PopStack DEF Callers
  <1>5. StackItems(translate_stack') = StackItems(st)
    BY <1>1, <1>4, GivenStack
  <1>6. Tried' = Tried /\ i \in Tried'
    BY <1>1, <1>4, <1>5 DEF Tried
  <1> PICK R : R = RecordedSteps(H)'
    OBVIOUS
  <1>7. RecordedSteps(H) \subseteq R
    BY <1>1, <1>2, <1>6, RecordedStays
  <1>8. StackOK(program.steps, translate_stack, H, R)
    BY <1>7, StackGrowsWith DEF OrderState, OrderInv
  <1> PICK s : s = program.steps[i][Top.next]
    OBVIOUS
  <1>9. Top.next \in DOMAIN program.steps[i] /\ ~Passes(s, H) /\ s \in R
    <2>1. CASE Top.failed
      BY <1>3, <1>8, <2>1 DEF StackOK, Hopeless, Passes
    <2>2. CASE At("stop")
      <3>1. s \in Steps /\ s.op = "stop" /\ Top.next \in DOMAIN program.steps[i]
        BY <1>3, <2>2, StepHappens
      <3>2. QED
        BY <3>1 DEF Passes, Recorded, RecordedSteps
    <2>3. QED
      BY <1>1, <2>1, <2>2
  <1>10. i \notin H
    BY <1>3, <1>9 DEF OrderState, HealthySet, AllPass
  <1>11. StepsOf(i, H) \subseteq R
    <2> SUFFICES ASSUME NEW k \in DOMAIN program.steps[i],
                        \A j \in 1 .. k - 1 : Passes(program.steps[i][j], H)
                 PROVE  program.steps[i][k] \in R
      BY DEF StepsOf, Passes
    <2>1. k \in Nat /\ Top.next \in Nat \ {0}
      <3>1. program.steps[i] \in Seq(Steps)
        BY <1>2, <1>3
      <3>2. QED
        BY <1>3, <3>1 DEF Frames
    <2>2. ~(Top.next < k)
      BY <1>9, <2>1
    <2>3. CASE k = Top.next
      BY <1>9, <2>3
    <2>4. CASE k < Top.next
      BY <1>3, <1>8, <2>4 DEF StackOK, Behind
    <2>5. QED
      BY <2>1, <2>2, <2>3, <2>4
  <1>12. UnfilledOK(H)'
    <2>1. \A j \in unfilled : j \notin H /\ StepsOf(j, H) \subseteq R
      BY <1>7 DEF OrderState, OrderInv, UnfilledOK
    <2>2. \A j \in unfilled' : j \notin H /\ StepsOf(j, H) \subseteq R
      BY <1>1, <1>10, <1>11, <2>1
    <2>3. \A j : StepsOf(j, H)' = StepsOf(j, H)
      BY <1>1 DEF StepsOf
    <2>4. QED
      BY <2>2, <2>3 DEF UnfilledOK
  <1>13. FilledOK(H)'
    BY <1>1, <1>7, ItemsStay DEF OrderState, OrderInv
  <1>14. ProcessedOK'
    BY <1>1, <1>4, <1>5 DEF OrderState, OrderInv, ProcessedOK
  <1>15. WithinClosure(C, H)
    BY DEF OrderState, OrderInv
  <1>16. WithinClosure(C, H)'
    <2>1. wanted' \subseteq C /\ Tried' \subseteq C
      BY <1>1, <1>6, <1>15 DEF WithinClosure
    <2>2. QED
      BY <1>1, <2>1, WithinStays
  <1>17. StackOK(program.steps, translate_stack', H, R)
    <2> PICK P \in [Items -> Seq(Steps)] : P = program.steps
      BY <1>2
    <2>1. StackOK(P, st, H, R) /\ (st # <<>> => ~st[Len(st)].failed /\ Waiting(P, st[Len(st)], i))
      BY <1>1, <1>2, <1>3, <1>8, StackPopped DEF Callers
    <2>2. CASE st = <<>>
      BY <1>1, <2>1, <2>2
    <2>3. CASE st # <<>>
      <3> PICK f \in Frames : f = st[Len(st)]
        BY <1>4, <2>3
      <3> PICK r : r = P[f.item][f.next]
        OBVIOUS
      <3>1. /\ f.next \in DOMAIN P[f.item] /\ r.op \in {"need", "reuse"} /\ r.needs = i
            /\ ~f.failed /\ f.item \in Items
        BY <2>1, <2>3 DEF Waiting, Frames
      <3>2. r \in R
        <4>1. r \in Steps
          BY <3>1
        <4>2. Recorded(r, H)'
          BY <1>6, <1>10, <3>1 DEF Recorded
        <4>3. QED
          BY <4>1, <4>2 DEF RecordedSteps
      <3>3. CASE r.op = "need"
        <4>1. Hopeless(P, f, H, R)
          BY <1>10, <3>1, <3>2, <3>3 DEF Hopeless
        <4>2. translate_stack' = [st EXCEPT ![Len(st)].failed = TRUE]
          BY <1>1, <2>3, <3>3 DEF GivenNoTranslation
        <4>3. QED
          BY <1>4, <2>1, <2>3, <4>1, <4>2, StackFails
      <3>4. CASE r.op = "reuse"
        <4>1. translate_stack' = Advanced(st)
          BY <1>1, <2>3, <3>4 DEF GivenNoTranslation
        <4>2. Passes(r, H)
          BY <3>4 DEF Passes
        <4>3. QED
          BY <1>4, <2>1, <2>3, <3>1, <3>2, <4>1, <4>2, StackPasses
      <3>5. QED
        BY <3>1, <3>3, <3>4
    <2>4. QED
      BY <2>2, <2>3
  <1>18. program' \in Programs
    BY <1>1 DEF OrderState, OrderInv
  <1>19. QED
    BY <1>1, <1>12, <1>13, <1>14, <1>16, <1>17, <1>18 DEF OrderInv

-----------------------------------------------------------------------------
(* The theorem *)

OrderedSomehow == \E H, C : OrderState(H, C)

LEMMA InitOrder == Init => OrderedSomehow
  <1> SUFFICES ASSUME Init PROVE OrderedSomehow
    OBVIOUS
  <1> PICK H : H = Healthy
    OBVIOUS
  <1> PICK S : S = ElementsOf(program.queue)
    OBVIOUS
  <1> PICK C : C = Closure(S, H)
    OBVIOUS
  <1>1. /\ program \in Programs /\ translated = {} /\ unfilled = {} /\ processed = {}
        /\ translate_stack = <<>> /\ used = {} /\ impls = {} /\ wanted = S
    BY DEF Init
  <1>2. S \in SUBSET Items
    BY <1>1, ProgramsAssumption DEF ElementsOf
  <1>3. HealthySet(program.steps, H) /\ ClosureSet(C, S, H)
    BY <1>1, <1>2, HealthyFacts, ClosureFacts
  <1>4. Tried = {}
    BY <1>1, EmptyHasNone DEF Tried
  <1>5. WithinClosure(C, H)
    BY <1>1, <1>3, <1>4 DEF WithinClosure, ClosureSet
  <1>6. OrderInv(H, C)
    BY <1>1, <1>5 DEF OrderInv, StackOK, FilledOK, UnfilledOK, ProcessedOK
  <1>7. QED
    BY <1>3, <1>6, InitInv DEF OrderedSomehow, OrderState

LEMMA NextOrder == OrderedSomehow /\ [Next]_vars => OrderedSomehow'
  <1> SUFFICES ASSUME OrderedSomehow, [Next]_vars PROVE OrderedSomehow'
    OBVIOUS
  <1> PICK H, C : OrderState(H, C)
    BY DEF OrderedSomehow
  <1>1. IInv /\ IInv'
    BY NextInv DEF OrderState
  <1>2. program' = program
    BY DEF Next, vars, TranslateItem, SkipItem, RemoveUnusedMethods, RegisterAndEnqueue,
           MarkMethodAsUsed, RegisterMethodImpl, FindTranslated, TranslateNow, DetectCycle,
           FillSlot, GiveUp
  <1>3. OrderInv(H, C)'
    <2>1. CASE SkipItem
      BY <2>1, QuietKeepsOrder DEF SkipItem
    <2>2. CASE UNCHANGED vars
      BY <2>2, QuietKeepsOrder DEF vars
    <2>3. QED
      BY <2>1, <2>2, TranslateKeepsOrder, RemoveKeepsOrder, EnqueueKeepsOrder, UseKeepsOrder,
         ImplKeepsOrder, FindKeepsOrder, NowKeepsOrder, CycleKeepsOrder, FillKeepsOrder,
         GiveUpKeepsOrder DEF Next
  <1>4. HealthySet(program.steps, H)'
    BY <1>2 DEF OrderState
  <1>5. ClosureSet(C, ElementsOf(program.queue), H)'
    <2>1. \A i : StepsOf(i, H)' = StepsOf(i, H)
      BY <1>2 DEF StepsOf
    <2>2. \A T : AskedBy(T, H)' = AskedBy(T, H)
      BY <2>1 DEF AskedBy
    <2>3. ElementsOf(program.queue)' = ElementsOf(program.queue)
      BY <1>2 DEF ElementsOf
    <2>4. QED
      BY <2>2, <2>3 DEF OrderState, ClosureSet
  <1>6. OrderState(H, C)'
    BY <1>1, <1>3, <1>4, <1>5 DEF OrderState
  <1>7. QED
    BY <1>6 DEF OrderedSomehow

\* In the end, all that is asked for was tried, so that the closure is.
LEMMA OrderAtTheEnd == OrderedSomehow => OrderDoesNotMatter
  <1> SUFFICES ASSUME OrderedSomehow, pc = "done"
               PROVE  translated = Closure(ElementsOf(program.queue), Healthy) \intersect Healthy
    BY DEF OrderDoesNotMatter
  <1> PICK H, C : OrderState(H, C)
    BY DEF OrderedSomehow
  <1> PICK S : S = ElementsOf(program.queue)
    OBVIOUS
  <1>1. /\ program \in Programs /\ FilledOK(H) /\ UnfilledOK(H) /\ ProcessedOK /\ WithinClosure(C, H)
        /\ HealthySet(program.steps, H) /\ ClosureSet(C, S, H)
        /\ TypeOK /\ MethodsInv /\ QueueInv /\ DoneInv
    BY DEF OrderState, OrderInv, IInv
  <1>2. H = Healthy
    <2>1. HealthySet(program.steps, Healthy)
      BY HealthyFacts
    <2>2. H \subseteq Healthy /\ Healthy \subseteq H
      BY <1>1, <2>1 DEF HealthySet
    <2>3. QED
      BY <2>2
  <1>3. C = Closure(S, Healthy)
    <2>1. S \in SUBSET Items
      BY <1>1, ProgramsAssumption DEF ElementsOf
    <2>2. ClosureSet(Closure(S, H), S, H)
      BY <1>1, <2>1, ClosureFacts
    <2> PICK D : D = Closure(S, H)
      OBVIOUS
    <2>3. C \subseteq D /\ D \subseteq C
      BY <1>1, <2>2 DEF ClosureSet
    <2>4. QED
      BY <1>2, <2>3
  <1> DEFINE D == translated \union unfilled
  <1>4. /\ items_to_translate = <<>> /\ translate_stack = <<>>
        /\ \A p \in impls : p[1] \in used
    BY <1>1 DEF DoneInv
  <1>5. Tried = D /\ wanted \subseteq D /\ \A p \in impls : p[2] \in D
    <2>1. StackItems(translate_stack) = {} /\ ElementsOf(items_to_translate) = {}
      BY <1>4, EmptyHasNone
    <2>2. processed \subseteq D /\ translated \subseteq processed
      BY <1>1, <2>1 DEF ProcessedOK, TypeOK
    <2>3. Tried = D
      BY <2>1, <2>2 DEF Tried
    <2>4. wanted \subseteq D
      BY <1>1, <2>1, <2>3 DEF QueueInv
    <2>5. \A p \in impls : p[2] \in D
      BY <1>1, <1>4, <2>1, <2>2 DEF MethodsInv
    <2>6. QED
      BY <2>3, <2>4, <2>5
  <1>6. D \in SUBSET Items /\ S \subseteq D
    BY <1>1, <1>5 DEF TypeOK, WithinClosure
  <1>7. ASSUME NEW i \in D, NEW s \in StepsOf(i, H) PROVE s \in Steps /\ Recorded(s, H)
    <2>1. i \in Items
      BY <1>6
    <2>2. s \in RecordedSteps(H)
      BY <1>1, <1>7 DEF FilledOK, UnfilledOK, StepsOf
    <2>3. QED
      BY <2>2 DEF RecordedSteps
  <1>8. AskedBy(D, H) \subseteq D
    <2> DEFINE run == UNION {StepsOf(i, H) : i \in D}
               uses == {s.method : s \in {r \in run : r.op = "use"}}
               told == {r \in run : \/ r.op = "implement" /\ r.method \in uses
                                    \/ r.op = "reuse" /\ r.method \in uses /\ r.needs \in H}
    <2>1. AskedBy(D, H) = {s.item : s \in {r \in run : r.op = "enqueue"}}
                          \union {s.needs : s \in {r \in run : r.op \in {"need", "reuse"}}}
                          \union {s.item : s \in told}
      BY DEF AskedBy
    <2>2. \A s \in run : Recorded(s, H)
      BY <1>7
    <2> HIDE DEF run, D
    <2>3. uses \subseteq used
      BY <2>2 DEF Recorded
    <2> HIDE DEF uses
    <2>4. ASSUME NEW s \in told PROVE s.item \in D
      <3>1. Told(s.method, s.item) /\ s.method \in used
        BY <2>2, <2>3 DEF Recorded
      <3>2. <<s.method, s.item>> \in impls
        BY <3>1 DEF Told
      <3>3. QED
        BY <1>5, <3>2
    <2> HIDE DEF told
    <2>5. \A s \in run : s.op = "enqueue" => s.item \in D
      BY <1>5, <2>2 DEF Recorded
    <2>6. \A s \in run : s.op \in {"need", "reuse"} => s.needs \in D
      BY <1>5, <2>2 DEF Recorded
    <2>7. QED
      BY <2>1, <2>4, <2>5, <2>6
  <1>9. C \subseteq D
    BY <1>1, <1>6, <1>8 DEF ClosureSet
  <1>10. D \subseteq C
    BY <1>1, <1>5 DEF WithinClosure
  <1>11. translated \subseteq H
    BY TranslatedHealthy
  <1>12. \A i \in unfilled : i \notin H
    BY <1>1 DEF UnfilledOK
  <1>13. translated = C \intersect H
    BY <1>9, <1>10, <1>11, <1>12
  <1>14. QED
    BY <1>2, <1>3, <1>13

\* What is translated follows from the crate alone: the order of the queue,
\* those of the hash sets of implementors and who is translated in the middle
\* of whom leave no trace (translate_crate.rs and translate_items.rs,
\* get_or_translate and register_method_impl).
THEOREM OrderIndependent == Spec => []OrderDoesNotMatter
  BY InitOrder, NextOrder, OrderAtTheEnd, PTL DEF Spec
=============================================================================
