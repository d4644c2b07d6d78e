--------------------------- MODULE TranslateQueue ---------------------------
(* How Charon's driver decides which items of a crate to translate.  A queue *)
(* starts with the items that were selected; translating an item enqueues    *)
(* the items that it mentions.  Two things make this more than a worklist.   *)
(* The implementations of a trait's method are only enqueued once the method *)
(* is used, and may be found before or after that.  And an item may need     *)
(* another one's translation there and then: get_or_translate translates it  *)
(* in the middle of the first, on a stack that it checks for cycles.         *)
(*                                                                           *)
(* Of the translation of an item only these steps are kept, in their order.  *)
EXTENDS Naturals, Sequences, FiniteSets

CONSTANTS Items, Methods,
          Programs  \* the crates: a queue to start with, each item's steps

Enqueue(i) == [op |-> "enqueue", item |-> i]
Use(m) == [op |-> "use", method |-> m]
Implement(m, i) == [op |-> "implement", method |-> m, item |-> i]
\* An impl without a function for a method of the trait takes the default.
ReuseDefault(t, m, i) == [op |-> "reuse", needs |-> t, method |-> m, item |-> i]
Need(i) == [op |-> "need", needs |-> i]
\* The item has an error, its translation panics, or it is invisible.
Stop == [op |-> "stop"]

Steps == {Enqueue(i) : i \in Items} \union {Use(m) : m \in Methods}
         \union {Implement(m, i) : m \in Methods, i \in Items}
         \union {ReuseDefault(t, m, i) : t \in Items, m \in Methods, i \in Items}
         \union {Need(i) : i \in Items} \union {Stop}

ASSUME ItemsAssumption == IsFiniteSet(Items)
ASSUME ProgramsAssumption == \A p \in Programs : /\ p.queue \in Seq(Items)
                                                 /\ p.steps \in [Items -> Seq(Steps)]

\* Those that ask for a translation there and then ask for that of a type or of
\* a trait; it is the impls of traits that reuse defaults.
Reuses(p, i) == \E k \in DOMAIN p.steps[i] : p.steps[i][k].op = "reuse"
ASSUME OnDemandAssumption ==
    \A p \in Programs : \A i, j \in Items : \A k \in DOMAIN p.steps[i] :
        p.steps[i][k].op \in {"need", "reuse"} /\ Reuses(p, j) => p.steps[i][k].needs # j

VARIABLES
    program,             \* the crate
    items_to_translate,
    processed,           \* the items that are not translated (again)
    translated,          \* the items whose slot is filled
    translate_stack,     \* the translations that are under way
    used,                \* the methods with MethodStatus::Used
    implementors,        \* of each method with MethodStatus::Unused
    impls,               \* which item implements which method, in traits and impls
                         \* (those that fail later on included)
    pc,                  \* "translate", or "done"
    wanted,              \* ghost: the items ever asked for by name
    unfilled             \* ghost: the items that were tried in vain

vars == <<program, items_to_translate, processed, translated, translate_stack, used,
          implementors, impls, pc, wanted, unfilled>>

ElementsOf(s) == {s[k] : k \in DOMAIN s}
Frame(i) == [item |-> i, next |-> 1, failed |-> FALSE]
Top == translate_stack[Len(translate_stack)]
Callers == SubSeq(translate_stack, 1, Len(translate_stack) - 1)
OnStack(i) == \E k \in DOMAIN translate_stack : translate_stack[k].item = i

Init == /\ program \in Programs
        /\ items_to_translate = program.queue
        /\ processed = {}
        /\ translated = {}
        /\ translate_stack = <<>>
        /\ used = {}
        /\ implementors = [m \in Methods |-> {}]
        /\ impls = {}
        /\ pc = "translate"
        /\ wanted = ElementsOf(program.queue)
        /\ unfilled = {}

-----------------------------------------------------------------------------
(* The loop over the queue *)

PopFront == /\ pc = "translate"
            /\ translate_stack = <<>>
            /\ items_to_translate # <<>>
            /\ items_to_translate' = Tail(items_to_translate)

TranslateItem == /\ PopFront
                 /\ Head(items_to_translate) \notin processed
                 /\ processed' = processed \union {Head(items_to_translate)}
                 /\ translate_stack' = <<Frame(Head(items_to_translate))>>
                 /\ UNCHANGED <<program, translated, used, implementors, impls, pc,
                                wanted, unfilled>>

\* Mutant of SkipItem: the item is looked at and not popped.
PeekItem == /\ pc = "translate"
            /\ translate_stack = <<>>
            /\ items_to_translate # <<>>
            /\ Head(items_to_translate) \in processed
            /\ UNCHANGED vars

SkipItem == /\ PopFront
            /\ Head(items_to_translate) \in processed
            /\ UNCHANGED <<program, processed, translated, translate_stack, used,
                           implementors, impls, pc, wanted, unfilled>>

RemoveUnusedMethods == /\ pc = "translate"
                       /\ translate_stack = <<>>
                       /\ items_to_translate = <<>>
                       /\ impls' = {p \in impls : p[1] \in used}
                       /\ pc' = "done"
                       /\ UNCHANGED <<program, items_to_translate, processed, translated,
                                      translate_stack, used, implementors, wanted, unfilled>>

-----------------------------------------------------------------------------
(* The steps of the item on top of the stack *)

InProgress == translate_stack # <<>> /\ ~Top.failed
At(op) == /\ InProgress
          /\ Top.next \in DOMAIN program.steps[Top.item]
          /\ program.steps[Top.item][Top.next].op = op
Step == program.steps[Top.item][Top.next]
Advanced(stack) == [stack EXCEPT ![Len(stack)].next = @ + 1]
Proceed == translate_stack' = Advanced(translate_stack)

RegisterAndEnqueue == /\ At("enqueue")
                      /\ items_to_translate' = Append(items_to_translate, Step.item)
                      /\ wanted' = wanted \union {Step.item}
                      /\ Proceed
                      /\ UNCHANGED <<program, processed, translated, used, implementors,
                                     impls, pc, unfilled>>

\* The orders in which a hash set may be iterated over.
Orders(S) == {s \in [1 .. Cardinality(S) -> S] : \A x \in S : \E k \in DOMAIN s : s[k] = x}

\* Mutant of MarkMethodAsUsed: the status is replaced, its contents dropped.
MarkMethodAndDrop ==
    /\ At("use")
    /\ implementors' = [implementors EXCEPT ![Step.method] = {}]
    /\ used' = used \union {Step.method}
    /\ Proceed
    /\ UNCHANGED <<program, items_to_translate, processed, translated, impls, pc, wanted, unfilled>>

MarkMethodAsUsed ==
    /\ At("use")
    /\ \E s \in Orders(implementors[Step.method] \ translated) :
           items_to_translate' = items_to_translate \o s
    /\ implementors' = [implementors EXCEPT ![Step.method] = {}]
    /\ used' = used \union {Step.method}
    /\ Proceed
    /\ UNCHANGED <<program, processed, translated, impls, pc, wanted, unfilled>>

\* Mutants of EnqueueIfUsed: a method that is used keeps an implementation
\* for later; any implementation is enqueued.
KeepForLater(m, i) ==
    /\ implementors' = [implementors EXCEPT ![m] = @ \union {i}]
    /\ UNCHANGED items_to_translate
EnqueueAnyway(m, i) ==
    /\ items_to_translate' = IF i \in translated THEN items_to_translate
                             ELSE Append(items_to_translate, i)
    /\ UNCHANGED implementors

EnqueueIfUsed(m, i) ==
    \/ /\ m \in used
       /\ items_to_translate' = IF i \in translated THEN items_to_translate
                                ELSE Append(items_to_translate, i)
       /\ UNCHANGED implementors
    \/ /\ m \notin used
       /\ implementors' = [implementors EXCEPT ![m] = @ \union {i}]
       /\ UNCHANGED items_to_translate

\* register_method_impl, for a function of the impl or of the trait itself,
\* or for the default of a trait that is translated.
RegisterMethodImpl == /\ At("implement") \/ (At("reuse") /\ Step.needs \in translated)
                      /\ EnqueueIfUsed(Step.method, Step.item)
                      /\ impls' = impls \union {<<Step.method, Step.item>>}
                      /\ Proceed
                      /\ UNCHANGED <<program, processed, translated, used, pc, wanted, unfilled>>

-----------------------------------------------------------------------------
(* get_or_translate *)

FindTranslated == /\ At("need")
                  /\ Step.needs \in translated
                  /\ Proceed
                  /\ UNCHANGED <<program, items_to_translate, processed, translated, used,
                                 implementors, impls, pc, wanted, unfilled>>

TranslateNow == /\ At("need") \/ At("reuse")
                /\ Step.needs \notin translated
                /\ ~OnStack(Step.needs)
                /\ translate_stack' = Append(translate_stack, Frame(Step.needs))
                /\ wanted' = wanted \union {Step.needs}
                /\ UNCHANGED <<program, items_to_translate, processed, translated, used,
                               implementors, impls, pc, unfilled>>

\* An item without the translation that it needs is given up; a default that
\* cannot be had is left out.
GivenNoTranslation(stack) ==
    LET caller == stack[Len(stack)]
    IN  IF program.steps[caller.item][caller.next].op = "need"
        THEN [stack EXCEPT ![Len(stack)].failed = TRUE]
        ELSE Advanced(stack)

DetectCycle == /\ At("need") \/ At("reuse")
               /\ Step.needs \notin translated
               /\ OnStack(Step.needs)
               /\ translate_stack' = GivenNoTranslation(translate_stack)
               /\ UNCHANGED <<program, items_to_translate, processed, translated, used,
                              implementors, impls, pc, wanted, unfilled>>

\* Mutant of FillSlot: an item that was translated on demand is not recorded.
FillSlotOnly == /\ InProgress
                /\ Top.next \notin DOMAIN program.steps[Top.item]
                /\ translated' = translated \union {Top.item}
                /\ translate_stack' = Callers
                /\ UNCHANGED <<program, items_to_translate, processed, used, implementors,
                               impls, pc, wanted, unfilled>>

\* The item is stored (set_slot asserts that its slot is empty); who asked
\* for it finds it and records that the queue has not to translate it again.
FillSlot == /\ InProgress
            /\ Top.next \notin DOMAIN program.steps[Top.item]
            /\ translated' = translated \union {Top.item}
            /\ processed' = processed \union {Top.item}
            /\ translate_stack' = Callers
            /\ UNCHANGED <<program, items_to_translate, used, implementors, impls, pc,
                           wanted, unfilled>>

GiveUp == /\ translate_stack # <<>>
          /\ Top.failed \/ At("stop")
          /\ unfilled' = unfilled \union {Top.item}
          /\ translate_stack' = IF Callers = <<>> THEN <<>> ELSE GivenNoTranslation(Callers)
          /\ UNCHANGED <<program, items_to_translate, processed, translated, used,
                         implementors, impls, pc, wanted>>

Next == \/ TranslateItem \/ SkipItem \/ RemoveUnusedMethods
        \/ RegisterAndEnqueue \/ MarkMethodAsUsed \/ RegisterMethodImpl
        \/ FindTranslated \/ TranslateNow \/ DetectCycle \/ FillSlot \/ GiveUp

Spec == Init /\ [][Next]_vars

\* The loop over the queue is a sequential program.
FairSpec == Spec /\ WF_vars(Next)

-----------------------------------------------------------------------------
(* Properties *)

Frames == [item : Items, next : Nat \ {0}, failed : BOOLEAN]

TypeOK == /\ program.steps \in [Items -> Seq(Steps)]
          /\ items_to_translate \in Seq(Items)
          /\ processed \subseteq Items
          /\ translated \subseteq processed
          /\ translate_stack \in Seq(Frames)
          /\ used \subseteq Methods
          /\ implementors \in [Methods -> SUBSET Items]
          /\ impls \subseteq Methods \X Items
          /\ pc \in {"translate", "done"}
          /\ wanted \subseteq Items
          /\ unfilled \subseteq Items

\* No item is translated that was translated before, or that is being
\* translated further down: when it is stored its slot is empty.
EachSlotFilledOnce ==
    \A k \in DOMAIN translate_stack :
        /\ translate_stack[k].item \notin translated
        /\ \A l \in DOMAIN translate_stack :
               translate_stack[l].item = translate_stack[k].item => l = k

\* The methods that are left in traits and impls have functions that Charon
\* tried to translate, whether it saw the use or the implementation first.
\* ("This enqueues all known and future impls of this method.")
NoDanglingMethods ==
    pc = "done" => \A p \in impls : p[1] \in used /\ p[2] \in processed

\* The items without a "stop", and without a need of one that has one.
Healthy == LET After[n \in Nat] ==
                 IF n = 0 THEN {}
                 ELSE LET before == After[n - 1]
                      IN  {i \in Items : \A k \in DOMAIN program.steps[i] :
                             LET s == program.steps[i][k]
                             IN  /\ s.op # "stop"
                                 /\ s.op = "need" => s.needs \in before}
           IN  After[Cardinality(Items)]

\* The steps that the translation of an item comes to.
StepsOf(i, healthy) ==
    {program.steps[i][k] : k \in
        {k \in DOMAIN program.steps[i] :
            \A j \in 1 .. k - 1 : LET s == program.steps[i][j]
                                  IN  /\ s.op # "stop"
                                      /\ s.op = "need" => s.needs \in healthy}}

\* What a set of items makes Charon translate.
AskedBy(S, healthy) ==
    LET run == UNION {StepsOf(i, healthy) : i \in S}
        uses == {s.method : s \in {r \in run : r.op = "use"}}
    IN  {s.item : s \in {r \in run : r.op = "enqueue"}}
        \union {s.needs : s \in {r \in run : r.op \in {"need", "reuse"}}}
        \union {s.item : s \in {r \in run : \/ r.op = "implement" /\ r.method \in uses
                                            \/ /\ r.op = "reuse" /\ r.method \in uses
                                               /\ r.needs \in healthy}}
Closure(S, healthy) ==
    LET After[n \in Nat] ==
            IF n = 0 THEN S
            ELSE LET before == After[n - 1] IN before \union AskedBy(before, healthy)
    IN  After[Cardinality(Items)]

\* What is translated follows from the crate: the least set of items that has
\* all they ask for, without those that fail.  Neither the queue's order nor
\* those of hash sets show, nor who was translated in the middle of whom.
\* ("Note that the order in which we translate the definitions doesn't
\* matter.")
OrderDoesNotMatter ==
    pc = "done" => LET healthy == Healthy
                   IN  translated = Closure(ElementsOf(program.queue), healthy) \intersect healthy

L == INSTANCE LazyItems WITH
         tried <- processed \union unfilled
                    \union {translate_stack[k].item : k \in DOMAIN translate_stack},
         finished <- pc = "done"

\* Only what is asked for is translated, methods that nobody uses are not,
\* and nothing that is asked for is forgotten.
ImplementsLazily == L!LazySpec

\* The queue runs empty, whatever cycles there are in the crate.
QueueEnds == <>(pc = "done")
=============================================================================
