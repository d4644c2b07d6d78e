------------------------------ MODULE MirBlocks ------------------------------
(* Where the blocks of a body come from: Charon translates those blocks of   *)
(* rustc's MIR that it finds from the first one on.  A block gets its number *)
(* when something first jumps to it and is translated later, from a queue;   *)
(* blocks that MIR does not have, for calls that never return or that unwind *)
(* out of the function, are put in between.                                  *)
(*                                                                           *)
(* Statements and terminators are labels, as in GotoChains; of a terminator  *)
(* it matters which blocks it names, and in which order they are found.      *)
(* Coroutines, whose terminators are refused, are left out.                  *)
EXTENDS GotoChains, SequencesExt

CONSTANTS
    MirBodies,  \* functions from 0 .. n - 1 to blocks of MIR
    Ignored     \* labels of statements that mean nothing behind borrow checking

Unwind(action, b) == [action |-> action, block |-> b]
MirTerm(kind, label, targets, unwind) ==
    [kind |-> kind, label |-> label, targets |-> targets, unwind |-> unwind]
MirBlock(stmts, term) == [stmts |-> stmts, term |-> term]

\* The targets of a "switchBool" are that of FALSE and that of TRUE; a call has
\* one or none, and a panic is a call that has none.  Nothing leads to the first
\* block.
Jumping == {"goto", "falseEdge", "falseUnwind"}
Ending == {"return", "resume", "terminate", "unreachable"}
Unwinding == {"drop", "call", "panic", "assert", "asm"}
IsMir(m) ==
    /\ ENTRY \in DOMAIN m
    /\ \A b \in DOMAIN m : LET t == m[b].term IN
         /\ m[b].stmts \in Seq(Labels \union Ignored)
         /\ t.kind \in Jumping \union Ending \union Unwinding \union {"switchBool", "switchInt"}
         /\ t.kind \notin Jumping => t.label \in Labels
         /\ t.targets \in Seq(DOMAIN m \ {ENTRY})
         /\ t.unwind.action \in {"cleanup", "continue", "unreachable", "terminate"}
         /\ t.unwind.action = "cleanup" => t.unwind.block \in DOMAIN m \ {ENTRY}
         /\ t.kind \in Jumping \union {"drop", "assert"} => Len(t.targets) >= 1
         /\ t.kind = "switchBool" => Len(t.targets) = 2
         /\ t.kind \in Ending \union {"panic"} => t.targets = <<>>

ASSUME MirAssumption == \A m \in MirBodies : IsMir(m)
ASSUME OutcomesAssumption == {"resume", "unreachable", "terminate"} \subseteq Labels

VARIABLES
    mir,       \* the body in MIR
    building   \* the translation so far, see NoBlocks

mirVars == <<mir, building>>

\* How many slots for blocks there are and those that are filled, which slot a
\* block of MIR has, those that wait for their translation, and the slots
\* that the terminator at hand has found.
NoBlocks == [slot_count |-> 0, blocks |-> <<>>, blocks_map |-> <<>>,
             blocks_stack |-> <<>>, found |-> <<>>]

-----------------------------------------------------------------------------
(* Finding blocks *)

\* A terminator names a block of MIR, or one that is made for it.
ToMir(b) == [kind |-> "mir", block |-> b]
ToNew(label) == [kind |-> "new", label |-> label]

\* A function that has one more argument.
Extend(f, x, y) == [z \in DOMAIN f \union {x} |-> IF z = x THEN y ELSE f[z]]

ReserveSlot(s, b) == [s EXCEPT !.blocks_stack = Append(@, b),
                               !.blocks_map = Extend(@, b, s.slot_count),
                               !.slot_count = @ + 1,
                               !.found = Append(@, s.slot_count)]

translate_basic_block_id(s, b) ==
    IF b \in DOMAIN s.blocks_map THEN [s EXCEPT !.found = Append(@, s.blocks_map[b])]
    ELSE ReserveSlot(s, b)

PushBlock(s, label) == [s EXCEPT !.blocks = Extend(@, s.slot_count, Block(<<>>, Other(label, <<>>))),
                                 !.slot_count = @ + 1,
                                 !.found = Append(@, s.slot_count)]

Find(s, ref) == IF ref.kind = "mir" THEN translate_basic_block_id(s, ref.block)
                ELSE PushBlock(s, ref.label)

translate_unwind_action(unwind) ==
    CASE unwind.action = "cleanup" -> ToMir(unwind.block)
      [] unwind.action = "continue" -> ToNew("resume")
      [] unwind.action = "unreachable" -> ToNew("unreachable")
      [] unwind.action = "terminate" -> ToNew("terminate")

\* What a terminator names, in the order in which the translation asks for it.
Named(t) ==
    LET targets == [k \in DOMAIN t.targets |-> ToMir(t.targets[k])]
        unwind == translate_unwind_action(t.unwind)
    IN  CASE t.kind \in Jumping -> <<targets[1]>>
          [] t.kind = "switchBool" -> <<targets[2], targets[1]>>
          [] t.kind = "switchInt" -> targets
          [] t.kind \in Ending -> <<>>
          [] t.kind = "drop" -> <<targets[1], unwind>>
          [] t.kind = "call" -> <<unwind, IF targets = <<>> THEN ToNew("unreachable") ELSE targets[1]>>
          [] t.kind = "panic" -> <<unwind>>
          [] t.kind = "assert" -> <<unwind, targets[1]>>
          [] t.kind = "asm" -> Append(targets, unwind)

\* Mutant of translate_terminator: a call's blocks are taken as they were found.
AsFound(t, found) ==
    CASE t.kind \in Jumping -> Goto(found[1])
      [] t.kind \in {"switchBool", "switchInt", "drop", "asm", "call", "assert"} -> Other(t.label, found)
      [] t.kind \in Ending \union {"panic"} -> Other(t.label, <<>>)

\* The terminator; a panic's way to unwind is found and dropped.
translate_terminator(t, found) ==
    CASE t.kind \in Jumping -> Goto(found[1])
      [] t.kind \in {"switchBool", "switchInt", "drop", "asm"} -> Other(t.label, found)
      [] t.kind \in {"call", "assert"} -> Other(t.label, <<found[2], found[1]>>)
      [] t.kind \in Ending \union {"panic"} -> Other(t.label, <<>>)

translate_statements(stmts) ==
    LET Translated[n \in 0 .. Len(stmts)] ==
          IF n = 0 THEN <<>>
          ELSE IF stmts[n] \in Ignored THEN Translated[n - 1]
          ELSE Append(Translated[n - 1], stmts[n])
    IN  Translated[Len(stmts)]

-----------------------------------------------------------------------------
(* translate_body *)

\* Mutant of RegisterStart: all blocks of MIR are put in the queue.
RegisterAll == FoldLeft(translate_basic_block_id, NoBlocks,
                        [i \in 1 .. Cardinality(DOMAIN mir) |-> i - 1])

RegisterStart == translate_basic_block_id(NoBlocks, ENTRY)

\* All blocks that a terminator names, one after the other.
FindAll(s, named) ==
    LET Finding[n \in 0 .. Len(named)] ==
          IF n = 0 THEN s ELSE Find(Finding[n - 1], named[n])
    IN  Finding[Len(named)]

TranslateBasicBlock ==
    /\ building.blocks_stack # <<>>
    /\ LET b == Head(building.blocks_stack)
           slot == building.blocks_map[b]
           popped == [building EXCEPT !.blocks_stack = Tail(@), !.found = <<>>]
           found == FindAll(popped, Named(mir[b].term))
       IN  /\ slot \notin DOMAIN found.blocks
           /\ building' = [found EXCEPT
                 !.blocks = Extend(@, slot, Block(translate_statements(mir[b].stmts),
                                                  translate_terminator(mir[b].term, found.found)))]
    /\ UNCHANGED mir

\* make_contiguous: no slot is left empty.
MakeContiguous ==
    /\ building.slot_count > 0
    /\ building.blocks_stack = <<>>
    /\ DOMAIN building.blocks = 0 .. building.slot_count - 1
    /\ body' = building.blocks
    /\ mir' = <<>>
    /\ building' = NoBlocks

-----------------------------------------------------------------------------
(* What MIR does, as a graph of blocks: its own, and three for what comes    *)
(* behind its last one.                                                      *)

Outcomes == <<"resume", "unreachable", "terminate">>
MirGraph(m) ==
    LET size == Cardinality(DOMAIN m)
        Outcome(label) == size - 1 + (CHOOSE k \in 1 .. 3 : Outcomes[k] = label)
        Unwound(u) == CASE u.action = "cleanup" -> u.block
                        [] u.action = "continue" -> Outcome("resume")
                        [] OTHER -> Outcome(u.action)
        Meaning(t) ==
            CASE t.kind \in Jumping -> Goto(t.targets[1])
              [] t.kind = "switchBool" -> Other(t.label, <<t.targets[2], t.targets[1]>>)
              [] t.kind = "switchInt" -> Other(t.label, t.targets)
              [] t.kind \in Ending \union {"panic"} -> Other(t.label, <<>>)
              [] t.kind = "call" /\ t.targets = <<>> ->
                   Other(t.label, <<Outcome("unreachable"), Unwound(t.unwind)>>)
              [] OTHER -> Other(t.label, Append(t.targets, Unwound(t.unwind)))
    IN  [b \in 0 .. size + 2 |->
            IF b < size THEN Block(SelectSeq(m[b].stmts, LAMBDA s : s \notin Ignored),
                                   Meaning(m[b].term))
            ELSE Block(<<>>, Other(Outcomes[b - size + 1], <<>>))]
=============================================================================
