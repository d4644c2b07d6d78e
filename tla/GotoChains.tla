----------------------------- MODULE GotoChains -----------------------------
(* Charon's pass merge_goto_chains.  It counts once which blocks jump to a  *)
(* block, then takes every block with a single antecedent that is a goto    *)
(* into that antecedent, and then redirects every jump to an empty block    *)
(* that is only a goto.  The counts are not redone as blocks are merged:    *)
(* the loops rely on what a merge leaves true of them.                      *)
(*                                                                          *)
(* Of a block, the statements are kept as labels and the terminator as its  *)
(* targets, whether it is a goto and, if it is not, a label.                *)
EXTENDS Integers, Sequences, FiniteSets

CONSTANTS Bodies,  \* the bodies to run the pass on
          Labels   \* of statements and terminators

ENTRY == 0

Goto(t) == [goto |-> TRUE, label |-> "goto", targets |-> <<t>>]
Other(label, targets) == [goto |-> FALSE, label |-> label, targets |-> targets]
Block(stmts, term) == [stmts |-> stmts, term |-> term]

\* BlockData::new_unreachable
Unreachable == Block(<<>>, Other("unreachable", <<>>))

\* A body's blocks are numbered from 0 on, and its jumps lead to blocks.  The
\* first block of a MIR body has no predecessors.
Terminators == [goto : BOOLEAN, label : Labels, targets : Seq(Nat)]
IsBody(b) ==
    /\ ENTRY \in DOMAIN b
    /\ DOMAIN b \subseteq Nat /\ IsFiniteSet(DOMAIN b)
    /\ \A i \in DOMAIN b \ {ENTRY} : i - 1 \in DOMAIN b
    /\ b \in [DOMAIN b -> [stmts : Seq(Labels), term : Terminators]]
    /\ \A i \in DOMAIN b :
         /\ b[i].term.goto => Len(b[i].term.targets) = 1
         /\ \A k \in DOMAIN b[i].term.targets :
              b[i].term.targets[k] \in DOMAIN b \ {ENTRY}

ASSUME LabelsAssumption == {"goto", "unreachable"} \subseteq Labels
ASSUME BodiesAssumption == \A b \in Bodies : IsBody(b)

VARIABLES
    body,         \* the blocks
    pc,           \* "antecedents", "climb", "merge", "skip" or "done"
    antecedents,  \* for each block, what jumps to it, as it was at first
    block,        \* the block that the loop over the blocks is at
    id,           \* the block that is merged into
    target,       \* "skip": which of the block's targets is followed ...
    visited,      \* ... and the blocks that it was followed through
    merged        \* ghost: the blocks whose contents were taken

vars == <<body, pc, antecedents, block, id, target, visited, merged>>

BlockIds == DOMAIN body
Targets(b) == body[b].term.targets

-----------------------------------------------------------------------------
(* The antecedents *)

Zero == [kind |-> "zero"]
One(b, is_goto) == [kind |-> "one", id |-> b, is_goto |-> is_goto]
Many == [kind |-> "many"]

\* The jumps to a block; a block with two targets may jump to it twice.
JumpsTo(t) == UNION {{<<b, k>> : k \in {j \in DOMAIN Targets(b) : Targets(b)[j] = t}} : b \in BlockIds}

\* Antecedents::add, for every jump to the block.
Antecedents(t) == IF JumpsTo(t) = {} THEN Zero
                  ELSE IF \E j \in JumpsTo(t) : JumpsTo(t) = {j}
                  THEN LET b == (CHOOSE j \in JumpsTo(t) : TRUE)[1]
                       IN  One(b, body[b].term.goto)
                  ELSE Many

Init == /\ body \in Bodies
        /\ pc = "antecedents"
        /\ antecedents = <<>>
        /\ block = ENTRY
        /\ id = ENTRY
        /\ target = 1
        /\ visited = {}
        /\ merged = {}

ComputeAntecedents == /\ pc = "antecedents"
                      /\ antecedents' = [t \in BlockIds |-> Antecedents(t)]
                      /\ pc' = "climb"
                      /\ block' = ENTRY
                      /\ id' = ENTRY
                      /\ merged' = {}
                      /\ UNCHANGED <<body, target, visited>>

-----------------------------------------------------------------------------
(* Merging blocks with a single antecedent into it *)

HasGotoAntecedent(b) == antecedents[b].kind = "one" /\ antecedents[b].is_goto

\* Up the chain, to the first parent that the block can be merged into.
ClimbUp == /\ pc = "climb"
           /\ HasGotoAntecedent(id)
           /\ id' = antecedents[id].id
           /\ UNCHANGED <<body, pc, antecedents, block, target, visited, merged>>

StartMerging == /\ pc = "climb"
                /\ ~HasGotoAntecedent(id)
                /\ pc' = "merge"
                /\ UNCHANGED <<body, antecedents, block, id, target, visited, merged>>

\* Mutant of CanMerge: the antecedent has to be the block itself.
CanMergeOwn == /\ body[id].term.goto
               /\ antecedents[Targets(id)[1]].kind = "one"
               /\ antecedents[Targets(id)[1]].id = id

\* The block ends in a goto to a block that nothing else jumps to.
CanMerge == body[id].term.goto /\ antecedents[Targets(id)[1]].kind = "one"

\* Mutant of MergeTarget: whatever a goto leads to is taken.
MergeAnyTarget ==
    /\ pc = "merge"
    /\ body[id].term.goto
    /\ LET t == Targets(id)[1]
           without == [body EXCEPT ![t] = Unreachable]
       IN  /\ antecedents' = [antecedents EXCEPT ![t] = Zero]
           /\ body' = [without EXCEPT ![id] = Block(without[id].stmts \o body[t].stmts,
                                                    body[t].term)]
           /\ merged' = merged \union {t}
    /\ UNCHANGED <<pc, block, id, target, visited>>

\* The target's contents are taken to the end of the block.
MergeTarget ==
    /\ pc = "merge"
    /\ CanMerge
    /\ LET t == Targets(id)[1]
           without == [body EXCEPT ![t] = Unreachable]
       IN  /\ antecedents' = [antecedents EXCEPT ![t] = Zero]
           /\ body' = [without EXCEPT ![id] = Block(without[id].stmts \o body[t].stmts,
                                                    body[t].term)]
           /\ merged' = merged \union {t}
    /\ UNCHANGED <<pc, block, id, target, visited>>

\* The loop over the blocks goes on, or the next loop over them begins.
NextBlock == /\ pc = "merge"
             /\ ~CanMerge
             /\ \/ /\ block + 1 \in BlockIds
                   /\ pc' = "climb"
                   /\ block' = block + 1
                   /\ id' = block + 1
                   /\ UNCHANGED <<target, visited>>
                \/ /\ block + 1 \notin BlockIds
                   /\ pc' = "skip"
                   /\ block' = ENTRY
                   /\ target' = 1
                   /\ visited' = {ENTRY}
                   /\ UNCHANGED id
             /\ UNCHANGED <<body, antecedents, merged>>

-----------------------------------------------------------------------------
(* Skipping trivial gotos *)

IsTrivialGoto(b) == body[b].stmts = <<>> /\ body[b].term.goto

\* Mutant of CanSkip: chains are followed without looking back.
CanSkipAgain == /\ target \in DOMAIN Targets(block)
                /\ Targets(block)[target] # block
                /\ IsTrivialGoto(Targets(block)[target])

\* A target that is a trivial goto and that was not followed through before,
\* nor is the block itself.
CanSkip == /\ target \in DOMAIN Targets(block)
           /\ IsTrivialGoto(Targets(block)[target])
           /\ Targets(block)[target] \notin visited

SkipGoto == /\ pc = "skip"
            /\ CanSkip
            /\ LET t == Targets(block)[target]
               IN  /\ body' = [body EXCEPT ![block].term.targets[target] = Targets(t)[1]]
                   /\ visited' = visited \union {t}
            /\ UNCHANGED <<pc, antecedents, block, id, target, merged>>

NextTarget == /\ pc = "skip"
              /\ target \in DOMAIN Targets(block)
              /\ ~CanSkip
              /\ target' = target + 1
              /\ visited' = {block}
              /\ UNCHANGED <<body, pc, antecedents, block, id, merged>>

NextSkip == /\ pc = "skip"
            /\ target \notin DOMAIN Targets(block)
            /\ \/ /\ block + 1 \in BlockIds
                  /\ block' = block + 1
                  /\ target' = 1
                  /\ visited' = {block + 1}
                  /\ UNCHANGED pc
               \/ /\ block + 1 \notin BlockIds
                  /\ pc' = "done"
                  /\ UNCHANGED <<block, target, visited>>
            /\ UNCHANGED <<body, antecedents, id, merged>>

Next == \/ ComputeAntecedents \/ ClimbUp \/ StartMerging \/ MergeTarget \/ NextBlock
        \/ SkipGoto \/ NextTarget \/ NextSkip

Spec == Init /\ [][Next]_vars

-----------------------------------------------------------------------------
(* Properties *)

TypeOK == /\ IsBody(body)
          /\ pc \in {"antecedents", "climb", "merge", "skip", "done"}
          /\ pc # "antecedents" => antecedents \in
                 [BlockIds -> {Zero, Many} \union {One(b, g) : b \in BlockIds, g \in BOOLEAN}]
          /\ block \in BlockIds
          /\ id \in BlockIds
          /\ target \in Nat
          /\ visited \subseteq BlockIds
          /\ merged \subseteq BlockIds

\* No jump of a block that is still there leads to a block whose contents
\* were taken, although the antecedents are those of before the first merge.
TargetsLive == \A b \in BlockIds \ merged :
                  \A k \in DOMAIN Targets(b) : Targets(b)[k] \notin merged

\* The first block is never taken into another one.
EntryKept == ENTRY \notin merged

\* Once all blocks were merged, whatever jumps to a block alone and does so
\* by a goto has taken it.
NoChainsLeft ==
    pc \in {"skip", "done"} =>
      \A b \in BlockIds \ merged :
          ~(body[b].term.goto /\ antecedents[Targets(b)[1]].kind = "one")
=============================================================================
