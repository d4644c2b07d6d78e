-------------------------- MODULE BlockPassesProofs -------------------------
(* The translation from MIR and the passes over a body's graph of blocks,   *)
(* for all bodies.  First, merge_goto_chains by itself: that it may rely on *)
(* antecedents counted once.  Then each of the other passes, and what they  *)
(* leave to each other: bodies stay well formed, returns are unshared, and  *)
(* the graph is compact in the end.                                         *)
EXTENDS BlockPasses, FixedPoints, SequenceTheorems

-----------------------------------------------------------------------------
(* The inductive invariant *)

\* While blocks are merged, what the antecedents say is still true of the
\* blocks that are left: a block with one antecedent is jumped to at most once,
OneIsOne == \A t \in BlockIds : antecedents[t].kind = "one" =>
              \A b, c \in BlockIds \ merged :
                 \A k \in DOMAIN Targets(b), l \in DOMAIN Targets(c) :
                    Targets(b)[k] = t /\ Targets(c)[l] = t => b = c /\ k = l

\* and if it is by a goto, the antecedent says so.
OneIsGoto == \A b \in BlockIds \ merged :
               body[b].term.goto /\ antecedents[Targets(b)[1]].kind = "one"
                 => antecedents[Targets(b)[1]].is_goto

\* A block whose contents were taken jumps nowhere.
MergedAreDead == \A b \in merged : Targets(b) = <<>> /\ ~body[b].term.goto

IInv == /\ TypeOK
        /\ TargetsLive
        /\ EntryKept
        /\ MergedAreDead
        /\ pc \in {"climb", "merge"} => OneIsOne /\ OneIsGoto
        /\ pc = "merge" => ~HasGotoAntecedent(id)

-----------------------------------------------------------------------------
(* Lemmas about bodies *)

Blocks == [stmts : Seq(Labels), term : Terminators]

\* x may be a block of a body with these ids.
IsBlock(x, ids) == /\ x \in Blocks
                   /\ x.term.goto => Len(x.term.targets) = 1
                   /\ \A k \in DOMAIN x.term.targets : x.term.targets[k] \in ids \ {ENTRY}

\* Each block of a body is one that may be.
LEMMA BlockOf == ASSUME NEW b, IsBody(b), NEW i \in DOMAIN b
                 PROVE  IsBlock(b[i], DOMAIN b)
<1>1. b \in [DOMAIN b -> Blocks]
  BY DEF IsBody, Blocks
<1>2. b[i] \in Blocks
  BY <1>1
<1> QED
  BY <1>2 DEF IsBody, IsBlock

\* A goto's target is the block's first and only one.
LEMMA GotoTarget == ASSUME NEW x, NEW ids, IsBlock(x, ids), x.term.goto
                    PROVE  /\ DOMAIN x.term.targets = {1}
                           /\ x.term.targets[1] \in ids \ {ENTRY}
<1>1. x.term.targets \in Seq(Nat) /\ Len(x.term.targets) = 1
  BY DEF IsBlock, Blocks, Terminators
<1>2. DOMAIN x.term.targets = {1}
  BY <1>1
<1> QED
  BY <1>2 DEF IsBlock

\* To replace blocks of a body by blocks that may be gives a body.
LEMMA Replaced == ASSUME NEW b, IsBody(b), NEW c,
                         c = [i \in DOMAIN b |-> c[i]],
                         \A i \in DOMAIN b : IsBlock(c[i], DOMAIN b)
                  PROVE  IsBody(c) /\ DOMAIN c = DOMAIN b
<1>1. DOMAIN c = DOMAIN b
  OBVIOUS
<1>2. c \in [DOMAIN b -> Blocks]
  BY DEF IsBlock
<1>3. c \in [DOMAIN c -> [stmts : Seq(Labels), term : Terminators]]
  BY <1>1, <1>2 DEF Blocks
<1>4. /\ ENTRY \in DOMAIN c
      /\ DOMAIN c \subseteq Nat /\ IsFiniteSet(DOMAIN c)
      /\ \A i \in DOMAIN c \ {ENTRY} : i - 1 \in DOMAIN c
  BY <1>1 DEF IsBody
<1>5. ASSUME NEW i \in DOMAIN c
      PROVE  /\ c[i].term.goto => Len(c[i].term.targets) = 1
             /\ \A k \in DOMAIN c[i].term.targets :
                  c[i].term.targets[k] \in DOMAIN c \ {ENTRY}
  BY <1>1, <1>5 DEF IsBlock
<1> QED
  BY <1>1, <1>3, <1>4, <1>5 DEF IsBody

\* The contents of one block may be put behind those of another.
LEMMA Joined == ASSUME NEW x, NEW y, NEW ids, IsBlock(x, ids), IsBlock(y, ids)
                PROVE  IsBlock(Block(x.stmts \o y.stmts, y.term), ids)
<1> DEFINE z == Block(x.stmts \o y.stmts, y.term)
<1>1. x.stmts \in Seq(Labels) /\ y.stmts \in Seq(Labels) /\ y.term \in Terminators
  BY DEF IsBlock, Blocks
<1>2. x.stmts \o y.stmts \in Seq(Labels)
  BY <1>1
<1>3. z \in Blocks /\ z.term = y.term
  BY <1>1, <1>2 DEF Block, Blocks
<1> QED
  BY <1>3 DEF IsBlock

\* What is left of a block whose contents were taken is one that may be.
LEMMA Emptied == ASSUME NEW ids
                 PROVE  /\ IsBlock(Unreachable, ids)
                        /\ Unreachable.stmts = <<>>
                        /\ Unreachable.term.targets = <<>>
                        /\ ~Unreachable.term.goto
<1>1. "unreachable" \in Labels
  BY LabelsAssumption
<1>2. /\ Unreachable = [stmts |-> <<>>, term |-> Other("unreachable", <<>>)]
      /\ Unreachable.stmts = <<>>
      /\ Unreachable.term = [goto |-> FALSE, label |-> "unreachable", targets |-> <<>>]
  BY DEF Unreachable, Block, Other
<1>3. Unreachable.term \in Terminators
  <2>1. <<>> \in Seq(Nat)
    OBVIOUS
  <2>2. [goto |-> FALSE, label |-> "unreachable", targets |-> <<>>] \in Terminators
    BY <1>1, <2>1 DEF Terminators
  <2> QED
    BY <1>1, <1>2, <2>2
<1>4. Unreachable \in Blocks
  BY <1>2, <1>3 DEF Blocks
<1>5. Unreachable.term.targets = <<>> /\ Unreachable.term.goto = FALSE
  BY <1>2
<1> QED
  BY <1>2, <1>4, <1>5 DEF IsBlock

\* One of the targets of a block may be replaced by another block.
LEMMA Retargeted == ASSUME NEW x, NEW ids, IsBlock(x, ids), NEW t \in ids \ {ENTRY}, t \in Nat,
                           NEW k \in DOMAIN x.term.targets
                    PROVE  /\ IsBlock([x EXCEPT !.term.targets[k] = t], ids)
                           /\ [x EXCEPT !.term.targets[k] = t].term.targets
                                = [x.term.targets EXCEPT ![k] = t]
                           /\ [x EXCEPT !.term.targets[k] = t].term.goto = x.term.goto
<1> DEFINE y == [x EXCEPT !.term.targets[k] = t]
           s == [x.term.targets EXCEPT ![k] = t]
<1>1. /\ x.term \in Terminators
      /\ x.stmts \in Seq(Labels)
      /\ x = [stmts |-> x.stmts, term |-> x.term]
  BY DEF IsBlock, Blocks
<1>2. /\ x.term.targets \in Seq(Nat)
      /\ x.term = [goto |-> x.term.goto, label |-> x.term.label, targets |-> x.term.targets]
      /\ x.term.goto \in BOOLEAN
      /\ x.term.label \in Labels
  BY <1>1 DEF Terminators
<1>3. y.stmts = x.stmts /\ y.term = [x.term EXCEPT !.targets = s]
  BY <1>1
<1>4. s \in Seq(Nat) /\ Len(s) = Len(x.term.targets)
  BY <1>2
<1>5. /\ y.term = [goto |-> x.term.goto, label |-> x.term.label, targets |-> s]
      /\ y.term.targets = s
      /\ y.term.goto = x.term.goto
  BY <1>2, <1>3
<1>6. y.term \in Terminators
  <2>1. PICK q, u : q = s /\ u = y.term
    OBVIOUS
  <2>2. q \in Seq(Nat) /\ u = [goto |-> x.term.goto, label |-> x.term.label, targets |-> q]
    BY <1>4, <1>5, <2>1
  <2>3. u \in Terminators
    BY <1>2, <2>2 DEF Terminators
  <2>4. QED
    BY <2>1, <2>3
<1>7. y = [stmts |-> x.stmts, term |-> y.term]
  BY <1>1
<1>8. y \in Blocks
  BY <1>1, <1>6, <1>7 DEF Blocks
<1>9. \A l \in DOMAIN s : s[l] \in ids \ {ENTRY}
  BY <1>2 DEF IsBlock
<1> QED
  BY <1>4, <1>5, <1>8, <1>9 DEF IsBlock

-----------------------------------------------------------------------------
(* The invariant holds at first and every step keeps it *)

LEMMA InitInv == Init => IInv
<1> SUFFICES ASSUME Init PROVE IInv
  OBVIOUS
<1>1. IsBody(body)
  BY BodiesAssumption DEF Init
<1>2. TypeOK
  BY <1>1 DEF Init, TypeOK, IsBody, BlockIds
<1>3. merged = {} /\ pc = "antecedents"
  BY DEF Init
<1> QED
  BY <1>2, <1>3 DEF IInv, TargetsLive, EntryKept, MergedAreDead

\* An antecedent that is the only one is a block.
LEMMA OneOf == ASSUME TypeOK, pc # "antecedents", NEW t \in BlockIds, antecedents[t].kind = "one"
               PROVE  antecedents[t].id \in BlockIds
<1>1. antecedents[t] \in {Zero, Many} \union {One(b, g) : b \in BlockIds, g \in BOOLEAN}
  BY DEF TypeOK
<1>2. antecedents[t] # Zero /\ antecedents[t] # Many
  BY DEF Zero, Many
<1>3. PICK b \in BlockIds : \E g \in BOOLEAN : antecedents[t] = One(b, g)
  BY <1>1, <1>2
<1> QED
  BY <1>3 DEF One

\* What is counted: a single antecedent is where the only jump comes from.
LEMMA Counted == ASSUME NEW t
                 PROVE  /\ Antecedents(t) \in {Zero, Many} \union
                              {One(b, g) : b \in {j[1] : j \in JumpsTo(t)}, g \in {body[j[1]].term.goto : j \in JumpsTo(t)}}
                        /\ Antecedents(t).kind = "one" =>
                             \E j \in JumpsTo(t) : /\ JumpsTo(t) = {j}
                                                   /\ Antecedents(t).is_goto = body[j[1]].term.goto
<1>1. CASE JumpsTo(t) = {}
  BY <1>1 DEF Antecedents, Zero
<1>2. CASE JumpsTo(t) # {} /\ ~\E j \in JumpsTo(t) : JumpsTo(t) = {j}
  BY <1>2 DEF Antecedents, Many
<1>3. CASE \E j \in JumpsTo(t) : JumpsTo(t) = {j}
  <2>1. PICK j \in JumpsTo(t) : JumpsTo(t) = {j}
    BY <1>3
  <2>2. (CHOOSE i \in JumpsTo(t) : TRUE) = j
    BY <2>1
  <2>3. Antecedents(t) = One(j[1], body[j[1]].term.goto)
    BY <2>1, <2>2 DEF Antecedents
  <2>4. Antecedents(t).is_goto = body[j[1]].term.goto
    BY <2>3 DEF One
  <2> QED
    BY <2>1, <2>3, <2>4
<1> QED
  BY <1>1, <1>2, <1>3

LEMMA ComputeAntecedentsInv == IInv /\ ComputeAntecedents => IInv'
<1> SUFFICES ASSUME IInv, ComputeAntecedents PROVE IInv'
  OBVIOUS
<1>1. /\ body' = body /\ target' = target /\ visited' = visited
      /\ pc' = "climb" /\ block' = ENTRY /\ id' = ENTRY /\ merged' = {}
      /\ antecedents' = [t \in BlockIds |-> Antecedents(t)]
  BY DEF ComputeAntecedents
<1>2. IsBody(body) /\ target \in Nat /\ visited \subseteq BlockIds
  BY DEF IInv, TypeOK
<1>3. ENTRY \in BlockIds
  BY <1>2 DEF IsBody, BlockIds
<1>4. ASSUME NEW t \in BlockIds
      PROVE  Antecedents(t) \in {Zero, Many} \union {One(b, g) : b \in BlockIds, g \in BOOLEAN}
  <2>1. ASSUME NEW j \in JumpsTo(t)
        PROVE  j[1] \in BlockIds /\ body[j[1]].term.goto \in BOOLEAN
    <3>1. j[1] \in BlockIds
      BY DEF JumpsTo
    <3>2. IsBlock(body[j[1]], BlockIds)
      BY <1>2, <3>1, BlockOf DEF BlockIds
    <3> QED
      BY <3>1, <3>2 DEF IsBlock, Blocks, Terminators
  <2> QED
    BY <2>1, Counted
<1>5. TypeOK'
  BY <1>1, <1>2, <1>3, <1>4 DEF TypeOK, BlockIds
<1>6. OneIsOne'
  <2> SUFFICES ASSUME NEW t \in BlockIds, Antecedents(t).kind = "one",
                      NEW b \in BlockIds, NEW c \in BlockIds,
                      NEW k \in DOMAIN Targets(b), NEW l \in DOMAIN Targets(c),
                      Targets(b)[k] = t, Targets(c)[l] = t
               PROVE  b = c /\ k = l
    BY <1>1 DEF OneIsOne, BlockIds, Targets
  <2>1. <<b, k>> \in JumpsTo(t) /\ <<c, l>> \in JumpsTo(t)
    BY DEF JumpsTo
  <2>2. <<b, k>> = <<c, l>>
    BY <2>1, Counted
  <2> QED
    BY <2>2
<1>7. OneIsGoto'
  <2> SUFFICES ASSUME NEW b \in BlockIds, body[b].term.goto,
                      Antecedents(Targets(b)[1]).kind = "one"
               PROVE  Antecedents(Targets(b)[1]).is_goto
    <3>1. \A b \in BlockIds : body[b].term.goto => Targets(b)[1] \in BlockIds
      BY <1>2, BlockOf, GotoTarget DEF BlockIds, Targets
    <3> QED
      BY <1>1, <3>1 DEF OneIsGoto, BlockIds, Targets
  <2> DEFINE t == Targets(b)[1]
  <2>1. DOMAIN Targets(b) = {1}
    BY <1>2, BlockOf, GotoTarget DEF BlockIds, Targets
  <2>2. <<b, 1>> \in JumpsTo(t)
    BY <2>1 DEF JumpsTo
  <2>3. PICK j \in JumpsTo(t) : JumpsTo(t) = {j} /\ Antecedents(t).is_goto = body[j[1]].term.goto
    BY Counted
  <2>4. j = <<b, 1>>
    BY <2>2, <2>3
  <2> QED
    BY <2>3, <2>4
<1> QED
  BY <1>1, <1>5, <1>6, <1>7 DEF IInv, TargetsLive, EntryKept, MergedAreDead

LEMMA ClimbUpInv == IInv /\ ClimbUp => IInv'
<1> SUFFICES ASSUME IInv, ClimbUp PROVE IInv'
  OBVIOUS
<1>1. /\ pc = "climb" /\ id' = antecedents[id].id /\ antecedents[id].kind = "one"
      /\ UNCHANGED <<body, pc, antecedents, block, target, visited, merged>>
  BY DEF ClimbUp, HasGotoAntecedent
<1>2. id' \in BlockIds
  BY <1>1, OneOf DEF IInv, TypeOK
<1>3. TypeOK'
  BY <1>1, <1>2 DEF IInv, TypeOK, BlockIds
<1> QED
  BY <1>1, <1>3 DEF IInv, TargetsLive, EntryKept, MergedAreDead, OneIsOne, OneIsGoto,
                    BlockIds, Targets

LEMMA StartMergingInv == IInv /\ StartMerging => IInv'
<1> SUFFICES ASSUME IInv, StartMerging PROVE IInv'
  OBVIOUS
<1>1. /\ pc = "climb" /\ pc' = "merge" /\ ~HasGotoAntecedent(id)
      /\ UNCHANGED <<body, antecedents, block, id, target, visited, merged>>
  BY DEF StartMerging
<1>2. TypeOK'
  BY <1>1 DEF IInv, TypeOK, BlockIds
<1> QED
  BY <1>1, <1>2 DEF IInv, TargetsLive, EntryKept, MergedAreDead, OneIsOne, OneIsGoto,
                    HasGotoAntecedent, BlockIds, Targets

\* What a merge does: the jumps of the blocks that are left are those of the
\* blocks that were left before, except for the one that was merged into.
LEMMA MergeStep == ASSUME IInv, MergeTarget,
                          NEW t, t = Targets(id)[1]
                   PROVE  /\ id \in BlockIds \ merged
                          /\ DOMAIN Targets(id) = {1}
                          /\ t \in BlockIds \ (merged \union {id, ENTRY})
                          /\ IsBody(body') /\ DOMAIN body' = BlockIds
                          /\ body'[id].term = body[t].term
                          /\ body'[t] = Unreachable
                          /\ \A b \in BlockIds \ {id, t} : body'[b] = body[b]
                          /\ antecedents' = [antecedents EXCEPT ![t] = Zero]
                          /\ merged' = merged \union {t}
<1> DEFINE J == Block(body[id].stmts \o body[t].stmts, body[t].term)
           without == [body EXCEPT ![t] = Unreachable]
<1>1. /\ pc = "merge" /\ body[id].term.goto /\ antecedents[t].kind = "one"
      /\ antecedents' = [antecedents EXCEPT ![t] = Zero]
      /\ merged' = merged \union {t}
      /\ body' = [without EXCEPT ![id] = Block(without[id].stmts \o body[t].stmts, body[t].term)]
  BY DEF MergeTarget, CanMerge
<1>2. /\ IsBody(body) /\ id \in BlockIds /\ OneIsGoto /\ ~HasGotoAntecedent(id)
      /\ MergedAreDead /\ TargetsLive
  BY <1>1 DEF IInv, TypeOK
<1>3. IsBlock(body[id], BlockIds)
  BY <1>2, BlockOf DEF BlockIds
<1>4. DOMAIN Targets(id) = {1} /\ t \in BlockIds \ {ENTRY}
  BY <1>1, <1>3, GotoTarget DEF Targets
<1>5. id \notin merged
  BY <1>1, <1>2 DEF MergedAreDead
<1>6. t # id
  BY <1>1, <1>2, <1>5 DEF OneIsGoto, HasGotoAntecedent
<1>7. t \notin merged
  BY <1>2, <1>4, <1>5 DEF TargetsLive
<1>8. body = [i \in BlockIds |-> body[i]]
  BY <1>2 DEF IsBody, BlockIds
<1>9. without = [i \in BlockIds |-> IF i = t THEN Unreachable ELSE body[i]]
  BY <1>8
<1>10. without[id] = body[id]
  BY <1>2, <1>6, <1>9
<1>11. body' = [i \in BlockIds |-> IF i = id THEN J ELSE IF i = t THEN Unreachable ELSE body[i]]
  BY <1>1, <1>2, <1>9, <1>10
<1>12. ASSUME NEW i \in BlockIds
       PROVE  IsBlock(body'[i], BlockIds)
  <2>1. IsBlock(body[i], BlockIds) /\ IsBlock(body[t], BlockIds)
    BY <1>2, <1>4, BlockOf DEF BlockIds
  <2>2. IsBlock(J, BlockIds)
    BY <1>3, <2>1, Joined
  <2> QED
    BY <1>11, <2>1, <2>2, Emptied
<1>13. IsBody(body') /\ DOMAIN body' = BlockIds
  BY <1>2, <1>11, <1>12, Replaced DEF BlockIds
<1>14. body'[id].term = body[t].term
  BY <1>2, <1>11 DEF Block
<1> QED
  BY <1>1, <1>2, <1>4, <1>5, <1>6, <1>7, <1>11, <1>13, <1>14

LEMMA MergeTargetInv == IInv /\ MergeTarget => IInv'
<1> SUFFICES ASSUME IInv, MergeTarget PROVE IInv'
  OBVIOUS
<1> DEFINE t == Targets(id)[1]
           old(b) == IF b = id THEN t ELSE b  \* whose jumps are now b's
<1>1. /\ pc = "merge" /\ pc' = "merge"
      /\ UNCHANGED <<block, id, target, visited>>
      /\ body[id].term.goto /\ antecedents[t].kind = "one"
  BY DEF MergeTarget, CanMerge
<1>2. /\ TypeOK /\ TargetsLive /\ EntryKept /\ MergedAreDead /\ OneIsOne /\ OneIsGoto
      /\ ~HasGotoAntecedent(id)
  BY <1>1 DEF IInv
<1>3. /\ id \in BlockIds \ merged
      /\ DOMAIN Targets(id) = {1}
      /\ t \in BlockIds \ (merged \union {id, ENTRY})
      /\ IsBody(body') /\ DOMAIN body' = BlockIds
      /\ body'[id].term = body[t].term
      /\ body'[t] = Unreachable
      /\ \A b \in BlockIds \ {id, t} : body'[b] = body[b]
      /\ antecedents' = [antecedents EXCEPT ![t] = Zero]
      /\ merged' = merged \union {t}
  BY MergeStep
<1>4. antecedents \in [BlockIds -> {Zero, Many} \union {One(b, g) : b \in BlockIds, g \in BOOLEAN}]
  BY <1>1, <1>2 DEF TypeOK
<1>5. TypeOK'
  <2>1. antecedents' \in [BlockIds -> {Zero, Many} \union {One(b, g) : b \in BlockIds, g \in BOOLEAN}]
    BY <1>3, <1>4
  <2> QED
    BY <1>1, <1>2, <1>3, <2>1 DEF TypeOK, BlockIds
<1>6. ASSUME NEW b \in BlockIds \ merged'
      PROVE  /\ old(b) \in BlockIds \ merged /\ old(b) # id
             /\ Targets(b)' = Targets(old(b))
             /\ body'[b].term.goto = body[old(b)].term.goto
  <2>1. b # t
    BY <1>3
  <2>2. body'[b].term = body[old(b)].term
    BY <1>3, <2>1
  <2> QED
    BY <1>3, <2>1, <2>2 DEF Targets
<1>7. ASSUME NEW b \in BlockIds \ merged', NEW c \in BlockIds \ merged', old(b) = old(c)
      PROVE  b = c
  BY <1>3, <1>7
<1>8. ASSUME NEW u \in BlockIds, antecedents'[u].kind = "one"
      PROVE  u # t /\ antecedents[u] = antecedents'[u]
  BY <1>3, <1>4, <1>8 DEF Zero
<1> HIDE DEF old, t
<1>9. DOMAIN body' = DOMAIN body /\ BlockIds' = BlockIds
  BY <1>3 DEF BlockIds
<1>10. TargetsLive'
  <2> SUFFICES ASSUME NEW b \in BlockIds \ merged', NEW k \in DOMAIN Targets(old(b))
               PROVE  Targets(old(b))[k] \notin merged'
    BY <1>6, <1>9 DEF TargetsLive
  <2>1. Targets(old(b))[k] \notin merged
    BY <1>2, <1>6 DEF TargetsLive
  <2>2. Targets(old(b))[k] # t
    <3>1. Targets(id)[1] = t /\ 1 \in DOMAIN Targets(id)
      BY <1>3 DEF t
    <3> QED
      BY <1>1, <1>2, <1>3, <1>6, <3>1 DEF OneIsOne
  <2> QED
    BY <1>3, <2>1, <2>2
<1>11. EntryKept'
  BY <1>2, <1>3 DEF EntryKept
<1>12. MergedAreDead'
  <2>1. ASSUME NEW b \in merged
        PROVE  body'[b] = body[b]
    BY <1>2, <1>3 DEF TypeOK
  <2>2. body'[t].term.targets = <<>> /\ ~body'[t].term.goto
    BY <1>3, Emptied
  <2> QED
    BY <1>2, <1>3, <2>1, <2>2 DEF MergedAreDead, Targets
<1>13. OneIsOne'
  <2> SUFFICES ASSUME NEW u \in BlockIds, antecedents'[u].kind = "one",
                      NEW b \in BlockIds \ merged', NEW c \in BlockIds \ merged',
                      NEW k \in DOMAIN Targets(old(b)), NEW l \in DOMAIN Targets(old(c)),
                      Targets(old(b))[k] = u, Targets(old(c))[l] = u
               PROVE  b = c /\ k = l
    BY <1>6, <1>9 DEF OneIsOne
  <2>1. antecedents[u].kind = "one"
    BY <1>8
  <2>2. old(b) = old(c) /\ k = l
    BY <1>2, <1>6, <2>1 DEF OneIsOne
  <2> QED
    BY <1>7, <2>2
<1>14. OneIsGoto'
  <2> SUFFICES ASSUME NEW b \in BlockIds \ merged', body[old(b)].term.goto,
                      antecedents'[Targets(old(b))[1]].kind = "one"
               PROVE  antecedents'[Targets(old(b))[1]].is_goto
    BY <1>6, <1>9 DEF OneIsGoto
  <2>1. Targets(old(b))[1] \in BlockIds
    BY <1>2, <1>6, BlockOf, GotoTarget DEF TypeOK, BlockIds, Targets
  <2> QED
    BY <1>2, <1>6, <1>8, <2>1 DEF OneIsGoto
<1>15. ~HasGotoAntecedent(id)'
  BY <1>1, <1>2, <1>3, <1>4 DEF HasGotoAntecedent
<1> QED
  BY <1>1, <1>5, <1>10, <1>11, <1>12, <1>13, <1>14, <1>15 DEF IInv, HasGotoAntecedent

LEMMA NextBlockInv == IInv /\ NextBlock => IInv'
<1> SUFFICES ASSUME IInv, NextBlock PROVE IInv'
  OBVIOUS
<1>1. /\ pc = "merge" /\ pc' \in {"climb", "skip"}
      /\ UNCHANGED <<body, antecedents, merged>>
      /\ block' \in BlockIds \union {ENTRY} /\ id' \in BlockIds \union {id}
      /\ target' \in {target, 1} /\ visited' \in {visited, {ENTRY}}
  BY DEF NextBlock
<1>2. ENTRY \in BlockIds
  BY DEF IInv, TypeOK, IsBody, BlockIds
<1>3. TypeOK'
  BY <1>1, <1>2 DEF IInv, TypeOK, BlockIds
<1> QED
  BY <1>1, <1>3 DEF IInv, TargetsLive, EntryKept, MergedAreDead, OneIsOne, OneIsGoto,
                    BlockIds, Targets

LEMMA SkipGotoInv == IInv /\ SkipGoto => IInv'
<1> SUFFICES ASSUME IInv, SkipGoto PROVE IInv'
  OBVIOUS
<1> DEFINE t == Targets(block)[target]
           u == Targets(t)[1]
           new == [body[block] EXCEPT !.term.targets[target] = u]
<1>1. /\ pc = "skip" /\ target \in DOMAIN Targets(block) /\ body[t].term.goto
      /\ body' = [body EXCEPT ![block].term.targets[target] = u]
      /\ visited' = visited \union {t}
      /\ UNCHANGED <<pc, antecedents, block, id, target, merged>>
  BY DEF SkipGoto, CanSkip, IsTrivialGoto
<1>2. TypeOK /\ TargetsLive /\ EntryKept /\ MergedAreDead /\ IsBody(body) /\ block \in BlockIds
  BY DEF IInv, TypeOK
<1>3. block \notin merged
  BY <1>1, <1>2 DEF MergedAreDead
<1>4. t \in BlockIds \ merged
  <2>1. IsBlock(body[block], BlockIds)
    BY <1>2, BlockOf DEF BlockIds
  <2> QED
    BY <1>1, <1>2, <1>3, <2>1 DEF IsBlock, TargetsLive, Targets
<1>5. u \in BlockIds \ {ENTRY} /\ u \notin merged
  <2>1. IsBlock(body[t], BlockIds)
    BY <1>2, <1>4, BlockOf DEF BlockIds
  <2> QED
    BY <1>1, <1>2, <1>4, <2>1, GotoTarget DEF TargetsLive, Targets
<1>6. /\ IsBlock(new, BlockIds)
      /\ new.term.targets = [Targets(block) EXCEPT ![target] = u]
      /\ new.term.goto = body[block].term.goto
  <2>1. IsBlock(body[block], BlockIds)
    BY <1>2, BlockOf DEF BlockIds
  <2>2. u \in Nat
    BY <1>2, <1>5 DEF IsBody, BlockIds
  <2> HIDE DEF u
  <2> QED
    BY <1>1, <1>5, <2>1, <2>2, Retargeted DEF Targets
<1>7. body' = [i \in BlockIds |-> IF i = block THEN new ELSE body[i]]
  <2>1. body = [i \in BlockIds |-> body[i]]
    BY <1>2 DEF IsBody, BlockIds
  <2> QED
    BY <1>1, <1>2, <2>1
<1> HIDE DEF new, u
<1>8. ASSUME NEW i \in BlockIds
      PROVE  IsBlock(body'[i], BlockIds)
  BY <1>2, <1>6, <1>7, BlockOf DEF BlockIds
<1>9. IsBody(body') /\ DOMAIN body' = BlockIds /\ BlockIds' = BlockIds
  BY <1>2, <1>7, <1>8, Replaced DEF BlockIds
<1>10. TypeOK'
  BY <1>1, <1>2, <1>4, <1>9 DEF TypeOK, BlockIds
<1>11. TargetsLive'
  <2> SUFFICES ASSUME NEW b \in BlockIds \ merged, NEW k \in DOMAIN Targets(b)'
               PROVE  Targets(b)'[k] \notin merged
    BY <1>1, <1>9 DEF TargetsLive
  <2>1. CASE b = block
    <3>1. Targets(b)' = [Targets(block) EXCEPT ![target] = u]
      BY <1>2, <1>6, <1>7, <2>1 DEF Targets
    <3> QED
      BY <1>1, <1>2, <1>3, <1>5, <3>1 DEF TargetsLive
  <2>2. CASE b # block
    BY <1>2, <1>7, <2>2 DEF TargetsLive, Targets
  <2> QED
    BY <2>1, <2>2
<1>12. MergedAreDead'
  <2>1. ASSUME NEW b \in merged
        PROVE  body'[b] = body[b]
    BY <1>2, <1>3, <1>7 DEF TypeOK
  <2> QED
    BY <1>1, <1>2, <2>1 DEF MergedAreDead, Targets
<1> QED
  BY <1>1, <1>2, <1>10, <1>11, <1>12 DEF IInv, EntryKept

LEMMA NextTargetInv == IInv /\ NextTarget => IInv'
<1> SUFFICES ASSUME IInv, NextTarget PROVE IInv'
  OBVIOUS
<1>1. /\ pc = "skip" /\ target' = target + 1 /\ visited' = {block}
      /\ UNCHANGED <<body, pc, antecedents, block, id, merged>>
  BY DEF NextTarget
<1>2. TypeOK'
  BY <1>1 DEF IInv, TypeOK, BlockIds
<1> QED
  BY <1>1, <1>2 DEF IInv, TargetsLive, EntryKept, MergedAreDead, BlockIds, Targets

LEMMA NextSkipInv == IInv /\ NextSkip => IInv'
<1> SUFFICES ASSUME IInv, NextSkip PROVE IInv'
  OBVIOUS
<1>1. /\ pc = "skip" /\ pc' \in {"skip", "done"}
      /\ UNCHANGED <<body, antecedents, id, merged>>
      /\ block' \in BlockIds \union {block}
      /\ target' \in {target, 1} /\ visited' \in {visited, {block'}}
  BY DEF NextSkip
<1>2. TypeOK'
  BY <1>1 DEF IInv, TypeOK, BlockIds
<1> QED
  BY <1>1, <1>2 DEF IInv, TargetsLive, EntryKept, MergedAreDead, BlockIds, Targets

-----------------------------------------------------------------------------
(* The theorems *)

LEMMA NextInv == IInv /\ [Next]_vars => IInv'
<1>1. IInv /\ UNCHANGED vars => IInv'
  <2> SUFFICES ASSUME IInv, UNCHANGED vars PROVE IInv'
    OBVIOUS
  <2>1. UNCHANGED <<body, pc, antecedents, block, id, target, visited, merged>>
    BY DEF vars
  <2>2. TypeOK'
    BY <2>1 DEF IInv, TypeOK, BlockIds
  <2> QED
    BY <2>1, <2>2 DEF IInv, TargetsLive, EntryKept, MergedAreDead, OneIsOne, OneIsGoto,
                      HasGotoAntecedent, BlockIds, Targets
<1> QED
  BY <1>1, ComputeAntecedentsInv, ClimbUpInv, StartMergingInv, MergeTargetInv, NextBlockInv,
     SkipGotoInv, NextTargetInv, NextSkipInv DEF Next

THEOREM Invariance == Spec => []IInv
  BY InitInv, NextInv, PTL DEF Spec

\* The pass keeps a body a body: whatever it was given, block ids stay
\* consecutive, gotos have one target, jumps lead to blocks other than the
\* first, and neither loop leaves the blocks.
THEOREM TypeCorrect == Spec => []TypeOK
<1>1. IInv => TypeOK
  BY DEF IInv
<1> QED
  BY <1>1, Invariance, PTL

\* No jump is ever left that leads into a block whose contents were taken,
\* although the pass counts antecedents once and then changes who jumps where.
THEOREM TargetsAreLive == Spec => []TargetsLive
<1>1. IInv => TargetsLive
  BY DEF IInv
<1> QED
  BY <1>1, Invariance, PTL

\* The first block, which the caller jumps to, is never taken into another.
THEOREM EntryIsKept == Spec => []EntryKept
<1>1. IInv => EntryKept
  BY DEF IInv
<1> QED
  BY <1>1, Invariance, PTL
-----------------------------------------------------------------------------
(* No chains are left *)

\* A single antecedent that is a goto is still there, or its contents were the
\* last that were taken, so that the goto is that of the block merged into.
GotoIsWhereItWas ==
    \A t \in BlockIds : HasGotoAntecedent(t) =>
        LET a == antecedents[t].id
        IN  \/ a \notin merged /\ body[a].term.goto /\ Targets(a)[1] = t
            \/ pc = "merge" /\ body[id].term.goto /\ Targets(id)[1] = t

\* The loop has taken all blocks that it has passed, if they were to be taken.
PassedAreMerged == \A t \in BlockIds : t < block => ~HasGotoAntecedent(t)

\* A chain of gotos that leads down to the loop's block, without a cycle.
IsChain(s) ==
    /\ s \in Seq(BlockIds) /\ s # <<>>
    /\ s[Len(s)] = block
    /\ \A i, j \in 1 .. Len(s) : s[i] = s[j] => i = j
    /\ \A i \in 2 .. Len(s) : HasGotoAntecedent(s[i]) /\ antecedents[s[i]].id = s[i - 1]
LeadsDown(top) == \E s : IsChain(s) /\ s[1] = top

\* While the loop climbs, a chain leads down to its block; while it merges, one
\* does from the next block to be taken, unless its block was taken already.
OnTheWay ==
    /\ pc = "climb" => LeadsDown(id)
    /\ pc = "merge" /\ HasGotoAntecedent(block)
         => /\ body[id].term.goto
            /\ HasGotoAntecedent(Targets(id)[1])
            /\ LeadsDown(Targets(id)[1])

ChainInv == /\ pc \in {"climb", "merge"} => GotoIsWhereItWas /\ PassedAreMerged
            /\ OnTheWay
            /\ NoChainsLeft

\* A body has no blocks behind the last one.
LEMMA LastBlock == ASSUME IsBody(body), NEW b \in BlockIds, b + 1 \notin BlockIds,
                          NEW t \in BlockIds
                   PROVE  t <= b
<1> DEFINE T == {n \in BlockIds : b < n}
<1>1. /\ BlockIds \subseteq Nat
      /\ \A i \in BlockIds \ {0} : i - 1 \in BlockIds
  BY DEF IsBody, BlockIds, ENTRY
<1>2. ASSUME T # {}
      PROVE  FALSE
  <2>1. PICK n \in T : \A m \in T : n <= m
    BY <1>1, <1>2, LeastNumber
  <2>2. n \in Nat /\ n > b /\ n - 1 \in BlockIds /\ b \in Nat
    BY <1>1, <2>1
  <2>3. n - 1 \notin T
    BY <2>1, <2>2
  <2>4. n - 1 = b
    BY <2>2, <2>3
  <2> QED
    BY <2>1, <2>2, <2>4
<1> QED
  BY <1>1, <1>2

\* Up to the next antecedent, or back into the chain if the chain is a cycle.
LEMMA ChainUp == ASSUME LeadsDown(id), id \in BlockIds, HasGotoAntecedent(id),
                        NEW a \in BlockIds, a = antecedents[id].id
                 PROVE  LeadsDown(a)
<1>1. PICK s : IsChain(s) /\ s[1] = id
  BY DEF LeadsDown
<1>2. s \in Seq(BlockIds) /\ Len(s) \in Nat \ {0}
  BY <1>1 DEF IsChain
<1>3. CASE \E k \in 1 .. Len(s) : s[k] = a
  <2>1. PICK k \in 1 .. Len(s) : s[k] = a
    BY <1>3
  <2> DEFINE r == SubSeq(s, k, Len(s))
  <2>2. /\ r \in Seq(BlockIds)
        /\ Len(r) = Len(s) - k + 1
        /\ \A i \in 1 .. Len(r) : r[i] = s[k + i - 1]
    BY <1>2, <2>1
  <2> HIDE DEF r
  <2>3. r # <<>> /\ r[Len(r)] = block /\ r[1] = a
    <3>1. /\ Len(r) \in Nat \ {0}
          /\ 1 \in 1 .. Len(r) /\ Len(r) \in 1 .. Len(r)
          /\ k + 1 - 1 = k /\ k + Len(r) - 1 = Len(s)
      BY <1>2, <2>1, <2>2
    <3>2. r[1] = s[k] /\ r[Len(r)] = s[Len(s)]
      BY <2>2, <3>1
    <3> QED
      BY <1>1, <2>1, <3>1, <3>2 DEF IsChain
  <2>4. \A i, j \in 1 .. Len(r) : r[i] = r[j] => i = j
    <3> SUFFICES ASSUME NEW i \in 1 .. Len(r), NEW j \in 1 .. Len(r), r[i] = r[j]
                 PROVE  i = j
      OBVIOUS
    <3>1. /\ k + i - 1 \in 1 .. Len(s) /\ k + j - 1 \in 1 .. Len(s)
          /\ s[k + i - 1] = s[k + j - 1]
      BY <1>2, <2>1, <2>2
    <3>2. k + i - 1 = k + j - 1
      BY <1>1, <3>1 DEF IsChain
    <3> QED
      BY <2>1, <3>2
  <2>5. ASSUME NEW i \in 2 .. Len(r)
        PROVE  HasGotoAntecedent(r[i]) /\ antecedents[r[i]].id = r[i - 1]
    <3>1. /\ k + i - 1 \in 2 .. Len(s)
          /\ r[i] = s[k + i - 1]
          /\ r[i - 1] = s[(k + i - 1) - 1]
      <4>1. i - 1 \in 1 .. Len(r) /\ k + (i - 1) - 1 = (k + i - 1) - 1
        BY <1>2, <2>1, <2>2
      <4>2. i \in 1 .. Len(r) /\ k + i - 1 \in 2 .. Len(s)
        BY <1>2, <2>1, <2>2
      <4> QED
        BY <2>2, <4>1, <4>2
    <3> QED
      BY <1>1, <3>1 DEF IsChain
  <2>6. IsChain(r)
    BY <2>2, <2>3, <2>4, <2>5 DEF IsChain
  <2> QED
    BY <2>3, <2>6 DEF LeadsDown
<1>4. CASE ~\E k \in 1 .. Len(s) : s[k] = a
  <2> DEFINE r == <<a>> \o s
  <2>1. /\ r \in Seq(BlockIds)
        /\ Len(r) = Len(s) + 1
        /\ r[1] = a
        /\ \A i \in 2 .. Len(r) : r[i] = s[i - 1]
    BY <1>2
  <2> HIDE DEF r
  <2>2. r # <<>> /\ r[Len(r)] = block
    <3>1. Len(r) \in 2 .. Len(r) /\ Len(r) - 1 = Len(s)
      BY <1>2, <2>1
    <3> QED
      BY <1>1, <2>1, <3>1 DEF IsChain
  <2>3. \A i, j \in 1 .. Len(r) : r[i] = r[j] => i = j
    <3> SUFFICES ASSUME NEW i \in 1 .. Len(r), NEW j \in 1 .. Len(r), r[i] = r[j]
                 PROVE  i = j
      OBVIOUS
    <3>1. CASE i = 1 \/ j = 1
      BY <1>2, <1>4, <2>1, <3>1
    <3>2. CASE i # 1 /\ j # 1
      <4>1. i - 1 \in 1 .. Len(s) /\ j - 1 \in 1 .. Len(s) /\ s[i - 1] = s[j - 1]
        BY <1>2, <2>1, <3>2
      <4>2. i - 1 = j - 1
        BY <1>1, <4>1 DEF IsChain
      <4> QED
        BY <4>2
    <3> QED
      BY <3>1, <3>2
  <2>4. ASSUME NEW i \in 2 .. Len(r)
        PROVE  HasGotoAntecedent(r[i]) /\ antecedents[r[i]].id = r[i - 1]
    <3>1. CASE i = 2
      BY <1>1, <1>2, <2>1, <3>1
    <3>2. CASE i # 2
      <4>1. /\ i - 1 \in 2 .. Len(s) /\ i - 1 \in 2 .. Len(r)
            /\ r[i] = s[i - 1] /\ r[i - 1] = s[(i - 1) - 1]
        BY <1>2, <2>1, <3>2
      <4> QED
        BY <1>1, <4>1 DEF IsChain
    <3> QED
      BY <3>1, <3>2
  <2>5. IsChain(r)
    BY <2>1, <2>2, <2>3, <2>4 DEF IsChain
  <2> QED
    BY <2>1, <2>5 DEF LeadsDown
<1> QED
  BY <1>3, <1>4

\* Down to the next block of a chain, if there is one.
LEMMA ChainDown == ASSUME NEW top, LeadsDown(top), top # block
                   PROVE  \E t \in BlockIds :
                             /\ HasGotoAntecedent(t) /\ antecedents[t].id = top
                             /\ \E r : IsChain(r) /\ r[1] = t /\ \A i \in 1 .. Len(r) : r[i] # top
<1>1. PICK s : IsChain(s) /\ s[1] = top
  BY DEF LeadsDown
<1>2. s \in Seq(BlockIds) /\ Len(s) \in Nat \ {0}
  BY <1>1 DEF IsChain
<1>3. Len(s) # 1
  BY <1>1 DEF IsChain
<1> DEFINE r == Tail(s)
<1>4. /\ r \in Seq(BlockIds)
      /\ Len(r) = Len(s) - 1
      /\ \A i \in 1 .. Len(r) : r[i] = s[i + 1]
  BY <1>2, <1>3
<1> HIDE DEF r
<1>5. \A i \in 1 .. Len(r) : i + 1 \in 2 .. Len(s)
  BY <1>2, <1>4
<1>6. r # <<>> /\ r[Len(r)] = block /\ r[1] = s[2]
  BY <1>1, <1>2, <1>3, <1>4 DEF IsChain
<1>7. \A i, j \in 1 .. Len(r) : r[i] = r[j] => i = j
  <2> SUFFICES ASSUME NEW i \in 1 .. Len(r), NEW j \in 1 .. Len(r), r[i] = r[j]
               PROVE  i = j
    OBVIOUS
  <2>1. i + 1 \in 1 .. Len(s) /\ j + 1 \in 1 .. Len(s) /\ s[i + 1] = s[j + 1]
    BY <1>2, <1>4
  <2>2. i + 1 = j + 1
    BY <1>1, <2>1 DEF IsChain
  <2> QED
    BY <2>2
<1>8. ASSUME NEW i \in 2 .. Len(r)
      PROVE  HasGotoAntecedent(r[i]) /\ antecedents[r[i]].id = r[i - 1]
  <2>1. /\ i + 1 \in 2 .. Len(s)
        /\ r[i] = s[i + 1] /\ r[i - 1] = s[(i + 1) - 1]
    <3>1. i - 1 \in 1 .. Len(r) /\ (i - 1) + 1 = (i + 1) - 1
      BY <1>2, <1>4
    <3> QED
      BY <1>2, <1>4, <3>1
  <2> QED
    BY <1>1, <2>1 DEF IsChain
<1>9. IsChain(r)
  BY <1>4, <1>6, <1>7, <1>8 DEF IsChain
<1>10. ASSUME NEW i \in 1 .. Len(r)
       PROVE  r[i] # top
  <2>1. i + 1 \in 1 .. Len(s) /\ 1 \in 1 .. Len(s) /\ r[i] = s[i + 1] /\ i + 1 # 1
    BY <1>2, <1>4
  <2> QED
    BY <1>1, <2>1 DEF IsChain
<1>11. s[1] \in BlockIds /\ s[2] \in BlockIds /\ 2 \in 2 .. Len(s)
  BY <1>2, <1>3
<1>12. HasGotoAntecedent(s[2]) /\ antecedents[s[2]].id = top
  BY <1>1, <1>11 DEF IsChain
<1> QED
  BY <1>1, <1>6, <1>9, <1>10, <1>11, <1>12

LEMMA InitChains == Init => ChainInv
  BY DEF Init, ChainInv, OnTheWay, NoChainsLeft

LEMMA ComputeAntecedentsChains == IInv /\ ComputeAntecedents => ChainInv'
<1> SUFFICES ASSUME IInv, ComputeAntecedents PROVE ChainInv'
  OBVIOUS
<1>1. /\ body' = body /\ pc' = "climb" /\ block' = ENTRY /\ id' = ENTRY /\ merged' = {}
      /\ antecedents' = [t \in BlockIds |-> Antecedents(t)]
      /\ BlockIds' = BlockIds
  BY DEF ComputeAntecedents, BlockIds
<1>2. IsBody(body)
  BY DEF IInv, TypeOK
<1>3. ENTRY \in BlockIds /\ BlockIds \subseteq Nat
  BY <1>2 DEF IsBody, BlockIds
<1>4. ASSUME NEW t \in BlockIds, HasGotoAntecedent(t)'
      PROVE  LET a == antecedents'[t].id
             IN  a \notin merged' /\ body'[a].term.goto /\ body'[a].term.targets[1] = t
  <2>1. antecedents'[t] = Antecedents(t) /\ Antecedents(t).kind = "one" /\ Antecedents(t).is_goto
    BY <1>1, <1>4 DEF HasGotoAntecedent
  <2>2. PICK j \in JumpsTo(t) : JumpsTo(t) = {j} /\ Antecedents(t).is_goto = body[j[1]].term.goto
    <3>1. Antecedents(t).kind = "one"
      BY <2>1
    <3> QED
      BY <3>1, Counted
  <2>3. (CHOOSE i \in JumpsTo(t) : TRUE) = j
    BY <2>2
  <2>4. Antecedents(t).id = j[1]
    <3>1. Antecedents(t) = One(j[1], body[j[1]].term.goto)
      BY <2>2, <2>3 DEF Antecedents
    <3> QED
      BY <3>1 DEF One
  <2>5. PICK b \in BlockIds : \E k \in DOMAIN Targets(b) : j = <<b, k>> /\ Targets(b)[k] = t
    BY <2>2 DEF JumpsTo
  <2>6. body[b].term.goto
    BY <2>1, <2>2, <2>5
  <2>7. j[1] = b /\ Targets(b)[1] = t
    BY <1>2, <2>5, <2>6, BlockOf, GotoTarget DEF BlockIds, Targets
  <2> QED
    BY <1>1, <2>1, <2>4, <2>5, <2>6, <2>7 DEF Targets
<1>5. GotoIsWhereItWas'
  BY <1>1, <1>4 DEF GotoIsWhereItWas, Targets
<1>6. PassedAreMerged'
  BY <1>1, <1>3 DEF PassedAreMerged, ENTRY
<1>7. LeadsDown(id)'
  <2>1. IsChain(<<ENTRY>>)'
    BY <1>1, <1>3 DEF IsChain
  <2> QED
    BY <1>1, <2>1 DEF LeadsDown
<1> QED
  BY <1>1, <1>5, <1>6, <1>7 DEF ChainInv, OnTheWay, NoChainsLeft

LEMMA ClimbUpChains == IInv /\ ChainInv /\ ClimbUp => ChainInv'
<1> SUFFICES ASSUME IInv, ChainInv, ClimbUp PROVE ChainInv'
  OBVIOUS
<1>1. /\ pc = "climb" /\ HasGotoAntecedent(id) /\ id' = antecedents[id].id
      /\ UNCHANGED <<body, pc, antecedents, block, merged>>
  BY DEF ClimbUp
<1>2. id \in BlockIds /\ id' \in BlockIds
  BY <1>1, OneOf DEF IInv, TypeOK, HasGotoAntecedent
<1>3. LeadsDown(id')
  BY <1>1, <1>2, ChainUp DEF ChainInv, OnTheWay
<1>4. LeadsDown(id)'
  BY <1>1, <1>3 DEF LeadsDown, IsChain, HasGotoAntecedent, BlockIds
<1>5. GotoIsWhereItWas' /\ PassedAreMerged'
  BY <1>1 DEF ChainInv, GotoIsWhereItWas, PassedAreMerged, HasGotoAntecedent, BlockIds, Targets
<1> QED
  BY <1>1, <1>4, <1>5 DEF ChainInv, OnTheWay, NoChainsLeft

LEMMA StartMergingChains == IInv /\ ChainInv /\ StartMerging => ChainInv'
<1> SUFFICES ASSUME IInv, ChainInv, StartMerging PROVE ChainInv'
  OBVIOUS
<1>1. /\ pc = "climb" /\ pc' = "merge" /\ ~HasGotoAntecedent(id)
      /\ UNCHANGED <<body, antecedents, block, id, merged>>
  BY DEF StartMerging
<1>2. GotoIsWhereItWas' /\ PassedAreMerged'
  BY <1>1 DEF ChainInv, GotoIsWhereItWas, PassedAreMerged, HasGotoAntecedent, BlockIds, Targets
<1>3. ASSUME HasGotoAntecedent(block)
      PROVE  /\ body[id].term.goto
             /\ HasGotoAntecedent(Targets(id)[1])
             /\ LeadsDown(Targets(id)[1])
  <2>1. LeadsDown(id) /\ id # block
    BY <1>1, <1>3 DEF ChainInv, OnTheWay
  <2>2. PICK t \in BlockIds : /\ HasGotoAntecedent(t) /\ antecedents[t].id = id
                              /\ \E r : IsChain(r) /\ r[1] = t /\ \A i \in 1 .. Len(r) : r[i] # id
    BY <2>1, ChainDown
  <2>3. body[id].term.goto /\ Targets(id)[1] = t
    BY <1>1, <2>2 DEF ChainInv, GotoIsWhereItWas
  <2> QED
    BY <2>2, <2>3 DEF LeadsDown
<1>4. OnTheWay'
  BY <1>1, <1>3 DEF OnTheWay, LeadsDown, IsChain, HasGotoAntecedent, BlockIds, Targets
<1> QED
  BY <1>1, <1>2, <1>4 DEF ChainInv, NoChainsLeft

LEMMA MergeTargetChains == IInv /\ ChainInv /\ MergeTarget => ChainInv'
<1> SUFFICES ASSUME IInv, ChainInv, MergeTarget PROVE ChainInv'
  OBVIOUS
<1> DEFINE t == Targets(id)[1]
<1>1. /\ pc = "merge" /\ pc' = "merge" /\ UNCHANGED <<block, id>>
      /\ body[id].term.goto
  BY DEF MergeTarget, CanMerge
<1>2. /\ id \in BlockIds \ merged
      /\ t \in BlockIds \ (merged \union {id, ENTRY})
      /\ DOMAIN body' = BlockIds
      /\ body'[id].term = body[t].term
      /\ \A b \in BlockIds \ {id, t} : body'[b] = body[b]
      /\ antecedents' = [antecedents EXCEPT ![t] = Zero]
      /\ merged' = merged \union {t}
  BY MergeStep
<1>3. /\ antecedents \in [BlockIds -> {Zero, Many} \union {One(b, g) : b \in BlockIds, g \in BOOLEAN}]
      /\ block \in BlockIds /\ block \in Nat /\ BlockIds \subseteq Nat
  BY <1>1 DEF IInv, TypeOK, IsBody, BlockIds
<1>4. BlockIds' = BlockIds
  BY <1>2 DEF BlockIds
<1> HIDE DEF t
<1>5. ASSUME NEW u \in BlockIds
      PROVE  /\ HasGotoAntecedent(u)' => u # t
             /\ u # t => antecedents'[u] = antecedents[u]
             /\ u # t => (HasGotoAntecedent(u)' <=> HasGotoAntecedent(u))
  BY <1>2, <1>3 DEF HasGotoAntecedent, Zero
<1>6. GotoIsWhereItWas'
  <2> SUFFICES ASSUME NEW u \in BlockIds, HasGotoAntecedent(u)'
               PROVE  LET a == antecedents'[u].id
                      IN  \/ a \notin merged' /\ body'[a].term.goto /\ body'[a].term.targets[1] = u
                          \/ body'[id].term.goto /\ body'[id].term.targets[1] = u
    BY <1>1, <1>4 DEF GotoIsWhereItWas, Targets
  <2> DEFINE a == antecedents[u].id
  <2>1. u # t /\ HasGotoAntecedent(u) /\ antecedents'[u] = antecedents[u]
    BY <1>5
  <2>2. a \in BlockIds
    BY <1>1, <2>1, OneOf DEF IInv, HasGotoAntecedent
  <2>3. a \notin merged /\ body[a].term.goto /\ Targets(a)[1] = u /\ a # id
    BY <1>1, <2>1 DEF ChainInv, GotoIsWhereItWas, t
  <2> HIDE DEF a
  <2>4. CASE a = t
    BY <1>2, <2>3, <2>4 DEF Targets
  <2>5. CASE a # t
    BY <1>2, <2>1, <2>2, <2>3, <2>5 DEF Targets, a
  <2> QED
    BY <2>4, <2>5
<1>7. PassedAreMerged'
  BY <1>1, <1>4, <1>5 DEF ChainInv, PassedAreMerged
<1>8. ASSUME HasGotoAntecedent(block)'
      PROVE  (/\ body[id].term.goto
              /\ HasGotoAntecedent(Targets(id)[1])
              /\ LeadsDown(Targets(id)[1]))'
  <2>1. block # t /\ HasGotoAntecedent(block)
    BY <1>1, <1>3, <1>5, <1>8 DEF HasGotoAntecedent
  <2>2. LeadsDown(t)
    BY <1>1, <2>1 DEF ChainInv, OnTheWay, t
  <2>3. PICK u \in BlockIds : /\ HasGotoAntecedent(u) /\ antecedents[u].id = t
                              /\ \E r : IsChain(r) /\ r[1] = u /\ \A i \in 1 .. Len(r) : r[i] # t
    BY <2>1, <2>2, ChainDown
  <2>4. PICK r : IsChain(r) /\ r[1] = u /\ \A i \in 1 .. Len(r) : r[i] # t
    BY <2>3
  <2>5. r \in Seq(BlockIds) /\ Len(r) \in Nat \ {0} /\ u # t
    BY <2>4 DEF IsChain
  <2>6. body[t].term.goto /\ Targets(t)[1] = u
    <3>1. Targets(id)[1] # u
      BY <2>5 DEF t
    <3> QED
      BY <1>1, <2>3, <3>1 DEF ChainInv, GotoIsWhereItWas
  <2>7. body'[id'].term.goto /\ Targets(id)[1]' = u
    BY <1>1, <1>2, <2>6 DEF Targets
  <2>8. ASSUME NEW i \in 1 .. Len(r)
        PROVE  /\ antecedents'[r[i]] = antecedents[r[i]]
               /\ HasGotoAntecedent(r[i])' <=> HasGotoAntecedent(r[i])
    <3>1. r[i] \in BlockIds /\ r[i] # t
      BY <2>4, <2>5
    <3>2. antecedents'[r[i]] = antecedents[r[i]]
      BY <1>5, <3>1
    <3> QED
      BY <1>1, <3>2 DEF HasGotoAntecedent
  <2>9. IsChain(r)'
    <3>1. ASSUME NEW i \in 2 .. Len(r)
          PROVE  HasGotoAntecedent(r[i])' /\ antecedents'[r[i]].id = r[i - 1]
      BY <2>4, <2>5, <2>8 DEF IsChain
    <3>2. ASSUME NEW i \in 2 .. Len(r)
          PROVE  (HasGotoAntecedent(r[i]) /\ antecedents[r[i]].id = r[i - 1])'
      BY <3>1
    <3> QED
      BY <1>1, <1>4, <2>4, <3>2 DEF IsChain
  <2>10. HasGotoAntecedent(u)'
    BY <1>5, <2>3, <2>5
  <2>11. LeadsDown(u)'
    BY <2>4, <2>9 DEF LeadsDown
  <2> QED
    BY <2>7, <2>10, <2>11
<1>9. OnTheWay'
  BY <1>1, <1>8 DEF OnTheWay
<1> QED
  BY <1>1, <1>6, <1>7, <1>9 DEF ChainInv, NoChainsLeft

LEMMA NextBlockChains == IInv /\ ChainInv /\ NextBlock => ChainInv'
<1> SUFFICES ASSUME IInv, ChainInv, NextBlock PROVE ChainInv'
  OBVIOUS
<1>1. /\ pc = "merge" /\ ~CanMerge /\ UNCHANGED <<body, antecedents, merged>>
      /\ BlockIds' = BlockIds
  BY DEF NextBlock, BlockIds
<1>2. /\ IsBody(body) /\ block \in BlockIds /\ id \in BlockIds /\ BlockIds \subseteq Nat
      /\ OneIsGoto /\ MergedAreDead
  BY <1>1 DEF IInv, TypeOK, IsBody, BlockIds
<1>3. ~HasGotoAntecedent(block)
  BY <1>1 DEF ChainInv, OnTheWay, CanMerge, HasGotoAntecedent
<1>4. ASSUME NEW t \in BlockIds, HasGotoAntecedent(t)
      PROVE  LET a == antecedents[t].id
             IN  a \notin merged /\ body[a].term.goto /\ Targets(a)[1] = t
  BY <1>1, <1>4 DEF ChainInv, GotoIsWhereItWas, CanMerge, HasGotoAntecedent
<1>5. ASSUME NEW t \in BlockIds, t <= block
      PROVE  ~HasGotoAntecedent(t)
  BY <1>1, <1>2, <1>3, <1>5 DEF ChainInv, PassedAreMerged
<1>6. CASE /\ block + 1 \in BlockIds /\ pc' = "climb"
           /\ block' = block + 1 /\ id' = block + 1
  <2>1. GotoIsWhereItWas'
    BY <1>1, <1>4 DEF GotoIsWhereItWas, HasGotoAntecedent, Targets
  <2>2. PassedAreMerged'
    <3>1. ASSUME NEW t \in BlockIds, t < block + 1
          PROVE  ~HasGotoAntecedent(t)
      <4>1. t <= block
        BY <1>2, <3>1
      <4> QED
        BY <1>5, <4>1
    <3> QED
      BY <1>1, <1>6, <3>1 DEF PassedAreMerged, HasGotoAntecedent
  <2>3. IsChain(<<block>>)'
    BY <1>1, <1>6 DEF IsChain
  <2>4. LeadsDown(id)'
    BY <1>6, <2>3 DEF LeadsDown
  <2> QED
    BY <1>6, <2>1, <2>2, <2>4 DEF ChainInv, OnTheWay, NoChainsLeft
<1>7. CASE block + 1 \notin BlockIds /\ pc' = "skip"
  <2>1. ASSUME NEW b \in BlockIds \ merged, body[b].term.goto,
               antecedents[Targets(b)[1]].kind = "one"
        PROVE  FALSE
    <3> DEFINE t == Targets(b)[1]
    <3>1. t \in BlockIds
      BY <1>2, <2>1, BlockOf, GotoTarget DEF BlockIds, Targets
    <3>2. HasGotoAntecedent(t)
      BY <1>2, <2>1 DEF OneIsGoto, HasGotoAntecedent
    <3>3. t <= block
      BY <1>2, <1>7, <3>1, LastBlock
    <3> QED
      BY <1>5, <3>1, <3>2, <3>3
  <2>2. NoChainsLeft'
    BY <1>1, <2>1 DEF NoChainsLeft, Targets
  <2> QED
    BY <1>7, <2>2 DEF ChainInv, OnTheWay
<1> QED
  BY <1>6, <1>7 DEF NextBlock

LEMMA SkipGotoChains == IInv /\ ChainInv /\ SkipGoto => ChainInv'
<1> SUFFICES ASSUME IInv, ChainInv, SkipGoto PROVE ChainInv'
  OBVIOUS
<1> DEFINE t == Targets(block)[target]
           u == Targets(t)[1]
<1>1. /\ pc = "skip" /\ target \in DOMAIN Targets(block) /\ body[t].term.goto
      /\ body' = [body EXCEPT ![block].term.targets[target] = u]
      /\ UNCHANGED <<pc, antecedents, merged>>
  BY DEF SkipGoto, CanSkip, IsTrivialGoto
<1>2. /\ IsBody(body) /\ block \in BlockIds /\ TargetsLive /\ MergedAreDead
  BY DEF IInv, TypeOK
<1>3. block \notin merged
  BY <1>1, <1>2 DEF MergedAreDead
<1>4. IsBlock(body[block], BlockIds)
  BY <1>2, BlockOf DEF BlockIds
<1>5. t \in BlockIds \ merged
  BY <1>1, <1>2, <1>3, <1>4 DEF IsBlock, TargetsLive, Targets
<1>6. NoChainsLeft /\ antecedents[u].kind # "one"
  BY <1>1, <1>5 DEF ChainInv, NoChainsLeft
<1>7. u \in BlockIds \ {ENTRY} /\ u \in Nat
  <2>1. IsBlock(body[t], BlockIds)
    BY <1>2, <1>5, BlockOf DEF BlockIds
  <2> QED
    BY <1>1, <1>2, <2>1, GotoTarget DEF Targets, IsBody, BlockIds
<1> DEFINE new == [body[block] EXCEPT !.term.targets[target] = u]
<1>8. /\ IsBlock(new, BlockIds)
      /\ new.term.targets = [Targets(block) EXCEPT ![target] = u]
      /\ new.term.goto = body[block].term.goto
  <2> HIDE DEF u
  <2> QED
    BY <1>1, <1>4, <1>7, Retargeted DEF Targets
<1>9. body' = [i \in BlockIds |-> IF i = block THEN new ELSE body[i]]
  <2>1. body = [i \in BlockIds |-> body[i]]
    BY <1>2 DEF IsBody, BlockIds
  <2> QED
    BY <1>1, <1>2, <2>1
<1> HIDE DEF new, u
<1>10. ASSUME NEW b \in BlockIds \ merged, body'[b].term.goto
       PROVE  antecedents[body'[b].term.targets[1]].kind # "one"
  <2>1. CASE b # block
    BY <1>1, <1>6, <1>9, <1>10, <2>1 DEF NoChainsLeft, Targets
  <2>2. CASE b = block
    <3>1. body'[b] = new /\ body[block].term.goto
      BY <1>2, <1>8, <1>9, <1>10, <2>2
    <3>2. DOMAIN Targets(block) = {1}
      BY <1>4, <3>1, GotoTarget DEF Targets
    <3>3. new.term.targets[1] = u
      BY <1>1, <1>8, <3>2
    <3> QED
      BY <1>6, <3>1, <3>3
  <2> QED
    BY <2>1, <2>2
<1>11. BlockIds' = BlockIds
  BY <1>9 DEF BlockIds
<1>12. NoChainsLeft'
  BY <1>1, <1>10, <1>11 DEF NoChainsLeft, Targets
<1> QED
  BY <1>1, <1>12 DEF ChainInv, OnTheWay

LEMMA NextChains == IInv /\ ChainInv /\ [Next]_vars => ChainInv'
<1> SUFFICES ASSUME IInv, ChainInv, [Next]_vars PROVE ChainInv'
  OBVIOUS
<1>1. CASE NextTarget \/ NextSkip
  <2>1. /\ pc = "skip" /\ pc' \in {"skip", "done"} /\ UNCHANGED <<body, antecedents, merged>>
    BY <1>1 DEF NextTarget, NextSkip
  <2> QED
    BY <2>1 DEF ChainInv, OnTheWay, NoChainsLeft, BlockIds, Targets
<1>2. CASE UNCHANGED vars
  BY <1>2 DEF vars, ChainInv, GotoIsWhereItWas, PassedAreMerged, OnTheWay, LeadsDown, IsChain,
              NoChainsLeft, HasGotoAntecedent, BlockIds, Targets
<1> QED
  BY <1>1, <1>2, ComputeAntecedentsChains, ClimbUpChains, StartMergingChains,
     MergeTargetChains, NextBlockChains, SkipGotoChains DEF Next

\* When all blocks were gone through, no block that is left ends in a goto to a
\* block that nothing else jumps to, although the counts are those of before
\* the first merge and each climb follows them past blocks that are gone.
THEOREM NoChainsAreLeft == Spec => []NoChainsLeft
<1>1. ChainInv => NoChainsLeft
  BY DEF ChainInv
<1> QED
  BY <1>1, InitChains, NextChains, InitInv, NextInv, PTL DEF Spec
-----------------------------------------------------------------------------
(* Making bodies *)

\* A body's blocks are numbered without a gap.
LEMMA BodyDomain == ASSUME NEW b, IsBody(b)
                    PROVE  \E n \in Nat \ {0} : DOMAIN b = 0 .. n - 1 /\ Cardinality(DOMAIN b) = n
<1> PICK D : D = DOMAIN b
  OBVIOUS
<1>1. 0 \in D /\ D \subseteq Nat /\ IsFiniteSet(D) /\ \A i \in D \ {0} : i - 1 \in D
  BY DEF IsBody, ENTRY
<1> PICK n : n = Cardinality(D)
  OBVIOUS
<1>2. n \in Nat
  BY <1>1, FS_CardinalityType
<1>3. ASSUME NEW i \in D PROVE 0 .. i \subseteq D
  <2> PICK T : T = {k \in Nat : k <= i /\ i - k \notin D}
    OBVIOUS
  <2>1. ASSUME T # {} PROVE FALSE
    <3>1. PICK k \in T : \A l \in T : k <= l
      BY <2>1, LeastNumber
    <3>2. k \in Nat /\ k <= i /\ i - k \notin D /\ i \in Nat
      BY <1>1, <3>1
    <3>3. k # 0
      BY <3>2
    <3>4. k - 1 \in Nat /\ k - 1 <= i /\ ~(k <= k - 1)
      BY <3>2, <3>3
    <3>5. i - (k - 1) \in D
      BY <3>1, <3>4
    <3>6. i - (k - 1) # 0 /\ (i - (k - 1)) - 1 = i - k
      BY <3>2
    <3>7. QED
      BY <1>1, <3>2, <3>5, <3>6
  <2>2. ASSUME NEW j \in 0 .. i PROVE j \in D
    <3>1. i \in Nat /\ i - j \in Nat /\ i - j <= i /\ i - (i - j) = j
      BY <1>1
    <3>2. i - j \notin T
      BY <2>1
    <3>3. QED
      BY <3>1, <3>2
  <2>3. QED
    BY <2>2
<1>4. ASSUME NEW m \in Int, m >= -1 PROVE IsFiniteSet(0 .. m) /\ Cardinality(0 .. m) = m + 1
  <2>1. 0 \in Int
    OBVIOUS
  <2>2. IsFiniteSet(0 .. m) /\ Cardinality(0 .. m) = IF 0 > m THEN 0 ELSE m - 0 + 1
    BY <2>1, FS_Interval
  <2>3. QED
    BY <1>4, <2>2
<1>5. ASSUME NEW i \in D PROVE i < n
  <2>1. i \in Nat /\ i \in Int /\ i >= -1
    BY <1>1
  <2>2. Cardinality(0 .. i) <= n /\ Cardinality(0 .. i) = i + 1
    BY <1>1, <1>3, <1>4, <2>1, FS_Subset
  <2>3. QED
    BY <1>2, <2>1, <2>2
<1>6. D = 0 .. n - 1
  <2>1. D \subseteq 0 .. n - 1
    BY <1>1, <1>2, <1>5
  <2>2. n - 1 \in Int /\ n - 1 >= -1 /\ (n - 1) + 1 = n
    BY <1>2
  <2>3. IsFiniteSet(0 .. n - 1) /\ Cardinality(0 .. n - 1) = n
    BY <1>4, <2>2
  <2>4. QED
    BY <2>1, <2>3, FS_Subset
<1>7. n # 0
  BY <1>1, <1>5
<1>8. QED
  BY <1>2, <1>6, <1>7

LEMMA BodyMade ==
    ASSUME NEW n \in Nat \ {0}, NEW c, c = [i \in 0 .. n - 1 |-> c[i]],
           \A i \in 0 .. n - 1 : IsBlock(c[i], 0 .. n - 1)
    PROVE  IsBody(c) /\ DOMAIN c = 0 .. n - 1
<1>1. DOMAIN c = 0 .. n - 1 /\ ENTRY \in DOMAIN c /\ DOMAIN c \subseteq Nat
  BY DEF ENTRY
<1>2. IsFiniteSet(0 .. n - 1)
  <2>1. 0 \in Int /\ n - 1 \in Int
    OBVIOUS
  <2>2. QED
    BY <2>1, FS_Interval
<1>3. \A i \in DOMAIN c \ {ENTRY} : i - 1 \in DOMAIN c
  BY <1>1 DEF ENTRY
<1>4. c \in [DOMAIN c -> [stmts : Seq(Labels), term : Terminators]]
  BY <1>1 DEF IsBlock, Blocks
<1>5. ASSUME NEW i \in DOMAIN c
      PROVE  /\ c[i].term.goto => Len(c[i].term.targets) = 1
             /\ \A k \in DOMAIN c[i].term.targets : c[i].term.targets[k] \in DOMAIN c \ {ENTRY}
  BY <1>1, <1>5 DEF IsBlock
<1>6. QED
  BY <1>1, <1>2, <1>3, <1>4, <1>5 DEF IsBody

\* t may be the terminator of a block in a body with these ids.
IsTerm(t, ids) == /\ t \in Terminators
                  /\ t.goto => Len(t.targets) = 1
                  /\ \A k \in DOMAIN t.targets : t.targets[k] \in ids \ {ENTRY}

LEMMA BlockMade == ASSUME NEW stmts \in Seq(Labels), NEW t, NEW ids, IsTerm(t, ids)
                   PROVE  /\ IsBlock(Block(stmts, t), ids)
                          /\ Block(stmts, t).stmts = stmts /\ Block(stmts, t).term = t
<1>1. Block(stmts, t) = [stmts |-> stmts, term |-> t] /\ t \in Terminators
  BY DEF Block, IsTerm
<1>2. QED
  BY <1>1 DEF IsBlock, IsTerm, Blocks

LEMMA BlockParts == ASSUME NEW x, NEW ids, IsBlock(x, ids)
                    PROVE  IsTerm(x.term, ids) /\ x.stmts \in Seq(Labels)
                           /\ x = [stmts |-> x.stmts, term |-> x.term]
BY DEF IsBlock, IsTerm, Blocks

LEMMA TermParts == ASSUME NEW t, NEW ids, IsTerm(t, ids)
                   PROVE  /\ t = [goto |-> t.goto, label |-> t.label, targets |-> t.targets]
                          /\ t.goto \in BOOLEAN /\ t.label \in Labels /\ t.targets \in Seq(Nat)
                          /\ \A k \in DOMAIN t.targets : t.targets[k] \in ids \ {ENTRY}
BY DEF IsTerm, Terminators

LEMMA GotoMade == ASSUME NEW ids, NEW u \in ids \ {ENTRY}, u \in Nat
                  PROVE  /\ IsTerm(Goto(u), ids) /\ HasTwoWays(Goto(u))
                         /\ Goto(u).goto /\ Goto(u).label = "goto" /\ Goto(u).targets = <<u>>
<1> PICK s : s = <<u>>
  OBVIOUS
<1>1. s \in Seq(Nat) /\ Len(s) = 1 /\ \A k \in DOMAIN s : s[k] = u
  OBVIOUS
<1>2. Goto(u) = [goto |-> TRUE, label |-> "goto", targets |-> s]
  BY DEF Goto
<1> PICK t : t = Goto(u)
  OBVIOUS
<1>3. t.goto = TRUE /\ t.label = "goto" /\ t.targets = s
  BY <1>2
<1>4. t \in Terminators
  BY <1>1, <1>2, LabelsAssumption DEF Terminators
<1>5. HasTwoWays(t)
  BY <1>3, TwoWaysAssumption DEF HasTwoWays
<1>6. IsTerm(t, ids)
  BY <1>1, <1>3, <1>4 DEF IsTerm
<1>7. QED
  BY <1>3, <1>5, <1>6

LEMMA OtherMade == ASSUME NEW ids, NEW label \in Labels, NEW s \in Seq(Nat),
                          \A k \in DOMAIN s : s[k] \in ids \ {ENTRY}
                   PROVE  /\ IsTerm(Other(label, s), ids)
                          /\ ~Other(label, s).goto /\ Other(label, s).label = label
                          /\ Other(label, s).targets = s
<1> PICK t : t = Other(label, s)
  OBVIOUS
<1>1. t = [goto |-> FALSE, label |-> label, targets |-> s]
  BY DEF Other
<1>2. t.goto = FALSE /\ t.label = label /\ t.targets = s /\ t \in Terminators
  BY <1>1 DEF Terminators
<1>3. QED
  BY <1>2 DEF IsTerm

\* The targets may be changed to others.
LEMMA TermRenamed ==
    ASSUME NEW t, NEW ids, IsTerm(t, ids), NEW new, NEW s \in Seq(Nat), Len(s) = Len(t.targets),
           \A k \in DOMAIN s : s[k] \in new \ {ENTRY}, NEW u, u = [t EXCEPT !.targets = s]
    PROVE  /\ IsTerm(u, new)
           /\ u.targets = s /\ u.goto = t.goto /\ u.label = t.label
           /\ HasTwoWays(t) => HasTwoWays(u)
<1>1. t = [goto |-> t.goto, label |-> t.label, targets |-> t.targets]
      /\ t.goto \in BOOLEAN /\ t.label \in Labels
  BY TermParts
<1>2. u = [goto |-> t.goto, label |-> t.label, targets |-> s]
  BY <1>1
<1>3. u.goto = t.goto /\ u.label = t.label /\ u.targets = s /\ u \in Terminators
  BY <1>1, <1>2 DEF Terminators
<1>4. HasTwoWays(t) => HasTwoWays(u)
  BY <1>3 DEF HasTwoWays
<1>5. u.goto => Len(u.targets) = 1
  BY <1>3 DEF IsTerm
<1>6. IsTerm(u, new)
  BY <1>3, <1>5 DEF IsTerm
<1>7. QED
  BY <1>3, <1>4, <1>6

LEMMA BlockRenamed ==
    ASSUME NEW x, NEW ids, IsBlock(x, ids), NEW new, NEW s \in Seq(Nat),
           Len(s) = Len(x.term.targets), \A k \in DOMAIN s : s[k] \in new \ {ENTRY}
    PROVE  /\ IsBlock([x EXCEPT !.term.targets = s], new)
           /\ [x EXCEPT !.term.targets = s].stmts = x.stmts
           /\ [x EXCEPT !.term.targets = s].term = [x.term EXCEPT !.targets = s]
<1> PICK t : t = [x.term EXCEPT !.targets = s]
  OBVIOUS
<1>1. IsTerm(x.term, ids) /\ x.stmts \in Seq(Labels) /\ x = [stmts |-> x.stmts, term |-> x.term]
  BY BlockParts
<1>2. IsTerm(t, new)
  BY <1>1, TermRenamed
<1>3. [x EXCEPT !.term.targets = s] = [stmts |-> x.stmts, term |-> t]
  BY <1>1
<1>4. [x EXCEPT !.term.targets = s] = Block(x.stmts, t)
  BY <1>3 DEF Block
<1>5. QED
  BY <1>1, <1>2, <1>4, BlockMade

-----------------------------------------------------------------------------
(* The passes other than merge_goto_chains *)

\* Calls and branchings of two have their targets, in all blocks.
AllTwoWays == \A b \in BlockIds : HasTwoWays(body[b].term)

\* Where a pass begins, all that merge_goto_chains relies on is there.
LEMMA Started ==
    ASSUME StartPass, target' = target, target \in Nat, IsBody(body')
    PROVE  IInv' /\ ChainInv'
<1>1. /\ pc' = "antecedents" /\ block' = ENTRY /\ id' = ENTRY /\ visited' = {} /\ merged' = {}
      /\ ENTRY \in DOMAIN body'
  BY DEF StartPass, IsBody
<1>2. TypeOK'
  BY <1>1 DEF TypeOK, BlockIds
<1>3. (/\ TargetsLive /\ EntryKept /\ MergedAreDead)'
  BY <1>1 DEF TargetsLive, EntryKept, MergedAreDead
<1>4. IInv'
  BY <1>1, <1>2, <1>3 DEF IInv
<1>5. ChainInv'
  BY <1>1 DEF ChainInv, OnTheWay, NoChainsLeft
<1>6. QED
  BY <1>4, <1>5

\* reconstruct_asserts leaves one of the two ways of a branching.
LEMMA AsAssertMade ==
    ASSUME IsBody(body), AllTwoWays, NEW b \in BlockIds
    PROVE  IsBlock(AsAssert(b), BlockIds) /\ HasTwoWays(AsAssert(b).term)
<1>1. IsBlock(body[b], BlockIds) /\ HasTwoWays(body[b].term) /\ BlockIds \subseteq Nat
  BY BlockOf DEF BlockIds, IsBody, AllTwoWays
<1>2. CASE AsAssert(b) = body[b]
  BY <1>1, <1>2
<1>3. ASSUME body[b].term.label \in Ifs,
             NEW way \in {1, 2}, NEW expected \in BOOLEAN, Targets(b)[way] \in Panics,
             NEW next, next = Targets(b)[3 - way]
      PROVE  LET made == WithAssert(b, expected, Targets(b)[way], next)
             IN  IsBlock(made, BlockIds) /\ HasTwoWays(made.term)
  <2>1. Len(Targets(b)) = 2
    BY <1>1, <1>3 DEF HasTwoWays, TwoWays, Targets
  <2>2. next \in BlockIds \ {ENTRY} /\ next \in Nat
    <3>1. Targets(b) \in Seq(Nat) /\ 3 - way \in {1, 2}
      BY <1>1, BlockParts, TermParts DEF Targets
    <3>2. 3 - way \in DOMAIN Targets(b)
      BY <2>1, <3>1
    <3>3. QED
      BY <1>1, <1>3, <3>2 DEF IsBlock, Targets
  <2> PICK abort : abort = Targets(b)[way]
    OBVIOUS
  <2> PICK label : label = AssertLabel[<<body[b].term.label, expected, body[abort].term.label>>]
    OBVIOUS
  <2>3. label \in Labels
    <3>1. body[abort].term.label \in Aborts
      BY <1>3 DEF Panics
    <3>2. <<body[b].term.label, expected, body[abort].term.label>> \in DOMAIN AssertLabel
      BY <1>3, <3>1, LabelAssumption
    <3>3. QED
      BY <3>2, LabelAssumption DEF Assertions
  <2> PICK stmts : stmts = Append(body[b].stmts, label)
    OBVIOUS
  <2>4. stmts \in Seq(Labels)
    BY <1>1, <2>3, BlockParts
  <2>5. IsTerm(Goto(next), BlockIds) /\ HasTwoWays(Goto(next))
    BY <2>2, GotoMade
  <2>6. WithAssert(b, expected, Targets(b)[way], next) = Block(stmts, Goto(next))
    BY DEF WithAssert
  <2> PICK t : t = Goto(next)
    OBVIOUS
  <2>7. IsBlock(Block(stmts, t), BlockIds) /\ Block(stmts, t).term = t
    BY <2>4, <2>5, BlockMade
  <2>8. QED
    BY <2>5, <2>6, <2>7
<1>4. CASE /\ body[b].term.label \in Ifs /\ Targets(b)[1] \in Panics
           /\ AsAssert(b) = WithAssert(b, FALSE, Targets(b)[1], Targets(b)[2])
  <2>1. 3 - 1 = 2 /\ 1 \in {1, 2}
    OBVIOUS
  <2>2. QED
    BY <1>3, <1>4, <2>1
<1>5. CASE /\ body[b].term.label \in Ifs /\ Targets(b)[2] \in Panics
           /\ AsAssert(b) = WithAssert(b, TRUE, Targets(b)[2], Targets(b)[1])
  <2>1. 3 - 2 = 1 /\ 2 \in {1, 2}
    OBVIOUS
  <2>2. QED
    BY <1>3, <1>5, <2>1
<1>6. QED
  BY <1>2, <1>4, <1>5 DEF AsAssert

LEMMA ReconstructAssertsStep ==
    ASSUME IsBody(body), AllTwoWays, ReconstructAsserts
    PROVE  IsBody(body') /\ AllTwoWays'
<1>1. body' = [b \in BlockIds |-> AsAssert(b)]
  BY DEF ReconstructAsserts
<1>2. \A b \in BlockIds : IsBlock(body'[b], BlockIds) /\ HasTwoWays(body'[b].term)
  BY <1>1, AsAssertMade
<1>3. body' = [b \in BlockIds |-> body'[b]]
  BY <1>1
<1>4. IsBody(body') /\ DOMAIN body' = BlockIds
  BY <1>2, <1>3, Replaced DEF BlockIds
<1>5. QED
  BY <1>2, <1>4 DEF AllTwoWays, BlockIds

\* The jumps that return, finitely many and in the order in which they get
\* their blocks.
BeforeIn(S) == {p \in S \X S : Before(p[1], p[2])}

LEMMA ReturnJumpsFacts ==
    ASSUME IsBody(body)
    PROVE  /\ IsFiniteSet(ReturnJumps)
           /\ OrdersAll(BeforeIn(ReturnJumps), ReturnJumps)
           /\ \A b, k : <<b, k>> \in ReturnJumps <=>
                 b \in BlockIds /\ k \in DOMAIN Targets(b) /\ Targets(b)[k] \in BlockIds
                 /\ body[Targets(b)[k]] = Return
<1> PICK J : J = ReturnJumps
  OBVIOUS
<1>1. ASSUME NEW b, NEW k
      PROVE  <<b, k>> \in J <=>
                 b \in BlockIds /\ k \in DOMAIN Targets(b) /\ Targets(b)[k] \in BlockIds
                 /\ body[Targets(b)[k]] = Return
  BY DEF ReturnJumps, JumpsTo
<1>2. ASSUME NEW j \in J
      PROVE  j = <<j[1], j[2]>> /\ j[1] \in BlockIds /\ j[2] \in DOMAIN Targets(j[1])
  BY DEF ReturnJumps, JumpsTo
<1>3. ASSUME NEW b \in BlockIds
      PROVE  b \in Nat /\ DOMAIN Targets(b) \subseteq Nat /\ IsFiniteSet(DOMAIN Targets(b))
  <2>1. IsBlock(body[b], BlockIds) /\ b \in Nat
    BY BlockOf DEF IsBody, BlockIds
  <2>2. Targets(b) \in Seq(Nat)
    BY <2>1, BlockParts, TermParts DEF Targets
  <2>3. DOMAIN Targets(b) = 1 .. Len(Targets(b)) /\ Len(Targets(b)) \in Int /\ 1 \in Int
    BY <2>2
  <2>4. QED
    BY <2>1, <2>3, FS_Interval
<1>4. IsFiniteSet(J)
  <2> PICK jumps : jumps = [b \in BlockIds |-> {b} \X DOMAIN Targets(b)]
    OBVIOUS
  <2> PICK S : S = {jumps[b] : b \in BlockIds}
    OBVIOUS
  <2>1. jumps \in Surjection(BlockIds, S)
    BY DEF Surjection
  <2>2. IsFiniteSet(BlockIds)
    BY DEF IsBody, BlockIds
  <2>3. IsFiniteSet(S)
    BY <2>1, <2>2, FS_Surjection
  <2>4. ASSUME NEW b \in BlockIds PROVE IsFiniteSet(jumps[b])
    <3>1. IsFiniteSet({b}) /\ IsFiniteSet(DOMAIN Targets(b))
      BY <1>3, FS_Singleton
    <3>2. QED
      BY <3>1, FS_Product
  <2>5. IsFiniteSet(UNION S)
    BY <2>3, <2>4, FS_UNION
  <2>6. J \subseteq UNION S
    <3>1. ASSUME NEW j \in J PROVE j \in jumps[j[1]] /\ jumps[j[1]] \in S
      BY <1>2
    <3>2. QED
      BY <3>1
  <2>7. QED
    BY <2>5, <2>6, FS_Subset
<1>5. \A j \in J : j[1] \in Nat /\ j[2] \in Nat /\ j = <<j[1], j[2]>>
  BY <1>2, <1>3
<1>6. \A i, j : <<i, j>> \in BeforeIn(J) <=> i \in J /\ j \in J /\ Before(i, j)
  BY DEF BeforeIn
<1>7. OrdersAll(BeforeIn(J), J)
  <2>1. \A i \in J : ~Before(i, i)
    BY <1>5 DEF Before
  <2>2. \A i, j, k \in J : Before(i, j) /\ Before(j, k) => Before(i, k)
    BY <1>5 DEF Before
  <2>3. \A i, j \in J : i # j => Before(i, j) \/ Before(j, i)
    BY <1>5 DEF Before
  <2>4. QED
    BY <1>6, <2>1, <2>2, <2>3 DEF OrdersAll
<1>8. QED
  BY <1>1, <1>4, <1>7

\* The fresh ids are those behind the others, each for one jump.
LEMMA FreshFacts ==
    ASSUME IsBody(body)
    PROVE  /\ Size \in Nat \ {0} /\ BlockIds = 0 .. Size - 1
           /\ Cardinality(ReturnJumps) \in Nat
           /\ \A j \in ReturnJumps : Fresh(j) \in Size .. Size + Cardinality(ReturnJumps) - 1
           /\ \A i, j \in ReturnJumps : Fresh(i) = Fresh(j) => i = j
<1> PICK J : J = ReturnJumps
  OBVIOUS
<1> PICK R : R = BeforeIn(J)
  OBVIOUS
<1>1. IsFiniteSet(J) /\ OrdersAll(R, J)
  BY ReturnJumpsFacts
<1>2. Size \in Nat \ {0} /\ BlockIds = 0 .. Size - 1
  BY BodyDomain DEF Size, BlockIds
<1>3. ASSUME NEW j \in J PROVE Fresh(j) = Size + RankIn(R, J, j)
  <2>1. {k \in J : Before(k, j)} = {k \in J : <<k, j>> \in R}
    BY <1>3 DEF BeforeIn
  <2>2. QED
    BY <2>1 DEF Fresh, RankIn
<1>4. /\ Cardinality(J) \in Nat
      /\ \A x \in J : RankIn(R, J, x) \in 0 .. Cardinality(J) - 1
      /\ \A x, y \in J : RankIn(R, J, x) = RankIn(R, J, y) => x = y
  BY <1>1, RanksIn
<1>5. \A j \in J : Fresh(j) \in Size .. Size + Cardinality(J) - 1
  BY <1>2, <1>3, <1>4
<1>6. ASSUME NEW i \in J, NEW j \in J, Fresh(i) = Fresh(j) PROVE i = j
  <2>1. RankIn(R, J, i) \in Nat /\ RankIn(R, J, j) \in Nat
    BY <1>4
  <2>2. RankIn(R, J, i) = RankIn(R, J, j)
    BY <1>2, <1>3, <1>6, <2>1
  <2>3. QED
    BY <1>4, <2>2
<1>7. QED
  BY <1>2, <1>4, <1>5, <1>6

LEMMA ReturnMade == ASSUME NEW ids
                    PROVE  /\ IsBlock(Return, ids) /\ HasTwoWays(Return.term)
                           /\ Return = [stmts |-> <<>>, term |-> Return.term]
                           /\ Return.term = [goto |-> FALSE, label |-> ReturnLabel, targets |-> <<>>]
<1> PICK none : none = <<>>
  OBVIOUS
<1>1. none \in Seq(Nat) /\ none \in Seq(Labels) /\ \A k \in DOMAIN none : none[k] \in ids \ {ENTRY}
  OBVIOUS
<1>2. ReturnLabel \in Labels /\ ReturnLabel \notin TwoWays
  BY LabelAssumption, TwoWaysAssumption
<1> PICK t : t = Other(ReturnLabel, none)
  OBVIOUS
<1>3. IsTerm(t, ids) /\ t.label = ReturnLabel
  <2>1. t = [goto |-> FALSE, label |-> ReturnLabel, targets |-> none]
    BY DEF Other
  <2>2. [goto |-> FALSE, label |-> ReturnLabel, targets |-> none] \in Terminators
    BY <1>1, <1>2 DEF Terminators
  <2>3. t \in Terminators
    BY <2>1, <2>2
  <2>4. t.label = ReturnLabel /\ t.targets = none
    BY <2>1
  <2>5. t.goto = FALSE
    BY <2>1
  <2>6. QED
    BY <1>1, <2>3, <2>4, <2>5 DEF IsTerm
<1>4. Return = Block(none, t)
  BY DEF Return
<1>5. IsBlock(Return, ids) /\ Return.term = t
  BY <1>1, <1>3, <1>4, BlockMade
<1>6. t = [goto |-> FALSE, label |-> ReturnLabel, targets |-> <<>>]
  BY DEF Other
<1>7. Return = [stmts |-> <<>>, term |-> t]
  BY <1>4 DEF Block
<1>8. QED
  BY <1>2, <1>3, <1>5, <1>6, <1>7 DEF HasTwoWays

\* Where a block's jumps lead, once those to returns have blocks of their own.
Retargets(b) == [k \in DOMAIN Targets(b) |->
                    IF <<b, k>> \in ReturnJumps THEN Fresh(<<b, k>>) ELSE Targets(b)[k]]

LEMMA DuplicatedBlocks ==
    ASSUME IsBody(body), AllTwoWays, DuplicateReturn,
           NEW n, n = Size + Cardinality(ReturnJumps)
    PROVE  /\ n \in Nat \ {0} /\ BlockIds \subseteq 0 .. n - 1 /\ DOMAIN body' = 0 .. n - 1
           /\ \A b \in BlockIds : /\ IsBlock(body'[b], 0 .. n - 1)
                                  /\ body'[b].stmts = body[b].stmts
                                  /\ body'[b].term = [body[b].term EXCEPT !.targets = Retargets(b)]
                                  /\ body'[b].term.targets = Retargets(b)
                                  /\ HasTwoWays(body'[b].term)
           /\ \A b \in (0 .. n - 1) \ BlockIds : body'[b] = Return
           /\ IsBody(body')
<1>1. /\ Size \in Nat \ {0} /\ BlockIds = 0 .. Size - 1 /\ Cardinality(ReturnJumps) \in Nat
      /\ \A j \in ReturnJumps : Fresh(j) \in Size .. n - 1
  BY FreshFacts
<1>2. n \in Nat \ {0} /\ n >= Size /\ BlockIds \subseteq 0 .. n - 1
  BY <1>1
<1>3. body' = [b \in 0 .. n - 1 |-> IF b \notin BlockIds THEN Return
                                    ELSE [body[b] EXCEPT !.term.targets = Retargets(b)]]
  <2>1. body' = [b \in 0 .. n - 1 |-> IF b \notin BlockIds THEN Return
                  ELSE [body[b] EXCEPT !.term.targets =
                          [k \in DOMAIN @ |-> IF <<b, k>> \in ReturnJumps
                                              THEN Fresh(<<b, k>>) ELSE @[k]]]]
    <3>1. n - 1 = Size + Cardinality(ReturnJumps) - 1
      BY <1>1
    <3>2. QED
      BY <3>1, Zenon DEF DuplicateReturn
  <2>2. ASSUME NEW b
        PROVE  Retargets(b) = [k \in DOMAIN body[b].term.targets |->
                                  IF <<b, k>> \in ReturnJumps THEN Fresh(<<b, k>>)
                                  ELSE body[b].term.targets[k]]
    BY DEF Retargets, Targets
  <2>3. QED
    BY <2>1, <2>2, Zenon
<1>4. ASSUME NEW b \in BlockIds
      PROVE  /\ IsBlock(body'[b], 0 .. n - 1)
             /\ body'[b].stmts = body[b].stmts
             /\ body'[b].term = [body[b].term EXCEPT !.targets = Retargets(b)]
             /\ body'[b].term.targets = Retargets(b)
             /\ HasTwoWays(body'[b].term)
  <2>1. IsBlock(body[b], BlockIds) /\ HasTwoWays(body[b].term)
    BY BlockOf DEF BlockIds, AllTwoWays
  <2>2. /\ Targets(b) \in Seq(Nat)
        /\ \A k \in DOMAIN Targets(b) : Targets(b)[k] \in BlockIds \ {ENTRY}
    BY <2>1, BlockParts, TermParts DEF Targets
  <2> PICK s : s = Retargets(b)
    OBVIOUS
  <2>3. ASSUME NEW k \in DOMAIN Targets(b) PROVE s[k] \in (0 .. n - 1) \ {ENTRY} /\ s[k] \in Nat
    <3>1. CASE <<b, k>> \in ReturnJumps
      <4>1. s[k] \in Size .. n - 1
        BY <1>1, <3>1 DEF Retargets
      <4>2. QED
        BY <1>1, <1>2, <4>1 DEF ENTRY
    <3>2. CASE <<b, k>> \notin ReturnJumps
      <4>1. s[k] = Targets(b)[k]
        BY <3>2 DEF Retargets
      <4>2. QED
        BY <1>2, <2>2, <4>1
    <3>3. QED
      BY <3>1, <3>2
  <2>4. DOMAIN s = DOMAIN Targets(b) /\ DOMAIN s = 1 .. Len(Targets(b))
    BY <2>2 DEF Retargets
  <2>5. s \in Seq(Nat) /\ Len(s) = Len(Targets(b))
    <3>1. s \in [1 .. Len(Targets(b)) -> Nat] /\ Len(Targets(b)) \in Nat
      BY <2>2, <2>3, <2>4 DEF Retargets
    <3>2. QED
      BY <3>1
  <2>6. body'[b] = [body[b] EXCEPT !.term.targets = s]
    BY <1>2, <1>3
  <2>7. /\ IsBlock(body'[b], 0 .. n - 1) /\ body'[b].stmts = body[b].stmts
        /\ body'[b].term = [body[b].term EXCEPT !.targets = s]
    <3> PICK ids : ids = 0 .. n - 1
      OBVIOUS
    <3> PICK x : x = body[b]
      OBVIOUS
    <3>1. Len(s) = Len(x.term.targets) /\ \A k \in DOMAIN s : s[k] \in ids \ {ENTRY}
      BY <2>3, <2>4, <2>5 DEF Targets
    <3>2. /\ IsBlock([x EXCEPT !.term.targets = s], ids)
          /\ [x EXCEPT !.term.targets = s].stmts = x.stmts
          /\ [x EXCEPT !.term.targets = s].term = [x.term EXCEPT !.targets = s]
      BY <2>1, <2>5, <3>1, BlockRenamed
    <3>3. QED
      BY <2>6, <3>2
  <2>8. body'[b].term.targets = s /\ HasTwoWays(body'[b].term)
    <3> PICK t : t = body[b].term
      OBVIOUS
    <3>1. IsTerm(t, BlockIds) /\ Len(s) = Len(t.targets) /\ HasTwoWays(t)
      BY <2>1, <2>5, BlockParts DEF Targets
    <3> PICK ids : ids = 0 .. n - 1
      OBVIOUS
    <3>2. \A k \in DOMAIN s : s[k] \in ids \ {ENTRY}
      BY <2>3, <2>4
    <3> PICK old : old = BlockIds
      OBVIOUS
    <3>a. IsTerm(t, old)
      BY <3>1
    <3> PICK u : u = [t EXCEPT !.targets = s]
      OBVIOUS
    <3>b. s \in Seq(Nat)
      BY <2>5
    <3>c. Len(s) = Len(t.targets)
      BY <3>1
    <3>d. u.targets = s
      BY <3>a, <3>b, <3>c, <3>2, TermRenamed
    <3>3. HasTwoWays(u)
      BY <3>1, <3>a, <3>b, <3>c, <3>2, TermRenamed
    <3>4. QED
      BY <2>7, <3>3, <3>d
  <2>9. QED
    BY <2>7, <2>8
<1>5. \A b \in (0 .. n - 1) \ BlockIds : body'[b] = Return
  BY <1>3
<1>6. IsBody(body') /\ DOMAIN body' = 0 .. n - 1
  <2>1. body' = [b \in 0 .. n - 1 |-> body'[b]]
    BY <1>3
  <2>2. \A b \in 0 .. n - 1 : IsBlock(body'[b], 0 .. n - 1)
    BY <1>4, <1>5, ReturnMade
  <2>3. QED
    BY <1>2, <2>1, <2>2, BodyMade
<1>7. QED
  BY <1>2, <1>4, <1>5, <1>6

\* Behind duplicate_return, a block that only returns is jumped to at most once.
ReturnsAlone == \A r \in BlockIds : body[r] = Return => Cardinality(JumpsTo(r)) <= 1

LEMMA DuplicateReturnStep ==
    ASSUME IsBody(body), AllTwoWays, DuplicateReturn
    PROVE  IsBody(body') /\ AllTwoWays' /\ ReturnsAlone'
<1> PICK n : n = Size + Cardinality(ReturnJumps)
  OBVIOUS
<1>1. /\ n \in Nat \ {0} /\ BlockIds \subseteq 0 .. n - 1 /\ DOMAIN body' = 0 .. n - 1
      /\ \A b \in BlockIds : /\ IsBlock(body'[b], 0 .. n - 1)
                             /\ body'[b].stmts = body[b].stmts
                             /\ body'[b].term = [body[b].term EXCEPT !.targets = Retargets(b)]
                             /\ body'[b].term.targets = Retargets(b)
                             /\ HasTwoWays(body'[b].term)
      /\ \A b \in (0 .. n - 1) \ BlockIds : body'[b] = Return
      /\ IsBody(body')
  BY DuplicatedBlocks
<1>2. /\ Size \in Nat \ {0} /\ BlockIds = 0 .. Size - 1
      /\ \A j \in ReturnJumps : Fresh(j) \in Nat /\ Fresh(j) >= Size
      /\ \A i, j \in ReturnJumps : Fresh(i) = Fresh(j) => i = j
  BY FreshFacts
<1>3. AllTwoWays'
  <2>1. HasTwoWays(Return.term)
    BY ReturnMade
  <2>2. QED
    BY <1>1, <2>1 DEF AllTwoWays, BlockIds
<1>4. ASSUME NEW r \in 0 .. n - 1, NEW b \in 0 .. n - 1, NEW k \in DOMAIN body'[b].term.targets,
             body'[b].term.targets[k] = r, body'[r] = Return
      PROVE  <<b, k>> \in ReturnJumps /\ Fresh(<<b, k>>) = r
  <2>1. b \in BlockIds
    <3>1. Return.term.targets = <<>>
      BY ReturnMade
    <3>2. QED
      BY <1>1, <1>4, <3>1
  <2>2. k \in DOMAIN Targets(b) /\ r = Retargets(b)[k]
    BY <1>1, <1>4, <2>1 DEF Retargets
  <2>3. ASSUME <<b, k>> \notin ReturnJumps PROVE FALSE
    <3>1. r = Targets(b)[k]
      BY <2>2, <2>3 DEF Retargets
    <3>2. r \in BlockIds
      <4>1. IsBlock(body[b], BlockIds)
        BY <2>1, BlockOf DEF BlockIds
      <4>2. QED
        BY <2>2, <3>1, <4>1 DEF IsBlock, Targets
    <3>3. body[r] = Return
      <4>1. /\ body[r].stmts = Return.stmts
            /\ Return.term = [body[r].term EXCEPT !.targets = Retargets(r)]
            /\ Return.term.targets = Retargets(r)
        BY <1>1, <1>4, <3>2
      <4>2. IsBlock(body[r], BlockIds)
        BY <3>2, BlockOf DEF BlockIds
      <4>3. /\ body[r] = [stmts |-> body[r].stmts, term |-> body[r].term]
            /\ body[r].term = [goto |-> body[r].term.goto, label |-> body[r].term.label,
                               targets |-> Targets(r)]
            /\ Targets(r) \in Seq(Nat)
        BY <4>2, BlockParts, TermParts DEF Targets
      <4>4. Return.term = [goto |-> FALSE, label |-> ReturnLabel, targets |-> <<>>]
            /\ Return = [stmts |-> <<>>, term |-> Return.term]
        BY ReturnMade
      <4>5. Targets(r) = <<>>
        <5>1. Retargets(r) = <<>>
          BY <4>1, <4>4
        <5>2. DOMAIN Targets(r) = {}
          BY <5>1 DEF Retargets
        <5>3. QED
          BY <4>3, <5>2
      <4>6. body[r].term.goto = FALSE /\ body[r].term.label = ReturnLabel
        <5> PICK t : t = body[r].term
          OBVIOUS
        <5>1. t = [goto |-> t.goto, label |-> t.label, targets |-> Targets(r)]
          BY <4>3
        <5>2. [t EXCEPT !.targets = Retargets(r)].goto = t.goto
              /\ [t EXCEPT !.targets = Retargets(r)].label = t.label
          BY <5>1
        <5>3. QED
          BY <4>1, <4>4, <5>2
      <4>7. body[r].term = Return.term
        BY <4>3, <4>4, <4>5, <4>6
      <4>8. QED
        BY <4>1, <4>3, <4>4, <4>7
    <3>4. QED
      BY <2>1, <2>2, <2>3, <3>1, <3>2, <3>3, ReturnJumpsFacts
  <2>4. QED
    BY <2>2, <2>3 DEF Retargets
<1>5. ASSUME NEW r \in 0 .. n - 1, body'[r] = Return
      PROVE  Cardinality(JumpsTo(r)') <= 1
  <2> PICK J : J = JumpsTo(r)'
    OBVIOUS
  <2>1. ASSUME NEW j \in J PROVE j \in ReturnJumps /\ Fresh(j) = r
    <3>1. PICK b \in 0 .. n - 1 : \E k \in DOMAIN body'[b].term.targets :
                 body'[b].term.targets[k] = r /\ j = <<b, k>>
      BY <1>1 DEF JumpsTo, BlockIds, Targets
    <3>2. QED
      BY <1>4, <1>5, <3>1
  <2>2. \A i, j \in J : i = j
    BY <1>2, <2>1
  <2>3. CASE J = {}
    BY <2>3, FS_EmptySet
  <2>4. CASE J # {}
    <3>1. PICK j : J = {j}
      BY <2>2, <2>4
    <3>2. Cardinality(J) = 1
      BY <3>1, FS_Singleton
    <3>3. QED
      BY <3>2
  <2>5. QED
    BY <2>3, <2>4
<1>6. ReturnsAlone'
  <2>1. BlockIds' = 0 .. n - 1
    BY <1>1 DEF BlockIds
  <2>2. QED
    BY <1>5, <2>1 DEF ReturnsAlone
<1>7. QED
  BY <1>1, <1>3, <1>6

\* A body in which calls and branchings of two have their targets.
GoodBody(g) == IsBody(g) /\ \A b \in DOMAIN g : HasTwoWays(g[b].term)

\* Terminators that are moved by a number of blocks lead to where the blocks are.
LEMMA TermShifted ==
    ASSUME NEW t, NEW m \in Nat, IsTerm(t, 0 .. m - 1), HasTwoWays(t), NEW n \in Nat \ {0}
    PROVE  LET u == [t EXCEPT !.targets = [k \in DOMAIN @ |-> @[k] + n + 1]]
           IN  IsTerm(u, 0 .. n + m) /\ HasTwoWays(u)
<1> PICK s : s = [k \in DOMAIN t.targets |-> t.targets[k] + n + 1]
  OBVIOUS
<1>1. t.targets \in Seq(Nat) /\ \A k \in DOMAIN t.targets : t.targets[k] \in (0 .. m - 1) \ {ENTRY}
  BY TermParts
<1>2. ASSUME NEW k \in DOMAIN t.targets PROVE s[k] \in (0 .. n + m) \ {ENTRY} /\ s[k] \in Nat
  BY <1>1 DEF ENTRY
<1>3. s \in Seq(Nat) /\ Len(s) = Len(t.targets) /\ DOMAIN s = DOMAIN t.targets
  <2>1. DOMAIN t.targets = 1 .. Len(t.targets) /\ Len(t.targets) \in Nat
    BY <1>1
  <2>2. s \in [1 .. Len(t.targets) -> Nat]
    BY <1>2, <2>1
  <2>3. QED
    BY <2>1, <2>2
<1> PICK new : new = 0 .. n + m
  OBVIOUS
<1> PICK old : old = 0 .. m - 1
  OBVIOUS
<1> PICK u : u = [t EXCEPT !.targets = s]
  OBVIOUS
<1>4. \A k \in DOMAIN s : s[k] \in new \ {ENTRY}
  BY <1>2, <1>3
<1>5. IsTerm(t, old)
  OBVIOUS
<1>6. s \in Seq(Nat)
  BY <1>3
<1>7. Len(s) = Len(t.targets)
  BY <1>3
<1>8. IsTerm(u, new)
  BY <1>4, <1>5, <1>6, <1>7, TermRenamed
<1>9. HasTwoWays(u)
  <2>1. u.label = t.label /\ u.goto = t.goto /\ u.targets = s
    BY <1>4, <1>5, <1>6, <1>7, TermRenamed
  <2>2. QED
    BY <1>7, <2>1 DEF HasTwoWays
<1>10. [t EXCEPT !.targets = [k \in DOMAIN @ |-> @[k] + n + 1]] = u
  OBVIOUS
<1>11. QED
  BY <1>8, <1>9, <1>10

\* A block of a body may be in one that has more blocks.
LEMMA BlockInMore == ASSUME NEW x, NEW ids, IsBlock(x, ids), NEW more, ids \subseteq more
                     PROVE  IsBlock(x, more)
BY DEF IsBlock

\* A function's terminator, put behind n blocks of the caller.
LEMMA RedirectedMade ==
    ASSUME NEW t, NEW m \in Nat \ {0}, IsTerm(t, 0 .. m - 1), HasTwoWays(t), NEW n \in Nat \ {0},
           NEW call, Len(call.targets) = 2,
           \A k \in DOMAIN call.targets : call.targets[k] \in (0 .. n - 1) \ {ENTRY},
           call.targets \in Seq(Nat)
    PROVE  IsTerm(Redirected(t, call, n), 0 .. n + m) /\ HasTwoWays(Redirected(t, call, n))
<1>1. CASE t.label = ReturnLabel
  <2>1. n \in (0 .. n + m) \ {ENTRY} /\ n \in Nat
    BY DEF ENTRY
  <2> PICK ids : ids = 0 .. n + m
    OBVIOUS
  <2>2. IsTerm(Goto(n), ids) /\ HasTwoWays(Goto(n))
    BY <2>1, GotoMade
  <2>3. Redirected(t, call, n) = Goto(n)
    BY <1>1, LabelAssumption DEF Redirected
  <2>4. QED
    BY <2>2, <2>3
<1>2. CASE t.label # ReturnLabel /\ t.label = "resume"
  <2>1. call.targets[2] \in (0 .. n + m) \ {ENTRY} /\ call.targets[2] \in Nat
    <3>1. 2 \in DOMAIN call.targets
      OBVIOUS
    <3>2. QED
      BY <3>1
  <2> PICK u : u = call.targets[2]
    OBVIOUS
  <2> PICK ids : ids = 0 .. n + m
    OBVIOUS
  <2>2. u \in ids \ {ENTRY} /\ u \in Nat
    BY <2>1
  <2>3. IsTerm(Goto(u), ids) /\ HasTwoWays(Goto(u))
    BY <2>2, GotoMade
  <2>4. Redirected(t, call, n) = Goto(u)
    BY <1>2 DEF Redirected
  <2>5. QED
    BY <2>3, <2>4
<1>3. CASE t.label # ReturnLabel /\ t.label # "resume"
  <2> PICK u : u = [t EXCEPT !.targets = [k \in DOMAIN @ |-> @[k] + n + 1]]
    OBVIOUS
  <2>1. IsTerm(u, 0 .. n + m) /\ HasTwoWays(u)
    BY TermShifted
  <2>2. Redirected(t, call, n) = u
    BY <1>3 DEF Redirected
  <2>3. QED
    BY <2>1, <2>2
<1>4. QED
  BY <1>1, <1>2, <1>3

\* To inline a call in a body gives a body with more blocks.
LEMMA InlineMade ==
    ASSUME NEW g, GoodBody(g), NEW b \in DOMAIN g, g[b].term.label \in DOMAIN ToInline
    PROVE  GoodBody(Inline(g, b)) /\ DOMAIN g \subseteq DOMAIN Inline(g, b)
<1> PICK inner : inner = Called(g, b)
  OBVIOUS
<1>1. IsBody(inner) /\ \A i \in DOMAIN inner : HasTwoWays(inner[i].term)
  BY ToInlineAssumption, TwoWaysAssumption DEF Called
<1> PICK n \in Nat \ {0} : DOMAIN g = 0 .. n - 1 /\ Cardinality(DOMAIN g) = n
  BY BodyDomain DEF GoodBody
<1> PICK m \in Nat \ {0} : DOMAIN inner = 0 .. m - 1 /\ Cardinality(DOMAIN inner) = m
  BY <1>1, BodyDomain
<1> PICK call : call = g[b].term
  OBVIOUS
<1>2. /\ IsTerm(call, 0 .. n - 1) /\ call.targets \in Seq(Nat) /\ Len(call.targets) = 2
      /\ \A k \in DOMAIN call.targets : call.targets[k] \in (0 .. n - 1) \ {ENTRY}
      /\ call.targets[1] \in (0 .. n + m) \ {ENTRY} /\ call.targets[1] \in Nat
  <2>1. IsBlock(g[b], 0 .. n - 1) /\ HasTwoWays(call)
    BY BlockOf DEF GoodBody
  <2>2. IsTerm(call, 0 .. n - 1)
    BY <2>1, BlockParts
  <2>3. call.targets \in Seq(Nat)
        /\ \A k \in DOMAIN call.targets : call.targets[k] \in (0 .. n - 1) \ {ENTRY}
    BY <2>2, TermParts
  <2>4. Len(call.targets) = 2 /\ 1 \in DOMAIN call.targets
    BY <2>1, <2>3 DEF HasTwoWays, TwoWays
  <2>5. QED
    BY <2>2, <2>3, <2>4
<1> DEFINE Live(i) == IF i = ENTRY THEN <<StorageLive>> \o inner[i].stmts ELSE inner[i].stmts
           At(c) == CASE c = b -> Block(g[b].stmts, Goto(n + 1))
                      [] c < n /\ c # b -> g[c]
                      [] c = n -> Block(<<ResultLabel>>, Goto(call.targets[1]))
                      [] c > n -> Block(Live(c - (n + 1)), Redirected(inner[c - (n + 1)].term, call, n))
<1> PICK ids : ids = 0 .. n + m
  OBVIOUS
<1>3. Inline(g, b) = [c \in ids |-> At(c)]
  BY DEF Inline
<1> HIDE DEF At
<1>4. ASSUME NEW c \in ids PROVE IsBlock(At(c), ids) /\ HasTwoWays(At(c).term)
  <2>0. b \in 0 .. n - 1 /\ c \in Nat
    OBVIOUS
  <2>1. CASE c = b
    <3>1. n + 1 \in ids \ {ENTRY} /\ n + 1 \in Nat
      BY DEF ENTRY
    <3> PICK t : t = Goto(n + 1)
      OBVIOUS
    <3>2. IsTerm(t, ids) /\ HasTwoWays(t)
      BY <3>1, GotoMade
    <3> PICK stmts : stmts = g[b].stmts
      OBVIOUS
    <3>3. stmts \in Seq(Labels)
      BY BlockOf, BlockParts DEF GoodBody
    <3>4. At(c) = Block(stmts, t)
      BY <2>1 DEF At
    <3>5. QED
      BY <3>2, <3>3, <3>4, BlockMade
  <2>2. CASE c < n /\ c # b
    <3>1. c \in DOMAIN g /\ At(c) = g[c]
      BY <2>0, <2>2 DEF At
    <3>2. IsBlock(g[c], 0 .. n - 1) /\ HasTwoWays(g[c].term)
      BY <3>1, BlockOf DEF GoodBody
    <3>3. 0 .. n - 1 \subseteq ids
      OBVIOUS
    <3>4. QED
      BY <3>1, <3>2, <3>3, BlockInMore
  <2>3. CASE c = n
    <3> PICK u : u = call.targets[1]
      OBVIOUS
    <3>1. u \in ids \ {ENTRY} /\ u \in Nat
      BY <1>2
    <3> PICK t : t = Goto(u)
      OBVIOUS
    <3>2. IsTerm(t, ids) /\ HasTwoWays(t)
      BY <3>1, GotoMade
    <3> PICK stmts : stmts = <<ResultLabel>>
      OBVIOUS
    <3>3. stmts \in Seq(Labels)
      BY LabelAssumption
    <3>4. At(c) = Block(stmts, t)
      BY <2>0, <2>3 DEF At
    <3>5. QED
      BY <3>2, <3>3, <3>4, BlockMade
  <2>4. CASE c > n
    <3> PICK i : i = c - (n + 1)
      OBVIOUS
    <3>1. i \in 0 .. m - 1 /\ i \in DOMAIN inner
      BY <2>0, <2>4
    <3> PICK t : t = Redirected(inner[i].term, call, n)
      OBVIOUS
    <3> PICK x : x = inner[i]
      OBVIOUS
    <3>2. IsBlock(x, 0 .. m - 1) /\ HasTwoWays(x.term)
      BY <1>1, <3>1, BlockOf
    <3>3. IsTerm(x.term, 0 .. m - 1) /\ x.stmts \in Seq(Labels)
      BY <3>2, BlockParts
    <3>4. IsTerm(t, ids) /\ HasTwoWays(t)
      <4> PICK s : s = x.term
        OBVIOUS
      <4>1. IsTerm(s, 0 .. m - 1) /\ HasTwoWays(s)
        BY <3>2, <3>3
      <4>2. IsTerm(Redirected(s, call, n), 0 .. n + m) /\ HasTwoWays(Redirected(s, call, n))
        BY <1>2, <4>1, RedirectedMade
      <4>3. QED
        BY <4>2
    <3> PICK stmts : stmts = Live(i)
      OBVIOUS
    <3>5. stmts \in Seq(Labels)
      <4>1. <<StorageLive>> \in Seq(Labels)
        BY LabelAssumption
      <4>2. <<StorageLive>> \o x.stmts \in Seq(Labels)
        BY <3>3, <4>1
      <4>3. QED
        BY <3>3, <4>2
    <3>6. At(c) = Block(stmts, t)
      BY <2>0, <2>4 DEF At
    <3>7. IsTerm(t, ids)
      BY <3>4
    <3>8. IsBlock(Block(stmts, t), ids) /\ Block(stmts, t).term = t
      BY <3>5, <3>7, BlockMade
    <3>9. QED
      BY <3>4, <3>6, <3>8
  <2>5. QED
    BY <2>0, <2>1, <2>2, <2>3, <2>4
<1> PICK made : made = Inline(g, b)
  OBVIOUS
<1> PICK size : size = n + m + 1
  OBVIOUS
<1>5. made = [c \in 0 .. size - 1 |-> made[c]] /\ size \in Nat \ {0} /\ 0 .. size - 1 = ids
  BY <1>3
<1>6. IsBody(made) /\ DOMAIN made = ids
  <2>1. \A c \in 0 .. size - 1 : IsBlock(made[c], 0 .. size - 1)
    BY <1>3, <1>4, <1>5
  <2>2. IsBody(made) /\ DOMAIN made = 0 .. size - 1
    BY <1>5, <2>1, BodyMade
  <2>3. QED
    BY <1>5, <2>2
<1>7. \A c \in DOMAIN made : HasTwoWays(made[c].term)
  BY <1>3, <1>4, <1>6
<1>8. DOMAIN g \subseteq ids
  OBVIOUS
<1>9. QED
  BY <1>6, <1>7, <1>8 DEF GoodBody

\* All calls, one after the other: a body stays one, and keeps its blocks.
LEMMA InlineStep ==
    ASSUME IsBody(body), AllTwoWays, InlineSelectedFunctions
    PROVE  IsBody(body') /\ AllTwoWays'
<1> DEFINE After(g, n) == IF g[n - 1].term.label \in DOMAIN ToInline THEN Inline(g, n - 1) ELSE g
           Inlined[n \in 0 .. Cardinality(BlockIds)] ==
               IF n = 0 THEN body ELSE After(Inlined[n - 1], n)
<1> PICK N \in Nat \ {0} : N = Cardinality(BlockIds) /\ BlockIds = 0 .. N - 1
  BY BodyDomain DEF BlockIds
<1>1. body' = Inlined[N]
  BY DEF InlineSelectedFunctions
\* The bodies that there may be on the way.
<1> PICK D : D = {g \in UNION {[0 .. m - 1 -> Blocks] : m \in Nat} : GoodBody(g) /\ BlockIds \subseteq DOMAIN g}
  OBVIOUS
<1>2. ASSUME NEW g, GoodBody(g), BlockIds \subseteq DOMAIN g PROVE g \in D
  <2>1. PICK m \in Nat \ {0} : DOMAIN g = 0 .. m - 1
    BY <1>2, BodyDomain DEF GoodBody
  <2>2. g \in [0 .. m - 1 -> Blocks]
    BY <1>2, <2>1 DEF GoodBody, IsBody, Blocks
  <2>3. QED
    BY <1>2, <2>2
<1>3. \A g \in D : GoodBody(g) /\ BlockIds \subseteq DOMAIN g
  OBVIOUS
<1>4. body \in D
  BY <1>2 DEF GoodBody, AllTwoWays, BlockIds
<1>5. ASSUME NEW n \in 1 .. N, NEW g \in D PROVE After(g, n) \in D
  <2>1. GoodBody(g) /\ BlockIds \subseteq DOMAIN g
    BY <1>3
  <2>4. n - 1 \in DOMAIN g
    <3>1. n - 1 \in 0 .. N - 1
      OBVIOUS
    <3>2. QED
      BY <2>1, <3>1
  <2>2. CASE g[n - 1].term.label \in DOMAIN ToInline
    <3>1. GoodBody(Inline(g, n - 1)) /\ DOMAIN g \subseteq DOMAIN Inline(g, n - 1)
      BY <2>1, <2>2, <2>4, InlineMade
    <3>2. Inline(g, n - 1) \in D
      BY <1>2, <2>1, <3>1
    <3>3. QED
      BY <2>2, <3>2
  <2>3. QED
    BY <2>2
<1> HIDE DEF After, Inlined
<1> PICK step : step = [p \in (1 .. N) \X D |-> After(p[2], p[1])]
  OBVIOUS
<1>6. step \in [(1 .. N) \X D -> D] /\ \A n \in 1 .. N : \A g \in D : step[<<n, g>>] = After(g, n)
  BY <1>5
<1>7. PICK f : Recursion(f, D, body, step, N)
  BY <1>4, <1>6, RecursionExists
<1>8. /\ f \in [0 .. N -> D] /\ f[0] = body
      /\ \A n \in 1 .. N : f[n] = After(f[n - 1], n)
  <2>1. /\ f \in [0 .. N -> D] /\ f[0] = body
        /\ \A n \in 1 .. N : f[n] = step[<<n, f[n - 1]>>]
    BY <1>7 DEF Recursion
  <2>2. \A n \in 1 .. N : f[n - 1] \in D
    BY <2>1
  <2>3. QED
    BY <1>6, <2>1, <2>2
<1>9. Inlined = [n \in 0 .. N |-> IF n = 0 THEN body ELSE After(Inlined[n - 1], n)]
  <2>1. f = [n \in 0 .. N |-> IF n = 0 THEN body ELSE After(f[n - 1], n)]
    BY <1>8
  <2>2. QED
    BY <2>1 DEF Inlined
<1>10. \A n \in 0 .. N : Inlined[n] \in D
  <2>1. \A n \in 0 .. N : Inlined[n] = IF n = 0 THEN body ELSE After(Inlined[n - 1], n)
    BY <1>9
  <2>2. Inlined[0] \in D
    BY <1>4, <2>1
  <2>3. ASSUME NEW n \in Nat, n <= N => Inlined[n] \in D, n + 1 <= N PROVE Inlined[n + 1] \in D
    <3>1. n + 1 \in 1 .. N /\ n + 1 \in 0 .. N /\ n + 1 # 0 /\ (n + 1) - 1 = n
      BY <2>3
    <3>2. Inlined[n] \in D
      BY <2>3, <3>1
    <3>3. Inlined[n + 1] = After(Inlined[n], n + 1)
      BY <2>1, <3>1
    <3>4. QED
      BY <1>5, <3>1, <3>2, <3>3
  <2> DEFINE IsGood(n) == n <= N => Inlined[n] \in D
  <2>4. IsGood(0)
    BY <2>2
  <2>5. \A n \in Nat : IsGood(n) => IsGood(n + 1)
    BY <2>3
  <2> HIDE DEF IsGood
  <2> PICK T : T = {n \in Nat : IsGood(n)}
    OBVIOUS
  <2>6. T = Nat
    <3>1. T \subseteq Nat
      OBVIOUS
    <3>2. 0 \in T
      BY <2>4
    <3>3. \A n \in T : n + 1 \in T
      BY <2>5
    <3>4. QED
      BY <3>1, <3>2, <3>3, AllNumbers
  <2>7. \A n \in 0 .. N : IsGood(n)
    BY <2>6
  <2>8. QED
    BY <2>7 DEF IsGood
<1>11. GoodBody(body')
  <2>1. N \in 0 .. N
    OBVIOUS
  <2>2. QED
    BY <1>1, <1>3, <1>10, <2>1
<1>12. QED
  BY <1>11 DEF GoodBody, AllTwoWays, BlockIds

-----------------------------------------------------------------------------
(* Calls and branchings in merge_goto_chains *)

\* A merge takes a terminator to another block, and a skip changes a target.
LEMMA MergingTwoWays == ASSUME IInv, AllTwoWays, [Next]_vars PROVE AllTwoWays'
<1>1. IsBody(body)
  BY DEF IInv, TypeOK
<1>2. CASE MergeTarget
  <2> PICK t : t = Targets(id)[1]
    OBVIOUS
  <2>1. /\ id \in BlockIds /\ t \in BlockIds /\ DOMAIN body' = BlockIds
        /\ body'[id].term = body[t].term /\ body'[t] = Unreachable
        /\ \A b \in BlockIds \ {id, t} : body'[b] = body[b]
    BY <1>2, MergeStep
  <2>2. HasTwoWays(Unreachable.term)
    <3>1. Unreachable = [stmts |-> <<>>, term |-> Other("unreachable", <<>>)]
      BY DEF Unreachable, Block
    <3>2. Unreachable.term = Other("unreachable", <<>>)
      BY <3>1
    <3>3. Other("unreachable", <<>>).label = "unreachable"
      BY DEF Other
    <3>4. QED
      BY <3>2, <3>3, TwoWaysAssumption DEF HasTwoWays
  <2>3. QED
    BY <2>1, <2>2 DEF AllTwoWays, BlockIds
<1>3. CASE SkipGoto
  <2> PICK u : u = Targets(Targets(block)[target])[1]
    OBVIOUS
  <2>1. body' = [body EXCEPT ![block].term.targets[target] = u] /\ block \in BlockIds
        /\ target \in DOMAIN Targets(block)
    BY <1>3 DEF SkipGoto, CanSkip, IInv, TypeOK
  <2>2. IsBlock(body[block], BlockIds) /\ HasTwoWays(body[block].term)
    BY <1>1, <2>1, BlockOf DEF BlockIds, AllTwoWays
  <2> PICK x : x = body[block]
    OBVIOUS
  <2>3. /\ x = [stmts |-> x.stmts, term |-> x.term]
        /\ x.term = [goto |-> x.term.goto, label |-> x.term.label, targets |-> x.term.targets]
        /\ x.term.targets \in Seq(Nat)
    BY <2>2, BlockParts, TermParts
  <2> PICK y : y = [x EXCEPT !.term.targets[target] = u]
    OBVIOUS
  <2>4. /\ y.term.label = x.term.label /\ y.term.goto = x.term.goto
        /\ y.term.targets = [x.term.targets EXCEPT ![target] = u]
    BY <2>3
  <2>5. Len(y.term.targets) = Len(x.term.targets)
    BY <2>3, <2>4
  <2>6. HasTwoWays(y.term)
    BY <2>2, <2>4, <2>5 DEF HasTwoWays
  <2>7. DOMAIN body' = BlockIds /\ \A b \in BlockIds : body'[b] = IF b = block THEN y ELSE body[b]
    BY <1>1, <2>1 DEF IsBody, BlockIds
  <2>8. QED
    BY <2>6, <2>7 DEF AllTwoWays, BlockIds
<1>4. CASE UNCHANGED body
  BY <1>4 DEF AllTwoWays, BlockIds
<1>5. QED
  BY <1>2, <1>3, <1>4 DEF Next, vars, ComputeAntecedents, ClimbUp, StartMerging, NextBlock,
                          NextTarget, NextSkip

-----------------------------------------------------------------------------
(* Gotos that are skipped *)

\* Gotos that lead to each other, and nowhere else.
Cycle(Z) == Z \subseteq BlockIds /\ \A z \in Z : IsTrivialGoto(z) /\ Targets(z)[1] \in Z

\* The jumps that the loop has gone through do not lead to a trivial goto, but
\* for those in Z.
PastTo(Z) == \A b \in BlockIds : \A k \in DOMAIN Targets(b) :
               (b < block \/ (b = block /\ k < target)) /\ IsTrivialGoto(Targets(b)[k])
                 => Targets(b)[k] \in Z

\* No jump leads to a trivial goto that does not go round in a cycle of them.
Compact == \E Z : /\ Cycle(Z)
                  /\ \A b \in BlockIds : \A k \in DOMAIN Targets(b) :
                       IsTrivialGoto(Targets(b)[k]) => Targets(b)[k] \in Z

\* What a jump was followed through are trivial gotos that lead to each other, and
\* the last one to where the jump leads now.
Followed == \A v \in visited \ {block} :
              /\ target \in DOMAIN Targets(block)
              /\ IsTrivialGoto(v)
              /\ Targets(v)[1] \in (visited \ {block}) \union {Targets(block)[target]}

SkipInv == /\ pc = "skip" => target >= 1 /\ block \in visited /\ Followed /\ \E Z : Cycle(Z) /\ PastTo(Z)
           /\ pc = "done" => Compact

\* What skipping a goto does.
LEMMA SkipStep ==
    ASSUME IInv, SkipGoto,
           NEW t, t = Targets(block)[target], NEW u, u = Targets(t)[1]
    PROVE  /\ pc = "skip" /\ target \in DOMAIN Targets(block)
           /\ t \in BlockIds /\ t \notin visited /\ IsTrivialGoto(t)
           /\ u \in BlockIds /\ block \in BlockIds /\ BlockIds' = BlockIds
           /\ \A b \in BlockIds : body'[b].stmts = body[b].stmts /\ body'[b].term.goto = body[b].term.goto
           /\ \A b \in BlockIds \ {block} : body'[b] = body[b]
           /\ body'[block].term.targets = [Targets(block) EXCEPT ![target] = u]
           /\ visited' = visited \union {t} /\ UNCHANGED <<pc, block, target>>
<1>1. /\ pc = "skip" /\ target \in DOMAIN Targets(block) /\ t \notin visited /\ IsTrivialGoto(t)
      /\ body' = [body EXCEPT ![block].term.targets[target] = u]
      /\ visited' = visited \union {t} /\ UNCHANGED <<pc, block, target>>
  BY DEF SkipGoto, CanSkip
<1>2. IsBody(body) /\ block \in BlockIds
  BY DEF IInv, TypeOK
<1>3. IsBlock(body[block], BlockIds)
  BY <1>2, BlockOf DEF BlockIds
<1>4. t \in BlockIds
  BY <1>1, <1>3 DEF IsBlock, Targets
<1>5. u \in BlockIds
  BY <1>1, <1>2, <1>4, BlockOf, GotoTarget DEF BlockIds, IsTrivialGoto, Targets
<1> PICK x : x = body[block]
  OBVIOUS
<1>6. /\ x = [stmts |-> x.stmts, term |-> x.term]
      /\ x.term = [goto |-> x.term.goto, label |-> x.term.label, targets |-> x.term.targets]
  BY <1>3, BlockParts, TermParts
<1> PICK y : y = [x EXCEPT !.term.targets[target] = u]
  OBVIOUS
<1>7. /\ y.stmts = x.stmts /\ y.term.goto = x.term.goto
      /\ y.term.targets = [x.term.targets EXCEPT ![target] = u]
  BY <1>6
<1>8. DOMAIN body' = BlockIds /\ \A b \in BlockIds : body'[b] = IF b = block THEN y ELSE body[b]
  BY <1>1, <1>2 DEF IsBody, BlockIds
<1>9. \A b \in BlockIds : body'[b].stmts = body[b].stmts /\ body'[b].term.goto = body[b].term.goto
  BY <1>7, <1>8
<1>10. body'[block].term.targets = [Targets(block) EXCEPT ![target] = u]
  BY <1>2, <1>7, <1>8 DEF Targets
<1>11. QED
  BY <1>1, <1>2, <1>4, <1>5, <1>8, <1>9, <1>10 DEF BlockIds

LEMMA SkipGotoCompact == ASSUME IInv, SkipInv, SkipGoto PROVE SkipInv'
<1> PICK t : t = Targets(block)[target]
  OBVIOUS
<1> PICK u : u = Targets(t)[1]
  OBVIOUS
<1>1. /\ pc = "skip" /\ target \in DOMAIN Targets(block)
      /\ t \in BlockIds /\ t \notin visited /\ IsTrivialGoto(t)
      /\ u \in BlockIds /\ block \in BlockIds /\ BlockIds' = BlockIds
      /\ \A b \in BlockIds : body'[b].stmts = body[b].stmts /\ body'[b].term.goto = body[b].term.goto
      /\ \A b \in BlockIds \ {block} : body'[b] = body[b]
      /\ body'[block].term.targets = [Targets(block) EXCEPT ![target] = u]
      /\ visited' = visited \union {t} /\ UNCHANGED <<pc, block, target>>
  BY SkipStep
<1>2. IsBody(body) /\ block \in BlockIds /\ visited \subseteq BlockIds /\ target \in Nat
  BY DEF IInv, TypeOK
<1>3. /\ \A b \in BlockIds : IsTrivialGoto(b)' <=> IsTrivialGoto(b)
      /\ \A b \in BlockIds \ {block} : Targets(b)' = Targets(b)
      /\ Targets(block)' = [Targets(block) EXCEPT ![target] = u]
  BY <1>1 DEF IsTrivialGoto, Targets
<1>4. DOMAIN Targets(block)' = DOMAIN Targets(block) /\ Targets(block)'[target] = u
  BY <1>1, <1>3
<1>5. Followed'
  <2> SUFFICES ASSUME NEW v \in visited' \ {block}
               PROVE  /\ target \in DOMAIN Targets(block)' /\ IsTrivialGoto(v)'
                      /\ Targets(v)'[1] \in (visited' \ {block}) \union {Targets(block)'[target]}
    BY <1>1 DEF Followed
  <2>1. CASE v = t
    <3>1. v # block /\ v \in BlockIds
      BY <1>1, <2>1
    <3>2. QED
      BY <1>1, <1>3, <1>4, <2>1, <3>1
  <2>2. CASE v # t
    <3>1. v \in visited \ {block} /\ v \in BlockIds
      BY <1>1, <1>2, <2>2
    <3>2. IsTrivialGoto(v) /\ Targets(v)[1] \in (visited \ {block}) \union {t}
      BY <1>1, <3>1 DEF SkipInv, Followed
    <3>3. t # block
      BY <1>1 DEF SkipInv
    <3>4. QED
      BY <1>1, <1>3, <1>4, <3>1, <3>2, <3>3
  <2>3. QED
    BY <2>1, <2>2
<1>6. PICK Z : Cycle(Z) /\ PastTo(Z)
  BY <1>1 DEF SkipInv
<1>7. Cycle(Z)'
  <2>1. ASSUME NEW z \in Z PROVE IsTrivialGoto(z)' /\ Targets(z)'[1] \in Z
    <3>1. z \in BlockIds /\ IsTrivialGoto(z) /\ Targets(z)[1] \in Z
      BY <1>6 DEF Cycle
    <3>2. CASE z = block
      <4>1. DOMAIN Targets(block) = {1}
        BY <1>2, <3>1, <3>2, BlockOf, GotoTarget DEF BlockIds, IsTrivialGoto, Targets
      <4>2. target = 1 /\ t \in Z
        BY <1>1, <3>1, <3>2, <4>1
      <4>3. u \in Z
        BY <1>6, <4>2 DEF Cycle
      <4>4. IsTrivialGoto(block)' /\ Targets(block)'[1] \in Z
        BY <1>1, <1>3, <1>4, <3>1, <3>2, <4>2, <4>3
      <4>5. QED
        BY <1>1, <3>2, <4>4 DEF IsTrivialGoto, Targets
    <3>3. QED
      BY <1>3, <3>1, <3>2
  <2>2. QED
    BY <1>1, <1>6, <2>1 DEF Cycle
<1>8. PastTo(Z)'
  <2> SUFFICES ASSUME NEW b \in BlockIds, NEW k \in DOMAIN Targets(b)',
                      b < block \/ (b = block /\ k < target), (IsTrivialGoto(Targets(b)[k]))'
               PROVE  Targets(b)'[k] \in Z
    BY <1>1 DEF PastTo
  <2>1. k \in DOMAIN Targets(b) /\ Targets(b)'[k] = Targets(b)[k]
    <3>1. CASE b # block
      BY <1>3, <3>1
    <3>2. CASE b = block
      <4>1. body[block].term.targets \in Seq(Nat)
        BY <1>2, BlockOf DEF BlockIds, IsBlock, Blocks, Terminators
      <4>2. k \in DOMAIN Targets(block)
        BY <1>1, <1>4, <3>2 DEF Targets
      <4>3. k \in Nat /\ k # target
        <5>1. block \in Nat
          BY <1>2 DEF IsBody, BlockIds
        <5>2. k < target
          BY <3>2, <5>1
        <5>3. QED
          BY <1>2, <4>1, <4>2, <5>2 DEF Targets
      <4>4. Targets(block)'[k] = Targets(block)[k]
        BY <1>3, <4>2, <4>3
      <4>5. QED
        BY <1>1, <3>2, <4>2, <4>4 DEF Targets
    <3>3. QED
      BY <3>1, <3>2
  <2>2. Targets(b)[k] \in BlockIds
    BY <1>2, <2>1, BlockOf DEF BlockIds, IsBlock, Targets
  <2> PICK c : c = Targets(b)[k]
    OBVIOUS
  <2>3. IsTrivialGoto(c)' /\ (IsTrivialGoto(c)' <=> IsTrivialGoto(c))
    BY <1>3, <2>1, <2>2
  <2>4. QED
    BY <1>6, <2>1, <2>3 DEF PastTo
<1>9. QED
  BY <1>1, <1>5, <1>7, <1>8 DEF SkipInv

LEMMA NextTargetCompact == ASSUME IInv, SkipInv, NextTarget PROVE SkipInv'
<1> PICK t : t = Targets(block)[target]
  OBVIOUS
<1>1. /\ pc = "skip" /\ target \in DOMAIN Targets(block)
      /\ ~(IsTrivialGoto(t) /\ t \notin visited)
      /\ target' = target + 1 /\ visited' = {block} /\ UNCHANGED <<body, pc, block>>
  BY DEF NextTarget, CanSkip
<1>2. /\ IsBody(body) /\ block \in BlockIds /\ visited \subseteq BlockIds /\ target \in Nat
      /\ IsBlock(body[block], BlockIds)
  BY BlockOf DEF IInv, TypeOK, BlockIds
<1>3. PICK Z : Cycle(Z) /\ PastTo(Z)
  BY <1>1 DEF SkipInv
<1>4. Followed'
  BY <1>1 DEF Followed
<1>5. \E Y : Cycle(Y) /\ Z \subseteq Y /\ (IsTrivialGoto(t) => t \in Y)
  <2>1. CASE ~IsTrivialGoto(t)
    BY <1>3, <2>1
  <2>2. CASE IsTrivialGoto(t)
    <3> PICK Y : Y = Z \union (visited \ {block}) \union {t}
      OBVIOUS
    <3>1. t \in visited
      BY <1>1, <2>2
    <3>2. ASSUME NEW z \in Z PROVE IsTrivialGoto(z) /\ Targets(z)[1] \in Y
      BY <1>3 DEF Cycle
    <3>3. ASSUME NEW v \in visited \ {block} PROVE IsTrivialGoto(v) /\ Targets(v)[1] \in Y
      BY <1>1 DEF SkipInv, Followed
    <3>4. Targets(t)[1] \in Y
      <4>1. CASE t # block
        BY <3>1, <3>3, <4>1
      <4>2. CASE t = block
        <5>1. DOMAIN Targets(block) = {1}
          BY <1>2, <2>2, <4>2, GotoTarget DEF IsTrivialGoto, Targets
        <5>2. QED
          BY <1>1, <4>2, <5>1
      <4>3. QED
        BY <4>1, <4>2
    <3>5. Y \subseteq BlockIds
      BY <1>2, <1>3, <3>1 DEF Cycle
    <3>6. Cycle(Y)
      BY <2>2, <3>2, <3>3, <3>4, <3>5 DEF Cycle
    <3>7. QED
      BY <3>6
  <2>3. QED
    BY <2>1, <2>2
<1>6. PICK Y : Cycle(Y) /\ Z \subseteq Y /\ (IsTrivialGoto(t) => t \in Y)
  BY <1>5
<1>7. ASSUME NEW b \in BlockIds, NEW k \in DOMAIN Targets(b),
             b < block \/ (b = block /\ k < target + 1), IsTrivialGoto(Targets(b)[k])
      PROVE  Targets(b)[k] \in Y
  <2>1. CASE b = block /\ k = target
    BY <1>6, <1>7, <2>1
  <2>2. CASE ~(b = block /\ k = target)
    <3>1. Targets(b) \in Seq(Nat)
      BY <1>2, BlockOf DEF BlockIds, IsBlock, Blocks, Terminators, Targets
    <3>2. k \in Nat
      BY <3>1
    <3>3. b < block \/ (b = block /\ k < target)
      BY <1>2, <1>7, <2>2, <3>2
    <3>4. QED
      BY <1>3, <1>6, <1>7, <3>3 DEF PastTo
  <2>3. QED
    BY <2>1, <2>2
<1>8. (Cycle(Y) /\ PastTo(Y))'
  BY <1>1, <1>6, <1>7 DEF Cycle, PastTo, IsTrivialGoto, Targets, BlockIds
<1>9. target' >= 1
  BY <1>1, <1>2
<1>10. QED
  BY <1>1, <1>4, <1>8, <1>9 DEF SkipInv

LEMMA NextSkipCompact == ASSUME IInv, SkipInv, NextSkip PROVE SkipInv'
<1>1. /\ pc = "skip" /\ target \notin DOMAIN Targets(block) /\ UNCHANGED body
  BY DEF NextSkip
<1>2. /\ IsBody(body) /\ block \in BlockIds /\ target \in Nat /\ BlockIds \subseteq Nat
      /\ target >= 1
  BY <1>1 DEF IInv, TypeOK, IsBody, BlockIds, SkipInv
<1>3. PICK Z : Cycle(Z) /\ PastTo(Z)
  BY <1>1 DEF SkipInv
<1>4. ASSUME NEW b \in BlockIds, b <= block, NEW k \in DOMAIN Targets(b), IsTrivialGoto(Targets(b)[k])
      PROVE  Targets(b)[k] \in Z
  <2>1. CASE b = block
    <3>1. Targets(block) \in Seq(Nat)
      BY <1>2, BlockOf DEF BlockIds, IsBlock, Blocks, Terminators, Targets
    <3>2. k < target
      BY <1>1, <1>2, <2>1, <3>1
    <3>3. QED
      BY <1>3, <1>4, <2>1, <3>2 DEF PastTo
  <2>2. CASE b # block
    <3>1. b < block
      BY <1>2, <1>4, <2>2
    <3>2. QED
      BY <1>3, <1>4, <3>1 DEF PastTo
  <2>3. QED
    BY <2>1, <2>2
<1>5. CASE block + 1 \in BlockIds
  <2>1. pc' = "skip" /\ block' = block + 1 /\ target' = 1 /\ visited' = {block + 1}
    BY <1>1, <1>5 DEF NextSkip
  <2>2. \A b \in BlockIds : \A k \in DOMAIN Targets(b) : b < block + 1 => b <= block
    BY <1>2
  <2>3. \A b \in BlockIds : \A k \in DOMAIN Targets(b) : ~(k < 1)
    <3> TAKE b \in BlockIds
    <3>1. Targets(b) \in Seq(Nat)
      BY <1>2, BlockOf DEF BlockIds, IsBlock, Blocks, Terminators, Targets
    <3>2. QED
      BY <3>1
  <2>4. ASSUME NEW b \in BlockIds, NEW k \in DOMAIN Targets(b),
               b < block + 1 \/ (b = block + 1 /\ k < 1), IsTrivialGoto(Targets(b)[k])
        PROVE  Targets(b)[k] \in Z
    BY <1>4, <2>2, <2>3, <2>4
  <2>5. (Cycle(Z) /\ PastTo(Z))'
    BY <1>1, <1>3, <2>1, <2>4 DEF Cycle, PastTo, IsTrivialGoto, Targets, BlockIds
  <2>6. QED
    BY <2>1, <2>5 DEF SkipInv, Followed
<1>6. CASE block + 1 \notin BlockIds
  <2>1. pc' = "done"
    BY <1>1, <1>6 DEF NextSkip
  <2>2. \A b \in BlockIds : b <= block
    BY <1>2, <1>6, LastBlock
  <2>3. Compact
    BY <1>3, <1>4, <2>2 DEF Compact
  <2>4. Compact'
    <3>1. PICK Y : /\ Cycle(Y)
                   /\ \A b \in BlockIds : \A k \in DOMAIN Targets(b) :
                        IsTrivialGoto(Targets(b)[k]) => Targets(b)[k] \in Y
      BY <2>3 DEF Compact
    <3>2. Cycle(Y)'
      BY <1>1, <3>1 DEF Cycle, IsTrivialGoto, Targets, BlockIds
    <3>3. (\A b \in BlockIds : \A k \in DOMAIN Targets(b) :
             IsTrivialGoto(Targets(b)[k]) => Targets(b)[k] \in Y)'
      BY <1>1, <3>1 DEF IsTrivialGoto, Targets, BlockIds
    <3>4. QED
      BY <3>2, <3>3 DEF Compact
  <2>5. QED
    BY <2>1, <2>4 DEF SkipInv
<1>7. QED
  BY <1>5, <1>6

\* Before the second loop there is nothing to say.
LEMMA NextCompact == IInv /\ SkipInv /\ [Next]_vars => SkipInv'
<1> SUFFICES ASSUME IInv, SkipInv, [Next]_vars PROVE SkipInv'
  OBVIOUS
<1>1. CASE ComputeAntecedents \/ ClimbUp \/ StartMerging \/ MergeTarget
  <2>1. pc' \notin {"skip", "done"}
    BY <1>1 DEF ComputeAntecedents, ClimbUp, StartMerging, MergeTarget
  <2>2. QED
    BY <2>1 DEF SkipInv
<1>2. CASE NextBlock
  <2>1. CASE pc' = "climb"
    BY <2>1 DEF SkipInv
  <2>2. CASE pc' # "climb"
    <3>1. pc' = "skip" /\ block' = 0 /\ target' = 1 /\ visited' = {0} /\ UNCHANGED body
      BY <1>2, <2>2 DEF NextBlock, ENTRY
    <3>2. IsBody(body) /\ BlockIds \subseteq Nat
      BY DEF IInv, TypeOK, IsBody, BlockIds
    <3>3. ASSUME NEW b \in BlockIds, NEW k \in DOMAIN Targets(b)
          PROVE  ~(b < 0 \/ (b = 0 /\ k < 1))
      <4>1. Targets(b) \in Seq(Nat)
        BY <3>2, BlockOf DEF BlockIds, IsBlock, Blocks, Terminators, Targets
      <4>2. QED
        BY <3>2, <4>1
    <3>4. (Cycle({}) /\ PastTo({}))'
      BY <3>1, <3>3 DEF Cycle, PastTo, Targets, BlockIds
    <3>5. QED
      BY <3>1, <3>4 DEF SkipInv, Followed
  <2>3. QED
    BY <2>1, <2>2
<1>3. CASE UNCHANGED vars
  BY <1>3 DEF vars, SkipInv, Followed, Compact, Cycle, PastTo, IsTrivialGoto, Targets, BlockIds
<1>4. QED
  BY <1>1, <1>2, <1>3, SkipGotoCompact, NextTargetCompact, NextSkipCompact DEF Next

-----------------------------------------------------------------------------
(* Blocks that are explored *)

\* Blocks that the first one is among, and that lead only to each other.
Closed(S) == /\ S \subseteq BlockIds /\ ENTRY \in S
             /\ \A b \in S : \A k \in DOMAIN Targets(b) : Targets(b)[k] \in S

\* The search explores the least such set: the blocks that can be reached.
LEMMA ExploredFacts ==
    IsBody(body) => Closed(Explored) /\ \A S : Closed(S) => Explored \subseteq S
<1> SUFFICES ASSUME IsBody(body)
             PROVE  Closed(Explored) /\ \A S : Closed(S) => Explored \subseteq S
  OBVIOUS
<1> DEFINE More(S) == UNION {ToSet(Targets(b)) : b \in S}
           Within[n \in Nat] == IF n = 0 THEN {ENTRY} ELSE Within[n - 1] \union More(Within[n - 1])
<1>1. Explored = Within[Cardinality(BlockIds)]
  BY DEF Explored, Size
<1>2. /\ \A b \in BlockIds : ToSet(Targets(b)) \in SUBSET BlockIds
      /\ IsFiniteSet(BlockIds) /\ ENTRY \in BlockIds
  <2>1. ASSUME NEW b \in BlockIds PROVE ToSet(Targets(b)) \in SUBSET BlockIds
    BY BlockOf DEF BlockIds, IsBlock, Targets, ToSet
  <2>2. QED
    BY <2>1 DEF IsBody, BlockIds
<1>3. /\ \A S \in SUBSET BlockIds : More(S) \in SUBSET BlockIds
      /\ \A S, T \in SUBSET BlockIds : S \subseteq T => More(S) \subseteq More(T)
  BY <1>2
<1>4. \A S : More(S) \subseteq S <=> \A b \in S : \A k \in DOMAIN Targets(b) : Targets(b)[k] \in S
  BY DEF ToSet
<1> PICK more : more = [S \in SUBSET BlockIds |-> More(S)]
  OBVIOUS
<1> PICK a : a = {ENTRY}
  OBVIOUS
<1> HIDE DEF More, Within
<1>5. Growing(a, more, BlockIds)
  <2>1. a \in SUBSET BlockIds
    BY <1>2
  <2>2. more \in [SUBSET BlockIds -> SUBSET BlockIds]
    BY <1>3
  <2>3. \A S, T \in SUBSET BlockIds : S \subseteq T => more[S] \subseteq more[T]
    BY <1>3
  <2>4. QED
    BY <1>2, <2>1, <2>2, <2>3 DEF Growing, Monotone
<1>6. Within = [n \in Nat |-> IF n = 0 THEN {ENTRY} ELSE Within[n - 1] \union More(Within[n - 1])]
  <2>0. PICK f : Growth(f, a, more, BlockIds)
    BY <1>5, GrowthExists
  <2>1. /\ f \in [Nat -> SUBSET BlockIds] /\ f[0] = a
        /\ \A n \in Nat : n # 0 => f[n] = f[n - 1] \union more[f[n - 1]]
    BY <2>0 DEF Growth
  <2>2. ASSUME NEW n \in Nat, n # 0 PROVE f[n] = f[n - 1] \union More(f[n - 1])
    <3>1. n - 1 \in Nat
      BY <2>2
    <3>2. QED
      BY <2>1, <2>2, <3>1
  <2>3. f = [n \in Nat |-> IF n = 0 THEN {ENTRY} ELSE f[n - 1] \union More(f[n - 1])]
    BY <2>1, <2>2
  <2>4. QED
    BY <2>3 DEF Within
<1>7. LeastClosed(Within[Cardinality(BlockIds)], a, more, BlockIds)
  <2>1. Within = [n \in Nat |-> Within[n]] /\ Within[0] = a
    BY <1>6
  <2>2. \A n \in Nat : n # 0 => Within[n] = Within[n - 1] \union More(Within[n - 1])
    BY <1>6
  <2>3. ASSUME NEW n \in Nat, n # 0, Within[n - 1] \in SUBSET BlockIds
        PROVE  Within[n] = Within[n - 1] \union more[Within[n - 1]]
    BY <2>2, <2>3
  <2>4. GrowsSo(Within, a, more, BlockIds)
    BY <2>1, <2>3 DEF GrowsSo
  <2>5. QED
    BY <1>5, <2>4, GrowthIsLeast
<1>8. \A S \in SUBSET BlockIds : more[S] = More(S)
  OBVIOUS
<1> PICK E : E = Explored
  OBVIOUS
<1>9. /\ E \subseteq BlockIds /\ a \subseteq E /\ more[E] \subseteq E
      /\ \A S \in SUBSET BlockIds : a \subseteq S /\ more[S] \subseteq S => E \subseteq S
  BY <1>1, <1>7 DEF LeastClosed
<1>10. Closed(E)
  <2>1. More(E) \subseteq E
    BY <1>8, <1>9
  <2>2. QED
    BY <1>4, <1>9, <2>1 DEF Closed
<1>11. ASSUME NEW S, Closed(S) PROVE E \subseteq S
  <2>1. S \in SUBSET BlockIds /\ a \subseteq S
    BY <1>11 DEF Closed
  <2>2. More(S) \subseteq S
    BY <1>4, <1>11 DEF Closed
  <2>3. QED
    BY <1>8, <1>9, <2>1, <2>2
<1>12. QED
  BY <1>10, <1>11

Less == {p \in Nat \X Nat : p[1] < p[2]}

\* The blocks that are explored are numbered anew, in their order.
LEMMA NewIds ==
    ASSUME IsBody(body), NEW n, n = Cardinality(Explored)
    PROVE  /\ n \in Nat \ {0}
           /\ \A b \in Explored : NewId(b) \in 0 .. n - 1
           /\ \A b, c \in Explored : NewId(b) = NewId(c) => b = c
           /\ NewId(ENTRY) = ENTRY
           /\ \A b \in Explored : OldId(NewId(b)) = b
           /\ \A i \in 0 .. n - 1 : OldId(i) \in Explored /\ NewId(OldId(i)) = i
<1> PICK E : E = Explored
  OBVIOUS
<1>1. E \subseteq BlockIds /\ ENTRY \in E /\ BlockIds \subseteq Nat /\ IsFiniteSet(BlockIds)
  BY ExploredFacts DEF Closed, IsBody, BlockIds
<1>2. E \subseteq Nat /\ IsFiniteSet(E)
  BY <1>1, FS_Subset
<1> PICK R : R = Less
  OBVIOUS
<1>3. \A b, c \in E : <<b, c>> \in R <=> b < c
  BY <1>2 DEF Less
<1>4. OrdersAll(R, E)
  <2>1. \A x \in E : <<x, x>> \notin R
    BY <1>2, <1>3
  <2>2. \A x, y, z \in E : <<x, y>> \in R /\ <<y, z>> \in R => <<x, z>> \in R
    BY <1>2, <1>3
  <2>3. \A x, y \in E : x # y => <<x, y>> \in R \/ <<y, x>> \in R
    BY <1>2, <1>3
  <2>4. QED
    BY <2>1, <2>2, <2>3 DEF OrdersAll
<1>5. \A b \in E : NewId(b) = RankIn(R, E, b)
  <2> TAKE b \in E
  <2>1. {c \in E : c < b} = {c \in E : <<c, b>> \in R}
    BY <1>3
  <2>2. QED
    BY <2>1 DEF NewId, RankIn
<1>6. /\ Cardinality(E) \in Nat
      /\ \A x \in E : RankIn(R, E, x) \in 0 .. Cardinality(E) - 1
      /\ \A x, y \in E : RankIn(R, E, x) = RankIn(R, E, y) => x = y
      /\ \A k \in 0 .. Cardinality(E) - 1 : \E x \in E : RankIn(R, E, x) = k
  <2>1. IsFiniteSet(E)
    BY <1>2
  <2>2. /\ Cardinality(E) \in Nat
        /\ \A x \in E : RankIn(R, E, x) \in 0 .. Cardinality(E) - 1
        /\ \A x, y \in E : RankIn(R, E, x) = RankIn(R, E, y) => x = y
    BY <2>1, <1>4, RanksIn
  <2>3. ASSUME NEW k \in 0 .. Cardinality(E) - 1 PROVE \E x \in E : RankIn(R, E, x) = k
    BY <2>1, <1>4, RanksIn
  <2>4. QED
    BY <2>2, <2>3
<1>7. n = Cardinality(E)
  OBVIOUS
<1>8. /\ n \in Nat
      /\ \A b \in E : NewId(b) \in 0 .. n - 1
      /\ \A b, c \in E : NewId(b) = NewId(c) => b = c
      /\ \A i \in 0 .. n - 1 : \E b \in E : NewId(b) = i
  BY <1>5, <1>6, <1>7
<1>9. NewId(ENTRY) = ENTRY
  <2>1. \A c \in E : ~(c < 0)
    BY <1>2
  <2>2. {c \in E : c < 0} = {}
    BY <2>1
  <2>3. QED
    BY <2>2, FS_EmptySet DEF NewId, ENTRY
<1>10. n # 0
  <2>1. 0 \in 0 .. n - 1
    BY <1>1, <1>8, <1>9 DEF ENTRY
  <2>2. QED
    BY <1>8, <2>1
<1>11. \A i \in 0 .. n - 1 : OldId(i) \in E /\ NewId(OldId(i)) = i
  BY <1>8 DEF OldId
<1>12. \A b \in E : OldId(NewId(b)) = b
  BY <1>8, <1>11
<1>13. QED
  BY <1>8, <1>9, <1>10, <1>11, <1>12

\* What filtering leaves: the explored blocks, with their jumps.
LEMMA FilteredBlocks ==
    ASSUME IsBody(body), FilterUnreachable, NEW n, n = Cardinality(Explored)
    PROVE  /\ DOMAIN body' = 0 .. n - 1
           /\ IsBody(body')
           /\ \A b \in Explored :
                 /\ body'[NewId(b)].stmts = body[b].stmts
                 /\ body'[NewId(b)].term.goto = body[b].term.goto
                 /\ DOMAIN body'[NewId(b)].term.targets = DOMAIN Targets(b)
                 /\ \A k \in DOMAIN Targets(b) : body'[NewId(b)].term.targets[k] = NewId(Targets(b)[k])
<1> PICK E : E = Explored
  OBVIOUS
<1>1. /\ n \in Nat \ {0}
      /\ \A b \in E : NewId(b) \in 0 .. n - 1
      /\ \A b, c \in E : NewId(b) = NewId(c) => b = c
      /\ NewId(ENTRY) = ENTRY
      /\ \A b \in E : OldId(NewId(b)) = b
      /\ \A i \in 0 .. n - 1 : OldId(i) \in E /\ NewId(OldId(i)) = i
  BY NewIds
<1>2. /\ E \subseteq BlockIds /\ ENTRY \in E
      /\ \A b \in E : \A k \in DOMAIN Targets(b) : Targets(b)[k] \in E
  BY ExploredFacts DEF Closed
<1> PICK ids : ids = 0 .. n - 1
  OBVIOUS
<1>3. body' = [i \in ids |-> [body[OldId(i)] EXCEPT !.term.targets = [k \in DOMAIN @ |-> NewId(@[k])]]]
  BY DEF FilterUnreachable
<1>4. ASSUME NEW b \in E
      PROVE  LET x == body'[NewId(b)]
             IN  /\ IsBlock(x, ids)
                 /\ x.stmts = body[b].stmts
                 /\ x.term = [body[b].term EXCEPT !.targets = [k \in DOMAIN Targets(b) |-> NewId(Targets(b)[k])]]
                 /\ x.term.goto = body[b].term.goto
                 /\ x.term.targets = [k \in DOMAIN Targets(b) |-> NewId(Targets(b)[k])]
  <2> PICK s : s = [k \in DOMAIN Targets(b) |-> NewId(Targets(b)[k])]
    OBVIOUS
  <2>1. IsBlock(body[b], BlockIds) /\ Targets(b) \in Seq(Nat)
    BY <1>2, BlockOf DEF BlockIds, IsBlock, Blocks, Terminators, Targets
  <2>2. \A k \in DOMAIN Targets(b) : s[k] \in ids \ {ENTRY} /\ s[k] \in Nat
    <3> TAKE k \in DOMAIN Targets(b)
    <3>1. Targets(b)[k] \in E /\ Targets(b)[k] # ENTRY
      BY <1>2, <2>1 DEF IsBlock, Targets
    <3>2. QED
      BY <1>1, <1>2, <3>1
  <2>3. s \in Seq(Nat) /\ Len(s) = Len(Targets(b)) /\ DOMAIN s = DOMAIN Targets(b)
    BY <2>1, <2>2
  <2>4. body'[NewId(b)] = [body[b] EXCEPT !.term.targets = s]
    <3>1. NewId(b) \in ids /\ OldId(NewId(b)) = b
      BY <1>1
    <3>2. body'[NewId(b)] = [body[b] EXCEPT !.term.targets = [k \in DOMAIN @ |-> NewId(@[k])]]
      BY <1>3, <3>1
    <3>3. [k \in DOMAIN body[b].term.targets |-> NewId(body[b].term.targets[k])] = s
      BY DEF Targets
    <3>4. body[b] = [stmts |-> body[b].stmts, term |-> body[b].term]
      BY <2>1, BlockParts
    <3>5. QED
      BY <3>2, <3>3, <3>4
  <2>5. IsBlock(body'[NewId(b)], ids) /\ body'[NewId(b)].stmts = body[b].stmts
        /\ body'[NewId(b)].term = [body[b].term EXCEPT !.targets = s]
    <3> PICK x : x = body[b]
      OBVIOUS
    <3>1. /\ IsBlock(x, BlockIds) /\ s \in Seq(Nat) /\ Len(s) = Len(x.term.targets)
          /\ \A k \in DOMAIN s : s[k] \in ids \ {ENTRY}
      BY <2>1, <2>2, <2>3 DEF Targets
    <3>2. /\ IsBlock([x EXCEPT !.term.targets = s], ids)
          /\ [x EXCEPT !.term.targets = s].stmts = x.stmts
          /\ [x EXCEPT !.term.targets = s].term = [x.term EXCEPT !.targets = s]
      BY <3>1, BlockRenamed
    <3>3. QED
      BY <2>4, <3>2
  <2>6. body[b].term = [goto |-> body[b].term.goto, label |-> body[b].term.label,
                        targets |-> body[b].term.targets]
    BY <2>1, BlockParts, TermParts
  <2>7. body'[NewId(b)].term.goto = body[b].term.goto /\ body'[NewId(b)].term.targets = s
    BY <2>5, <2>6
  <2>8. QED
    BY <2>5, <2>7
<1>5. \A i \in ids : IsBlock(body'[i], ids)
  BY <1>1, <1>4
<1>6. body' = [i \in ids |-> body'[i]] /\ DOMAIN body' = ids
  BY <1>3
<1>7. IsBody(body')
  BY <1>1, <1>5, <1>6, BodyMade
<1>8. DOMAIN body' = 0 .. n - 1
  BY <1>6
<1>9. ASSUME NEW b \in Explored
      PROVE  /\ body'[NewId(b)].stmts = body[b].stmts
             /\ body'[NewId(b)].term.goto = body[b].term.goto
             /\ DOMAIN body'[NewId(b)].term.targets = DOMAIN Targets(b)
             /\ \A k \in DOMAIN Targets(b) : body'[NewId(b)].term.targets[k] = NewId(Targets(b)[k])
  <2>1. /\ body'[NewId(b)].stmts = body[b].stmts
        /\ body'[NewId(b)].term.goto = body[b].term.goto
        /\ body'[NewId(b)].term.targets = [k \in DOMAIN Targets(b) |-> NewId(Targets(b)[k])]
    BY <1>4
  <2>2. QED
    BY <2>1
<1>10. QED
  BY <1>7, <1>8, <1>9

\* Filtering leaves blocks that can all be reached, and cycles of gotos remain
\* cycles.
LEMMA FilterStep ==
    ASSUME IsBody(body), Compact, FilterUnreachable
    PROVE  IsBody(body') /\ Compact' /\ Explored' = BlockIds'
<1> PICK n : n = Cardinality(Explored)
  OBVIOUS
<1> PICK E : E = Explored
  OBVIOUS
<1> PICK new : new = [b \in E |-> NewId(b)]
  OBVIOUS
<1>1. /\ n \in Nat \ {0}
      /\ \A b \in E : new[b] \in 0 .. n - 1
      /\ ENTRY \in E /\ new[ENTRY] = ENTRY
      /\ \A i \in 0 .. n - 1 : \E b \in E : new[b] = i
  BY NewIds, ExploredFacts DEF Closed
<1>2. /\ E \subseteq BlockIds /\ \A b \in E : \A k \in DOMAIN Targets(b) : Targets(b)[k] \in E
      /\ \A S : Closed(S) => E \subseteq S
  BY ExploredFacts DEF Closed
<1>3. /\ BlockIds' = 0 .. n - 1 /\ IsBody(body')
      /\ \A b \in E :
            /\ body'[new[b]].stmts = body[b].stmts
            /\ body'[new[b]].term.goto = body[b].term.goto
            /\ DOMAIN body'[new[b]].term.targets = DOMAIN Targets(b)
            /\ \A k \in DOMAIN Targets(b) : body'[new[b]].term.targets[k] = new[Targets(b)[k]]
  BY <1>2, FilteredBlocks DEF BlockIds
<1>4. Explored' = BlockIds'
  <2>1. (IsBody(body) => Closed(Explored) /\ \A S : Closed(S) => Explored \subseteq S)'
    BY ExploredFacts, PTL
  <2> PICK X : X = Explored'
    OBVIOUS
  <2>2. /\ X \subseteq 0 .. n - 1 /\ ENTRY \in X
        /\ \A b \in X : \A k \in DOMAIN body'[b].term.targets : body'[b].term.targets[k] \in X
    BY <1>3, <2>1 DEF Closed, Targets
  <2> PICK P : P = {b \in E : new[b] \in X}
    OBVIOUS
  <2>3. ASSUME NEW b \in P, NEW k \in DOMAIN Targets(b) PROVE Targets(b)[k] \in P
    <3>1. Targets(b)[k] \in E
      BY <1>2
    <3>2. body'[new[b]].term.targets[k] = new[Targets(b)[k]] /\ k \in DOMAIN body'[new[b]].term.targets
      BY <1>3
    <3>3. new[Targets(b)[k]] \in X
      BY <2>2, <3>2
    <3>4. QED
      BY <3>1, <3>3
  <2>4. P \subseteq BlockIds /\ ENTRY \in P
    BY <1>1, <1>2, <2>2
  <2>5. E \subseteq P
    BY <1>2, <2>3, <2>4 DEF Closed
  <2>6. 0 .. n - 1 \subseteq X
    BY <1>1, <2>5
  <2>7. QED
    BY <1>3, <2>2, <2>6
<1>5. PICK Z : /\ Cycle(Z)
               /\ \A b \in BlockIds : \A k \in DOMAIN Targets(b) :
                    IsTrivialGoto(Targets(b)[k]) => Targets(b)[k] \in Z
  BY DEF Compact
<1>6. ASSUME NEW b \in E
      PROVE  /\ IsTrivialGoto(new[b])' <=> IsTrivialGoto(b)
             /\ IsTrivialGoto(b) => Targets(new[b])'[1] = new[Targets(b)[1]] /\ Targets(b)[1] \in E
  <2>1. IsTrivialGoto(new[b])' <=> IsTrivialGoto(b)
    BY <1>3 DEF IsTrivialGoto
  <2>2. ASSUME IsTrivialGoto(b) PROVE 1 \in DOMAIN Targets(b)
    BY <1>2, <2>2, BlockOf, GotoTarget DEF BlockIds, IsTrivialGoto, Targets
  <2>3. QED
    BY <1>2, <1>3, <2>1, <2>2 DEF Targets
<1> PICK Y : Y = {new[z] : z \in Z \intersect E}
  OBVIOUS
<1>7. Cycle(Y)'
  <2>1. Y \subseteq BlockIds'
    BY <1>1, <1>3
  <2>2. ASSUME NEW y \in Y PROVE IsTrivialGoto(y)' /\ Targets(y)'[1] \in Y
    <3>1. PICK z \in Z \intersect E : y = new[z]
      OBVIOUS
    <3>2. IsTrivialGoto(z) /\ Targets(z)[1] \in Z
      BY <1>5 DEF Cycle
    <3>3. IsTrivialGoto(new[z])' /\ Targets(new[z])'[1] = new[Targets(z)[1]] /\ Targets(z)[1] \in E
      BY <1>6, <3>2
    <3>4. QED
      BY <3>1, <3>2, <3>3
  <2>3. QED
    BY <2>1, <2>2 DEF Cycle
<1>8. ASSUME NEW c \in 0 .. n - 1, NEW k \in DOMAIN body'[c].term.targets,
             IsTrivialGoto(body[c].term.targets[k])'
      PROVE  body'[c].term.targets[k] \in Y
  <2>1. PICK b \in E : new[b] = c
    BY <1>1
  <2>2. k \in DOMAIN Targets(b) /\ body'[c].term.targets[k] = new[Targets(b)[k]]
    BY <1>3, <2>1
  <2> PICK t : t = Targets(b)[k]
    OBVIOUS
  <2>3. t \in E /\ IsTrivialGoto(new[t])'
    BY <1>2, <1>8, <2>2 DEF IsTrivialGoto
  <2>4. IsTrivialGoto(t)
    BY <1>6, <2>3
  <2>5. t \in Z
    BY <1>2, <1>5, <2>2, <2>4
  <2>6. QED
    BY <2>2, <2>3, <2>5
<1>9. Compact'
  <2>1. (\A b \in BlockIds : \A k \in DOMAIN Targets(b) :
           IsTrivialGoto(Targets(b)[k]) => Targets(b)[k] \in Y)'
    BY <1>3, <1>8 DEF Targets
  <2>2. QED
    BY <1>7, <2>1 DEF Compact
<1>10. QED
  BY <1>3, <1>4, <1>9

\* Only finitely many statements make a local live.
LEMMA LivesCounted ==
    ASSUME IsBody(body)
    PROVE  Cardinality(UNION {{c} \X {k \in DOMAIN body[c].stmts : body[c].stmts[k] = StorageLive} :
                                c \in DOMAIN body}) \in Nat
<1> DEFINE Of(c) == {c} \X {k \in DOMAIN body[c].stmts : body[c].stmts[k] = StorageLive}
<1> PICK sets : sets = {Of(c) : c \in DOMAIN body}
  OBVIOUS
<1>1. ASSUME NEW c \in DOMAIN body PROVE IsFiniteSet(Of(c))
  <2>1. body[c].stmts \in Seq(Labels)
    BY BlockOf DEF IsBlock, Blocks
  <2> PICK m \in Nat : m = Len(body[c].stmts)
    BY <2>1
  <2> PICK S : S = {k \in DOMAIN body[c].stmts : body[c].stmts[k] = StorageLive}
    OBVIOUS
  <2>2. S \subseteq 1 .. m /\ IsFiniteSet(1 .. m) /\ IsFiniteSet({c})
    <3>1. S \subseteq 1 .. m
      BY <2>1
    <3>2. 1 \in Int /\ m \in Int
      OBVIOUS
    <3>3. IsFiniteSet(1 .. m)
      BY <3>2, FS_Interval
    <3>4. QED
      BY <3>1, <3>3, FS_Singleton
  <2>3. IsFiniteSet(S)
    BY <2>2, FS_Subset
  <2>4. IsFiniteSet({c} \X S)
    BY <2>2, <2>3, FS_Product
  <2>5. QED
    BY <2>4
<1>2. IsFiniteSet(sets)
  <2> HIDE DEF Of
  <2> PICK image : image = [c \in DOMAIN body |-> Of(c)]
    OBVIOUS
  <2>1. image \in Surjection(DOMAIN body, sets)
    BY DEF Surjection
  <2>2. IsFiniteSet(DOMAIN body)
    BY DEF IsBody
  <2>3. QED
    BY <2>1, <2>2, FS_Surjection
<1>3. IsFiniteSet(UNION sets)
  <2> HIDE DEF Of
  <2>1. \A S \in sets : IsFiniteSet(S)
    BY <1>1
  <2>2. QED
    BY <1>2, <2>1, FS_UNION
<1>4. QED
  BY <1>3, FS_CardinalityType

\* Who is in a cycle of gotos stays at gotos.
LEMMA GoesRound ==
    ASSUME IsBody(body), NEW Z, Cycle(Z), NEW t \in Z
    PROVE  AtGoto(body, Settled(body, <<t, 0>>))
<1> DEFINE After[n \in Nat] == IF n = 0 THEN <<t, 0>> ELSE SilentStep(body, After[n - 1])
<1> PICK steps : steps = Cardinality(DOMAIN body)
             + Cardinality(UNION {{c} \X {k \in DOMAIN body[c].stmts : body[c].stmts[k] = StorageLive} :
                                    c \in DOMAIN body}) + 1
  OBVIOUS
<1>1. Settled(body, <<t, 0>>) = After[steps]
  BY DEF Settled
<1>2. steps \in Nat
  BY LivesCounted, FS_CardinalityType DEF IsBody
<1> PICK D : D = {<<z, 0>> : z \in Z}
  OBVIOUS
<1>3. ASSUME NEW p \in D PROVE AtGoto(body, p) /\ SilentStep(body, p) \in D
  <2>1. PICK z \in Z : p = <<z, 0>>
    OBVIOUS
  <2>2. z \in Nat /\ body[z].stmts = <<>> /\ body[z].term.goto /\ body[z].term.targets[1] \in Z
    BY DEF Cycle, IsTrivialGoto, Targets, IsBody, BlockIds
  <2>3. p[1] = z /\ p[2] = 0
    BY <2>1
  <2>4. AtGoto(body, p)
    BY <2>2, <2>3 DEF AtGoto, AtStatement, HasFailed
  <2>5. SilentStep(body, p) = <<body[z].term.targets[1], 0>>
    BY <2>3, <2>4 DEF SilentStep
  <2>6. QED
    BY <2>2, <2>4, <2>5
<1> HIDE DEF After
<1> PICK step : step = [p \in D |-> SilentStep(body, p)]
  OBVIOUS
<1>4. step \in [D -> D] /\ <<t, 0>> \in D
  BY <1>3
<1>5. PICK f : Iterated(f, D, <<t, 0>>, step)
  BY <1>4, Iterates
<1>6. f \in [Nat -> D] /\ f[0] = <<t, 0>> /\ \A n \in Nat : f[n + 1] = step[f[n]]
  BY <1>5 DEF Iterated
<1>7. After = [n \in Nat |-> IF n = 0 THEN <<t, 0>> ELSE SilentStep(body, After[n - 1])]
  <2>1. ASSUME NEW n \in Nat, n # 0 PROVE f[n] = SilentStep(body, f[n - 1])
    <3>1. n - 1 \in Nat /\ (n - 1) + 1 = n
      BY <2>1
    <3>2. f[n] = step[f[n - 1]] /\ f[n - 1] \in D
      BY <1>6, <3>1
    <3>3. QED
      BY <3>2
  <2>2. f = [n \in Nat |-> IF n = 0 THEN <<t, 0>> ELSE SilentStep(body, f[n - 1])]
    BY <1>6, <2>1
  <2>3. QED
    BY <2>2 DEF After
<1>8. After[steps] \in D
  <2>1. \A n \in Nat : After[n] = IF n = 0 THEN <<t, 0>> ELSE SilentStep(body, After[n - 1])
    BY <1>7
  <2>2. After[0] \in D
    BY <1>4, <2>1
  <2>3. ASSUME NEW n \in Nat, After[n] \in D PROVE After[n + 1] \in D
    <3>1. n + 1 \in Nat /\ n + 1 # 0 /\ (n + 1) - 1 = n
      OBVIOUS
    <3>2. After[n + 1] = SilentStep(body, After[n])
      BY <2>1, <3>1
    <3>3. QED
      BY <1>3, <2>3, <3>2
  <2> PICK T : T = {n \in Nat : After[n] \in D}
    OBVIOUS
  <2>4. T \subseteq Nat /\ 0 \in T
    BY <2>2
  <2>5. \A n \in T : n + 1 \in T
    BY <2>3
  <2>6. T = Nat
    BY <2>4, <2>5, AllNumbers
  <2>7. QED
    BY <1>2, <2>6
<1>9. QED
  BY <1>1, <1>3, <1>8

\* Without jumps to trivial gotos but in cycles, and without blocks that cannot
\* be reached, the graph is as the passes are to leave it.
LEMMA CompactGraph ==
    ASSUME IsBody(body), Compact, Explored = BlockIds
    PROVE  GraphIsCompact
<1>1. PICK Z : /\ Cycle(Z)
               /\ \A b \in BlockIds : \A k \in DOMAIN Targets(b) :
                    IsTrivialGoto(Targets(b)[k]) => Targets(b)[k] \in Z
  BY DEF Compact
<1>2. ASSUME NEW b \in BlockIds, NEW t \in ToSet(Targets(b)), IsTrivialGoto(t)
      PROVE  AtGoto(body, Settled(body, <<t, 0>>))
  <2>1. t \in Z
    BY <1>1, <1>2 DEF ToSet
  <2>2. QED
    BY <1>1, <2>1, GoesRound
<1>3. QED
  BY <1>2 DEF GraphIsCompact

-----------------------------------------------------------------------------
(* The translation from MIR *)

\* Blocks of MIR have slots of their own, the first one the first,
Numbered(map, n) == /\ map \in UNION {[S -> 0 .. n - 1] : S \in SUBSET DOMAIN mir}
                    /\ ENTRY \in DOMAIN map /\ map[ENTRY] = ENTRY
                    /\ \A b, c \in DOMAIN map : map[b] = map[c] => b = c

\* each of them waits at most once, and those that are open do not wait;
Queued(stack, open, map) == /\ stack \in Seq(DOMAIN map) /\ open \subseteq DOMAIN map
                            /\ \A i, j \in DOMAIN stack : stack[i] = stack[j] => i = j
                            /\ \A i \in DOMAIN stack : stack[i] \notin open

\* all slots are filled but those of the blocks that wait or are open.
Pending(stack, open) == {stack[i] : i \in DOMAIN stack} \union open
Filled(blocks, pending, map, n) ==
    /\ blocks \in UNION {[S -> Blocks] : S \in SUBSET (0 .. n - 1)}
    /\ DOMAIN blocks = {i \in 0 .. n - 1 : \A b \in pending : map[b] # i}
    /\ \A i \in DOMAIN blocks : IsBlock(blocks[i], 0 .. n - 1) /\ HasTwoWays(blocks[i].term)

Building(s, open) ==
    /\ s = [slot_count |-> s.slot_count, blocks |-> s.blocks, blocks_map |-> s.blocks_map,
            blocks_stack |-> s.blocks_stack, found |-> s.found]
    /\ s.slot_count \in Nat
    /\ Numbered(s.blocks_map, s.slot_count)
    /\ Queued(s.blocks_stack, open, s.blocks_map)
    /\ Filled(s.blocks, Pending(s.blocks_stack, open), s.blocks_map, s.slot_count)
    /\ s.found \in Seq(1 .. s.slot_count - 1)

LEMMA NumberedOne ==
    ASSUME NEW map, NEW n \in Nat, Numbered(map, n), NEW b \in DOMAIN mir \ DOMAIN map,
           NEW e, e = Extend(map, b, n)
    PROVE  Numbered(e, n + 1)
<1>0. map \in [DOMAIN map -> 0 .. (n + 1) - 1] /\ n \in 0 .. (n + 1) - 1
  BY DEF Numbered
<1>1. /\ e \in [DOMAIN map \union {b} -> 0 .. (n + 1) - 1]
      /\ e[b] = n /\ \A z \in DOMAIN map \ {b} : e[z] = map[z]
  BY <1>0 DEF Extend
<1>2. /\ DOMAIN map \subseteq DOMAIN mir /\ \A z \in DOMAIN map : map[z] \in 0 .. n - 1
      /\ ENTRY \in DOMAIN map /\ map[ENTRY] = ENTRY
      /\ \A a, c \in DOMAIN map : map[a] = map[c] => a = c
  BY DEF Numbered
<1>3. /\ \A z \in DOMAIN map : e[z] \in 0 .. (n + 1) - 1 /\ e[z] # n
      /\ e[b] \in 0 .. (n + 1) - 1
  BY <1>1, <1>2
<1>5. DOMAIN map \union {b} \in SUBSET DOMAIN mir
  BY <1>2
<1>6. \A a, c \in DOMAIN e : e[a] = e[c] => a = c
  BY <1>1, <1>2, <1>3
<1>7. QED
  BY <1>1, <1>2, <1>5, <1>6 DEF Numbered

\* More slots, all else alike.
LEMMA FilledMore ==
    ASSUME NEW blocks, NEW pending, NEW map, NEW n \in Nat, Filled(blocks, pending, map, n),
           NEW more, NEW b, \A c \in pending : more[c] = map[c], more[b] = n
    PROVE  Filled(blocks, pending \union {b}, more, n + 1)
<1>1. /\ DOMAIN blocks \subseteq 0 .. n - 1 /\ blocks \in [DOMAIN blocks -> Blocks]
      /\ DOMAIN blocks = {i \in 0 .. n - 1 : \A c \in pending : map[c] # i}
      /\ \A i \in DOMAIN blocks : IsBlock(blocks[i], 0 .. n - 1) /\ HasTwoWays(blocks[i].term)
  BY DEF Filled
<1>2. 0 .. n - 1 \subseteq 0 .. (n + 1) - 1
  OBVIOUS
<1>3. \A i \in DOMAIN blocks : IsBlock(blocks[i], 0 .. (n + 1) - 1)
  BY <1>1, <1>2, BlockInMore
<1>4. DOMAIN blocks = {i \in 0 .. (n + 1) - 1 : \A c \in pending \union {b} : more[c] # i}
  BY <1>1
<1> PICK S : S = DOMAIN blocks
  OBVIOUS
<1>5. S \in SUBSET (0 .. (n + 1) - 1) /\ blocks \in [S -> Blocks]
  BY <1>1, <1>2
<1>6. blocks \in UNION {[R -> Blocks] : R \in SUBSET (0 .. (n + 1) - 1)}
  BY <1>5
<1>7. QED
  BY <1>1, <1>3, <1>4, <1>6 DEF Filled

\* A block is pushed behind the others.
LEMMA FilledPushed ==
    ASSUME NEW blocks, NEW pending, NEW map, NEW n \in Nat, Filled(blocks, pending, map, n),
           \A c \in pending : map[c] # n, NEW x, IsBlock(x, 0 .. n), HasTwoWays(x.term),
           NEW e, e = Extend(blocks, n, x)
    PROVE  Filled(e, pending, map, n + 1)
<1>1. /\ DOMAIN blocks \subseteq 0 .. n - 1 /\ blocks \in [DOMAIN blocks -> Blocks]
      /\ DOMAIN blocks = {i \in 0 .. n - 1 : \A c \in pending : map[c] # i}
      /\ \A i \in DOMAIN blocks : IsBlock(blocks[i], 0 .. n - 1) /\ HasTwoWays(blocks[i].term)
  BY DEF Filled
<1>2. 0 .. n - 1 \subseteq 0 .. n /\ (n + 1) - 1 = n /\ n \notin 0 .. n - 1
      /\ 0 .. n = (0 .. n - 1) \union {n}
  OBVIOUS
<1> PICK S : S = DOMAIN blocks
  OBVIOUS
<1>3. /\ e \in [S \union {n} -> Blocks]
      /\ e[n] = x /\ \A i \in S : e[i] = blocks[i]
  <2>1. blocks \in [S -> Blocks] /\ x \in Blocks /\ n \notin S
    BY <1>1, <1>2 DEF IsBlock
  <2>2. QED
    BY <2>1 DEF Extend
<1>4. \A i \in DOMAIN e : IsBlock(e[i], 0 .. n) /\ HasTwoWays(e[i].term)
  <2>1. \A i \in DOMAIN blocks : IsBlock(blocks[i], 0 .. n)
    BY <1>1, <1>2, BlockInMore
  <2>2. QED
    BY <1>1, <1>3, <2>1
<1>5. e \in UNION {[R -> Blocks] : R \in SUBSET (0 .. n)}
  <2>1. S \union {n} \in SUBSET (0 .. n)
    BY <1>1, <1>2
  <2>2. QED
    BY <1>3, <2>1
<1>6. DOMAIN e = {i \in 0 .. n : \A c \in pending : map[c] # i}
  BY <1>1, <1>2, <1>3
<1>7. QED
  BY <1>2, <1>4, <1>5, <1>6 DEF Filled

\* A block that was open is filled in.
LEMMA FilledIn ==
    ASSUME NEW blocks, NEW waiting, NEW map, NEW n \in Nat, NEW b, NEW slot, slot = map[b],
           Filled(blocks, waiting \union {b}, map, n), slot \in 0 .. n - 1,
           \A c \in waiting : map[c] # slot,
           NEW x, IsBlock(x, 0 .. n - 1), HasTwoWays(x.term), NEW e, e = Extend(blocks, slot, x)
    PROVE  slot \notin DOMAIN blocks /\ Filled(e, waiting, map, n)
<1>1. /\ DOMAIN blocks \subseteq 0 .. n - 1 /\ blocks \in [DOMAIN blocks -> Blocks]
      /\ DOMAIN blocks = {i \in 0 .. n - 1 : \A c \in waiting \union {b} : map[c] # i}
      /\ \A i \in DOMAIN blocks : IsBlock(blocks[i], 0 .. n - 1) /\ HasTwoWays(blocks[i].term)
  BY DEF Filled
<1>2. slot \notin DOMAIN blocks
  BY <1>1
<1> PICK S : S = DOMAIN blocks
  OBVIOUS
<1>3. /\ e \in [S \union {slot} -> Blocks]
      /\ e[slot] = x /\ \A i \in S : e[i] = blocks[i]
  <2>1. blocks \in [S -> Blocks] /\ x \in Blocks /\ slot \notin S
    BY <1>1, <1>2 DEF IsBlock
  <2>2. QED
    BY <2>1 DEF Extend
<1>4. \A i \in DOMAIN e : IsBlock(e[i], 0 .. n - 1) /\ HasTwoWays(e[i].term)
  BY <1>1, <1>3
<1>5. e \in UNION {[R -> Blocks] : R \in SUBSET (0 .. n - 1)}
  <2>1. S \union {slot} \in SUBSET (0 .. n - 1)
    BY <1>1
  <2>2. QED
    BY <1>3, <2>1
<1>6. DOMAIN e = {i \in 0 .. n - 1 : \A c \in waiting : map[c] # i}
  <2>1. DOMAIN e = S \union {slot}
    BY <1>3
  <2>2. ASSUME NEW i \in 0 .. n - 1
        PROVE  i \in S \union {slot} <=> \A c \in waiting : map[c] # i
    <3>1. i \in S <=> \A c \in waiting \union {b} : map[c] # i
      BY <1>1
    <3>2. QED
      BY <3>1
  <2>3. S \union {slot} \subseteq 0 .. n - 1
    BY <1>1
  <2>4. QED
    BY <2>1, <2>2, <2>3
<1>7. QED
  BY <1>2, <1>4, <1>5, <1>6 DEF Filled

\* What a terminator may name: a block of MIR that something may jump to, or one
\* that is made.
IsNamed(ref) == \/ \E b \in DOMAIN mir \ {ENTRY} : ref = ToMir(b)
                \/ \E label \in ToSet(Outcomes) : ref = ToNew(label)

\* One that is found: it has a slot other than the first, and those that are
\* there keep theirs.
Finds(s, t, open) == /\ Building(t, open)
                     /\ Len(t.found) = Len(s.found) + 1
                     /\ \A c \in DOMAIN s.blocks_map : c \in DOMAIN t.blocks_map
                                                       /\ t.blocks_map[c] = s.blocks_map[c]

\* A block of MIR that has a slot.
LEMMA FoundAgain ==
    ASSUME NEW s, NEW open, Building(s, open), NEW b \in DOMAIN s.blocks_map, b # ENTRY,
           NEW t, t = [s EXCEPT !.found = Append(@, s.blocks_map[b])]
    PROVE  Finds(s, t, open)
<1> PICK n, map, found : n = s.slot_count /\ map = s.blocks_map /\ found = s.found
  OBVIOUS
<1>1. n \in Nat /\ map[b] \in 0 .. n - 1 /\ map[b] # 0 /\ found \in Seq(1 .. n - 1)
  BY DEF Building, Numbered, ENTRY
<1>2. map[b] \in 1 .. n - 1
  BY <1>1
<1>3. Append(found, map[b]) \in Seq(1 .. n - 1) /\ Len(Append(found, map[b])) = Len(found) + 1
  BY <1>1, <1>2
<1>4. t = [slot_count |-> n, blocks |-> s.blocks, blocks_map |-> map,
           blocks_stack |-> s.blocks_stack, found |-> Append(found, map[b])]
  BY DEF Building
<1>5. /\ t.slot_count = n /\ t.blocks = s.blocks /\ t.blocks_map = map
      /\ t.blocks_stack = s.blocks_stack /\ t.found = Append(found, map[b])
  BY <1>4
<1>6. Building(t, open)
  BY <1>3, <1>4, <1>5 DEF Building
<1>7. QED
  BY <1>3, <1>5, <1>6 DEF Finds

\* One that has none gets the next, and waits behind the others.
LEMMA FoundFirst ==
    ASSUME NEW s, NEW open, Building(s, open), NEW b \in DOMAIN mir \ DOMAIN s.blocks_map,
           NEW t, t = ReserveSlot(s, b)
    PROVE  Finds(s, t, open)
<1> PICK n, map, stack, found, blocks :
      n = s.slot_count /\ map = s.blocks_map /\ stack = s.blocks_stack /\ found = s.found
      /\ blocks = s.blocks
  OBVIOUS
<1>1. /\ n \in Nat /\ Numbered(map, n) /\ Queued(stack, open, map)
      /\ Filled(blocks, Pending(stack, open), map, n) /\ found \in Seq(1 .. n - 1)
  BY DEF Building
<1> PICK e, queue : e = Extend(map, b, n) /\ queue = Append(stack, b)
  OBVIOUS
<1>2. t = [slot_count |-> n + 1, blocks |-> blocks, blocks_map |-> e,
           blocks_stack |-> queue, found |-> Append(found, n)]
  BY DEF Building, ReserveSlot
<1>3. /\ t.slot_count = n + 1 /\ t.blocks = blocks /\ t.blocks_map = e
      /\ t.blocks_stack = queue /\ t.found = Append(found, n)
  BY <1>2
<1>4. Numbered(e, n + 1)
  BY <1>1, NumberedOne
<1>5. n # 0
  BY <1>1 DEF Numbered, ENTRY
<1>6. Append(found, n) \in Seq(1 .. (n + 1) - 1) /\ Len(Append(found, n)) = Len(found) + 1
  <2>1. n \in 1 .. (n + 1) - 1 /\ found \in Seq(1 .. (n + 1) - 1)
    BY <1>1, <1>5
  <2>2. QED
    BY <2>1
<1>7. DOMAIN e = DOMAIN map \union {b} /\ e[b] = n /\ \A c \in DOMAIN map : e[c] = map[c]
  BY DEF Extend
<1>8. /\ stack \in Seq(DOMAIN map) /\ open \subseteq DOMAIN map
      /\ \A i, j \in DOMAIN stack : stack[i] = stack[j] => i = j
      /\ \A i \in DOMAIN stack : stack[i] \notin open
  BY <1>1 DEF Queued
<1> PICK len \in Nat : len = Len(stack)
  BY <1>8
<1>9. /\ DOMAIN queue = 1 .. len + 1 /\ queue[len + 1] = b /\ DOMAIN stack = 1 .. len
      /\ \A i \in 1 .. len : queue[i] = stack[i] /\ stack[i] \in DOMAIN map /\ stack[i] # b
  BY <1>8
<1>10. queue \in Seq(DOMAIN e)
  <2>1. stack \in Seq(DOMAIN e) /\ b \in DOMAIN e
    BY <1>7, <1>8
  <2>2. QED
    BY <2>1
<1>11. /\ \A i, j \in DOMAIN queue : queue[i] = queue[j] => i = j
       /\ \A i \in DOMAIN queue : queue[i] \notin open
  <2>1. \A i \in DOMAIN queue : i \in 1 .. len \/ i = len + 1
    BY <1>9
  <2>2. QED
    BY <1>8, <1>9, <2>1
<1>12. Queued(queue, open, e)
  BY <1>7, <1>8, <1>10, <1>11 DEF Queued
<1>13. Filled(blocks, Pending(queue, open), e, n + 1)
  <2>1. Pending(queue, open) = Pending(stack, open) \union {b}
    <3>1. {queue[i] : i \in DOMAIN queue} = {stack[i] : i \in DOMAIN stack} \union {b}
      BY <1>9
    <3>2. QED
      BY <3>1 DEF Pending
  <2>2. \A c \in Pending(stack, open) : e[c] = map[c]
    BY <1>7, <1>8, <1>9 DEF Pending
  <2>3. Filled(blocks, Pending(stack, open), map, n) /\ n \in Nat /\ e[b] = n
    BY <1>1, <1>7
  <2>4. ASSUME NEW pending, Filled(blocks, pending, map, n), \A c \in pending : e[c] = map[c]
        PROVE  Filled(blocks, pending \union {b}, e, n + 1)
    BY <2>3, <2>4, FilledMore
  <2>5. QED
    BY <2>1, <2>2, <2>3, <2>4
<1>14. Building(t, open)
  BY <1>1, <1>2, <1>3, <1>4, <1>6, <1>12, <1>13 DEF Building
<1>15. QED
  BY <1>3, <1>6, <1>7, <1>14 DEF Finds

\* A block that is made.
LEMMA FoundNew ==
    ASSUME NEW s, NEW open, Building(s, open), NEW label \in ToSet(Outcomes),
           NEW t, t = PushBlock(s, label)
    PROVE  Finds(s, t, open)
<1> PICK n, map, stack, found, blocks :
      n = s.slot_count /\ map = s.blocks_map /\ stack = s.blocks_stack /\ found = s.found
      /\ blocks = s.blocks
  OBVIOUS
<1>1. /\ n \in Nat /\ Numbered(map, n) /\ Queued(stack, open, map)
      /\ Filled(blocks, Pending(stack, open), map, n) /\ found \in Seq(1 .. n - 1)
  BY DEF Building
<1> PICK x, e : x = Block(<<>>, Other(label, <<>>)) /\ e = Extend(blocks, n, x)
  OBVIOUS
<1>2. t = [slot_count |-> n + 1, blocks |-> e, blocks_map |-> map,
           blocks_stack |-> stack, found |-> Append(found, n)]
  BY DEF Building, PushBlock
<1>3. /\ t.slot_count = n + 1 /\ t.blocks = e /\ t.blocks_map = map
      /\ t.blocks_stack = stack /\ t.found = Append(found, n)
  BY <1>2
<1>4. /\ map \in [DOMAIN map -> 0 .. n - 1] /\ DOMAIN map \subseteq DOMAIN mir
      /\ ENTRY \in DOMAIN map /\ map[ENTRY] = ENTRY
      /\ \A b, c \in DOMAIN map : map[b] = map[c] => b = c
  BY <1>1 DEF Numbered
<1>5. n # 0 /\ \A c \in DOMAIN map : map[c] \in 0 .. (n + 1) - 1 /\ map[c] # n
  BY <1>1, <1>4
<1>6. Append(found, n) \in Seq(1 .. (n + 1) - 1) /\ Len(Append(found, n)) = Len(found) + 1
  <2>1. n \in 1 .. (n + 1) - 1 /\ found \in Seq(1 .. (n + 1) - 1)
    BY <1>1, <1>5
  <2>2. QED
    BY <2>1
<1>7. Numbered(map, n + 1)
  <2> PICK S : S = DOMAIN map
    OBVIOUS
  <2>1. map \in [S -> 0 .. (n + 1) - 1] /\ S \in SUBSET DOMAIN mir
    BY <1>4, <1>5
  <2>2. map \in UNION {[R -> 0 .. (n + 1) - 1] : R \in SUBSET DOMAIN mir}
    BY <2>1
  <2>3. QED
    BY <1>4, <2>2 DEF Numbered
<1>8. IsBlock(x, 0 .. n) /\ HasTwoWays(x.term)
  <2>1. label \in {"resume", "unreachable", "terminate"}
    BY DEF ToSet, Outcomes
  <2>2. label \in Labels /\ label \notin TwoWays
    BY <2>1, OutcomesAssumption, TwoWaysAssumption
  <2>3. Other(label, <<>>).label = label /\ IsTerm(Other(label, <<>>), 0 .. n)
    <3>0. label \in Labels
      BY <2>2
    <3>1. ASSUME NEW none \in Seq(Nat), DOMAIN none = {}, NEW ids
          PROVE  IsTerm(Other(label, none), ids) /\ Other(label, none).label = label
      BY <3>0, <3>1, OtherMade
    <3>2. <<>> \in Seq(Nat) /\ DOMAIN <<>> = {}
      OBVIOUS
    <3>3. QED
      BY <3>1, <3>2
  <2>4. HasTwoWays(Other(label, <<>>))
    BY <2>2, <2>3 DEF HasTwoWays
  <2>5. <<>> \in Seq(Labels)
    OBVIOUS
  <2>6. QED
    BY <2>3, <2>4, <2>5, BlockMade
<1>9. Filled(e, Pending(stack, open), map, n + 1)
  <2>1. \A c \in Pending(stack, open) : map[c] # n
    BY <1>1, <1>5 DEF Queued, Pending
  <2>2. QED
    BY <1>1, <1>8, <2>1, FilledPushed
<1>10. Building(t, open)
  BY <1>1, <1>2, <1>3, <1>6, <1>7, <1>9 DEF Building
<1>11. QED
  BY <1>3, <1>6, <1>10 DEF Finds

LEMMA FindMade ==
    ASSUME NEW s, NEW open, Building(s, open), NEW ref, IsNamed(ref)
    PROVE  Finds(s, Find(s, ref), open)
<1>1. CASE \E b \in DOMAIN mir \ {ENTRY} : ref = ToMir(b)
  <2>1. PICK b \in DOMAIN mir \ {ENTRY} : ref = ToMir(b)
    BY <1>1
  <2>2. Find(s, ref) = translate_basic_block_id(s, b)
    BY <2>1 DEF Find, ToMir
  <2>3. CASE b \in DOMAIN s.blocks_map
    BY <2>1, <2>2, <2>3, FoundAgain DEF translate_basic_block_id
  <2>4. CASE b \notin DOMAIN s.blocks_map
    BY <2>1, <2>2, <2>4, FoundFirst DEF translate_basic_block_id
  <2>5. QED
    BY <2>3, <2>4
<1>2. CASE \E label \in ToSet(Outcomes) : ref = ToNew(label)
  <2>1. PICK label \in ToSet(Outcomes) : ref = ToNew(label)
    BY <1>2
  <2>2. Find(s, ref) = PushBlock(s, label)
    BY <2>1 DEF Find, ToNew
  <2>3. QED
    BY <2>2, FoundNew
<1>3. QED
  BY <1>1, <1>2 DEF IsNamed

BuildStates == [slot_count : Nat, blocks : UNION {[S -> Blocks] : S \in SUBSET Nat},
                blocks_map : UNION {[S -> Nat] : S \in SUBSET DOMAIN mir},
                blocks_stack : Seq(DOMAIN mir), found : Seq(Nat)]

LEMMA BuildStateIn == ASSUME NEW s, NEW open, Building(s, open) PROVE s \in BuildStates
<1>1. /\ s = [slot_count |-> s.slot_count, blocks |-> s.blocks, blocks_map |-> s.blocks_map,
              blocks_stack |-> s.blocks_stack, found |-> s.found]
      /\ s.slot_count \in Nat
      /\ Numbered(s.blocks_map, s.slot_count)
      /\ Queued(s.blocks_stack, open, s.blocks_map)
      /\ Filled(s.blocks, Pending(s.blocks_stack, open), s.blocks_map, s.slot_count)
      /\ s.found \in Seq(1 .. s.slot_count - 1)
  BY DEF Building
<1>2. s.blocks_map \in UNION {[S -> Nat] : S \in SUBSET DOMAIN mir} /\ DOMAIN s.blocks_map \subseteq DOMAIN mir
  <2>1. PICK S \in SUBSET DOMAIN mir : s.blocks_map \in [S -> 0 .. s.slot_count - 1]
    BY <1>1 DEF Numbered
  <2>2. s.blocks_map \in [S -> Nat]
    BY <1>1, <2>1
  <2>3. QED
    BY <2>1, <2>2
<1>3. s.blocks \in UNION {[S -> Blocks] : S \in SUBSET Nat}
  <2>1. PICK S \in SUBSET (0 .. s.slot_count - 1) : s.blocks \in [S -> Blocks]
    BY <1>1 DEF Filled
  <2>2. S \in SUBSET Nat
    BY <1>1, <2>1
  <2>3. QED
    BY <2>1, <2>2
<1>4. s.blocks_stack \in Seq(DOMAIN mir)
  BY <1>1, <1>2 DEF Queued
<1>5. s.found \in Seq(Nat)
  BY <1>1
<1> PICK n, blocks, map, stack, found :
      n = s.slot_count /\ blocks = s.blocks /\ map = s.blocks_map /\ stack = s.blocks_stack /\ found = s.found
  OBVIOUS
<1>6. s = [slot_count |-> n, blocks |-> blocks, blocks_map |-> map, blocks_stack |-> stack, found |-> found]
  BY <1>1
<1>7. QED
  BY <1>1, <1>2, <1>3, <1>4, <1>5, <1>6 DEF BuildStates

\* So many were found.
Found(s, t, open, n) == /\ Building(t, open) /\ Len(t.found) = n
                        /\ \A c \in open : t.blocks_map[c] = s.blocks_map[c]

LEMMA FindAllMade ==
    ASSUME NEW s, NEW open, Building(s, open), s.found = <<>>,
           NEW N \in Nat, NEW named, Len(named) = N, \A k \in 1 .. N : IsNamed(named[k])
    PROVE  Found(s, FindAll(s, named), open, N)
<1> DEFINE Finding[n \in 0 .. Len(named)] == IF n = 0 THEN s ELSE Find(Finding[n - 1], named[n])
<1>1. FindAll(s, named) = Finding[N]
  BY DEF FindAll
<1> PICK D : D = {x \in BuildStates : Building(x, open)}
  OBVIOUS
<1>2. s \in D
  BY BuildStateIn
<1>3. ASSUME NEW n \in 1 .. N, NEW x \in D
      PROVE  Finds(x, Find(x, named[n]), open) /\ Find(x, named[n]) \in D
  <2>1. Building(x, open) /\ IsNamed(named[n])
    BY <1>3
  <2>2. Finds(x, Find(x, named[n]), open)
    BY <2>1, FindMade
  <2>3. Building(Find(x, named[n]), open)
    BY <2>2 DEF Finds
  <2>4. QED
    BY <2>2, <2>3, BuildStateIn
<1> HIDE DEF Finding
<1> PICK step : step = [p \in (1 .. N) \X D |-> Find(p[2], named[p[1]])]
  OBVIOUS
<1>4. step \in [(1 .. N) \X D -> D] /\ \A n \in 1 .. N : \A x \in D : step[<<n, x>>] = Find(x, named[n])
  BY <1>3
<1>5. PICK f : Recursion(f, D, s, step, N)
  BY <1>2, <1>4, RecursionExists
<1>6. /\ f \in [0 .. N -> D] /\ f[0] = s
      /\ \A n \in 1 .. N : f[n] = Find(f[n - 1], named[n])
  <2>1. /\ f \in [0 .. N -> D] /\ f[0] = s
        /\ \A n \in 1 .. N : f[n] = step[<<n, f[n - 1]>>]
    BY <1>5 DEF Recursion
  <2>2. \A n \in 1 .. N : f[n - 1] \in D
    BY <2>1
  <2>3. QED
    BY <1>4, <2>1, <2>2
<1>7. Finding = [n \in 0 .. N |-> IF n = 0 THEN s ELSE Find(Finding[n - 1], named[n])]
  <2>1. f = [n \in 0 .. N |-> IF n = 0 THEN s ELSE Find(f[n - 1], named[n])]
    BY <1>6
  <2>2. QED
    BY <2>1 DEF Finding
<1>8. \A n \in 0 .. N : Finding[n] = IF n = 0 THEN s ELSE Find(Finding[n - 1], named[n])
  BY <1>7
<1> DEFINE IsFound(n) == n <= N => Finding[n] \in D /\ Found(s, Finding[n], open, n)
<1>9. IsFound(0)
  <2>1. Finding[0] = s
    BY <1>8
  <2>2. Len(s.found) = 0
    OBVIOUS
  <2>3. QED
    BY <1>2, <2>1, <2>2 DEF Found
<1>10. ASSUME NEW n \in Nat, IsFound(n) PROVE IsFound(n + 1)
  <2> SUFFICES ASSUME n + 1 <= N PROVE Finding[n + 1] \in D /\ Found(s, Finding[n + 1], open, n + 1)
    OBVIOUS
  <2>1. n + 1 \in 1 .. N /\ n + 1 \in 0 .. N /\ n + 1 # 0 /\ (n + 1) - 1 = n /\ n <= N
    OBVIOUS
  <2>2. Finding[n] \in D /\ Found(s, Finding[n], open, n)
    BY <1>10, <2>1
  <2>3. Finding[n + 1] = Find(Finding[n], named[n + 1])
    BY <1>8, <2>1
  <2>4. Finds(Finding[n], Finding[n + 1], open) /\ Finding[n + 1] \in D
    BY <1>3, <2>1, <2>2, <2>3
  <2>5. open \subseteq DOMAIN Finding[n].blocks_map
    BY <2>2 DEF Found, Building, Queued
  <2>6. QED
    BY <2>2, <2>4, <2>5 DEF Found, Finds
<1> HIDE DEF IsFound
<1>11. IsFound(N)
  <2> PICK T : T = {n \in Nat : IsFound(n)}
    OBVIOUS
  <2>1. T \subseteq Nat
    OBVIOUS
  <2>2. 0 \in T
    BY <1>9
  <2>3. \A n \in T : n + 1 \in T
    BY <1>10
  <2>4. T = Nat
    BY <2>1, <2>2, <2>3, AllNumbers
  <2>5. QED
    BY <2>4
<1>12. QED
  BY <1>1, <1>11 DEF IsFound

\* Statements that mean nothing are left out, the others are kept.
LEMMA StatementsMade ==
    ASSUME NEW stmts \in Seq(Labels \union Ignored)
    PROVE  translate_statements(stmts) \in Seq(Labels)
<1> DEFINE Next1(x, n) == IF stmts[n] \in Ignored THEN x ELSE Append(x, stmts[n])
           Translated[n \in 0 .. Len(stmts)] ==
               IF n = 0 THEN <<>>
               ELSE IF stmts[n] \in Ignored THEN Translated[n - 1]
               ELSE Append(Translated[n - 1], stmts[n])
<1> PICK N \in Nat : N = Len(stmts)
  OBVIOUS
<1>1. translate_statements(stmts) = Translated[N]
  BY DEF translate_statements
<1> PICK D : D = Seq(Labels)
  OBVIOUS
<1>2. <<>> \in D
  OBVIOUS
<1>3. ASSUME NEW n \in 1 .. N, NEW x \in D PROVE Next1(x, n) \in D
  <2>1. stmts[n] \in Labels \union Ignored
    OBVIOUS
  <2>2. QED
    BY <2>1
<1> HIDE DEF Next1, Translated
<1> PICK step : step = [p \in (1 .. N) \X D |-> Next1(p[2], p[1])]
  OBVIOUS
<1>4. step \in [(1 .. N) \X D -> D] /\ \A n \in 1 .. N : \A x \in D : step[<<n, x>>] = Next1(x, n)
  BY <1>3
<1>5. PICK f : Recursion(f, D, <<>>, step, N)
  BY <1>2, <1>4, RecursionExists
<1>6. /\ f \in [0 .. N -> D] /\ f[0] = <<>>
      /\ \A n \in 1 .. N : f[n] = Next1(f[n - 1], n)
  <2>1. /\ f \in [0 .. N -> D] /\ f[0] = <<>>
        /\ \A n \in 1 .. N : f[n] = step[<<n, f[n - 1]>>]
    BY <1>5 DEF Recursion
  <2>2. ASSUME NEW n \in 1 .. N PROVE f[n - 1] \in D
    <3>1. n - 1 \in 0 .. N
      OBVIOUS
    <3>2. f \in [0 .. N -> D]
      BY <2>1
    <3>3. QED
      BY <3>1, <3>2, Zenon
  <2>3. QED
    BY <1>4, <2>1, <2>2
<1>7. Translated = [n \in 0 .. N |-> IF n = 0 THEN <<>> ELSE Next1(Translated[n - 1], n)]
  <2>1. f = [n \in 0 .. N |-> IF n = 0 THEN <<>> ELSE Next1(f[n - 1], n)]
    BY <1>6
  <2>2. QED
    BY <2>1 DEF Translated, Next1
<1>8. \A n \in 0 .. N : Translated[n] = IF n = 0 THEN <<>> ELSE Next1(Translated[n - 1], n)
  BY <1>7
<1> DEFINE IsDone(n) == n <= N => Translated[n] \in D
<1>9. IsDone(0)
  <2>1. Translated[0] = <<>>
    BY <1>8
  <2>2. QED
    BY <1>2, <2>1
<1>10. ASSUME NEW n \in Nat, IsDone(n) PROVE IsDone(n + 1)
  <2> SUFFICES ASSUME n + 1 <= N PROVE Translated[n + 1] \in D
    OBVIOUS
  <2>1. n + 1 \in 1 .. N /\ n + 1 \in 0 .. N /\ n + 1 # 0 /\ (n + 1) - 1 = n /\ n <= N
    OBVIOUS
  <2>2. Translated[n + 1] = Next1(Translated[n], n + 1)
    BY <1>8, <2>1
  <2>3. QED
    BY <1>3, <1>10, <2>1, <2>2
<1> HIDE DEF IsDone
<1>11. IsDone(N)
  <2> PICK T : T = {n \in Nat : IsDone(n)}
    OBVIOUS
  <2>1. T \subseteq Nat
    OBVIOUS
  <2>2. 0 \in T
    BY <1>9
  <2>3. \A n \in T : n + 1 \in T
    BY <1>10
  <2>4. T = Nat
    BY <2>1, <2>2, <2>3, AllNumbers
  <2>5. QED
    BY <2>4
<1>12. QED
  BY <1>1, <1>11 DEF IsDone

\* What a terminator names can be named.
LEMMA NamedMade ==
    ASSUME IsMir(mir), NEW b \in DOMAIN mir, NEW t, t = mir[b].term
    PROVE  /\ Named(t) \in Seq({ToMir(c) : c \in DOMAIN mir \ {ENTRY}} \union {ToNew(label) : label \in ToSet(Outcomes)})
           /\ t.kind \in Jumping => Len(Named(t)) = 1
           /\ t.kind \in {"switchBool", "call", "assert"} => Len(Named(t)) = 2
<1> DEFINE Refs == {ToMir(c) : c \in DOMAIN mir \ {ENTRY}} \union {ToNew(label) : label \in ToSet(Outcomes)}
<1>1. /\ t.kind \in Jumping \union Ending \union Unwinding \union {"switchBool", "switchInt"}
      /\ t.targets \in Seq(DOMAIN mir \ {ENTRY})
      /\ t.unwind.action \in {"cleanup", "continue", "unreachable", "terminate"}
      /\ t.unwind.action = "cleanup" => t.unwind.block \in DOMAIN mir \ {ENTRY}
      /\ t.kind \in Jumping \union {"drop", "assert"} => Len(t.targets) >= 1
      /\ t.kind = "switchBool" => Len(t.targets) = 2
  BY DEF IsMir
<1>2. \A label \in {"resume", "unreachable", "terminate"} : ToNew(label) \in Refs
  <2>1. DOMAIN Outcomes = {1, 2, 3} /\ Outcomes[1] = "resume" /\ Outcomes[2] = "unreachable"
        /\ Outcomes[3] = "terminate"
    BY DEF Outcomes
  <2>2. \A label \in {"resume", "unreachable", "terminate"} : label \in ToSet(Outcomes)
    BY <2>1 DEF ToSet
  <2>3. QED
    BY <2>2
<1> PICK unwind : unwind = translate_unwind_action(t.unwind)
  OBVIOUS
<1>3. unwind \in Refs
  <2>1. CASE t.unwind.action = "cleanup"
    BY <1>1, <2>1 DEF translate_unwind_action
  <2>2. CASE t.unwind.action # "cleanup"
    <3>1. unwind \in {ToNew("resume"), ToNew("unreachable"), ToNew("terminate")}
      BY <1>1, <2>2 DEF translate_unwind_action
    <3>2. QED
      BY <1>2, <3>1
  <2>3. QED
    BY <2>1, <2>2
<1> PICK targets : targets = [k \in DOMAIN t.targets |-> ToMir(t.targets[k])]
  OBVIOUS
<1>4. targets \in Seq(Refs) /\ Len(targets) = Len(t.targets) /\ DOMAIN targets = DOMAIN t.targets
      /\ (targets = <<>> <=> t.targets = <<>>)
  <2>1. \A k \in DOMAIN t.targets : ToMir(t.targets[k]) \in Refs
    BY <1>1
  <2> HIDE DEF Refs
  <2>2. QED
    BY <1>1, <2>1
<1>5. ToNew("unreachable") \in Refs
  BY <1>2
<1> HIDE DEF Refs
<1>6. Named(t) = CASE t.kind \in Jumping -> <<targets[1]>>
                   [] t.kind = "switchBool" -> <<targets[2], targets[1]>>
                   [] t.kind = "switchInt" -> targets
                   [] t.kind \in Ending -> <<>>
                   [] t.kind = "drop" -> <<targets[1], unwind>>
                   [] t.kind = "call" -> <<unwind, IF targets = <<>> THEN ToNew("unreachable") ELSE targets[1]>>
                   [] t.kind = "panic" -> <<unwind>>
                   [] t.kind = "assert" -> <<unwind, targets[1]>>
                   [] t.kind = "asm" -> Append(targets, unwind)
  BY DEF Named
<1>7. Len(targets) >= 1 => targets[1] \in Refs
  BY <1>4
<1>8. Len(targets) = 2 => targets[2] \in Refs
  BY <1>4
<1>9. CASE t.kind \in Jumping
  <2>1. Named(t) = <<targets[1]>>
    BY <1>6, <1>9 DEF Jumping, Ending
  <2>2. targets[1] \in Refs
    BY <1>1, <1>4, <1>7, <1>9
  <2>3. t.kind \notin {"switchBool", "call", "assert"}
    BY <1>9 DEF Jumping
  <2>4. QED
    BY <2>1, <2>2, <2>3 DEF Refs
<1>10. CASE t.kind = "switchBool"
  <2>1. Named(t) = <<targets[2], targets[1]>>
    BY <1>6, <1>10 DEF Jumping, Ending
  <2>2. targets[1] \in Refs /\ targets[2] \in Refs
    BY <1>1, <1>4, <1>7, <1>8, <1>10
  <2>3. QED
    BY <1>10, <2>1, <2>2 DEF Refs, Jumping
<1>11. CASE t.kind = "call"
  <2>1. Named(t) = <<unwind, IF targets = <<>> THEN ToNew("unreachable") ELSE targets[1]>>
    BY <1>6, <1>11 DEF Jumping, Ending
  <2>2. (IF targets = <<>> THEN ToNew("unreachable") ELSE targets[1]) \in Refs
    BY <1>4, <1>5, <1>7
  <2>3. QED
    BY <1>3, <1>11, <2>1, <2>2 DEF Refs, Jumping
<1>12. CASE t.kind = "assert"
  <2>1. Named(t) = <<unwind, targets[1]>>
    BY <1>6, <1>12 DEF Jumping, Ending
  <2>2. targets[1] \in Refs
    BY <1>1, <1>4, <1>7, <1>12
  <2>3. QED
    BY <1>3, <1>12, <2>1, <2>2 DEF Refs, Jumping
<1>13. CASE t.kind \in {"switchInt", "drop", "panic", "asm"} \union Ending
  <2>1. t.kind \notin Jumping \union {"switchBool", "call", "assert"}
    BY <1>13 DEF Jumping, Ending
  <2>2. Named(t) \in Seq(Refs)
    <3>1. CASE t.kind = "switchInt"
      BY <1>4, <1>6, <2>1, <3>1
    <3>2. CASE t.kind \in Ending
      <4>1. Named(t) = <<>>
        BY <1>6, <2>1, <3>2 DEF Ending
      <4>2. QED
        BY <4>1
    <3>3. CASE t.kind = "drop"
      <4>1. Named(t) = <<targets[1], unwind>>
        BY <1>6, <2>1, <3>3 DEF Ending
      <4>2. QED
        BY <1>1, <1>3, <1>4, <1>7, <3>3, <4>1
    <3>4. CASE t.kind = "panic"
      <4>1. Named(t) = <<unwind>>
        BY <1>6, <2>1, <3>4 DEF Ending
      <4>2. QED
        BY <1>3, <4>1
    <3>5. CASE t.kind = "asm"
      <4>1. Named(t) = Append(targets, unwind)
        BY <1>6, <2>1, <3>5 DEF Ending
      <4>2. QED
        BY <1>3, <1>4, <4>1
    <3>6. QED
      BY <1>13, <3>1, <3>2, <3>3, <3>4, <3>5
  <2>3. QED
    BY <2>1, <2>2 DEF Refs
<1>14. QED
  BY <1>1, <1>9, <1>10, <1>11, <1>12, <1>13 DEF Unwinding

LEMMA OtherTwoWays ==
    ASSUME NEW ids, NEW label \in Labels, NEW s \in Seq(Nat), \A k \in DOMAIN s : s[k] \in ids \ {ENTRY},
           label \notin TwoWays \/ Len(s) = 2
    PROVE  IsTerm(Other(label, s), ids) /\ HasTwoWays(Other(label, s))
<1>1. /\ IsTerm(Other(label, s), ids) /\ ~Other(label, s).goto
      /\ Other(label, s).label = label /\ Other(label, s).targets = s
  BY OtherMade
<1>2. QED
  BY <1>1 DEF HasTwoWays

\* What is made of a terminator leads to the slots that were found.
LEMMA TerminatorMade ==
    ASSUME mir \in MirBodies, NEW b \in DOMAIN mir, NEW t, t = mir[b].term, NEW ids,
           NEW found \in Seq(Nat), Len(found) = Len(Named(t)),
           \A k \in DOMAIN found : found[k] \in ids \ {ENTRY},
           NEW u, u = translate_terminator(t, found)
    PROVE  IsTerm(u, ids) /\ HasTwoWays(u)
<1>1. IsMir(mir)
  BY MirAssumption
<1>2. /\ t.kind \in Jumping \union Ending \union Unwinding \union {"switchBool", "switchInt"}
      /\ t.kind \notin Jumping => t.label \in Labels
  BY <1>1 DEF IsMir
<1>3. /\ t.kind \in Jumping => Len(found) = 1
      /\ t.kind \in {"switchBool", "call", "assert"} => Len(found) = 2
  BY <1>1, NamedMade
<1>4. t.label \in TwoWays => t.kind \in {"switchBool", "call"}
  BY TwoWaysAssumption DEF TwoWays
<1>5. \A k \in 1 .. Len(found) : found[k] \in ids \ {ENTRY} /\ found[k] \in Nat
  OBVIOUS
<1>7. u = CASE t.kind \in Jumping -> Goto(found[1])
            [] t.kind \in {"switchBool", "switchInt", "drop", "asm"} -> Other(t.label, found)
            [] t.kind \in {"call", "assert"} -> Other(t.label, <<found[2], found[1]>>)
            [] t.kind \in Ending \union {"panic"} -> Other(t.label, <<>>)
  BY DEF translate_terminator
<1>8. CASE t.kind \in Jumping
  <2>1. u = Goto(found[1])
    BY <1>7, <1>8 DEF Jumping, Ending
  <2>2. found[1] \in ids \ {ENTRY} /\ found[1] \in Nat
    BY <1>3, <1>5, <1>8
  <2>3. QED
    BY <2>1, <2>2, GotoMade
<1>9. CASE t.kind \in {"switchBool", "switchInt", "drop", "asm"}
  <2>1. u = Other(t.label, found) /\ t.label \in Labels
    BY <1>2, <1>7, <1>9 DEF Jumping, Ending
  <2>2. t.label \notin TwoWays \/ Len(found) = 2
    BY <1>3, <1>4, <1>9
  <2>3. QED
    BY <2>1, <2>2, OtherTwoWays
<1>10. CASE t.kind \in {"call", "assert"}
  <2>1. u = Other(t.label, <<found[2], found[1]>>) /\ t.label \in Labels
    BY <1>2, <1>7, <1>10 DEF Jumping, Ending
  <2>2. /\ found[1] \in ids \ {ENTRY} /\ found[1] \in Nat
        /\ found[2] \in ids \ {ENTRY} /\ found[2] \in Nat
    BY <1>3, <1>5, <1>10
  <2> PICK s : s = <<found[2], found[1]>>
    OBVIOUS
  <2>3. s \in Seq(Nat) /\ Len(s) = 2 /\ \A k \in DOMAIN s : s[k] \in ids \ {ENTRY}
    BY <2>2
  <2>4. QED
    BY <2>1, <2>3, OtherTwoWays
<1>11. CASE t.kind \in Ending \union {"panic"}
  <2>1. u = Other(t.label, <<>>) /\ t.label \in Labels /\ t.label \notin TwoWays
    BY <1>2, <1>4, <1>7, <1>11 DEF Jumping, Ending
  <2> PICK s : s = <<>>
    OBVIOUS
  <2>2. s \in Seq(Nat) /\ \A k \in DOMAIN s : s[k] \in ids \ {ENTRY}
    OBVIOUS
  <2>3. QED
    BY <2>1, <2>2, OtherTwoWays
<1>12. QED
  BY <1>2, <1>8, <1>9, <1>10, <1>11 DEF Unwinding

\* The state of the translation between two blocks; what was found last does not
\* matter any more.
Between(s) == /\ s = [slot_count |-> s.slot_count, blocks |-> s.blocks,
                      blocks_map |-> s.blocks_map, blocks_stack |-> s.blocks_stack,
                      found |-> s.found]
              /\ Building([s EXCEPT !.found = <<>>], {})
BuildInv == Between(building)

\* The first block that waits becomes the one that is open.
LEMMA Popped ==
    ASSUME BuildInv, building.blocks_stack # <<>>, NEW b, b = Head(building.blocks_stack),
           NEW s, s = [building EXCEPT !.blocks_stack = Tail(@), !.found = <<>>]
    PROVE  Building(s, {b}) /\ s.found = <<>> /\ s.blocks_map = building.blocks_map
           /\ b \in DOMAIN s.blocks_map
<1> PICK n, map, stack, blocks :
      n = building.slot_count /\ map = building.blocks_map /\ stack = building.blocks_stack
      /\ blocks = building.blocks
  OBVIOUS
<1>1. building = [slot_count |-> n, blocks |-> blocks, blocks_map |-> map,
                  blocks_stack |-> stack, found |-> building.found]
  BY DEF BuildInv, Between
<1> PICK r : r = [building EXCEPT !.found = <<>>]
  OBVIOUS
<1>2. /\ r.slot_count = n /\ r.blocks = blocks /\ r.blocks_map = map /\ r.blocks_stack = stack
      /\ r.found = <<>> /\ Building(r, {})
  BY <1>1 DEF BuildInv, Between
<1>3. /\ n \in Nat /\ Numbered(map, n) /\ Queued(stack, {}, map)
      /\ Filled(blocks, Pending(stack, {}), map, n)
  BY <1>2 DEF Building
<1>4. stack \in Seq(DOMAIN map) /\ stack # <<>> /\ \A i, j \in DOMAIN stack : stack[i] = stack[j] => i = j
  BY <1>3 DEF Queued
<1> PICK len : len = Len(stack) - 1
  OBVIOUS
<1>0. len \in Nat /\ Len(stack) = len + 1
  BY <1>4
<1> PICK tail : tail = Tail(stack)
  OBVIOUS
<1>5. /\ tail \in Seq(DOMAIN map) /\ DOMAIN tail = 1 .. len /\ DOMAIN stack = 1 .. len + 1
      /\ b = stack[1] /\ b \in DOMAIN map
      /\ \A i \in 1 .. len : tail[i] = stack[i + 1]
  <2>1. tail \in Seq(DOMAIN map) /\ Len(tail) = len
    <3>1. Tail(stack) \in Seq(DOMAIN map) /\ Len(Tail(stack)) = Len(stack) - 1
      BY <1>4, HeadTailProperties
    <3>2. QED
      BY <3>1
  <2>2. DOMAIN tail = 1 .. len /\ DOMAIN stack = 1 .. len + 1
    <3>1. DOMAIN tail = 1 .. Len(tail)
      BY <2>1
    <3>2. DOMAIN stack = 1 .. Len(stack)
      BY <1>4
    <3>3. QED
      BY <1>0, <2>1, <3>1, <3>2
  <2>3. b = stack[1] /\ b \in DOMAIN map
    <3>1. b = Head(stack)
      OBVIOUS
    <3>2. Head(stack) = stack[1] /\ 1 \in DOMAIN stack
      BY <1>0, <1>4
    <3>3. stack[1] \in DOMAIN map
      BY <1>4, <3>2
    <3>4. QED
      BY <3>1, <3>2, <3>3
  <2>4. \A i \in 1 .. len : tail[i] = stack[i + 1]
    BY <1>0, <1>4
  <2>5. QED
    BY <2>1, <2>2, <2>3, <2>4
<1>6. /\ \A i, j \in DOMAIN tail : tail[i] = tail[j] => i = j
      /\ \A i \in DOMAIN tail : tail[i] # b
  <2>1. \A i \in 1 .. len : i + 1 \in DOMAIN stack /\ i + 1 # 1 /\ 1 \in DOMAIN stack
    BY <1>0, <1>5
  <2>2. QED
    BY <1>4, <1>5, <2>1
<1>7. Queued(tail, {b}, map)
  BY <1>5, <1>6 DEF Queued
<1>8. Pending(tail, {b}) = Pending(stack, {})
  <2>1. \A i \in DOMAIN stack : i = 1 \/ (i - 1 \in DOMAIN tail /\ tail[i - 1] = stack[i])
    BY <1>0, <1>5
  <2>2. \A i \in DOMAIN tail : i + 1 \in DOMAIN stack /\ 1 \in DOMAIN stack
    BY <1>0, <1>5
  <2>3. {tail[i] : i \in DOMAIN tail} \union {b} = {stack[i] : i \in DOMAIN stack}
    <3>1. \A i \in DOMAIN stack : stack[i] = b \/ \E j \in DOMAIN tail : stack[i] = tail[j]
      BY <1>5, <2>1
    <3>2. \A j \in DOMAIN tail : \E i \in DOMAIN stack : tail[j] = stack[i]
      BY <1>5, <2>2
    <3>3. \E i \in DOMAIN stack : b = stack[i]
      BY <1>0, <1>5
    <3>4. QED
      BY <3>1, <3>2, <3>3
  <2>4. QED
    BY <2>3 DEF Pending
<1>9. s = [slot_count |-> n, blocks |-> blocks, blocks_map |-> map, blocks_stack |-> tail, found |-> <<>>]
  BY <1>1
<1>10. /\ s.slot_count = n /\ s.blocks = blocks /\ s.blocks_map = map /\ s.blocks_stack = tail
       /\ s.found = <<>>
  BY <1>9
<1>11. s.found \in Seq(1 .. n - 1)
  BY <1>10
<1>12. Building(s, {b})
  BY <1>3, <1>7, <1>8, <1>9, <1>10, <1>11 DEF Building
<1>13. QED
  BY <1>5, <1>10, <1>12

\* An open block is filled in: none is open any more.
WithBlocks(f, e) == [f EXCEPT !.blocks = e]

LEMMA SlotSet ==
    ASSUME NEW f, NEW b, Building(f, {b}), NEW slot, slot = f.blocks_map[b],
           NEW x, IsBlock(x, 0 .. f.slot_count - 1), HasTwoWays(x.term),
           NEW e, e = Extend(f.blocks, slot, x), NEW t, t = WithBlocks(f, e)
    PROVE  /\ slot \notin DOMAIN f.blocks
           /\ Between(t)
<1>parts. PICK n, map, stack, blocks, found :
      n = f.slot_count /\ map = f.blocks_map /\ stack = f.blocks_stack /\ blocks = f.blocks
      /\ found = f.found
  OBVIOUS
<1>1. /\ f = [slot_count |-> n, blocks |-> blocks, blocks_map |-> map, blocks_stack |-> stack,
              found |-> found]
      /\ n \in Nat /\ Numbered(map, n) /\ Queued(stack, {b}, map)
      /\ Filled(blocks, Pending(stack, {b}), map, n) /\ map[b] = slot
  BY <1>parts DEF Building
<1>2. b \in DOMAIN map
  BY <1>1 DEF Queued
<1>3. /\ \A c \in DOMAIN map : map[c] \in 0 .. n - 1
      /\ \A a, c \in DOMAIN map : map[a] = map[c] => a = c
  BY <1>1 DEF Numbered
<1>waits. PICK waiting : waiting = Pending(stack, {})
  OBVIOUS
<1>4. Pending(stack, {b}) = waiting \union {b}
  BY <1>waits DEF Pending
<1>5. \A c \in waiting : map[c] # slot
  <2>1. \A c \in waiting : c \in DOMAIN map /\ c # b
    BY <1>1, <1>waits DEF Pending, Queued
  <2>2. QED
    BY <1>1, <1>2, <1>3, <2>1
<1>6. slot \notin DOMAIN blocks /\ Filled(e, waiting, map, n)
  <2>1. /\ Filled(blocks, waiting \union {b}, map, n) /\ slot = map[b] /\ slot \in 0 .. n - 1
        /\ n \in Nat
    BY <1>1, <1>2, <1>3, <1>4
  <2>2. IsBlock(x, 0 .. n - 1) /\ HasTwoWays(x.term) /\ e = Extend(blocks, slot, x)
    BY <1>parts
  <2>3. QED
    BY <1>5, <2>1, <2>2, FilledIn
<1>7. t = [slot_count |-> n, blocks |-> e, blocks_map |-> map, blocks_stack |-> stack,
           found |-> found]
  BY <1>1 DEF WithBlocks
<1>reset. PICK r : r = [t EXCEPT !.found = <<>>]
  OBVIOUS
<1>8. /\ r = [slot_count |-> n, blocks |-> e, blocks_map |-> map, blocks_stack |-> stack,
              found |-> <<>>]
      /\ r.slot_count = n /\ r.blocks = e /\ r.blocks_map = map /\ r.blocks_stack = stack
      /\ r.found = <<>>
  BY <1>7, <1>reset
<1>9. Queued(stack, {}, map)
  BY <1>1 DEF Queued
<1>10. r.found \in Seq(1 .. n - 1)
  BY <1>8
<1>11. Building(r, {})
  BY <1>1, <1>6, <1>8, <1>9, <1>10, <1>waits DEF Building
<1>12. QED
  BY <1>6, <1>7, <1>11, <1>parts, <1>reset DEF Between

\* The block that is translated next, what the search for the blocks that it
\* names leaves, and what is made of it.
Opened == [building EXCEPT !.blocks_stack = Tail(@), !.found = <<>>]
ToTranslate == Head(building.blocks_stack)
FoundNext == FindAll(Opened, Named(mir[ToTranslate].term))
Translated == Block(translate_statements(mir[ToTranslate].stmts),
                    translate_terminator(mir[ToTranslate].term, FoundNext.found))

LEMMA NextFound ==
    ASSUME mir \in MirBodies, BuildInv, building.blocks_stack # <<>>
    PROVE  /\ Building(FoundNext, {ToTranslate})
           /\ FoundNext.blocks_map[ToTranslate] = building.blocks_map[ToTranslate]
           /\ IsBlock(Translated, 0 .. FoundNext.slot_count - 1)
           /\ HasTwoWays(Translated.term)
<1>1. PICK b : b = ToTranslate
  OBVIOUS
<1>2. /\ Building(Opened, {b}) /\ Opened.found = <<>>
      /\ Opened.blocks_map = building.blocks_map /\ b \in DOMAIN Opened.blocks_map
  BY <1>1, Popped DEF ToTranslate, Opened
<1>3. IsMir(mir)
  BY MirAssumption
<1>4. b \in DOMAIN mir
  BY <1>2 DEF Building, Numbered
<1>5. PICK term : term = mir[b].term
  OBVIOUS
<1>6. PICK named : named = Named(term)
  OBVIOUS
<1>7. named \in Seq({ToMir(c) : c \in DOMAIN mir \ {ENTRY}} \union {ToNew(label) : label \in ToSet(Outcomes)})
  BY <1>3, <1>4, <1>5, <1>6, NamedMade
<1>8. PICK N \in Nat : N = Len(named)
  BY <1>7
<1>9. \A k \in 1 .. N : IsNamed(named[k])
  <2>1. \A k \in 1 .. N : named[k] \in {ToMir(c) : c \in DOMAIN mir \ {ENTRY}}
                                        \union {ToNew(label) : label \in ToSet(Outcomes)}
    BY <1>7, <1>8
  <2>2. QED
    BY <2>1 DEF IsNamed
<1>10. PICK f : f = FindAll(Opened, named)
  OBVIOUS
<1>11. Found(Opened, f, {b}, N)
  BY <1>2, <1>8, <1>9, <1>10, FindAllMade
<1>12. f = FoundNext
  BY <1>1, <1>5, <1>6, <1>10 DEF FoundNext
<1>13. Building(f, {b}) /\ f.blocks_map[b] = building.blocks_map[b]
  BY <1>2, <1>11 DEF Found
<1>14. PICK n, found : n = f.slot_count /\ found = f.found
  OBVIOUS
<1>15. n \in Nat /\ found \in Seq(1 .. n - 1) /\ Len(found) = N
  BY <1>11, <1>14 DEF Found, Building
<1>16. PICK stmts, u : /\ stmts = translate_statements(mir[b].stmts)
                       /\ u = translate_terminator(term, found)
  OBVIOUS
<1>17. stmts \in Seq(Labels)
  <2>1. mir[b].stmts \in Seq(Labels \union Ignored)
    BY <1>3, <1>4 DEF IsMir
  <2>2. QED
    BY <1>16, <2>1, StatementsMade
<1>18. PICK ids : ids = 0 .. n - 1
  OBVIOUS
<1>19. found \in Seq(Nat) /\ \A k \in DOMAIN found : found[k] \in ids \ {ENTRY}
  <2>1. \A k \in DOMAIN found : found[k] \in 1 .. n - 1
    BY <1>15
  <2>2. found \in Seq(Nat)
    BY <1>15
  <2>3. \A i \in 1 .. n - 1 : i \in 0 .. n - 1 /\ i # 0
    BY <1>15
  <2>4. QED
    BY <1>18, <2>1, <2>2, <2>3 DEF ENTRY
<1>20. Len(found) = Len(Named(term))
  BY <1>6, <1>8, <1>15
<1>21. IsTerm(u, ids) /\ HasTwoWays(u)
  BY <1>4, <1>5, <1>16, <1>19, <1>20, TerminatorMade
<1>22. IsBlock(Block(stmts, u), ids) /\ Block(stmts, u).term = u
  BY <1>17, <1>21, BlockMade
<1>23. Translated = Block(stmts, u)
  BY <1>1, <1>5, <1>12, <1>14, <1>16 DEF Translated
<1>24. QED
  BY <1>1, <1>12, <1>13, <1>14, <1>18, <1>21, <1>22, <1>23

StateOf(n, blocks, map, stack, found) ==
    [slot_count |-> n, blocks |-> blocks, blocks_map |-> map, blocks_stack |-> stack,
     found |-> found]

LEMMA Reserved ==
    ASSUME NEW n \in Nat, NEW map, NEW blocks, NEW stack, NEW found, NEW b
    PROVE  ReserveSlot(StateOf(n, blocks, map, stack, found), b)
             = StateOf(n + 1, blocks, Extend(map, b, n), Append(stack, b), Append(found, n))
<1>1. ASSUME NEW s, s = StateOf(n, blocks, map, stack, found), NEW t, t = ReserveSlot(s, b)
      PROVE  t = StateOf(n + 1, blocks, Extend(map, b, n), Append(stack, b), Append(found, n))
  BY <1>1 DEF ReserveSlot, StateOf
<1>2. QED
  BY <1>1

\* The translation begins with the first block's slot.
LEMMA StartRegistered ==
    ASSUME mir \in MirBodies, building = RegisterStart
    PROVE  BuildInv
<1>1. IsMir(mir) /\ ENTRY \in DOMAIN mir
  BY MirAssumption DEF IsMir
<1> PICK map : map = Extend(<<>>, ENTRY, 0)
  OBVIOUS
<1>2. building = [slot_count |-> 1, blocks |-> <<>>, blocks_map |-> map,
                  blocks_stack |-> <<ENTRY>>, found |-> <<0>>]
  <2>1. /\ NoBlocks.blocks_map = <<>> /\ NoBlocks.slot_count = 0 /\ NoBlocks.blocks = <<>>
        /\ NoBlocks.blocks_stack = <<>> /\ NoBlocks.found = <<>>
    BY DEF NoBlocks
  <2>2. ENTRY \notin DOMAIN NoBlocks.blocks_map
    BY <2>1
  <2>3. building = ReserveSlot(NoBlocks, ENTRY)
    BY <2>2 DEF RegisterStart, translate_basic_block_id
  <2>4. Append(<<>>, ENTRY) = <<ENTRY>> /\ Append(<<>>, 0) = <<0>>
    OBVIOUS
  <2>5. NoBlocks = [slot_count |-> 0, blocks |-> <<>>, blocks_map |-> <<>>,
                    blocks_stack |-> <<>>, found |-> <<>>]
    BY DEF NoBlocks
  <2>6. PICK n \in Nat : n = 0
    OBVIOUS
  <2>7. ReserveSlot(StateOf(n, <<>>, <<>>, <<>>, <<>>), ENTRY)
          = StateOf(n + 1, <<>>, Extend(<<>>, ENTRY, n), Append(<<>>, ENTRY), Append(<<>>, n))
    <3>1. ASSUME NEW e, NEW b
          PROVE ReserveSlot(StateOf(n, e, e, e, e), b)
                = StateOf(n + 1, e, Extend(e, b, n), Append(e, b), Append(e, n))
      BY Reserved
    <3>2. \A e : ReserveSlot(StateOf(n, e, e, e, e), ENTRY)
                = StateOf(n + 1, e, Extend(e, ENTRY, n), Append(e, ENTRY), Append(e, n))
      BY <3>1
    <3>3. QED
      BY <3>2
  <2>8. NoBlocks = StateOf(n, <<>>, <<>>, <<>>, <<>>) /\ n + 1 = 1
    BY <2>5, <2>6 DEF StateOf
  <2>9. building = StateOf(1, <<>>, map, <<ENTRY>>, <<0>>)
    BY <2>3, <2>4, <2>6, <2>7, <2>8
  <2>10. QED
    BY <2>9 DEF StateOf
<1>3. DOMAIN map = {ENTRY} /\ map[ENTRY] = ENTRY /\ map \in [{ENTRY} -> 0 .. 1 - 1]
  BY DEF Extend, ENTRY
<1>4. Numbered(map, 1)
  <2>1. {ENTRY} \in SUBSET DOMAIN mir
    BY <1>1
  <2>2. QED
    BY <1>3, <2>1 DEF Numbered
<1>5. Queued(<<ENTRY>>, {}, map)
  BY <1>3 DEF Queued
<1>6. Pending(<<ENTRY>>, {}) = {ENTRY}
  BY DEF Pending
<1>7. Filled(<<>>, {ENTRY}, map, 1)
  <2>1. <<>> \in [{} -> Blocks] /\ {} \in SUBSET (0 .. 1 - 1) /\ DOMAIN <<>> = {}
    OBVIOUS
  <2>2. <<>> \in UNION {[S -> Blocks] : S \in SUBSET (0 .. 1 - 1)}
    BY <2>1
  <2>3. {i \in 0 .. 1 - 1 : \A b \in {ENTRY} : map[b] # i} = {}
    BY <1>3 DEF ENTRY
  <2>4. QED
    BY <2>1, <2>2, <2>3 DEF Filled
<1> PICK r : r = [building EXCEPT !.found = <<>>]
  OBVIOUS
<1>8. r = [slot_count |-> 1, blocks |-> <<>>, blocks_map |-> map,
           blocks_stack |-> <<ENTRY>>, found |-> <<>>]
  BY <1>2
<1>9. Building(r, {})
  <2>1. /\ r.slot_count = 1 /\ r.blocks = <<>> /\ r.blocks_map = map
        /\ r.blocks_stack = <<ENTRY>> /\ r.found = <<>>
    BY <1>8
  <2>2. r.found \in Seq(1 .. 1 - 1) /\ 1 \in Nat
    BY <2>1
  <2>3. QED
    BY <1>4, <1>5, <1>6, <1>7, <1>8, <2>1, <2>2 DEF Building
<1>10. QED
  BY <1>2, <1>9 DEF BuildInv, Between

LEMMA TranslateStep ==
    ASSUME mir \in MirBodies, BuildInv, TranslateBasicBlock
    PROVE  BuildInv'
<1>1. PICK slot, e, t : /\ slot = building.blocks_map[ToTranslate]
                        /\ e = Extend(FoundNext.blocks, slot, Translated)
                        /\ t = WithBlocks(FoundNext, e)
  OBVIOUS
<1>2. building.blocks_stack # <<>> /\ building' = t /\ mir' = mir
  BY <1>1 DEF TranslateBasicBlock, ToTranslate, Opened, FoundNext, Translated, WithBlocks
<1>3. /\ Building(FoundNext, {ToTranslate}) /\ slot = FoundNext.blocks_map[ToTranslate]
      /\ IsBlock(Translated, 0 .. FoundNext.slot_count - 1) /\ HasTwoWays(Translated.term)
  BY <1>1, <1>2, NextFound
<1>4. Between(t)
  BY <1>1, <1>3, SlotSet
<1>5. Between(t)'
  BY <1>2, <1>4 DEF Between, Building, Numbered
<1>6. QED
  BY <1>2, <1>5 DEF BuildInv

\* In the end all slots are filled with blocks of the body.
LEMMA BodyTranslated ==
    ASSUME BuildInv, MakeContiguous
    PROVE  IsBody(body') /\ AllTwoWays'
<1> PICK r : r = [building EXCEPT !.found = <<>>]
  OBVIOUS
<1> PICK n, blocks : n = building.slot_count /\ blocks = building.blocks
  OBVIOUS
<1>1. r.slot_count = n /\ r.blocks = blocks /\ Building(r, {})
  BY DEF BuildInv, Between
<1>2. n \in Nat \ {0} /\ DOMAIN blocks = 0 .. n - 1 /\ body' = blocks
  BY <1>1 DEF MakeContiguous, Building
<1>3. /\ \A i \in DOMAIN blocks : IsBlock(blocks[i], 0 .. n - 1) /\ HasTwoWays(blocks[i].term)
      /\ blocks = [i \in DOMAIN blocks |-> blocks[i]]
  BY <1>1 DEF Building, Filled
<1>4. IsBody(blocks)
  BY <1>2, <1>3, BodyMade
<1>5. QED
  BY <1>2, <1>3, <1>4 DEF AllTwoWays, BlockIds

-----------------------------------------------------------------------------
(* All passes *)

\* What is left to run from each pass on.
FromReturns == <<"duplicate_return", "merge_goto_chains", "filter_unreachable_blocks">>
FromSecondMerge == <<"merge_goto_chains", "filter_unreachable_blocks">>
FromFilter == <<"filter_unreachable_blocks">>
FromAsserts == <<"reconstruct_asserts", "duplicate_return", "merge_goto_chains",
                 "filter_unreachable_blocks">>
FromMerge == <<"merge_goto_chains", "reconstruct_asserts", "duplicate_return",
               "merge_goto_chains", "filter_unreachable_blocks">>
FromTranslate == <<"translate_body", "inline_selected_functions", "merge_goto_chains",
                   "reconstruct_asserts", "duplicate_return", "merge_goto_chains",
                   "filter_unreachable_blocks">>

Runs(s, p, rest) == s # <<>> /\ Head(s) = p /\ Tail(s) = rest

LEMMA Order ==
    /\ <<"translate_body">> \o PASSES = FromTranslate
    /\ Runs(FromTranslate, "translate_body", PASSES)
    /\ Runs(PASSES, "inline_selected_functions", FromMerge)
    /\ Runs(FromMerge, "merge_goto_chains", FromAsserts)
    /\ Runs(FromAsserts, "reconstruct_asserts", FromReturns)
    /\ Runs(FromReturns, "duplicate_return", FromSecondMerge)
    /\ Runs(FromSecondMerge, "merge_goto_chains", FromFilter)
    /\ Runs(FromFilter, "filter_unreachable_blocks", <<>>)
<1>1. <<"translate_body">> \o PASSES = FromTranslate
  <2>0. PICK Names : Names = {"translate_body", "inline_selected_functions", "merge_goto_chains",
                              "reconstruct_asserts", "duplicate_return",
                              "filter_unreachable_blocks"}
    OBVIOUS
  <2>1. PICK one, rest, all : one = <<"translate_body">> /\ rest = PASSES /\ all = FromTranslate
    OBVIOUS
  <2>2. /\ one \in Seq(Names) /\ rest \in Seq(Names) /\ all \in Seq(Names)
        /\ Len(one) = 1 /\ Len(rest) = 6 /\ Len(all) = 7
        /\ one[1] = all[1] /\ \A i \in 1 .. 6 : rest[i] = all[i + 1]
    <3>1. one \in Seq(Names) /\ Len(one) = 1 /\ one[1] = "translate_body"
      BY <2>0, <2>1
    <3>2. rest \in Seq(Names) /\ Len(rest) = 6
      BY <2>0, <2>1 DEF PASSES
    <3>3. all \in Seq(Names) /\ Len(all) = 7 /\ all[1] = "translate_body"
      BY <2>0, <2>1 DEF FromTranslate
    <3>4. /\ rest[1] = all[2] /\ rest[2] = all[3] /\ rest[3] = all[4] /\ rest[4] = all[5]
          /\ rest[5] = all[6] /\ rest[6] = all[7]
      BY <2>1 DEF PASSES, FromTranslate
    <3>5. \A i \in 1 .. 6 : rest[i] = all[i + 1]
      <4>1. \A i \in 1 .. 6 : i = 1 \/ i = 2 \/ i = 3 \/ i = 4 \/ i = 5 \/ i = 6
        OBVIOUS
      <4>2. QED
        BY <3>4, <4>1
    <3>6. QED
      BY <3>1, <3>2, <3>3, <3>5
  <2>3. PICK both : both = one \o rest
    OBVIOUS
  <2>4. /\ both \in Seq(Names) /\ Len(both) = 7
        /\ \A i \in 1 .. 7 : both[i] = IF i <= 1 THEN one[i] ELSE rest[i - 1]
    <3>1. /\ one \o rest \in Seq(Names) /\ Len(one \o rest) = Len(one) + Len(rest)
          /\ \A i \in 1 .. Len(one) + Len(rest) :
               (one \o rest)[i] = IF i <= Len(one) THEN one[i] ELSE rest[i - Len(one)]
      <4>1. one \in Seq(Names) /\ rest \in Seq(Names)
        BY <2>2
      <4>2. QED
        BY <4>1, ConcatProperties
    <3>2. Len(one) = 1 /\ Len(rest) = 6 /\ Len(one) + Len(rest) = 7
      BY <2>2
    <3>3. QED
      BY <2>3, <3>1, <3>2
  <2>5. \A i \in 1 .. 7 : both[i] = all[i]
    BY <2>2, <2>4
  <2>6. both = all
    BY <2>2, <2>4, <2>5, SeqEqual
  <2>7. QED
    BY <2>1, <2>3, <2>6
<1>2. Runs(FromTranslate, "translate_body", PASSES)
  BY DEF PASSES, FromTranslate, Runs
<1>3. Runs(PASSES, "inline_selected_functions", FromMerge)
  BY DEF PASSES, FromMerge, Runs
<1>4. Runs(FromMerge, "merge_goto_chains", FromAsserts)
  BY DEF FromMerge, FromAsserts, Runs
<1>5. Runs(FromAsserts, "reconstruct_asserts", FromReturns)
  BY DEF FromAsserts, FromReturns, Runs
<1>6. Runs(FromReturns, "duplicate_return", FromSecondMerge)
  BY DEF FromReturns, FromSecondMerge, Runs
<1>7. Runs(FromSecondMerge, "merge_goto_chains", FromFilter)
  BY DEF FromFilter, FromSecondMerge, Runs
<1>8. Runs(FromFilter, "filter_unreachable_blocks", <<>>)
  BY DEF FromFilter, Runs
<1>9. QED
  BY <1>1, <1>2, <1>3, <1>4, <1>5, <1>6, <1>7, <1>8

LEMMA Lengths == /\ Len(FromTranslate) = 7 /\ Len(PASSES) = 6 /\ Len(FromMerge) = 5
                 /\ Len(FromAsserts) = 4 /\ Len(FromReturns) = 3 /\ Len(FromSecondMerge) = 2
                 /\ Len(FromFilter) = 1
BY DEF FromTranslate, PASSES, FromMerge, FromAsserts, FromReturns, FromSecondMerge, FromFilter

Translating == /\ passes = FromTranslate
               /\ Unstarted /\ body = <<>>
               /\ mir \in MirBodies /\ BuildInv

\* What each pass leaves to those that are still to run.
Transforming ==
    /\ IInv /\ ChainInv /\ SkipInv
    /\ \/ passes \in {PASSES, FromAsserts, FromReturns} /\ AllTwoWays
       \/ passes = FromMerge /\ pc # "done" /\ AllTwoWays
       \/ passes = FromSecondMerge /\ pc # "done" /\ (pc = "antecedents" => ReturnsAlone)
       \/ passes = FromFilter /\ pc = "done"
       \/ passes = <<>> /\ Compact /\ Explored = BlockIds

PassInv == Translating \/ Transforming

LEMMA Distinct ==
    /\ \A p, q, r, t : Runs(r, p, t) /\ passes = r /\ Running(q) => p = q /\ Tail(passes) = t
    /\ \A q : ~(passes = <<>> /\ Running(q))
BY DEF Runs, Running

LEMMA PassesStart == PassesInit => PassInv
<1> SUFFICES ASSUME PassesInit PROVE PassInv
  OBVIOUS
<1>1. CASE Init /\ passes = PASSES
  <2>1. IInv /\ ChainInv
    BY <1>1, InitInv, InitChains
  <2>2. SkipInv
    BY <1>1 DEF Init, SkipInv
  <2>3. AllTwoWays
    BY <1>1, TwoWaysAssumption DEF Init, AllTwoWays, BlockIds
  <2>4. QED
    BY <1>1, <2>1, <2>2, <2>3 DEF PassInv, Transforming
<1>2. CASE /\ mir \in MirBodies /\ Unstarted /\ body = <<>> /\ building = RegisterStart
           /\ passes = <<"translate_body">> \o PASSES
  <2>1. BuildInv
    BY <1>2, StartRegistered
  <2>2. passes = FromTranslate
    BY <1>2, Order
  <2>3. QED
    BY <1>2, <2>1, <2>2 DEF PassInv, Translating
<1>3. QED
  BY <1>1, <1>2 DEF PassesInit

LEMMA TranslateBodyPasses == ASSUME PassInv, TranslateBody PROVE PassInv'
<1>0. Running("translate_body")
  BY DEF TranslateBody
<1>1. Translating
  <2>1. \A r, p, t : Runs(r, p, t) /\ p # "translate_body" => passes # r
    BY <1>0, Distinct
  <2>2. passes # <<>>
    BY <1>0 DEF Running
  <2>3. passes \notin {PASSES, FromMerge, FromAsserts, FromReturns, FromSecondMerge, FromFilter}
    BY <2>1, Order
  <2>4. QED
    BY <2>2, <2>3 DEF PassInv, Transforming
<1>2. CASE TranslateBasicBlock /\ UNCHANGED <<body, passes>>
  <2>1. mir' = mir /\ BuildInv'
    BY <1>1, <1>2, TranslateStep DEF Translating, TranslateBasicBlock
  <2>2. UNCHANGED <<pc, antecedents, block, id, target, visited, merged>>
    BY DEF TranslateBody
  <2>3. QED
    BY <1>1, <1>2, <2>1, <2>2 DEF PassInv, Translating, Unstarted
<1>3. CASE MakeContiguous /\ passes' = Tail(passes)
  <2>1. IsBody(body') /\ AllTwoWays'
    BY <1>1, <1>3, BodyTranslated DEF Translating
  <2>2. UNCHANGED <<pc, antecedents, block, id, target, visited, merged>> /\ Unstarted
    BY <1>1 DEF TranslateBody, Translating
  <2>3. StartPass /\ target' = target /\ target \in Nat
    BY <2>2 DEF StartPass, Unstarted
  <2>4. IInv' /\ ChainInv'
    BY <2>1, <2>3, Started
  <2>5. SkipInv'
    BY <2>3 DEF SkipInv, StartPass
  <2>6. passes' = PASSES
    BY <1>1, <1>3, Order DEF Translating, Runs
  <2>7. QED
    BY <2>1, <2>4, <2>5, <2>6 DEF PassInv, Transforming
<1>4. QED
  BY <1>2, <1>3 DEF TranslateBody

\* A pass other than the translation runs on a body.
LEMMA PassRuns ==
    ASSUME PassInv, NEW p, Running(p), p # "translate_body"
    PROVE  /\ Transforming
           /\ IsBody(body) /\ target \in Nat
           /\ p = "inline_selected_functions" => passes = PASSES /\ passes # <<>>
           /\ p = "merge_goto_chains" => passes \in {FromMerge, FromSecondMerge}
           /\ p = "reconstruct_asserts" => passes = FromAsserts
           /\ p = "duplicate_return" => passes = FromReturns
           /\ p = "filter_unreachable_blocks" => passes = FromFilter
<1>1. \A r, q, t : Runs(r, q, t) /\ p # q => passes # r
  BY Distinct
<1>2. passes # <<>>
  BY DEF Running
<1>3. passes # FromTranslate
  BY <1>1, Order
<1>4. Transforming
  BY <1>3 DEF PassInv, Translating
<1>5. /\ p # "inline_selected_functions" => passes # PASSES
      /\ p # "merge_goto_chains" => passes # FromMerge /\ passes # FromSecondMerge
      /\ p # "reconstruct_asserts" => passes # FromAsserts
      /\ p # "duplicate_return" => passes # FromReturns
      /\ p # "filter_unreachable_blocks" => passes # FromFilter
  BY <1>1, Order
<1>6. passes \in {PASSES, FromMerge, FromAsserts, FromReturns, FromSecondMerge, FromFilter}
  BY <1>2, <1>4 DEF Transforming
<1>7. IsBody(body) /\ target \in Nat
  BY <1>4 DEF Transforming, IInv, TypeOK
<1>8. QED
  BY <1>2, <1>4, <1>5, <1>6, <1>7

\* Which of the cases it is.
LEMMA WhatIsLeft ==
    ASSUME Transforming
    PROVE  /\ passes \in {PASSES, FromMerge, FromAsserts, FromReturns} => AllTwoWays
           /\ passes = FromFilter => Compact
           /\ passes = <<>> => Compact /\ Explored = BlockIds
           /\ passes \in {FromMerge, FromSecondMerge} => pc # "done"
           /\ passes = FromSecondMerge /\ pc = "antecedents" => ReturnsAlone
<1>1. /\ Len(PASSES) = 6 /\ Len(FromMerge) = 5 /\ Len(FromAsserts) = 4 /\ Len(FromReturns) = 3
      /\ Len(FromSecondMerge) = 2 /\ Len(FromFilter) = 1 /\ Len(<<>>) = 0
  BY Lengths
<1>2. pc = "done" => Compact
  BY DEF Transforming, SkipInv
<1>3. /\ <<>> \notin {PASSES, FromMerge, FromAsserts, FromReturns, FromSecondMerge, FromFilter}
      /\ FromFilter \notin {PASSES, FromMerge, FromAsserts, FromReturns, FromSecondMerge}
      /\ FromSecondMerge \notin {PASSES, FromMerge, FromAsserts, FromReturns}
      /\ FromMerge \notin {PASSES, FromAsserts, FromReturns}
  <2>1. <<>> \notin {PASSES, FromMerge, FromAsserts, FromReturns, FromSecondMerge, FromFilter}
    BY Order DEF Runs
  <2>2. FromFilter \notin {PASSES, FromMerge, FromAsserts, FromReturns, FromSecondMerge}
    BY <1>1
  <2>3. FromSecondMerge \notin {PASSES, FromMerge, FromAsserts, FromReturns}
    BY <1>1
  <2>4. FromMerge \notin {PASSES, FromAsserts, FromReturns}
    BY <1>1
  <2>5. QED
    BY <2>1, <2>2, <2>3, <2>4
<1>4. CASE passes \in {PASSES, FromAsserts, FromReturns} /\ AllTwoWays
  BY <1>3, <1>4
<1>5. CASE passes = FromMerge /\ pc # "done" /\ AllTwoWays
  BY <1>3, <1>5
<1>6. CASE passes = FromSecondMerge /\ pc # "done" /\ (pc = "antecedents" => ReturnsAlone)
  BY <1>3, <1>6
<1>7. CASE passes = FromFilter /\ pc = "done"
  BY <1>2, <1>3, <1>7
<1>8. CASE passes = <<>> /\ Compact /\ Explored = BlockIds
  BY <1>3, <1>8
<1>9. QED
  BY <1>4, <1>5, <1>6, <1>7, <1>8 DEF Transforming

\* A pass that makes a new body at once leaves what the next one relies on.
LEMMA BodyReplaced ==
    ASSUME StartPass, target' = target, target \in Nat, IsBody(body')
    PROVE  IInv' /\ ChainInv' /\ SkipInv' /\ pc' = "antecedents"
<1>1. IInv' /\ ChainInv'
  BY Started
<1>2. pc' = "antecedents"
  BY DEF StartPass
<1>3. QED
  BY <1>1, <1>2 DEF SkipInv

LEMMA InlinePasses == ASSUME PassInv, InlineSelectedFunctions PROVE PassInv'
<1>1. Running("inline_selected_functions") /\ passes' = Tail(passes) /\ StartPass /\ target' = target
  BY DEF InlineSelectedFunctions
<1>2. Transforming /\ IsBody(body) /\ target \in Nat /\ passes = PASSES
  BY <1>1, PassRuns
<1>3. AllTwoWays
  BY <1>2, WhatIsLeft
<1>4. IsBody(body') /\ AllTwoWays'
  BY <1>2, <1>3, InlineStep
<1>5. passes' = FromMerge
  BY <1>1, <1>2, Order DEF Runs
<1>6. IInv' /\ ChainInv' /\ SkipInv' /\ pc' = "antecedents"
  BY <1>1, <1>2, <1>4, BodyReplaced
<1>7. QED
  BY <1>4, <1>5, <1>6 DEF PassInv, Transforming

LEMMA ReconstructPasses == ASSUME PassInv, ReconstructAsserts PROVE PassInv'
<1>1. Running("reconstruct_asserts") /\ passes' = Tail(passes) /\ StartPass /\ target' = target
  BY DEF ReconstructAsserts
<1>2. Transforming /\ IsBody(body) /\ target \in Nat /\ passes = FromAsserts
  BY <1>1, PassRuns
<1>3. AllTwoWays
  BY <1>2, WhatIsLeft
<1>4. IsBody(body') /\ AllTwoWays'
  BY <1>2, <1>3, ReconstructAssertsStep
<1>5. passes' = FromReturns
  BY <1>1, <1>2, Order DEF Runs
<1>6. IInv' /\ ChainInv' /\ SkipInv' /\ pc' = "antecedents"
  BY <1>1, <1>2, <1>4, BodyReplaced
<1>7. QED
  BY <1>4, <1>5, <1>6 DEF PassInv, Transforming

LEMMA DuplicatePasses == ASSUME PassInv, DuplicateReturn PROVE PassInv'
<1>1. Running("duplicate_return") /\ passes' = Tail(passes) /\ StartPass /\ target' = target
  BY DEF DuplicateReturn
<1>2. Transforming /\ IsBody(body) /\ target \in Nat /\ passes = FromReturns
  BY <1>1, PassRuns
<1>3. AllTwoWays
  BY <1>2, WhatIsLeft
<1>4. IsBody(body') /\ ReturnsAlone'
  BY <1>2, <1>3, DuplicateReturnStep
<1>5. passes' = FromSecondMerge
  BY <1>1, <1>2, Order DEF Runs
<1>6. IInv' /\ ChainInv' /\ SkipInv' /\ pc' = "antecedents"
  BY <1>1, <1>2, <1>4, BodyReplaced
<1>7. QED
  BY <1>4, <1>5, <1>6 DEF PassInv, Transforming

LEMMA FilterPasses == ASSUME PassInv, FilterUnreachable PROVE PassInv'
<1>1. Running("filter_unreachable_blocks") /\ passes' = Tail(passes) /\ StartPass /\ target' = target
  BY DEF FilterUnreachable
<1>2. Transforming /\ IsBody(body) /\ target \in Nat /\ passes = FromFilter
  BY <1>1, PassRuns
<1>3. Compact
  BY <1>2, WhatIsLeft
<1>4. IsBody(body') /\ Compact' /\ Explored' = BlockIds'
  BY <1>2, <1>3, FilterStep
<1>5. passes' = <<>>
  BY <1>1, <1>2, Order DEF Runs
<1>6. IInv' /\ ChainInv' /\ SkipInv'
  BY <1>1, <1>2, <1>4, BodyReplaced
<1>7. QED
  BY <1>4, <1>5, <1>6 DEF PassInv, Transforming

\* The loops of merge_goto_chains never begin anew.
LEMMA NeverAgain == ASSUME Next PROVE pc' # "antecedents"
BY DEF Next, ComputeAntecedents, ClimbUp, StartMerging, MergeTarget, NextBlock, SkipGoto,
       NextTarget, NextSkip

LEMMA MergePasses == ASSUME PassInv, MergeGotoChains PROVE PassInv'
<1>1. Running("merge_goto_chains") /\ Next /\ passes' = IF pc' = "done" THEN Tail(passes) ELSE passes
  BY DEF MergeGotoChains
<1>2. Transforming /\ passes \in {FromMerge, FromSecondMerge}
  BY <1>1, PassRuns
<1>3. IInv' /\ ChainInv' /\ SkipInv'
  BY <1>1, <1>2, NextInv, NextChains, NextCompact DEF Transforming
<1>4. CASE passes = FromMerge
  <2>1. AllTwoWays'
    BY <1>1, <1>2, <1>4, WhatIsLeft, MergingTwoWays DEF Transforming
  <2>2. CASE pc' = "done"
    <3>1. passes' = FromAsserts
      BY <1>1, <1>4, <2>2, Order DEF Runs
    <3>2. QED
      BY <1>3, <2>1, <3>1 DEF PassInv, Transforming
  <2>3. CASE pc' # "done"
    BY <1>1, <1>3, <1>4, <2>1, <2>3 DEF PassInv, Transforming
  <2>4. QED
    BY <2>2, <2>3
<1>5. CASE passes = FromSecondMerge
  <2>1. pc' # "antecedents"
    BY <1>1, NeverAgain
  <2>2. CASE pc' = "done"
    <3>1. passes' = FromFilter
      BY <1>1, <1>5, <2>2, Order DEF Runs
    <3>2. QED
      BY <1>3, <2>2, <3>1 DEF PassInv, Transforming
  <2>3. CASE pc' # "done"
    BY <1>1, <1>3, <1>5, <2>1, <2>3 DEF PassInv, Transforming
  <2>4. QED
    BY <2>2, <2>3
<1>6. QED
  BY <1>2, <1>4, <1>5

LEMMA PassesStutter == ASSUME PassInv, UNCHANGED pvars PROVE PassInv'
<1>1. UNCHANGED vars /\ UNCHANGED <<mir, building, passes>>
  BY DEF pvars, mirVars
<1>2. UNCHANGED <<body, pc, antecedents, block, id, target, visited, merged>>
  BY <1>1 DEF vars
<1>3. CASE Translating
  <2>1. BuildInv'
    BY <1>1, <1>3 DEF Translating, BuildInv, Between, Building, Numbered
  <2>2. QED
    BY <1>1, <1>2, <1>3, <2>1 DEF PassInv, Translating, Unstarted
<1>4. CASE Transforming
  <2>1. IInv' /\ ChainInv' /\ SkipInv'
    BY <1>1, <1>4, NextInv, NextChains, NextCompact DEF Transforming
  <2>2. AllTwoWays => AllTwoWays'
    BY <1>2 DEF AllTwoWays, BlockIds
  <2>3. ReturnsAlone => ReturnsAlone'
    BY <1>2 DEF ReturnsAlone, JumpsTo, Targets, BlockIds
  <2>4. Compact => Compact'
    <3> SUFFICES ASSUME Compact PROVE Compact'
      OBVIOUS
    <3>1. PICK Z : /\ Cycle(Z)
                   /\ \A b \in BlockIds : \A k \in DOMAIN Targets(b) :
                        IsTrivialGoto(Targets(b)[k]) => Targets(b)[k] \in Z
      BY DEF Compact
    <3>2. Cycle(Z)'
      BY <1>2, <3>1 DEF Cycle, IsTrivialGoto, Targets, BlockIds
    <3>3. (\A b \in BlockIds : \A k \in DOMAIN Targets(b) :
             IsTrivialGoto(Targets(b)[k]) => Targets(b)[k] \in Z)'
      BY <1>2, <3>1 DEF IsTrivialGoto, Targets, BlockIds
    <3>4. QED
      BY <3>2, <3>3 DEF Compact
  <2>5. Explored = BlockIds => Explored' = BlockIds'
    BY <1>2 DEF Explored, Size, Targets, BlockIds
  <2>6. passes' = passes /\ pc' = pc
    BY <1>1, <1>2
  <2>7. QED
    BY <1>4, <2>1, <2>2, <2>3, <2>4, <2>5, <2>6 DEF PassInv, Transforming
<1>5. QED
  BY <1>3, <1>4 DEF PassInv

LEMMA PassesKeep == PassInv /\ [PassesNext]_pvars => PassInv'
BY TranslateBodyPasses, InlinePasses, MergePasses, ReconstructPasses, DuplicatePasses,
   FilterPasses, PassesStutter DEF PassesNext

THEOREM PassesInvariance == PassesSpec => []PassInv
BY PassesStart, PassesKeep, PTL DEF PassesSpec

LEMMA TranslatingAlone == ASSUME Translating PROVE BlockIds = {} /\ Running("translate_body")
<1>1. DOMAIN <<>> = {}
  OBVIOUS
<1>2. QED
  BY <1>1, Order DEF Translating, BlockIds, Running, Runs

\* What each pass gets and leaves is a body: the ids of its blocks have no
\* gaps, gotos have one target, no jump leads out of the body or to the first
\* block.
BodyWellFormed == ~Running("translate_body") => TypeOK

\* Every pass, the translation that numbers blocks as it finds them, inlining
\* and the passes that add, rename or drop blocks, leaves a well-formed body.
THEOREM BodiesStayWellFormed == PassesSpec => []BodyWellFormed
<1>1. PassInv => BodyWellFormed
  BY TranslatingAlone DEF PassInv, Transforming, BodyWellFormed, IInv
<1>2. QED
  BY <1>1, PassesInvariance, PTL

\* A slot is empty until its block is translated (set_slot asserts it), and when
\* no block waits any more all of them are filled (make_contiguous unwraps them).
SlotsInTime ==
    Running("translate_body") =>
      /\ building.blocks_stack # <<>> =>
           building.blocks_map[ToTranslate] \notin DOMAIN FoundNext.blocks
      /\ building.blocks_stack = <<>> =>
           building.slot_count > 0 /\ DOMAIN building.blocks = 0 .. building.slot_count - 1

\* The translation never fills a slot twice nor leaves one empty, whatever the
\* order in which terminators name blocks.
THEOREM SlotsAreInTime == PassesSpec => []SlotsInTime
<1>1. ASSUME PassInv, Running("translate_body") PROVE Translating
  <2>1. \A r, p, t : Runs(r, p, t) /\ p # "translate_body" => passes # r
    BY <1>1, Distinct
  <2>2. passes # <<>>
    BY <1>1 DEF Running
  <2>3. passes \notin {PASSES, FromMerge, FromAsserts, FromReturns, FromSecondMerge, FromFilter}
    BY <2>1, Order
  <2>4. QED
    BY <1>1, <2>2, <2>3 DEF PassInv, Transforming
<1>2. ASSUME Translating, building.blocks_stack # <<>>
      PROVE  building.blocks_map[ToTranslate] \notin DOMAIN FoundNext.blocks
  <2>1. /\ Building(FoundNext, {ToTranslate})
        /\ FoundNext.blocks_map[ToTranslate] = building.blocks_map[ToTranslate]
    BY <1>2, NextFound DEF Translating
  <2>2. /\ ToTranslate \in Pending(FoundNext.blocks_stack, {ToTranslate})
        /\ Filled(FoundNext.blocks, Pending(FoundNext.blocks_stack, {ToTranslate}),
                  FoundNext.blocks_map, FoundNext.slot_count)
    BY <2>1 DEF Building, Pending
  <2>3. QED
    BY <2>1, <2>2 DEF Filled
<1>3. ASSUME Translating, building.blocks_stack = <<>>
      PROVE  building.slot_count > 0 /\ DOMAIN building.blocks = 0 .. building.slot_count - 1
  <2>1. PICK r, n : r = [building EXCEPT !.found = <<>>] /\ n = building.slot_count
    OBVIOUS
  <2>2. /\ Building(r, {}) /\ r.slot_count = n /\ r.blocks = building.blocks
        /\ r.blocks_map = building.blocks_map /\ r.blocks_stack = <<>>
    BY <1>3, <2>1 DEF Translating, BuildInv, Between
  <2>3. Pending(<<>>, {}) = {}
    BY DEF Pending
  <2>4. DOMAIN building.blocks = 0 .. n - 1
    BY <2>2, <2>3 DEF Building, Filled
  <2>5. n \in Nat /\ Numbered(building.blocks_map, n)
    BY <2>2 DEF Building
  <2>6. n # 0
    BY <2>5 DEF Numbered
  <2>7. QED
    BY <2>1, <2>4, <2>5, <2>6
<1>4. PassInv => SlotsInTime
  BY <1>1, <1>2, <1>3 DEF SlotsInTime
<1>5. QED
  BY <1>4, PassesInvariance, PTL

\* In both rounds of merging and with everything between them, no jump is left
\* that leads into a block whose contents were taken.
THEOREM PassesTargetsLive == PassesSpec => []TargetsLive
<1>1. PassInv => TargetsLive
  BY TranslatingAlone DEF PassInv, Transforming, IInv, TargetsLive
<1>2. QED
  BY <1>1, PassesInvariance, PTL

\* Neither round leaves a block that could be taken into the one before it.
THEOREM PassesNoChains == PassesSpec => []NoChainsLeft
<1>1. PassInv => NoChainsLeft
  BY DEF PassInv, Translating, Unstarted, Transforming, ChainInv, NoChainsLeft
<1>2. QED
  BY <1>1, PassesInvariance, PTL

\* Behind duplicate_return each jump has a return of its own, so that the merging
\* that follows can take it into its block.
THEOREM ReturnsAreUnshared == PassesSpec => []ReturnsUnshared
<1>1. ASSUME PassInv, BetweenPasses, Running("merge_goto_chains"), Len(passes) = 2
      PROVE  ReturnsAlone
  <2>1. Transforming /\ passes \in {FromMerge, FromSecondMerge}
    BY <1>1, PassRuns
  <2>2. passes = FromSecondMerge
    BY <1>1, <2>1, Lengths
  <2>3. pc = "antecedents"
    BY <1>1, <2>1, <2>2, WhatIsLeft DEF BetweenPasses
  <2>4. QED
    BY <2>1, <2>2, <2>3, WhatIsLeft
<1>2. PassInv => ReturnsUnshared
  BY <1>1 DEF ReturnsUnshared, ReturnsAlone
<1>3. QED
  BY <1>2, PassesInvariance, PTL

\* In the end all blocks can be reached, and no jump leads to a block that is
\* only a goto, but for cycles of them.
THEOREM GraphsAreCompact == PassesSpec => []GraphIsCompact
<1>1. ASSUME PassInv, passes = <<>> PROVE GraphIsCompact
  <2>1. passes # FromTranslate
    BY <1>1, Order DEF Runs
  <2>2. Transforming
    BY <1>1, <2>1 DEF PassInv, Translating
  <2>3. IsBody(body) /\ Compact /\ Explored = BlockIds
    BY <1>1, <2>2, WhatIsLeft DEF Transforming, IInv, TypeOK
  <2>4. QED
    BY <2>3, CompactGraph
<1>2. PassInv => GraphIsCompact
  BY <1>1 DEF GraphIsCompact
<1>3. QED
  BY <1>2, PassesInvariance, PTL

=============================================================================
