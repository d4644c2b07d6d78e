---------------------------- MODULE Reconstruct ----------------------------
(* Charon's pass ullbc_to_llbc: a graph of blocks becomes nested loops and  *)
(* switches.  It analyses the graph (BuildCfg, see ControlFlow), then       *)
(* translates from the first block on (TranslateBody), with a stack of the  *)
(* blocks that a jump must not translate in place, and then removes loops   *)
(* that only serve a jump (RemoveUselessJumpBlocks).  A block that can be   *)
(* reached otherwise is translated again each time.  Passes over structured *)
(* bodies follow: reconstruct_matches, prettify_cfg and remove_nops; what   *)
(* runs between them changes single statements.  To say what the result     *)
(* does, the structured body is run (RunBlock).                             *)
(*                                                                          *)
(* A block's statements, and calls, drops, assertions and contracts with    *)
(* one way out, are kept as the block's number.  The mode ForwardBreak,     *)
(* which nothing selects, is left out.                                      *)
EXTENDS ControlFlow

CONSTANT Bodies

Terminator(kind, targets) == [kind |-> kind, targets |-> targets, variants |-> 0]
\* A switch on the discriminant of an enum, which is read right before it; each
\* target but the last is for a variant of its own.
Discriminate(targets, variants) ==
    [kind |-> "switchInt", targets |-> targets, variants |-> variants]

\* Terminators: "goto" is any kind with one target, "never" a call that does not
\* return, which is followed by a block without statements that aborts; the last
\* target of a "switchInt" is its `otherwise`.
Kinds == {"goto", "never", "if", "switchInt", "asm", "return", "abort"}
IsBody(b) == /\ ENTRY \in DOMAIN b
             /\ Reachable(Edges(b), ENTRY) = DOMAIN b
             /\ \A x \in DOMAIN b :
                  /\ b[x].kind \in Kinds
                  /\ b[x].targets \in Seq(DOMAIN b \ {ENTRY})
                  /\ b[x].kind = "goto" => Len(b[x].targets) = 1
                  /\ b[x].kind = "never" => /\ Len(b[x].targets) = 1
                                            /\ b[b[x].targets[1]].kind = "abort"
                                            /\ Into(Edges(b), b[x].targets[1]) = {x}
                  /\ b[x].variants # 0 => /\ b[x].kind = "switchInt"
                                          /\ b[x].variants >= Len(b[x].targets) - 1
                  /\ b[x].kind = "if" => Len(b[x].targets) = 2
                  /\ b[x].kind = "switchInt" => Len(b[x].targets) >= 1
                  /\ b[x].kind \in {"return", "abort"} => b[x].targets = <<>>
ASSUME BodiesAssumption == \A b \in Bodies : IsBody(b)

VARIABLES body,    \* the blocks, numbered from 0 on
          phase,   \* "cfg", "translate", "remove", "matches", "prettify", "nops",
                   \* "run", "irreducible" or "panic"
          info,    \* what is known of the graph
          code,    \* the structured body
          stack,   \* running it: what is left to do, innermost block last
          choice   \* running it: the way that was taken last

vars == <<body, phase, info, code, stack, choice>>

Init == /\ body \in Bodies
        /\ phase = "cfg"
        /\ info = <<>>
        /\ code = <<>>
        /\ stack = <<>>
        /\ choice = 0

BuildCfg == /\ phase = "cfg"
            /\ info' = CfgInfo(body)
            /\ phase' = IF info'.irreducible THEN "irreducible" ELSE "translate"
            /\ UNCHANGED <<body, code, stack, choice>>

-----------------------------------------------------------------------------
(* Structured code: a block is a sequence of statements.  Each arm of a      *)
(* switch has the ways out of the graph's block that it stands for.          *)

Block(x) == [kind |-> "block", id |-> x]
Switch(arms) == [kind |-> "switch", arms |-> arms]
Loop(b) == [kind |-> "loop", body |-> b]
Break(depth) == [kind |-> "break", depth |-> depth]
Continue(depth) == [kind |-> "continue", depth |-> depth]
Nop == [kind |-> "nop"]
ReadDiscriminant(variants) == [kind |-> "discriminant", variants |-> variants]
Ended(how) == [kind |-> how]

\* SpecialJump: `depth` counts loops from the outside.
SpecialJump(target, kind, depth) == [target |-> target, kind |-> kind, depth |-> depth]

Jumps(targets) == [i \in DOMAIN targets |-> [ways |-> {i}, target |-> targets[i]]]

\* The arms of a switchInt with the same target are grouped, `otherwise` is not.
GroupedJumps(targets) ==
    LET last == Len(targets)
        first == SelectSeq([i \in 1..(last - 1) |-> i], LAMBDA i : \A j \in 1..(i - 1) : targets[j] # targets[i])
        group(i) == {j \in 1..(last - 1) : targets[j] = targets[i]}
    IN  Append([k \in DOMAIN first |-> [ways |-> group(first[k]), target |-> targets[first[k]]]],
               [ways |-> {last}, target |-> targets[last]])

\* Mutants of IsNext: any block behind a switch is taken to be reached by doing
\* nothing, or whatever is on top of the stack.
IsNextAnywhere(jumps, i) == jumps[i].kind = "next_block"
IsNextOnTop(jumps, i) == i = Len(jumps)

\* Doing nothing leads to the block.
IsNext(jumps, i) == jumps[i].kind = "next_block" /\ i = Len(jumps)

RECURSIVE TranslateBlock(_, _, _, _, _), TranslateJump(_, _, _, _, _), LeaveContexts(_, _, _, _, _, _)

\* translate_jump: `jumps` is the special_jump_stack, `depth` the
\* break_context_depth.
TranslateJump(b, cfg, jumps, depth, target) ==
    LET i == SelectLastInSeq(jumps, LAMBDA j : j.target = target)
    IN  CASE i # 0 /\ IsNext(jumps, i) -> <<Nop>>
          [] i # 0 /\ jumps[i].kind = "loop_continue" -> <<Continue(depth - jumps[i].depth)>>
          [] i # 0 /\ jumps[i].kind = "loop_break"    -> <<Break(depth - jumps[i].depth)>>
          [] OTHER -> TranslateBlock(b, cfg, jumps, depth, target)

TranslateTerminator(b, cfg, jumps, depth, x) ==
    LET arms(js) == [k \in DOMAIN js |->
                        [ways |-> js[k].ways, body |-> TranslateJump(b, cfg, jumps, depth, js[k].target)]]
    IN  CASE b[x].kind \in {"goto", "never"} -> TranslateJump(b, cfg, jumps, depth, b[x].targets[1])
          [] b[x].kind \in {"if", "asm"} -> <<Switch(arms(Jumps(b[x].targets)))>>
          [] b[x].kind = "switchInt"     -> <<Switch(arms(GroupedJumps(b[x].targets)))>>
          [] b[x].kind \in {"return", "abort"} -> <<Ended(b[x].kind)>>

\* A block's statements, of which the one that a switch depends on is last.
Statements(b, x) ==
    <<Block(x)>> \o IF b[x].variants = 0 THEN <<>> ELSE <<ReadDiscriminant(b[x].variants)>>

\* The contexts that a block opens: its loop's exit and its loop, or its exit
\* as a switch.
Contexts(cfg, depth, x) ==
    IF x \in cfg.headers
    THEN (IF cfg.loop_exit[x] = NONE THEN <<>>
          ELSE <<SpecialJump(cfg.loop_exit[x], "loop_break", depth + 1)>>)
         \o <<SpecialJump(x, "loop_continue", depth + 1)>>
    ELSE IF cfg.switch_exit[x] = NONE THEN <<>>
    ELSE <<SpecialJump(cfg.switch_exit[x], "next_block", 0)>>

TranslateBlock(b, cfg, jumps, depth, x) ==
    LET opened == Contexts(cfg, depth, x)
        inner == IF x \in cfg.headers THEN depth + 1 ELSE depth
    IN  LeaveContexts(b, cfg, jumps \o opened, inner, Len(jumps),
                      Statements(b, x) \o TranslateTerminator(b, cfg, jumps \o opened, inner, x))

\* Close the contexts above `height`: the block is looped, or what it jumps to
\* is put behind it.
LeaveContexts(b, cfg, jumps, depth, height, block) ==
    IF Len(jumps) = height THEN block
    ELSE LET top == Last(jumps)
             rest == Front(jumps)
         IN  IF top.kind = "loop_continue"
             THEN LeaveContexts(b, cfg, rest, depth - 1, height, <<Loop(block)>>)
             ELSE LeaveContexts(b, cfg, rest, depth, height,
                                block \o TranslateJump(b, cfg, rest, depth, top.target))

TranslateBody ==
    /\ phase = "translate"
    /\ code' = TranslateBlock(body, info, <<>>, 0, ENTRY)
    /\ phase' = "remove"
    /\ info' = <<>>
    /\ UNCHANGED <<body, stack, choice>>

-----------------------------------------------------------------------------
(* remove_useless_jump_blocks *)

\* How many statements of a kind in a block jump to the loop at this depth.
RECURSIVE JumpCount(_, _, _)
JumpCount(block, kind, depth) ==
    LET count(s) == CASE s.kind = kind /\ s.depth = depth -> 1
                      [] s.kind = "loop" -> JumpCount(s.body, kind, depth + 1)
                      [] s.kind = "switch" -> FoldLeft(LAMBDA n, a : n + JumpCount(a.body, kind, depth), 0, s.arms)
                      [] OTHER -> 0
    IN  FoldLeft(LAMBDA n, s : n + count(s), 0, block)

IsUseless(loop) == /\ JumpCount(loop, "continue", 0) = 0
                   /\ JumpCount(loop, "break", 0) = 1
                   /\ Last(loop) = Break(0)

\* A jump crosses as many loops less as were removed on its way.
Shallower(depth, kept) ==
    Cardinality({i \in (Len(kept) - depth + 1)..Len(kept) : kept[i]})

RECURSIVE RemoveJumps(_, _)
RemoveJumps(block, kept) ==
    LET inner(b) == RemoveJumps(b, Append(kept, ~IsUseless(b)))
        arms(s) == [k \in DOMAIN s.arms |-> [s.arms[k] EXCEPT !.body = RemoveJumps(@, kept)]]
        removed(s) ==
            CASE s.kind \in {"break", "continue"} -> <<[s EXCEPT !.depth = Shallower(@, kept)]>>
              [] s.kind = "switch" -> <<Switch(arms(s))>>
              [] s.kind = "loop" /\ ~IsUseless(s.body) -> <<Loop(inner(s.body))>>
              [] s.kind = "loop" /\ IsUseless(s.body) -> Append(Front(inner(s.body)), Nop)
              [] OTHER -> <<s>>
    IN  FlattenSeq([i \in DOMAIN block |-> removed(block[i])])

\* The loops of a block.
RECURSIVE LoopsOf(_)
LoopsOf(block) ==
    UNION {LET s == block[i] IN
           CASE s.kind = "loop" -> {s.body} \cup LoopsOf(s.body)
             [] s.kind = "switch" -> UNION {LoopsOf(s.arms[k].body) : k \in DOMAIN s.arms}
             [] OTHER -> {} : i \in DOMAIN block}

\* A loop that nothing jumps to has no entry in the table of counts.
Uncounted == {b \in LoopsOf(code) : JumpCount(b, "continue", 0) + JumpCount(b, "break", 0) = 0}

RemoveUselessJumpBlocks ==
    /\ phase = "remove"
    /\ IF Uncounted # {}
       THEN /\ phase' = "panic"
            /\ UNCHANGED code
       ELSE /\ phase' = "matches"
            /\ code' = RemoveJumps(code, <<>>)
    /\ UNCHANGED <<body, info, stack, choice>>

-----------------------------------------------------------------------------
(* reconstruct_matches, prettify_cfg, remove_nops.  Each visits all blocks.  *)
(* The variants of the enum are known: reading the discriminant of a type     *)
(* that is not translated is an error.                                        *)

\* Mutant of Match: the targets are taken to be all variants.
MatchExhaustive(s, variants) == Switch(Front(s.arms))

\* A match needs no `otherwise` where each variant has an arm.
Match(s, variants) ==
    LET covered == UNION {a.ways : a \in ToSet(Front(s.arms))}
    IN  Switch(IF Cardinality(covered) = variants THEN Front(s.arms) ELSE s.arms)

\* The discriminant is read for the switch that is next.
IsRead(block, i) == /\ i \in 1..(Len(block) - 1)
                    /\ block[i].kind = "discriminant"
                    /\ block[i + 1].kind = "switch"
Matched(block) ==
    [i \in DOMAIN block |->
        IF IsRead(block, i) THEN Nop
        ELSE IF IsRead(block, i - 1) THEN Match(block[i], block[i - 1].variants)
        ELSE block[i]]

\* Mutant of NeverBefore: behind any call.
AnythingBefore(block, i) == i > 2 /\ block[i - 2].kind = "block"

\* An abort's own block, which has no statements, is behind a call that does not
\* return.
NeverBefore(block, i) == /\ i > 2
                         /\ block[i - 2].kind = "block"
                         /\ body[block[i - 2].id].kind = "never"

\* update_statements: an abort that is not reached goes.
Prettified(block) ==
    [i \in DOMAIN block |->
        IF /\ block[i].kind = "abort"
           /\ (i > 1 /\ block[i - 1].kind = "abort") \/ NeverBefore(block, i)
        THEN Nop ELSE block[i]]

WithoutNops(block) == SelectSeq(block, LAMBDA s : s.kind # "nop")

Update(pass, block) == CASE pass = "matches" -> Matched(block)
                         [] pass = "prettify" -> Prettified(block)
                         [] pass = "nops" -> WithoutNops(block)

\* visit_blocks_bwd: the blocks within a block come before it.
RECURSIVE VisitBlocks(_, _)
VisitBlocks(pass, block) ==
    LET arms(s) == [k \in DOMAIN s.arms |-> [s.arms[k] EXCEPT !.body = VisitBlocks(pass, @)]]
    IN  Update(pass, [i \in DOMAIN block |->
            CASE block[i].kind = "loop" -> Loop(VisitBlocks(pass, block[i].body))
              [] block[i].kind = "switch" -> Switch(arms(block[i]))
              [] OTHER -> block[i]])

RunPass(pass, next) == /\ phase = pass
                       /\ code' = VisitBlocks(pass, code)
                       /\ phase' = next

Frame(block, loop) == [todo |-> block, loop |-> loop]

ReconstructMatches == RunPass("matches", "prettify") /\ UNCHANGED <<body, info, stack, choice>>
PrettifyCfg == RunPass("prettify", "nops") /\ UNCHANGED <<body, info, stack, choice>>
RemoveNops == /\ RunPass("nops", "run")
              /\ stack' = <<Frame(code', <<>>)>>
              /\ UNCHANGED <<body, info, choice>>

-----------------------------------------------------------------------------
(* What structured code does.  A frame has the statements left to run and,  *)
(* for a loop, the loop's body.                                             *)

\* Off `n` loops and what is in them; the loop that is reached then is on top.
RECURSIVE Unwind(_, _)
Unwind(frames, n) ==
    IF Last(frames).loop = <<>> THEN Unwind(Front(frames), n)
    ELSE IF n = 0 THEN frames
    ELSE Unwind(Front(frames), n - 1)

\* On to the next statement that shows: a block, a switch, or the end.
RECURSIVE Settle(_)
Settle(frames) ==
    IF frames = <<>> THEN <<>>
    ELSE LET top == Last(frames)
             outer == Front(frames)
         IN  IF top.todo = <<>>
             THEN IF top.loop = <<>> THEN Settle(outer)
                  ELSE Settle(Append(outer, Frame(top.loop, top.loop)))
             ELSE LET s == Head(top.todo)
                      next == Append(outer, [top EXCEPT !.todo = Tail(@)])
                  IN  CASE s.kind \in {"nop", "discriminant"} -> Settle(next)
                        [] s.kind = "loop" -> Settle(Append(next, Frame(s.body, s.body)))
                        [] s.kind = "break" -> Settle(Front(Unwind(frames, s.depth)))
                        [] s.kind = "continue" ->
                             LET to == Unwind(frames, s.depth)
                             IN  Settle(Append(Front(to), Frame(Last(to).loop, Last(to).loop)))
                        [] OTHER -> frames

\* Where the structured code is, and what comes when the block has run.
Here == IF stack = <<>> THEN Ended("fell off the end") ELSE Head(Last(stack).todo)
Behind == Settle(Append(Front(stack), [Last(stack) EXCEPT !.todo = Tail(@)]))
Then == IF Behind = <<>> THEN Ended("fell off the end") ELSE Head(Last(Behind).todo)
Offered == IF body[Here.id].kind = "never" THEN {}
           ELSE IF Then.kind = "switch" THEN UNION {Then.arms[k].ways : k \in DOMAIN Then.arms}
           ELSE IF Then.kind = "block" THEN {1} ELSE {}

RunBlock ==
    /\ phase = "run"
    /\ Here.kind = "block"
    /\ IF body[Here.id].kind = "never"
       THEN /\ choice' = 0
            /\ stack' = <<Frame(<<Ended("never")>>, <<>>)>>
       ELSE IF Then.kind = "switch"
       THEN \E k \in DOMAIN Then.arms : \E i \in Then.arms[k].ways :
              /\ choice' = i
              /\ stack' = Settle(Append(Append(Front(Behind), [Last(Behind) EXCEPT !.todo = Tail(@)]),
                                        Frame(Then.arms[k].body, <<>>)))
       ELSE /\ choice' = IF Then.kind = "block" THEN 1 ELSE 0
            /\ stack' = Behind
    /\ UNCHANGED <<body, phase, info, code>>

Next == \/ BuildCfg \/ TranslateBody \/ RemoveUselessJumpBlocks
        \/ ReconstructMatches \/ PrettifyCfg \/ RemoveNops \/ RunBlock

Spec == Init /\ [][Next]_vars

-----------------------------------------------------------------------------
(* Properties *)

\* The ways that a block may go: out of a call that does not return there is
\* none, and none to an `otherwise` if each variant has a target.
WaysOut(term) ==
    CASE term.kind = "never" -> {}
      [] term.variants # 0 /\ term.variants = Len(term.targets) - 1 -> 1..term.variants
      [] OTHER -> DOMAIN term.targets

\* The block of the graph that the structured code is at, and the ways out of
\* it that it offers; the first block before there is any.
At == IF phase # "run" THEN <<"block", ENTRY>>
      ELSE IF Here.kind = "block" THEN <<"block", Here.id>> ELSE <<Here.kind>>
Open == IF phase # "run" THEN WaysOut(body[ENTRY])
        ELSE IF Here.kind = "block" THEN Offered ELSE {}

Graph == INSTANCE GraphRuns WITH at <- At, ways <- Open

\* The structured body does what the graph does, after all passes over it: it
\* runs the same blocks in the same order, offers the same ways out of each, and
\* ends as the graph does.
RunsAsGraph == Graph!Spec

\* Every loop that is built is jumped to, so that the removal of loops finds
\* how often.
NoPanic == phase # "panic"


\* A graph is refused just if it has a cycle apart from the edges that lead to
\* a block on every way to them, whatever order the blocks were numbered in.
Succs == Edges(body)
LoopEdge(x, y) == Dominates(Succs, y, x)
ForwardPart == [x \in DOMAIN body |-> SelectSeq(Succs[x], LAMBDA y : ~LoopEdge(x, y))]
HasCycle(succs) == \E x \in DOMAIN succs : \E y \in Into(succs, x) : y \in Reachable(succs, x)
OnlyIrreducibleRefused ==
    /\ phase = "irreducible" => HasCycle(ForwardPart)
    /\ phase = "translate" => ~HasCycle(ForwardPart)

\* compute_switch_exits, "if we don't notice they should be joined at some
\* point (..) we might generate code like this, with some duplicata": in a body
\* without loops and assembly, in which all ways from where two jumps to a
\* block part do come to the block, no block is translated twice.
RECURSIVE Translations(_, _)
Translations(block, x) ==
    LET count(s) == CASE s.kind = "block" /\ s.id = x -> 1
                      [] s.kind = "loop" -> Translations(s.body, x)
                      [] s.kind = "switch" -> FoldLeft(LAMBDA n, a : n + Translations(a.body, x), 0, s.arms)
                      [] OTHER -> 0
    IN  FoldLeft(LAMBDA n, s : n + count(s), 0, block)

IsJoin(y) == \E x, z \in Into(Succs, y) : \E i \in DOMAIN body[x].targets : \E j \in DOMAIN body[z].targets :
                <<x, i>> # <<z, j>> /\ body[x].targets[i] = y /\ body[z].targets[j] = y
Parts(y) == CHOOSE d \in DOMAIN body \ {y} :
              /\ Dominates(Succs, d, y)
              /\ \A e \in DOMAIN body \ {y} : Dominates(Succs, e, y) => Dominates(Succs, e, d)
AllComeTo(x, y) == \A z \in Reachable(Without(Succs, y), x) : z = y \/ Succs[z] # <<>>

JoinsTranslatedOnce ==
    /\ phase = "remove"
    /\ ~HasCycle(Succs)
    /\ \A y \in DOMAIN body : body[y].kind # "asm" /\ (IsJoin(y) => AllComeTo(Parts(y), y))
    => \A x \in DOMAIN body : Translations(code, x) = 1
=============================================================================
