----------------------------- MODULE SpecLocals -----------------------------
(* How the body of a contract closure gets its local variables renumbered.  *)
(*                                                                          *)
(* rustc numbers the locals of `|x, y| e` as: return value, closure state,  *)
(* x, y, temporaries.  Charon makes it the method of an Fn impl, which takes *)
(* one tuple of arguments, so translate_closure_method_body shifts the      *)
(* locals and reads each argument out of the tuple.  collect_spec_closure   *)
(* turns the method into a specification: unpack_local first splits the     *)
(* tuple into one local per argument, then the closure state into one local *)
(* per captured variable.  The places of the body are renumbered and        *)
(* rewritten by each of these steps, and so are the places that a closure   *)
(* nested in this body captures, which are kept in a table of their own.    *)
(* Behind the collection remove_unused_locals closes the gaps that unused   *)
(* locals leave, in the batch and again in the structured body.             *)
(*                                                                          *)
(* The model follows one place of the body and one captured place; the code *)
(* treats every place by itself, so a set of places adds nothing.           *)
EXTENDS Integers, Sequences, FiniteSets

CONSTANTS ArgCounts,      \* how many arguments the closure may take
          CaptureCounts,  \* how many variables it may capture
          TempCounts,     \* how many temporaries its body may have
          Projections     \* the projection paths that places may have

\* A projection path is a sequence of field numbers and dereferences.
Deref == -1

ASSUME CountsAssumption == /\ ArgCounts \subseteq Nat
                           /\ CaptureCounts \subseteq Nat
                           /\ TempCounts \subseteq Nat
ASSUME ProjectionsAssumption == /\ Projections \subseteq Seq(Nat \union {Deref})
                                /\ <<>> \in Projections

VARIABLES
    pc,       \* "mir" -> "tupled" -> "untupled" -> "done" -> "cleaned", or "panic"
    nargs,    \* the closure's arguments ...
    ncaps,    \* ... its captures ...
    ntemps,   \* ... and its temporaries
    locals,   \* the body's locals: for each id, the storage it stands for
    arg_count,\* how many locals after the return value are arguments
    place,    \* a place of the body: a local id and a projection path
    capture,  \* a place that a nested specification closure captures
    origin    \* ghost: what `place` and `capture` denote in the source

vars == <<pc, nargs, ncaps, ntemps, locals, arg_count, place, capture, origin>>

-----------------------------------------------------------------------------
(* Storage, places and what a place denotes *)

\* The storage a local can stand for.
Slot(kind, i) == [kind |-> kind, index |-> i]
Ret == Slot("ret", 0)
Self == Slot("self", 0)    \* the reference to the closure state
Tuple == Slot("tuple", 0)  \* the tuple of arguments

\* Locals are numbered from 0: return value, arguments, the rest.
RET_ID == 0
SELF_ID == 1
TUPLED_ARGS_ID == 2

Place(l, path) == [local |-> l, proj |-> path]

\* The rest of a path after its first n elements.
After(path, n) == SubSeq(path, n + 1, Len(path))

\* Does the place start with `depth` dereferences of local id and a field?
FieldOf(p, id, depth) == /\ p.local = id
                         /\ Len(p.proj) > depth
                         /\ \A i \in 1 .. depth : p.proj[i] = Deref
                         /\ p.proj[depth + 1] # Deref

\* The storage and path that a place denotes: a field of the argument tuple
\* is an argument, a field of the closure state is a captured variable.
Denotes(p, ls) ==
    IF FieldOf(p, p.local, 0) /\ ls[p.local] = Tuple
    THEN [slot |-> Slot("arg", p.proj[1]), path |-> After(p.proj, 1)]
    ELSE IF FieldOf(p, p.local, 1) /\ ls[p.local] = Self
         THEN [slot |-> Slot("cap", p.proj[2]), path |-> After(p.proj, 2)]
         ELSE [slot |-> ls[p.local], path |-> p.proj]

-----------------------------------------------------------------------------
(* The steps *)

\* Every local after id moves by delta.
Shift(l, id, delta) == IF l > id THEN l + delta ELSE l

\* Mutant: the unpacked local stays, after the locals it is unpacked into.
Insert(ls, size, id, with, n) ==
    [l \in 0 .. size + n - 1 |->
        IF l < id THEN ls[l]
        ELSE IF l < id + n THEN with[l - id] ELSE ls[l - n]]

\* locals.splice(id..=id, with), where `with` is numbered from 0 to n - 1.
Splice(ls, size, id, with, n) ==
    [l \in 0 .. size + n - 2 |->
        IF l < id THEN ls[l]
        ELSE IF l < id + n THEN with[l - id] ELSE ls[l - n + 1]]

\* The body update of unpack_local: a field of the unpacked local becomes
\* the local that now holds the field.
Unpacked(p, id, depth) ==
    IF FieldOf(p, id, depth)
    THEN Place(id + p.proj[depth + 1], After(p.proj, depth + 1))
    ELSE p

\* unpack_local on one place: the shift, then the update.
Unpack(p, id, n, depth) ==
    Unpacked(Place(Shift(p.local, id, n - 1), p.proj), id, depth)

\* place_for_var indexes the locals, and panics outside of them.
Proceed(next) == pc' = IF {place'.local, capture'.local} \subseteq DOMAIN locals'
                       THEN next ELSE "panic"

\* Locals of the MIR body, before and after the tuple of arguments is added.
MirSize == 2 + nargs + ntemps
MirLocals(n) == [l \in 0 .. n - 1 |-> IF l = RET_ID THEN Ret
                                      ELSE IF l = SELF_ID THEN Self
                                      ELSE Slot("local", l)]

\* A place that MIR may mention: the return value as a whole, a captured
\* variable through the state, any path into an argument or a temporary.
MirPlace(p) == \/ p = Place(RET_ID, <<>>)
               \/ FieldOf(p, SELF_ID, 1) /\ p.proj[2] < ncaps
               \/ p.local \in 2 .. MirSize - 1

Init == /\ pc = "mir"
        /\ nargs \in ArgCounts
        /\ ncaps \in CaptureCounts
        /\ ntemps \in TempCounts
        /\ locals = MirLocals(MirSize)
        /\ arg_count = 1 + nargs
        /\ place \in [local : 0 .. MirSize - 1, proj : Projections]
        /\ capture \in [local : 0 .. MirSize - 1, proj : Projections]
        /\ MirPlace(place)
        /\ MirPlace(capture)
        /\ origin = [place |-> Denotes(place, locals),
                     capture |-> Denotes(capture, locals)]

\* The method's arguments are the state and the tuple.
MethodArgCount == 2

\* translate_closure_method_body: locals from 2 on move up by one, local 2 is
\* the tuple of arguments, and one statement per argument reads its field
\* into the argument's old local.  `place` may be the place so read.
TupleArguments ==
    /\ pc = "mir"
    /\ pc' = "tupled"
    /\ arg_count' = MethodArgCount
    /\ locals' = [l \in 0 .. MirSize |->
                    IF l < TUPLED_ARGS_ID THEN locals[l]
                    ELSE IF l = TUPLED_ARGS_ID THEN Tuple ELSE locals[l - 1]]
    /\ capture' = [capture EXCEPT !.local = Shift(@, SELF_ID, 1)]
    /\ \/ /\ place' = [place EXCEPT !.local = Shift(@, SELF_ID, 1)]
          /\ UNCHANGED origin
       \/ \E i \in 0 .. nargs - 1 :
            /\ place' = Place(TUPLED_ARGS_ID, <<i>>)
            /\ origin' = [origin EXCEPT !.place =
                            [slot |-> Slot("arg", i), path |-> <<>>]]
    /\ UNCHANGED <<nargs, ncaps, ntemps>>

\* unpack_local(tupled_args_id, arg_locals): the tuple becomes its fields.
UnpackTuple ==
    /\ pc = "tupled"
    /\ locals' = Splice(locals, MirSize + 1, TUPLED_ARGS_ID,
                        [i \in 0 .. nargs - 1 |-> Slot("arg", i)], nargs)
    /\ place' = Unpack(place, TUPLED_ARGS_ID, nargs, 0)
    /\ capture' = Unpack(capture, TUPLED_ARGS_ID, nargs, 0)
    /\ arg_count' = arg_count + nargs - 1
    /\ Proceed("untupled")
    /\ UNCHANGED <<nargs, ncaps, ntemps, origin>>

\* Mutant: the table of nested closures is forgotten.
UnpackSelfBodyOnly ==
    /\ pc = "untupled"
    /\ locals' = Splice(locals, MirSize + nargs, SELF_ID,
                        [i \in 0 .. ncaps - 1 |-> Slot("cap", i)], ncaps)
    /\ place' = Unpack(place, SELF_ID, ncaps, 1)
    /\ UNCHANGED <<nargs, ncaps, ntemps, origin, capture>>
    /\ arg_count' = arg_count + ncaps - 1
    /\ Proceed("done")

\* unpack_local(self_id, ...): the closure state becomes its captures.
UnpackSelf ==
    /\ pc = "untupled"
    /\ locals' = Splice(locals, MirSize + nargs, SELF_ID,
                        [i \in 0 .. ncaps - 1 |-> Slot("cap", i)], ncaps)
    /\ place' = Unpack(place, SELF_ID, ncaps, 1)
    /\ capture' = Unpack(capture, SELF_ID, ncaps, 1)
    /\ arg_count' = arg_count + ncaps - 1
    /\ Proceed("done")
    /\ UNCHANGED <<nargs, ncaps, ntemps, origin>>

\* Mutant: what nested closures capture is not looked at.
UsedInBody == (0 .. arg_count) \union {place.local}

\* What LocalsUsageVisitor marks: return value and arguments, the places of
\* the body and the captures of the closures it names.
Used == (0 .. arg_count) \union {place.local, capture.local}

\* The id of a local among those that are kept.
NewId(S, l) == Cardinality({k \in S : k < l})

\* remove_unused_locals: the locals in S are used, by the two places or by
\* others of the body, and the rest goes.  An id without a new one panics.
\* The second run finds the same or a smaller body.
RemoveUnusedLocals ==
    /\ pc \in {"done", "cleaned"}
    /\ \E S \in SUBSET DOMAIN locals :
         /\ Used \subseteq S
         /\ pc' = IF {place.local, capture.local} \subseteq S THEN "cleaned" ELSE "panic"
         /\ locals' = [l \in 0 .. Cardinality(S) - 1 |->
                         locals[CHOOSE k \in S : NewId(S, k) = l]]
         /\ place' = [place EXCEPT !.local = NewId(S, @)]
         /\ capture' = [capture EXCEPT !.local = NewId(S, @)]
    /\ UNCHANGED <<nargs, ncaps, ntemps, arg_count, origin>>

Next == TupleArguments \/ UnpackTuple \/ UnpackSelf \/ RemoveUnusedLocals

Spec == Init /\ [][Next]_vars

\* A local that unpack_local moves into the place of the local it unpacks is
\* taken for it: a shift by -1 (no arguments, or no captures) brings the
\* first temporary there.  These are the closures where that does not show.
NoAlias(p) == nargs = 0 /\ p.local = 2 => /\ ~FieldOf(p, 2, 0)
                                          /\ ncaps = 0 => ~FieldOf(p, 2, 1)

CommonInit == Init /\ NoAlias(place) /\ NoAlias(capture)

CommonSpec == CommonInit /\ [][Next]_vars

-----------------------------------------------------------------------------
(* Properties *)

\* However often the locals are renumbered, a place of the body and a place
\* captured by a nested closure denote the same storage as in the source.
PlacesKeepMeaning == /\ pc # "panic"
                     /\ Denotes(place, locals) = origin.place
                     /\ Denotes(capture, locals) = origin.capture

\* The specification's parameters are the captures, then the arguments in
\* their order, and stay so when unused locals go: non_captured_argument_ids,
\* which the WhyML translation binds to the contract's variables, are the
\* arguments and nothing else.
ParametersAreArguments ==
    pc \in {"done", "cleaned"} =>
      /\ arg_count = ncaps + nargs
      /\ \A l \in 0 .. arg_count :
           /\ l \in DOMAIN locals
           /\ locals[l] = IF l = RET_ID THEN Ret
                          ELSE IF l <= ncaps THEN Slot("cap", l - 1)
                          ELSE Slot("arg", l - 1 - ncaps)

\* A value holds strictly smaller values in its fields, so a place has not
\* the type of a place with more or fewer projections of the same storage.
TypeOf(d) == [slot |-> d.slot, nesting |-> Len(d.path)]

\* The places of a specification have the types that they had in the closure
\* (run_transformation_passes: "types are still consistent").
TypesConsistent ==
    pc \in {"done", "cleaned"} =>
                   /\ TypeOf(Denotes(place, locals)) = TypeOf(origin.place)
                   /\ TypeOf(Denotes(capture, locals)) = TypeOf(origin.capture)
=============================================================================
