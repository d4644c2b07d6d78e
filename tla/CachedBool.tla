----------------------------- MODULE CachedBool -----------------------------
(* utils/src/yansi.rs, CachedBool: one AtomicU8 that caches the result of   *)
(* an expensive test (is the stream a colour terminal?) the first time any  *)
(* thread asks for it.  Each thread makes one get_or_init call; the test    *)
(* reads the live environment, so two evaluations could answer differently. *)
EXTENDS Naturals

CONSTANTS Threads,  \* the threads that call get_or_init on the same static
          Unset     \* stands for the result of a call that has not returned

ASSUME UnsetAssumption == Unset \notin BOOLEAN

\* The byte's values, as the source numbers them.
FALSE_ == 0
TRUE_ == 1
UNINIT == 2
INITING == 3

VARIABLES cell,    \* the AtomicU8
          pc,      \* where each thread is in get_or_init
          value,   \* its local `value` / `new_value`
          ret      \* what its call returned

vars == <<cell, pc, value, ret>>

\* `new_value as u8`
ByteOf(b) == IF b THEN TRUE_ ELSE FALSE_

Init == /\ cell = UNINIT
        /\ pc = [t \in Threads |-> "cas"]
        /\ value = [t \in Threads |-> UNINIT]
        /\ ret = [t \in Threads |-> Unset]

Return(t, b) == /\ pc' = [pc EXCEPT ![t] = "done"]
                /\ ret' = [ret EXCEPT ![t] = b]

\* Mutant: a check of the byte that does not claim it against other threads.
UnclaimedCas(t) == /\ pc[t] = "cas"
                   /\ cell \in {UNINIT, INITING}
                   /\ cell' = INITING
                   /\ pc' = [pc EXCEPT ![t] = "run"]
                   /\ UNCHANGED <<value, ret>>

\* Ok(_): this thread moved UNINIT to INITING and will run f.
CasWins(t) == /\ pc[t] = "cas"
              /\ cell = UNINIT
              /\ cell' = INITING
              /\ pc' = [pc EXCEPT ![t] = "run"]
              /\ UNCHANGED <<value, ret>>

\* Err(INITING): another thread is running f.
CasInIniting(t) == /\ pc[t] = "cas"
                   /\ cell = INITING
                   /\ pc' = [pc EXCEPT ![t] = "spin"]
                   /\ UNCHANGED <<cell, value, ret>>

\* Err(value): the answer is there already.
CasFindsValue(t) == /\ pc[t] = "cas"
                    /\ cell \notin {UNINIT, INITING}
                    /\ Return(t, cell = TRUE_)
                    /\ UNCHANGED <<cell, value>>

\* f() is evaluated, outside any atomic operation.
RunF(t) == /\ pc[t] = "run"
           /\ \E b \in BOOLEAN : value' = [value EXCEPT ![t] = ByteOf(b)]
           /\ pc' = [pc EXCEPT ![t] = "store"]
           /\ UNCHANGED <<cell, ret>>

\* Mutant: the caller gets its answer but the byte is never published.
ForgottenStore(t) == /\ pc[t] = "store"
                     /\ Return(t, value[t] = TRUE_)
                     /\ UNCHANGED <<cell, value>>

\* The Release store of new_value as u8, and the return of new_value.
Store(t) == /\ pc[t] = "store"
            /\ cell' = value[t]
            /\ Return(t, value[t] = TRUE_)
            /\ UNCHANGED value

\* One turn of the loop that loads the byte while another thread runs f.
Spin(t) == /\ pc[t] = "spin"
           /\ value' = [value EXCEPT ![t] = cell]
           /\ IF cell = INITING
              THEN UNCHANGED <<pc, ret>>
              ELSE Return(t, cell = TRUE_)
           /\ UNCHANGED cell

Step(t) == \/ CasWins(t) \/ CasInIniting(t) \/ CasFindsValue(t)
           \/ RunF(t) \/ Store(t) \/ Spin(t)

Next == \E t \in Threads : Step(t)

Spec == Init /\ [][Next]_vars

\* The OS scheduler gives every thread turns; the spinning thread yields.
FairSpec == Spec /\ \A t \in Threads : WF_vars(Step(t))

-----------------------------------------------------------------------------
(* Properties *)

TypeOK == /\ cell \in {FALSE_, TRUE_, UNINIT, INITING}
          /\ pc \in [Threads -> {"cas", "run", "store", "spin", "done"}]
          /\ value \in [Threads -> {FALSE_, TRUE_, UNINIT, INITING}]
          /\ ret \in [Threads -> BOOLEAN \union {Unset}]

\* At most one thread ever gets to evaluate f: get_or_init never has two
\* threads between the successful compare_exchange and the store.
Initialisers == {t \in Threads : pc[t] \in {"run", "store"}}
OneInitialiser == \A t, u \in Initialisers : t = u

\* All calls that have returned agree, although the live test might answer
\* each thread differently.
Agreement == \A t, u \in Threads :
                ret[t] # Unset /\ ret[u] # Unset => ret[t] = ret[u]

\* Every call returns: the spinning threads are released by the store.
EveryCallReturns == \A t \in Threads : <>(pc[t] = "done")

\* What ties the byte to the threads: it says which phase the cache is in.
\* Inductive; OneInitialiser and Agreement follow from it.
PhaseInv == /\ \A t \in Threads : (ret[t] # Unset) <=> (pc[t] = "done")
            /\ \A t \in Threads : pc[t] = "store" => value[t] \in {FALSE_, TRUE_}
            /\ cell = UNINIT => \A t \in Threads : pc[t] = "cas"
            /\ (\E t \in Threads : pc[t] \in {"run", "store"}) => cell = INITING
            /\ cell = INITING => \A t \in Threads : pc[t] # "done"
            /\ cell \in {FALSE_, TRUE_} =>
                  \A t \in Threads : pc[t] = "done" => ret[t] = (cell = TRUE_)

\* The byte decoded: an answer, or none yet.
Answer == IF cell \in {FALSE_, TRUE_} THEN cell = TRUE_ ELSE Unset

\* get_or_init implements Once: the store is the first answer, and a load
\* that finds the answer is a later one.
O == INSTANCE Once WITH answer <- Answer, given <- ret
ImplementsOnce == O!OnceSpec
=============================================================================
