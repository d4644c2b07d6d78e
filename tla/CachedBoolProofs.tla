-------------------------- MODULE CachedBoolProofs --------------------------
(* CachedBool implements Once for every set of threads.                     *)
EXTENDS CachedBool, TLAPS

IInv == TypeOK /\ PhaseInv /\ OneInitialiser

\* Every call starts in a state of the invariant.
LEMMA InitIInv == Init => IInv
BY UnsetAssumption
   DEF Init, IInv, TypeOK, PhaseInv, OneInitialiser, Initialisers,
       FALSE_, TRUE_, UNINIT, INITING

\* No step of a thread leaves the invariant.
LEMMA NextIInv == IInv /\ [Next]_vars => IInv'
<1> SUFFICES ASSUME IInv, [Next]_vars PROVE IInv'
    OBVIOUS
<1> USE UnsetAssumption
    DEF IInv, TypeOK, PhaseInv, OneInitialiser, Initialisers,
        FALSE_, TRUE_, UNINIT, INITING
<1>1. CASE UNCHANGED vars
      BY <1>1 DEF vars
<1>2. ASSUME NEW t \in Threads, CasWins(t) PROVE IInv'
      BY <1>2 DEF CasWins
<1>3. ASSUME NEW t \in Threads, CasInIniting(t) PROVE IInv'
      BY <1>3 DEF CasInIniting
<1>4. ASSUME NEW t \in Threads, CasFindsValue(t) PROVE IInv'
      BY <1>4 DEF CasFindsValue, Return
<1>5. ASSUME NEW t \in Threads, RunF(t) PROVE IInv'
      BY <1>5 DEF RunF, ByteOf
<1>6. ASSUME NEW t \in Threads, Store(t) PROVE IInv'
  <2>1. cell = INITING /\ \A u \in Threads \ {t} : pc[u] \notin {"run", "store", "done"}
        BY <1>6 DEF Store
  <2>2. /\ cell' \in {FALSE_, TRUE_}
        /\ pc' = [pc EXCEPT ![t] = "done"]
        /\ value' = value
        /\ ret' = [ret EXCEPT ![t] = (cell' = TRUE_)]
        BY <1>6 DEF Store, Return
  <2>3. ret'[t] = (cell' = TRUE_) /\ ret' \in [Threads -> BOOLEAN \union {Unset}]
        BY <2>2
  <2>4. \A u \in Threads : (ret'[u] # Unset) <=> (pc'[u] = "done")
        BY <2>1, <2>2, <2>3
  <2> QED
      BY <2>1, <2>2, <2>3, <2>4
<1>7. ASSUME NEW t \in Threads, Spin(t) PROVE IInv'
      BY <1>7 DEF Spin, Return
<1> QED
    BY <1>1, <1>2, <1>3, <1>4, <1>5, <1>6, <1>7 DEF Next, Step

\* get_or_init keeps its byte, its threads and their phases consistent.
THEOREM Invariance == Spec => []IInv
<1>1. Init => IInv
      BY InitIInv
<1>2. IInv /\ [Next]_vars => IInv'
      BY NextIInv
<1> QED
    BY <1>1, <1>2, PTL DEF Spec

\* All calls that have returned agree, whatever the number of threads.
THEOREM AgreementHolds == Spec => []Agreement
<1>1. IInv => Agreement
      BY UnsetAssumption
      DEF IInv, TypeOK, PhaseInv, Agreement, FALSE_, TRUE_, UNINIT, INITING
<1> QED
    BY <1>1, Invariance, PTL

\* At most one thread evaluates f, whatever the number of threads.
THEOREM OneInitialiserHolds == Spec => []OneInitialiser
<1>1. IInv => OneInitialiser
      BY DEF IInv
<1> QED
    BY <1>1, Invariance, PTL

\* A step of a thread is a first answer, a later answer, or invisible.
LEMMA StepRefines == IInv /\ [Next]_vars => [O!ONext]_(O!ovars)
<1> SUFFICES ASSUME IInv, [Next]_vars PROVE [O!ONext]_(O!ovars)
    OBVIOUS
<1> USE UnsetAssumption
    DEF IInv, TypeOK, PhaseInv, FALSE_, TRUE_, UNINIT, INITING, Answer,
        O!ovars, O!ONext, O!FirstAnswer, O!LaterAnswer
<1>1. CASE UNCHANGED vars
      BY <1>1 DEF vars
<1>2. ASSUME NEW t \in Threads, CasWins(t) PROVE UNCHANGED O!ovars
      BY <1>2 DEF CasWins
<1>3. ASSUME NEW t \in Threads, CasInIniting(t) PROVE UNCHANGED O!ovars
      BY <1>3 DEF CasInIniting
<1>4. ASSUME NEW t \in Threads, CasFindsValue(t) PROVE O!LaterAnswer(t)
      BY <1>4 DEF CasFindsValue, Return
<1>5. ASSUME NEW t \in Threads, RunF(t) PROVE UNCHANGED O!ovars
      BY <1>5 DEF RunF
<1>6. ASSUME NEW t \in Threads, Store(t) PROVE O!FirstAnswer(t)
  <2>1. value[t] \in {FALSE_, TRUE_} /\ cell = INITING /\ ret[t] = Unset
        BY <1>6 DEF Store
  <2>2. Answer = Unset
        BY <2>1
  <2>3. Answer' \in BOOLEAN /\ ret' = [ret EXCEPT ![t] = Answer']
        BY <1>6, <2>1 DEF Store, Return
  <2> QED
      BY <2>1, <2>2, <2>3
<1>7. ASSUME NEW t \in Threads, Spin(t)
      PROVE UNCHANGED O!ovars \/ O!LaterAnswer(t)
      BY <1>7 DEF Spin, Return
<1> QED
    BY <1>1, <1>2, <1>3, <1>4, <1>5, <1>6, <1>7 DEF Next, Step

\* The cached boolean keeps Once's promise, whatever the number of threads.
THEOREM Refinement == Spec => ImplementsOnce
<1>1. Init => O!OInit
      BY DEF Init, O!OInit, Answer, UNINIT, FALSE_, TRUE_
<1>2. IInv /\ [Next]_vars => [O!ONext]_(O!ovars)
      BY StepRefines
<1> QED
    BY <1>1, <1>2, Invariance, PTL DEF Spec, ImplementsOnce, O!OnceSpec
=============================================================================
