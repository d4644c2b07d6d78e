-------------------------------- MODULE Once --------------------------------
(* What a lazily computed, shared boolean promises its callers: the first   *)
(* caller to be answered fixes the answer, and every later caller is given  *)
(* that same answer.  CachedBool implements this module.                    *)
CONSTANTS Threads,  \* the callers
          Unset     \* "no answer yet", not a boolean

VARIABLES answer,   \* the value everybody agrees on, or Unset
          given     \* what each caller was answered, or Unset

ovars == <<answer, given>>

OInit == /\ answer = Unset
         /\ given = [t \in Threads |-> Unset]

FirstAnswer(t) == /\ answer = Unset
                  /\ given[t] = Unset
                  /\ \E b \in BOOLEAN : /\ answer' = b
                                        /\ given' = [given EXCEPT ![t] = b]

LaterAnswer(t) == /\ answer # Unset
                  /\ given[t] = Unset
                  /\ given' = [given EXCEPT ![t] = answer]
                  /\ UNCHANGED answer

ONext == \E t \in Threads : FirstAnswer(t) \/ LaterAnswer(t)

OnceSpec == OInit /\ [][ONext]_ovars
=============================================================================
