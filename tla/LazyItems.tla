------------------------------ MODULE LazyItems ------------------------------
(* What Charon promises of the items it translates: it starts from a few,   *)
(* tries whatever an item that it tries asks for, and tries the             *)
(* implementations of a trait's method once the method is used, those it    *)
(* knew before and those it gets to know later on; nothing but these, and   *)
(* in the end all of these.  TranslateQueue implements this module.         *)
CONSTANTS Items, Methods

VARIABLES wanted,   \* the items to start from, and those that were asked for
          used,     \* the methods that are used
          impls,    \* which items implement which methods, as far as known
          tried,    \* the items whose translation was begun
          finished  \* nothing is left to do

lvars == <<wanted, used, impls, tried, finished>>

Required == wanted \union {i \in Items : \E m \in used : <<m, i>> \in impls}

LInit == /\ wanted \subseteq Items
         /\ used = {}
         /\ impls = {}
         /\ tried = {}
         /\ finished = FALSE

Try(i) == /\ i \in Required
          /\ tried' = tried \union {i}
          /\ UNCHANGED <<wanted, used, impls, finished>>

\* An item that is tried cannot do without another one.
TryOnDemand(i) == /\ tried # {}
                  /\ wanted' = wanted \union {i}
                  /\ tried' = tried \union {i}
                  /\ UNCHANGED <<used, impls, finished>>

\* What is learned from the items that are tried.
Learn == /\ tried # {}
         /\ wanted \subseteq wanted'
         /\ used \subseteq used'
         /\ impls \subseteq impls'
         /\ UNCHANGED <<tried, finished>>

\* The methods that are not used are left out of the crate.
Finish == /\ Required \subseteq tried
          /\ impls' = {p \in impls : p[1] \in used}
          /\ finished' = TRUE
          /\ UNCHANGED <<wanted, used, tried>>

LNext == ~finished /\ ((\E i \in Items : Try(i) \/ TryOnDemand(i)) \/ Learn \/ Finish)

LazySpec == LInit /\ [][LNext]_lvars
=============================================================================
