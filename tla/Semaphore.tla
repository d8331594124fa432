----------------------------- MODULE Semaphore -----------------------------
(***************************************************************************)
(* What the turnstile promises the connections behind it, with no queue,   *)
(* deadline or order: a set of holders that admits nobody beyond its       *)
(* limit. The limit may drop below what is held; it then admits nobody     *)
(* until enough holders have left.                                         *)
(***************************************************************************)
EXTENDS Naturals, FiniteSets

CONSTANTS Jobs

VARIABLES holders, limit

Init == holders = {} /\ limit \in Nat

\* The jobs given move from held to holders', within the limit of the moment.
Admit(held) ==
    \E come \in SUBSET (Jobs \ held) :
        /\ holders' = held \cup come
        /\ come # {} => Cardinality(holders') <= limit'

Enter == Admit(holders) /\ UNCHANGED limit

\* A holder leaves, and its unit may be handed on at once.
Leave(j) == j \in holders /\ Admit(holders \ {j}) /\ UNCHANGED limit

Resize == limit' \in Nat /\ Admit(holders)

Next == Enter \/ Resize \/ \E j \in Jobs : Leave(j)

Spec == Init /\ [][Next]_<<holders, limit>>
=============================================================================
