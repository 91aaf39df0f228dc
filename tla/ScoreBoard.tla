----------------------------- MODULE ScoreBoard -----------------------------
(***************************************************************************)
(* What a ladder that never forgets promises: points are credited to those *)
(* who made them, at most once, and what was credited stays, unless the    *)
(* file is torn.                                                           *)
(***************************************************************************)
EXTENDS Naturals

CONSTANT Clients
VARIABLES career, totals,    \* points made, and credited
          torn

vars == <<career, totals, torn>>

Init == career = [c \in Clients |-> 0] /\ totals = career /\ torn = FALSE

Earn(c) == career' = [career EXCEPT ![c] = @ + 1] /\ UNCHANGED <<totals, torn>>

Credited(c) == totals'[c] >= totals[c] /\ totals'[c] <= career[c]

\* credits become visible together, at the end of a match
CreditMatch ==
  /\ totals' \in [Clients -> Nat] /\ \A c \in Clients : Credited(c)
  /\ UNCHANGED <<career, torn>>

\* a file that is torn holds some of them and nothing of the others
Tear ==
  /\ totals' \in [Clients -> Nat] /\ \A c \in Clients : totals'[c] = 0 \/ Credited(c)
  /\ torn' = TRUE
  /\ UNCHANGED career

Next == (\E c \in Clients : Earn(c)) \/ CreditMatch \/ Tear

Spec == Init /\ [][Next]_vars
============================================================================
