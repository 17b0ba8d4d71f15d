----------------------------- MODULE TokenLife ------------------------------
(***************************************************************************)
(* What is promised of access tokens to those who hold and accept them,    *)
(* with no word about stores, sweeps or goroutines:                        *)
(*   - a token that works stops working for two reasons alone, that its    *)
(*     time is up or that someone entitled to it withdraws it;             *)
(*   - one whose time is up never works again.                             *)
(***************************************************************************)
CONSTANT Token

VARIABLES valid,   \* the tokens that work
          leaving, \* those that someone entitled to it is withdrawing
          lapsed   \* those whose time is up

lifeVars == <<valid, leaving, lapsed>>

Init == valid = {} /\ leaving = {} /\ lapsed = {}

Issue ==
    /\ \E t \in Token \ lapsed : valid' = valid \cup {t}
    /\ UNCHANGED <<leaving, lapsed>>

Ask ==
    /\ \E t \in Token : leaving' = leaving \cup {t}
    /\ UNCHANGED <<valid, lapsed>>

\* Others may be withdrawing it at the same time.
Withdraw ==
    /\ \E t \in leaving :
         /\ valid' = valid \ {t}
         /\ leaving' \in {leaving, leaving \ {t}}
    /\ UNCHANGED lapsed

\* Time passes, for any number of tokens at once.
Lapse ==
    /\ UNCHANGED leaving
    /\ lapsed \subseteq lapsed' /\ lapsed' \subseteq Token
    /\ valid' = valid \ lapsed'

Next == Lapse \/ Issue \/ Ask \/ Withdraw

Spec == Init /\ [][Next]_lifeVars

=============================================================================
