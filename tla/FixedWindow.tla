---------------------------- MODULE FixedWindow ----------------------------
(***************************************************************************)
(* What a rate limiter with windows promises, with no word about maps,     *)
(* eviction or cleanup: every address has windows of its own; the first    *)
(* request outside a window opens one, a window closes by the passing of   *)
(* time, and admits Limit requests.  The limiter remembers every address   *)
(* for ever.                                                               *)
(***************************************************************************)
EXTENDS Naturals

CONSTANTS Address, Limit, Window

VARIABLES now,
          used,     \* requests admitted in the address's open window; 0: none is open
          opened,   \* when that window opened
          admitted, refused   \* how many requests of an address were answered how

windowVars == <<now, used, opened, admitted, refused>>

Init ==
    /\ now = 0
    /\ used = [a \in Address |-> 0] /\ opened = [a \in Address |-> 0]
    /\ admitted = [a \in Address |-> 0] /\ refused = [a \in Address |-> 0]

Admit(a) ==
    /\ used[a] < Limit
    /\ used' = [used EXCEPT ![a] = @ + 1]
    /\ opened' = [opened EXCEPT ![a] = IF used[a] = 0 THEN now ELSE @]
    /\ admitted' = [admitted EXCEPT ![a] = @ + 1]
    /\ UNCHANGED <<now, refused>>

Refuse(a) ==
    /\ used[a] = Limit
    /\ refused' = [refused EXCEPT ![a] = @ + 1]
    /\ UNCHANGED <<now, used, opened, admitted>>

Closes(a) == used[a] > 0 /\ now + 1 > opened[a] + Window

Tick ==
    /\ now' = now + 1
    /\ used' = [a \in Address |-> IF Closes(a) THEN 0 ELSE used[a]]
    /\ opened' = [a \in Address |-> IF Closes(a) THEN 0 ELSE opened[a]]
    /\ UNCHANGED <<admitted, refused>>

Next == Tick \/ \E a \in Address : Admit(a) \/ Refuse(a)

Spec == Init /\ [][Next]_windowVars

=============================================================================
