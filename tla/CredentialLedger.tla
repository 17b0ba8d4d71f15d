-------------------------- MODULE CredentialLedger --------------------------
(***************************************************************************)
(* What the authorization server promises about the credentials a client   *)
(* can trade for tokens (authorization codes and refresh tokens), with no  *)
(* word about stores, requests or goroutines:                              *)
(*   - a credential is live once, from its issue to its retirement, and    *)
(*     never comes back;                                                   *)
(*   - one that is issued in exchange for another becomes live only after  *)
(*     the other has retired;                                              *)
(*   - a credential has at most MaxHeirs such successors.  The single use  *)
(*     the README promises is MaxHeirs = 1.                                *)
(***************************************************************************)
EXTENDS Naturals, FiniteSets

CONSTANTS Credential, NoCredential, MaxHeirs

VARIABLES live,    \* the credentials the server accepts
          retired, \* those it accepted once
          source   \* credential |-> the one it was exchanged for, or NoCredential

ledgerVars == <<live, retired, source>>

Fresh == Credential \ (live \cup retired)
Heirs(c) == {d \in live \cup retired : source[d] = c}

Init ==
    /\ live = {} /\ retired = {}
    /\ source = [c \in Credential |-> NoCredential]

\* The user logged in or consented: a credential out of nothing.
Issue(c) ==
    /\ c \in Fresh
    /\ live' = live \cup {c}
    /\ UNCHANGED <<retired, source>>

\* Revoked, expired, or about to be exchanged.
Retire(c) ==
    /\ c \in live
    /\ live' = live \ {c}
    /\ retired' = retired \cup {c}
    /\ UNCHANGED source

Succeed(c, old) ==
    /\ c \in Fresh
    /\ old \in retired
    /\ Cardinality(Heirs(old)) < MaxHeirs
    /\ live' = live \cup {c}
    /\ source' = [source EXCEPT ![c] = old]
    /\ UNCHANGED retired

Next ==
    \E c \in Credential :
        \/ Issue(c)
        \/ Retire(c)
        \/ \E old \in Credential : Succeed(c, old)

Spec == Init /\ [][Next]_ledgerVars

=============================================================================
