------------------------------- MODULE Bearer -------------------------------
(***************************************************************************)
(* Access tokens from their issue to their end: the store entry of each,   *)
(* the requests that store, present or revoke it, and the sweep            *)
(* (internal/server: store.go, server.go, token.go; internal/handler:      *)
(* userinfo.go, revoke.go; internal/service).                              *)
(*                                                                         *)
(* Grants takes a lookup and a sweep of one entry as a single step.  Here  *)
(* they are what they are in the code: load the entry, compare its expiry  *)
(* with a clock, delete whatever is under the key by then.  The sweep      *)
(* reads its clock once, before the walk.  Between any two of these steps  *)
(* another request may store the same string again, because a token has no *)
(* unique claim.                                                           *)
(***************************************************************************)
EXTENDS Naturals, Functions, ClientAuth

CONSTANTS
    Worker,           \* request slots
    Grant,            \* what tokens are issued for: client, user and scope
    OwnerOf,          \* grant |-> its client
    TicksPerSecond,   \* resolution of the clock; JWT times are whole seconds
    AccessExpiry,     \* in seconds
    MaxTime,          \* bound: the clock stops at this tick
    NoToken           \* no token

ASSUME BearerAssumption ==
    /\ OwnerOf \in [Grant -> Client]
    /\ TicksPerSecond \in Nat \ {0}
    /\ AccessExpiry \in Nat \ {0}
    /\ MaxTime \in Nat

\* The signed string: what it is for and the whole second of issue determine it.
Token == [for : Grant, iat : 0 .. (MaxTime \div TicksPerSecond)]

Ticks(seconds) == seconds * TicksPerSecond
ExpiryClaim(t) == Ticks(t.iat + AccessExpiry)

ASSUME NoTokenAssumption == NoToken \notin Token

\* A request under way: its kind, its next step, the token it is about, an
\* expiry (the one signed, or the one loaded), whom it is authenticated as.
Step == {"idle", "store", "validate", "load", "compare", "drop", "delete", "found", "refused"}
Task ==
    [kind : {"none", "issue", "bearer", "revoke"}, at : Step,
     token : Token \cup {NoToken}, expiresAt : Nat, client : ClientID, proved : SUBSET Client]
Idle ==
    [kind |-> "none", at |-> "idle", token |-> NoToken, expiresAt |-> 0,
     client |-> NoID, proved |-> {}]

\* The sweep: whether it is under way, its clock, the keys it has not come to,
\* the key whose entry it has found expired; as history, the keys stored behind its
\* back with an entry already expired by its clock.
Sweep == [on : BOOLEAN, clock : Nat, todo : SUBSET Token, victim : Token \cup {NoToken},
          late : SUBSET Token]
NoSweep == [on |-> FALSE, clock |-> 0, todo |-> {}, victim |-> NoToken, late |-> {}]

VARIABLES
    now,
    entry,      \* TokenStore.accessTokens: signed string |-> ExpiresAt
    task,
    sweep,
    handedOut,  \* history: the tokens clients have been sent
    withdrawn,  \* history: those deleted on request, and not stored again since
    excused     \* history: the requests there is a good reason to refuse

vars == <<now, entry, task, sweep, handedOut, withdrawn, excused>>

\* ValidateAccessToken: the exp claim of the JWT.
JWTValid(t) == now < ExpiryClaim(t)

TypeOK ==
    /\ now \in 0 .. MaxTime
    /\ DOMAIN entry \subseteq Token
    /\ entry \in [DOMAIN entry -> Nat]
    /\ task \in [Worker -> Task]
    /\ \A w \in Worker : task[w].at # "idle" => task[w].token \in Token
    /\ sweep \in Sweep
    /\ handedOut \subseteq Token /\ withdrawn \subseteq Token
    /\ excused \subseteq Worker

Init ==
    /\ now = 0
    /\ entry = <<>>
    /\ task = [w \in Worker |-> Idle]
    /\ sweep = NoSweep
    /\ handedOut = {} /\ withdrawn = {} /\ excused = {}

-----------------------------------------------------------------------------
(* Names ending in a _Fault are deliberately wrong variants of the definition *)
(* that follows them; nothing uses them but the mutants that show that the    *)
(* properties can fail.                                                       *)

Goto(w, step) == task' = [task EXCEPT ![w].at = step]
Finish(w) == task' = [task EXCEPT ![w] = Idle]

EntriesWithout(t) == Restrict(entry, DOMAIN entry \ {t})

-----------------------------------------------------------------------------
(* Issuing: any of the grants *)

\* The faults subtract the lifetime, or take the time of issue for its end.
SignedUntil_NegatedFault == now - Ticks(AccessExpiry)
SignedUntil_IssuedAtFault == now
SignedUntil == now + Ticks(AccessExpiry)

Sign(w) ==
    \E for \in Grant :
        /\ task[w].at = "idle"
        /\ task' = [task EXCEPT ![w] = [Idle EXCEPT
               !.kind = "issue", !.at = "store",
               !.token = [for |-> for, iat |-> now \div TicksPerSecond],
               !.expiresAt = SignedUntil]]
        /\ UNCHANGED <<now, entry, sweep, handedOut, withdrawn>>

\* A walk under way may come to a key that was not there before, or miss it.
StoredMeanwhile(w, todo) ==
    [sweep EXCEPT !.todo = todo,
                  !.late = IF task[w].token \notin todo /\ sweep.clock > task[w].expiresAt
                           THEN @ \cup {task[w].token} ELSE @]

StoreToken(w) ==
    LET t == task[w].token IN
    /\ task[w].at = "store"
    /\ entry' = [u \in DOMAIN entry \cup {t} |-> IF u = t THEN task[w].expiresAt ELSE entry[u]]
    /\ handedOut' = handedOut \cup {t}
    /\ withdrawn' = withdrawn \ {t}
    /\ IF sweep.on THEN \E missed \in SUBSET ({t} \ DOMAIN entry) :
                            sweep' = StoredMeanwhile(w, sweep.todo \ missed)
       ELSE UNCHANGED sweep
    /\ Finish(w)
    /\ UNCHANGED now

-----------------------------------------------------------------------------
(* Requests about a token: UserInfo, the test endpoint, revocation *)

Present(w) ==
    \E t \in handedOut :
        /\ task[w].at = "idle"
        /\ task' = [task EXCEPT ![w] = [Idle EXCEPT
               !.kind = "bearer", !.at = "validate", !.token = t]]
        /\ UNCHANGED <<now, entry, sweep, handedOut, withdrawn>>

\* ValidateBearerToken: the JWT first.
ValidateJWT(w) ==
    /\ task[w].at = "validate"
    /\ Goto(w, IF JWTValid(task[w].token) THEN "load" ELSE "refused")
    /\ UNCHANGED <<now, entry, sweep, handedOut, withdrawn>>

\* A revocation that names the access token, by a client that has authenticated.
Revoke(w) ==
    \E t \in handedOut, p \in Presentation, client \in Client :
        /\ task[w].at = "idle"
        /\ AuthenticatedAs(p, client)
        /\ task' = [task EXCEPT ![w] = [Idle EXCEPT
               !.kind = "revoke", !.at = "load", !.token = t,
               !.client = client, !.proved = Proved(p)]]
        /\ UNCHANGED <<now, entry, sweep, handedOut, withdrawn>>

\* A revocation or rotation of the refresh token issued beside it: the client of
\* the refresh token's record, which is the token's own, has been checked.
RevokeThroughRefresh(w) ==
    \E t \in handedOut, p \in Presentation :
        /\ task[w].at = "idle"
        /\ AuthenticatedAs(p, OwnerOf[t.for])
        /\ task' = [task EXCEPT ![w] = [Idle EXCEPT
               !.kind = "revoke", !.at = "delete", !.token = t,
               !.client = OwnerOf[t.for], !.proved = Proved(p)]]
        /\ UNCHANGED <<now, entry, sweep, handedOut, withdrawn>>

-----------------------------------------------------------------------------
(* GetAccessToken *)

NotFound(w) == IF task[w].kind = "bearer" THEN Goto(w, "refused") ELSE Finish(w)

\* What a request goes on to with the record it has found.
Found_AnyClientFault(w) ==
    IF task[w].kind = "bearer" THEN Goto(w, "found") ELSE Goto(w, "delete")
Found(w) ==
    IF task[w].kind = "bearer" THEN Goto(w, "found")
    ELSE IF OwnerOf[task[w].token.for] = task[w].client THEN Goto(w, "delete")
    ELSE Finish(w)

Load(w) ==
    LET t == task[w].token IN
    /\ task[w].at = "load"
    /\ IF t \in DOMAIN entry
       THEN task' = [task EXCEPT ![w].at = "compare", ![w].expiresAt = entry[t]]
       ELSE NotFound(w)
    /\ UNCHANGED <<now, entry, sweep, handedOut, withdrawn>>

Compare(w) ==
    /\ task[w].at = "compare"
    /\ IF now > task[w].expiresAt THEN Goto(w, "drop") ELSE Found(w)
    /\ UNCHANGED <<now, entry, sweep, handedOut, withdrawn>>

\* By now the entry may be another than the one loaded.
Drop(w) ==
    /\ task[w].at = "drop"
    /\ entry' = EntriesWithout(task[w].token)
    /\ NotFound(w)
    /\ UNCHANGED <<now, sweep, handedOut, withdrawn>>

Delete(w) ==
    /\ task[w].at = "delete"
    /\ entry' = EntriesWithout(task[w].token)
    /\ withdrawn' = withdrawn \cup {task[w].token}
    /\ Finish(w)
    /\ UNCHANGED <<now, sweep, handedOut>>

\* The record, the user's claims, or 401.
Answer(w) ==
    /\ task[w].at \in {"found", "refused"}
    /\ Finish(w)
    /\ UNCHANGED <<now, entry, sweep, handedOut, withdrawn>>

-----------------------------------------------------------------------------
(* TokenStore.cleanupLoop.  The walk comes once, in any order, to each key  *)
(* that stays in the map; a key that is stored meanwhile it may miss.       *)

StartSweep ==
    /\ ~sweep.on
    /\ sweep' = [NoSweep EXCEPT !.on = TRUE, !.clock = now, !.todo = Token]
    /\ UNCHANGED <<now, entry, task, handedOut, withdrawn>>

SweepVisit ==
    \E t \in sweep.todo \cap DOMAIN entry :
        /\ sweep.victim = NoToken
        /\ sweep' = [sweep EXCEPT
               !.todo = @ \ {t},
               !.victim = IF sweep.clock > entry[t] THEN t ELSE NoToken]
        /\ UNCHANGED <<now, entry, task, handedOut, withdrawn>>

\* The fault goes on with the walk and forgets to delete.
SweptEntries_KeptFault == entry
SweptEntries == EntriesWithout(sweep.victim)

SweepDelete ==
    /\ sweep.victim # NoToken
    /\ entry' = SweptEntries
    /\ sweep' = [sweep EXCEPT !.victim = NoToken]
    /\ UNCHANGED <<now, task, handedOut, withdrawn>>

EndSweep ==
    /\ sweep.on /\ sweep.victim = NoToken
    /\ sweep.todo \cap DOMAIN entry = {}
    /\ sweep' = NoSweep
    /\ UNCHANGED <<now, entry, task, handedOut, withdrawn>>

-----------------------------------------------------------------------------

Tick ==
    /\ now < MaxTime
    /\ now' = now + 1
    /\ UNCHANGED <<entry, task, sweep, handedOut, withdrawn>>

Serve(w) ==
    \/ StoreToken(w) \/ ValidateJWT(w) \/ Load(w) \/ Compare(w)
    \/ Drop(w) \/ Delete(w) \/ Answer(w)

Arrive(w) == Sign(w) \/ Present(w) \/ Revoke(w) \/ RevokeThroughRefresh(w)

Clean == StartSweep \/ SweepVisit \/ SweepDelete \/ EndSweep

\* After every step: whose token is past its time or withdrawn now, or was before.
GoodReason(t) == ~JWTValid(t) \/ t \in withdrawn
Observe ==
    excused' = {w \in Worker :
                  /\ task'[w].kind = "bearer"
                  /\ w \in excused \/ GoodReason(task[w].token)'}

Next == (Tick \/ Clean \/ \E w \in Worker : Serve(w) \/ Arrive(w)) /\ Observe

Spec == Init /\ [][Next]_vars

\* The ticker keeps firing and each walk over the map ends.
FairSpec == Spec /\ WF_vars(Clean /\ Observe)

-----------------------------------------------------------------------------
(* Properties *)

\* A request is refused only if its token was, at some moment of the request,
\* withdrawn by a revocation or past its exp claim: neither a lookup nor a sweep
\* that compared an older entry of the same string costs a good token its entry
\* (store.go:185-196 and 156-161 against grant.go:73).
RefusedForAReason ==
    \A w \in Worker : task[w].at = "refused" => w \in excused

\* A request that is about to delete the entry of a token carries the secret of
\* the client the token was issued to: what authenticated it at the door
\* (revoke.go:109-137) is whom it is checked against at the store
\* (server.go:121-136).
OnlyOwnersWithdraw ==
    \A w \in Worker :
        task[w].at = "delete" => OwnerOf[task[w].token.for] \in task[w].proved

\* A token that works stops working only when its time is up or its owner
\* withdraws it, and once its time is up it never works again; sweeps and lookups
\* only remove what has stopped working already (store.go:149-196).
Life == INSTANCE TokenLife WITH
    valid <- {t \in DOMAIN entry : JWTValid(t)},
    leaving <- {task[w].token : w \in {v \in Worker : task[v].at = "delete"}},
    lapsed <- {t \in Token : ~JWTValid(t)}
LifeSpec == Life!Spec

\* A walk misses no entry: those expired by its clock it has yet to come to or is about
\* to delete, unless they were so when they were stored behind its back; so a walk that
\* ends has left none, although requests store, overwrite and delete entries under
\* its feet (store.go:155-162).
WalkMissesNothing ==
    sweep.on => \A t \in DOMAIN entry :
        sweep.clock > entry[t] => t \in sweep.todo \cup {sweep.victim} \cup sweep.late

\* An entry that has expired leaves the map, unless the token is stored again,
\* though nobody asks for it: the sweep that comes to it may use an old clock,
\* the next one will not (store.go:149-174).
StaleEntry(t) == t \in DOMAIN entry /\ now > entry[t]
ExpiredEntriesCollected == \A t \in Token : StaleEntry(t) ~> ~StaleEntry(t)

=============================================================================
