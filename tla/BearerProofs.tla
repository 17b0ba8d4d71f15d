---------------------------- MODULE BearerProofs ----------------------------
(***************************************************************************)
(* The safety properties of Bearer, for any clients, requests, clocks and  *)
(* lifetimes.                                                              *)
(*                                                                         *)
(* Everything rests on one bound (Bounded): whoever stores a token string, *)
(* and whenever, the entry expires no earlier than the string's own exp    *)
(* claim.  So whoever has found ANY entry of a string expired knows that   *)
(* the string is past its claim, and that stays so: deleting the present   *)
(* entry then costs nothing that still works.                              *)
(***************************************************************************)
EXTENDS Bearer, TLAPS

\* What a request under way knows.
Bounded(w) ==
    /\ task[w].at \in {"store", "compare"} => task[w].expiresAt >= ExpiryClaim(task[w].token)
    /\ task[w].at = "drop" => ~JWTValid(task[w].token)

Entitled(w) ==
    /\ task[w].kind = "revoke" => task[w].client \in task[w].proved
    /\ task[w].at = "delete" => OwnerOf[task[w].token.for] \in task[w].proved

Excused(w) ==
    /\ task[w].kind = "bearer" => task[w].token \in handedOut
    /\ task[w].at = "validate" => task[w].kind = "bearer"
    /\ task[w].at \in {"load", "compare", "drop"} => task[w].kind \in {"bearer", "revoke"}
    /\ task[w].at = "refused" => task[w].kind = "bearer" /\ w \in excused

EntriesBounded == \A t \in DOMAIN entry : entry[t] >= ExpiryClaim(t)

\* No token handed out lacks its entry without a reason.
Accounted == \A t \in handedOut : t \in DOMAIN entry \/ GoodReason(t)

SweepBounded ==
    /\ sweep.clock <= now
    /\ sweep.victim # NoToken => ~JWTValid(sweep.victim)

Inv ==
    /\ TypeOK
    /\ EntriesBounded
    /\ Accounted
    /\ \A w \in Worker : Bounded(w) /\ Entitled(w) /\ Excused(w)
    /\ SweepBounded

-----------------------------------------------------------------------------
(* Operators *)

LEMMA TicksType ==
    /\ \A n \in Nat : Ticks(n) \in Nat
    /\ \A t \in Token : ExpiryClaim(t) \in Nat /\ t.iat \in Nat
<1>1. \A n \in Nat : Ticks(n) \in Nat
    BY BearerAssumption DEF Ticks
<1>2. \A t \in Token : t.iat \in Nat
    BY DEF Token
<1>3. \A t \in Token : t.iat + AccessExpiry \in Nat
    BY <1>2, BearerAssumption
<1> QED
    BY <1>1, <1>2, <1>3 DEF ExpiryClaim

\* A token signed now is good for at least what its exp claim says: the claim
\* counts from the beginning of the present second (token.go:35-41).
LEMMA SignedBound ==
    ASSUME now \in 0 .. MaxTime, NEW for \in Grant
    PROVE  LET t == [for |-> for, iat |-> now \div TicksPerSecond] IN
           t \in Token /\ SignedUntil \in Nat /\ SignedUntil >= ExpiryClaim(t)
<1> DEFINE s == now \div TicksPerSecond
<1>1. TicksPerSecond \in Nat /\ TicksPerSecond > 0 /\ AccessExpiry \in Nat /\ MaxTime \in Nat
    BY BearerAssumption
<1>2. s \in Nat /\ s * TicksPerSecond <= now
    BY <1>1
<1>3. s <= MaxTime \div TicksPerSecond /\ MaxTime \div TicksPerSecond \in Nat
    BY <1>1, Z3
<1>4. [for |-> for, iat |-> s] \in Token
    BY <1>2, <1>3 DEF Token
<1>5. (s + AccessExpiry) * TicksPerSecond = s * TicksPerSecond + AccessExpiry * TicksPerSecond
    BY <1>1, <1>2
<1>6. AccessExpiry * TicksPerSecond \in Nat /\ s * TicksPerSecond \in Nat
    BY <1>1, <1>2
<1> QED
    BY <1>1, <1>2, <1>4, <1>5, <1>6 DEF SignedUntil, ExpiryClaim, Ticks

\* Whoever is authenticated has shown the secret of whom it acts for, be it in
\* the header or in the body (token.go:37-60).
LEMMA AuthenticatedProved ==
    \A p \in Presentation, c \in Client : AuthenticatedAs(p, c) => c \in Proved(p)
BY DEF AuthenticatedAs, ValidateClient, Chosen, Proved, Presentation

LEMMA ProvedType == \A p : Proved(p) \in SUBSET Client
BY DEF Proved

LEMMA WithoutEntry ==
    ASSUME NEW t
    PROVE  /\ DOMAIN EntriesWithout(t) = DOMAIN entry \ {t}
           /\ \A u \in DOMAIN EntriesWithout(t) : EntriesWithout(t)[u] = entry[u]
           /\ EntriesWithout(t) \in [DOMAIN EntriesWithout(t) -> {entry[u] : u \in DOMAIN entry}]
BY DEF EntriesWithout, Restrict

-----------------------------------------------------------------------------
(* Types *)

\* A request about a token always has one; entries are of tokens and expire at
\* a time (store.go:45-53).
LEMMA TypeInductive == Inv /\ [Next]_vars => TypeOK'
<1> SUFFICES ASSUME Inv, [Next]_vars PROVE TypeOK'
    OBVIOUS
<1> USE BearerAssumption, ClientAuthAssumption, NoTokenAssumption DEF TypeOK
<1> DEFINE Proper(x) == x \in Task /\ (x.at # "idle" => x.token \in Token)
           Tasks == task \in [Worker -> Task]
                      /\ \A w \in Worker : task[w].at # "idle" => task[w].token \in Token
           Entries == DOMAIN entry \subseteq Token /\ entry \in [DOMAIN entry -> Nat]
<1>1. TypeOK /\ Tasks /\ Entries
    BY DEF Inv
<1>2. Proper(Idle)
    BY DEF Idle, Task, Step
<1>3. ASSUME NEW w \in Worker, NEW x, Proper(x), task' = [task EXCEPT ![w] = x]
      PROVE  Tasks'
    BY <1>3, <1>1
<1>4. ASSUME NEW w \in Worker, Finish(w) PROVE Tasks'
    BY <1>4, <1>2, <1>3 DEF Finish
<1>5. ASSUME NEW w \in Worker, NEW s \in Step, task[w].at # "idle", Goto(w, s) PROVE Tasks'
  <2>1. Proper([task[w] EXCEPT !.at = s])
      BY <1>1, <1>5 DEF Task
  <2> QED
      BY <2>1, <1>1, <1>3, <1>5 DEF Goto
<1>6. ASSUME NEW t, entry' = EntriesWithout(t) PROVE Entries'
    BY <1>6, <1>1, WithoutEntry
<1>7. ASSUME UNCHANGED task PROVE Tasks'
    BY <1>7, <1>1
<1>8. ASSUME UNCHANGED entry PROVE Entries'
    BY <1>8, <1>1
<1>9. ASSUME Observe PROVE excused' \subseteq Worker
    BY <1>9 DEF Observe
<1> HIDE DEF Proper, Tasks, Entries
<1>10. ASSUME Tasks', Entries', now' \in 0 .. MaxTime, sweep' \in Sweep,
              handedOut' \subseteq Token, withdrawn' \subseteq Token, excused' \subseteq Worker
       PROVE  TypeOK'
    BY <1>10 DEF Tasks, Entries
<1>11. ASSUME UNCHANGED vars PROVE TypeOK'
    BY <1>11 DEF vars, Inv
<1>12. ASSUME Tick, Observe PROVE TypeOK'
  <2>1. now' \in 0 .. MaxTime
      BY <1>12, <1>1 DEF Tick
  <2> QED
      BY <2>1, <1>1, <1>7, <1>8, <1>9, <1>10, <1>12 DEF Tick
<1>13. ASSUME Clean, Observe PROVE TypeOK'
  <2>1. sweep \in Sweep /\ UNCHANGED <<now, task, handedOut, withdrawn>>
      BY <1>1, <1>13 DEF Clean, StartSweep, SweepVisit, SweepDelete, EndSweep
  <2>2. sweep' \in Sweep
    <3>1. CASE StartSweep
      <4>1. now \in Nat /\ {} \in SUBSET Token /\ Token \in SUBSET Token
          BY <1>1
      <4>2. sweep' = [on |-> TRUE, clock |-> now, todo |-> Token, victim |-> NoToken,
                     late |-> {}]
          BY <3>1 DEF StartSweep, NoSweep
      <4> QED
          BY <4>1, <4>2 DEF Sweep
    <3>2. CASE SweepVisit
      <4>1. PICK t \in sweep.todo : sweep' = [sweep EXCEPT
               !.todo = @ \ {t}, !.victim = IF sweep.clock > entry[t] THEN t ELSE NoToken]
          BY <3>2 DEF SweepVisit
      <4> QED
          BY <4>1, <2>1 DEF Sweep
    <3>3. CASE SweepDelete
        BY <3>3, <2>1 DEF SweepDelete, Sweep
    <3>4. CASE EndSweep
        BY <3>4 DEF EndSweep, NoSweep, Sweep
    <3> QED
        BY <3>1, <3>2, <3>3, <3>4, <1>13 DEF Clean
  <2>3. Entries'
      BY <1>6, <1>8, <1>13 DEF Clean, StartSweep, SweepVisit, SweepDelete, SweptEntries, EndSweep
  <2> QED
      BY <2>1, <2>2, <2>3, <1>1, <1>7, <1>9, <1>10, <1>13
<1>14. ASSUME NEW w \in Worker, Serve(w), Observe PROVE TypeOK'
  <2>1. UNCHANGED now /\ task[w].at # "idle" /\ task[w] \in Task /\ task[w].token \in Token
      BY <1>1, <1>14 DEF Serve, StoreToken, ValidateJWT, Load, Compare, Drop, Delete, Answer, Tasks
  <2>2. ASSUME NotFound(w) PROVE Tasks'
      BY <2>1, <2>2, <1>4, <1>5 DEF NotFound, Step
  <2>3. CASE StoreToken(w)
    <3>1. Entries' /\ handedOut' \subseteq Token /\ withdrawn' \subseteq Token
        BY <2>1, <2>3, <1>1 DEF StoreToken, Entries, Task
    <3>2. sweep' \in Sweep
      <4>1. ASSUME NEW todo \in SUBSET Token PROVE StoredMeanwhile(w, todo) \in Sweep
          BY <2>1, <1>1 DEF StoredMeanwhile, Sweep
      <4>2. sweep \in Sweep /\ sweep.todo \in SUBSET Token
          BY <1>1 DEF Sweep
      <4>3. CASE sweep.on
        <5>1. PICK missed \in SUBSET ({task[w].token} \ DOMAIN entry) :
                  sweep' = StoredMeanwhile(w, sweep.todo \ missed)
            BY <4>3, <2>3 DEF StoreToken
        <5>2. sweep.todo \ missed \in SUBSET Token
            BY <4>2
        <5> QED
            BY <5>1, <5>2, <4>1, <2>1
      <4>4. CASE ~sweep.on
          BY <4>2, <4>4, <2>3 DEF StoreToken
      <4> QED
          BY <4>3, <4>4
    <3> QED
        BY <3>1, <3>2, <2>1, <2>3, <1>1, <1>4, <1>9, <1>10, <1>14 DEF StoreToken
  <2>4. CASE ValidateJWT(w)
    <3>1. Tasks'
        BY <2>1, <2>4, <1>5 DEF ValidateJWT, Step
    <3> QED
        BY <3>1, <2>4, <1>1, <1>8, <1>9, <1>10, <1>14 DEF ValidateJWT
  <2>5. CASE Load(w)
    <3>1. ASSUME task[w].token \in DOMAIN entry PROVE Tasks'
      <4>1. entry[task[w].token] \in Nat
          BY <3>1, <1>1 DEF Entries
      <4>2. Proper([task[w] EXCEPT !.at = "compare", !.expiresAt = entry[task[w].token]])
          BY <4>1, <2>1 DEF Proper, Task, Step
      <4> QED
          BY <3>1, <4>2, <2>1, <2>5, <1>3, <1>1 DEF Load, Tasks
    <3> QED
        BY <3>1, <2>2, <2>5, <1>1, <1>8, <1>9, <1>10, <1>14 DEF Load
  <2>6. CASE Compare(w)
    <3>1. Tasks'
        BY <2>1, <2>6, <1>4, <1>5 DEF Compare, Found, Step
    <3> QED
        BY <3>1, <2>6, <1>1, <1>8, <1>9, <1>10, <1>14 DEF Compare
  <2>7. CASE Drop(w)
      BY <2>2, <2>7, <1>1, <1>6, <1>9, <1>10, <1>14 DEF Drop
  <2>8. CASE Delete(w)
      BY <2>1, <2>8, <1>1, <1>4, <1>6, <1>9, <1>10, <1>14 DEF Delete
  <2>9. CASE Answer(w)
      BY <2>9, <1>1, <1>4, <1>8, <1>9, <1>10, <1>14 DEF Answer
  <2> QED
      BY <2>3, <2>4, <2>5, <2>6, <2>7, <2>8, <2>9, <1>14 DEF Serve
<1>15. ASSUME NEW w \in Worker, Arrive(w), Observe PROVE TypeOK'
  <2>1. Tasks'
    <3>1. CASE Sign(w)
      <4>1. PICK for \in Grant : task' = [task EXCEPT ![w] = [Idle EXCEPT
               !.kind = "issue", !.at = "store",
               !.token = [for |-> for, iat |-> now \div TicksPerSecond],
               !.expiresAt = SignedUntil]]
          BY <3>1 DEF Sign
      <4> DEFINE t == [for |-> for, iat |-> now \div TicksPerSecond]
      <4>2. t \in Token /\ SignedUntil \in Nat
          BY <1>1, SignedBound
      <4> HIDE DEF t
      <4>3. Proper([Idle EXCEPT !.kind = "issue", !.at = "store", !.token = t,
                                !.expiresAt = SignedUntil])
          BY <4>2 DEF Proper, Idle, Task, Step
      <4> QED
          BY <4>1, <4>3, <1>3 DEF t
    <3>2. CASE Present(w)
      <4>1. PICK t \in handedOut : task' = [task EXCEPT ![w] = [Idle EXCEPT
               !.kind = "bearer", !.at = "validate", !.token = t]]
          BY <3>2 DEF Present
      <4>2. Proper([Idle EXCEPT !.kind = "bearer", !.at = "validate", !.token = t])
          BY <1>1 DEF Proper, Idle, Task, Step
      <4> QED
          BY <4>1, <4>2, <1>3
    <3>3. CASE Revoke(w)
      <4>1. PICK t \in handedOut, p \in Presentation, client \in Client :
              task' = [task EXCEPT ![w] = [Idle EXCEPT
               !.kind = "revoke", !.at = "load", !.token = t,
               !.client = client, !.proved = Proved(p)]]
          BY <3>3 DEF Revoke
      <4>2. client \in ClientID /\ Proved(p) \in SUBSET Client /\ t \in Token
          BY <1>1, ProvedType
      <4>3. Proper([Idle EXCEPT !.kind = "revoke", !.at = "load", !.token = t,
                                !.client = client, !.proved = Proved(p)])
          BY <4>2 DEF Proper, Idle, Task, Step
      <4> QED
          BY <4>1, <4>3, <1>3
    <3>4. CASE RevokeThroughRefresh(w)
      <4>1. PICK t \in handedOut, p \in Presentation :
              task' = [task EXCEPT ![w] = [Idle EXCEPT
               !.kind = "revoke", !.at = "delete", !.token = t,
               !.client = OwnerOf[t.for], !.proved = Proved(p)]]
          BY <3>4 DEF RevokeThroughRefresh
      <4>2. OwnerOf[t.for] \in ClientID /\ Proved(p) \in SUBSET Client /\ t \in Token
          BY <1>1, ProvedType DEF Token
      <4>3. Proper([Idle EXCEPT !.kind = "revoke", !.at = "delete", !.token = t,
                                !.client = OwnerOf[t.for], !.proved = Proved(p)])
          BY <4>2 DEF Proper, Idle, Task, Step
      <4> QED
          BY <4>1, <4>3, <1>3
    <3> QED
        BY <3>1, <3>2, <3>3, <3>4, <1>15 DEF Arrive
  <2>2. UNCHANGED <<now, entry, sweep, handedOut, withdrawn>>
      BY <1>15 DEF Arrive, Sign, Present, Revoke, RevokeThroughRefresh
  <2> QED
      BY <2>1, <2>2, <1>1, <1>8, <1>9, <1>10, <1>15
<1> QED
    BY <1>11, <1>12, <1>13, <1>14, <1>15 DEF Next

-----------------------------------------------------------------------------
(* The invariant *)

\* Time only passes, so what is past its claim stays so.
LEMMA TimePasses ==
    ASSUME Inv, [Next]_vars
    PROVE  /\ now \in Nat /\ now' \in Nat /\ now' >= now
           /\ \A t \in Token : ~JWTValid(t) => ~JWTValid(t)'
           /\ handedOut \subseteq handedOut'
<1>1. now \in Nat /\ now' \in Nat /\ now' >= now
  <2>1. now \in Nat
      BY BearerAssumption DEF Inv, TypeOK
  <2>2. now' = now \/ now' = now + 1
      BY DEF Next, vars, Tick, Clean, Serve, Arrive, StartSweep, SweepVisit, SweepDelete,
             EndSweep, StoreToken, ValidateJWT, Load, Compare, Drop, Delete, Answer, Sign,
             Present, Revoke, RevokeThroughRefresh
  <2> QED
      BY <2>1, <2>2
<1>2. \A t \in Token : ExpiryClaim(t) \in Nat /\ ExpiryClaim(t)' = ExpiryClaim(t)
    BY TicksType DEF ExpiryClaim, Ticks
<1>3. handedOut \subseteq handedOut'
    BY DEF Next, vars, Tick, Clean, Serve, Arrive, StartSweep, SweepVisit, SweepDelete,
           EndSweep, StoreToken, ValidateJWT, Load, Compare, Drop, Delete, Answer, Sign,
           Present, Revoke, RevokeThroughRefresh
<1> QED
    BY <1>1, <1>2, <1>3 DEF JWTValid

\* What a request knows does not depend on what others do (store.go:97-107).
LEMMA OthersUnmoved ==
    ASSUME Inv, Next, NEW v \in Worker, task'[v] = task[v]
    PROVE  Bounded(v)' /\ Entitled(v)' /\ Excused(v)'
<1>1. Bounded(v) /\ Entitled(v) /\ Excused(v) /\ (task[v].at # "idle" => task[v].token \in Token)
    BY DEF Inv, TypeOK
<1>2. ExpiryClaim(task[v].token)' = ExpiryClaim(task'[v].token)
    BY DEF ExpiryClaim, Ticks
<1>3. Bounded(v)'
    BY <1>1, <1>2, TimePasses DEF Bounded, Inv, TypeOK
<1>4. Excused(v)'
    BY <1>1, TimePasses DEF Excused, Next, Observe
<1> QED
    BY <1>1, <1>3, <1>4 DEF Entitled

LEMMA WorkersInductive ==
    ASSUME Inv, Next, NEW w \in Worker, Serve(w) \/ Arrive(w)
    PROVE  \A v \in Worker : Bounded(v)' /\ Entitled(v)' /\ Excused(v)'
<1> DEFINE Good(v) == Bounded(v)' /\ Entitled(v)' /\ Excused(v)'
<1>1. task \in [Worker -> Task] /\ TypeOK /\ task[w] \in Task /\ task' \in [Worker -> Task]
    BY TypeInductive DEF Inv, TypeOK
<1>2. Bounded(w) /\ Entitled(w) /\ Excused(w) /\ (task[w].at # "idle" => task[w].token \in Token)
    BY DEF Inv, TypeOK
<1>3. \A v \in Worker \ {w} : task'[v] = task[v]
    BY <1>1 DEF Serve, Arrive, StoreToken, ValidateJWT, Load, Compare, Drop, Delete, Answer,
                NotFound, Found, Goto, Finish, Sign, Present, Revoke, RevokeThroughRefresh
<1>4. \A v \in Worker \ {w} : Good(v)
    BY <1>3, OthersUnmoved
<1>5. ASSUME task'[w] = Idle PROVE Good(w)
    BY <1>5 DEF Idle, Bounded, Entitled, Excused
<1>6. handedOut \subseteq handedOut'
    BY TimePasses
\* A refused request had a reason to be.
<1>16. ASSUME task[w].kind = "bearer", UNCHANGED <<now, withdrawn>>, GoodReason(task[w].token),
              task'[w] = [task[w] EXCEPT !.at = "refused"]
       PROVE  Good(w)
  <2>1. task'[w].kind = "bearer" /\ task'[w].at = "refused" /\ task'[w].token = task[w].token
      BY <1>1, <1>16 DEF Task
  <2>2. GoodReason(task[w].token)'
      BY <2>1, <1>16 DEF GoodReason, JWTValid, ExpiryClaim, Ticks
  <2>3. w \in excused'
      BY <2>1, <2>2 DEF Next, Observe
  <2> QED
      BY <2>1, <2>3, <1>2, <1>6, <1>16 DEF Bounded, Entitled, Excused
<1>17. ASSUME NotFound(w), task[w].at \in {"load", "drop"}, UNCHANGED <<now, withdrawn>>,
              task[w].kind = "bearer" => GoodReason(task[w].token)
       PROVE  Good(w)
  <2>1. CASE task[w].kind = "bearer"
      BY <2>1, <1>1, <1>16, <1>17 DEF NotFound, Goto
  <2>2. CASE task[w].kind # "bearer"
      BY <2>2, <1>1, <1>5, <1>17 DEF NotFound, Finish
  <2> QED
      BY <2>1, <2>2
<1>7. CASE StoreToken(w) \/ Delete(w) \/ Answer(w)
    BY <1>7, <1>1, <1>4, <1>5 DEF StoreToken, Delete, Answer, Finish
<1>8. CASE ValidateJWT(w)
  <2>1. task[w].kind = "bearer" /\ task[w].at = "validate" /\ UNCHANGED now
      BY <1>2, <1>8 DEF ValidateJWT, Excused
  <2>2. CASE JWTValid(task[w].token)
    <3>1. task'[w] = [task[w] EXCEPT !.at = "load"]
        BY <2>2, <1>1, <1>8 DEF ValidateJWT, Goto
    <3> QED
        BY <3>1, <2>1, <1>1, <1>2, <1>4, <1>6 DEF Task, Bounded, Entitled, Excused
  <2>3. CASE ~JWTValid(task[w].token)
    <3>1. task'[w] = [task[w] EXCEPT !.at = "refused"]
        BY <2>3, <1>1, <1>8 DEF ValidateJWT, Goto
    <3> QED
        BY <3>1, <2>1, <2>3, <1>4, <1>8, <1>16 DEF ValidateJWT, GoodReason
  <2> QED
      BY <2>2, <2>3
<1>9. CASE Load(w)
  <2>1. task[w].at = "load" /\ task[w].kind \in {"bearer", "revoke"} /\ UNCHANGED entry
      BY <1>2, <1>9 DEF Load, Excused
  <2>2. CASE task[w].token \in DOMAIN entry
    <3>1. task'[w] = [task[w] EXCEPT !.at = "compare", !.expiresAt = entry[task[w].token]]
        BY <2>2, <1>1, <1>9 DEF Load
    <3>2. entry[task[w].token] >= ExpiryClaim(task[w].token)
        BY <2>2 DEF Inv, EntriesBounded
    <3>3. Bounded(w)'
        BY <3>1, <3>2, <1>1 DEF Bounded, Task, ExpiryClaim, Ticks
    <3>4. /\ task'[w].at = "compare" /\ task'[w].kind = task[w].kind
          /\ task'[w].token = task[w].token /\ task'[w].client = task[w].client
          /\ task'[w].proved = task[w].proved
        BY <3>1, <1>1 DEF Task
    <3>5. Entitled(w)' /\ Excused(w)'
        BY <3>4, <2>1, <1>2, <1>6 DEF Entitled, Excused
    <3> QED
        BY <3>3, <3>5, <1>4
  <2>3. CASE task[w].token \notin DOMAIN entry
    <3>1. task[w].kind = "bearer" => GoodReason(task[w].token)
        BY <2>3, <1>2 DEF Inv, Accounted, Excused
    <3> QED
        BY <3>1, <2>1, <2>3, <1>4, <1>9, <1>17 DEF Load
  <2> QED
      BY <2>2, <2>3
<1>10. CASE Compare(w)
  <2>1. /\ task[w].at = "compare" /\ task[w].kind \in {"bearer", "revoke"} /\ UNCHANGED now
        /\ task[w].token \in Token /\ task[w].expiresAt >= ExpiryClaim(task[w].token)
      BY <1>2, <1>10 DEF Compare, Bounded, Excused
  <2>2. CASE now > task[w].expiresAt
    <3>1. task'[w] = [task[w] EXCEPT !.at = "drop"]
        BY <2>2, <1>1, <1>10 DEF Compare, Goto
    <3>2. now \in Nat /\ ExpiryClaim(task[w].token) \in Nat /\ task[w].expiresAt \in Nat
        BY <2>1, <1>1, TimePasses, TicksType DEF Task
    <3>3. ~JWTValid(task[w].token)
        BY <3>2, <2>1, <2>2, TimePasses DEF JWTValid
    <3>4. Bounded(w)'
        BY <3>1, <3>3, <2>1, <1>1 DEF Bounded, Task, JWTValid, ExpiryClaim, Ticks
    <3> QED
        BY <3>1, <3>4, <2>1, <1>1, <1>2, <1>4, <1>6 DEF Task, Entitled, Excused
  <2>3. CASE ~(now > task[w].expiresAt) /\ task[w].kind = "bearer"
    <3>1. task'[w] = [task[w] EXCEPT !.at = "found"]
        BY <2>3, <1>1, <1>10 DEF Compare, Found, Goto
    <3> QED
        BY <3>1, <2>3, <1>1, <1>2, <1>4, <1>6 DEF Task, Bounded, Entitled, Excused
  <2>4. CASE ~(now > task[w].expiresAt) /\ task[w].kind = "revoke"
                /\ OwnerOf[task[w].token.for] = task[w].client
    <3>1. task'[w] = [task[w] EXCEPT !.at = "delete"]
        BY <2>4, <1>1, <1>10 DEF Compare, Found, Goto
    <3> QED
        BY <3>1, <2>4, <1>1, <1>2, <1>4, <1>6 DEF Task, Bounded, Entitled, Excused
  <2>5. CASE ~(now > task[w].expiresAt) /\ task[w].kind = "revoke"
                /\ OwnerOf[task[w].token.for] # task[w].client
      BY <2>5, <1>1, <1>4, <1>5, <1>10 DEF Compare, Found, Finish
  <2> QED
      BY <2>1, <2>2, <2>3, <2>4, <2>5
<1>11. CASE Drop(w)
    BY <1>2, <1>4, <1>11, <1>17 DEF Drop, Bounded, GoodReason
<1>12. CASE Sign(w)
  <2>1. PICK for \in Grant : task' = [task EXCEPT ![w] = [Idle EXCEPT
           !.kind = "issue", !.at = "store",
           !.token = [for |-> for, iat |-> now \div TicksPerSecond],
           !.expiresAt = SignedUntil]]
      BY <1>12 DEF Sign
  <2> DEFINE t == [for |-> for, iat |-> now \div TicksPerSecond]
  <2>2. SignedUntil >= ExpiryClaim(t)
      BY <1>1, SignedBound DEF TypeOK
  <2> HIDE DEF t
  <2>3. task'[w] = [Idle EXCEPT !.kind = "issue", !.at = "store", !.token = t,
                                !.expiresAt = SignedUntil]
      BY <2>1, <1>1 DEF t
  <2> QED
      BY <2>2, <2>3, <1>4 DEF Idle, Bounded, Entitled, Excused, ExpiryClaim, Ticks
<1>13. CASE Present(w)
  <2>1. PICK t \in handedOut : task' = [task EXCEPT ![w] = [Idle EXCEPT
           !.kind = "bearer", !.at = "validate", !.token = t]]
      BY <1>13 DEF Present
  <2>2. task'[w] = [Idle EXCEPT !.kind = "bearer", !.at = "validate", !.token = t]
      BY <2>1, <1>1
  <2>3. task'[w].kind = "bearer" /\ task'[w].at = "validate" /\ task'[w].token \in handedOut'
      BY <2>2, <1>6 DEF Idle
  <2> QED
      BY <2>3, <1>4 DEF Bounded, Entitled, Excused
<1>14. CASE Revoke(w)
  <2>1. PICK t \in handedOut, p \in Presentation, client \in Client :
          /\ AuthenticatedAs(p, client)
          /\ task' = [task EXCEPT ![w] = [Idle EXCEPT
               !.kind = "revoke", !.at = "load", !.token = t,
               !.client = client, !.proved = Proved(p)]]
      BY <1>14 DEF Revoke
  <2>2. task'[w] = [Idle EXCEPT !.kind = "revoke", !.at = "load", !.token = t,
                                !.client = client, !.proved = Proved(p)]
      BY <2>1, <1>1
  <2>3. client \in Proved(p)
      BY <2>1, AuthenticatedProved
  <2> QED
      BY <2>2, <2>3, <1>4 DEF Idle, Bounded, Entitled, Excused
<1>15. CASE RevokeThroughRefresh(w)
  <2>1. PICK t \in handedOut, p \in Presentation :
          /\ AuthenticatedAs(p, OwnerOf[t.for])
          /\ task' = [task EXCEPT ![w] = [Idle EXCEPT
               !.kind = "revoke", !.at = "delete", !.token = t,
               !.client = OwnerOf[t.for], !.proved = Proved(p)]]
      BY <1>15 DEF RevokeThroughRefresh
  <2>2. task'[w] = [Idle EXCEPT !.kind = "revoke", !.at = "delete", !.token = t,
                                !.client = OwnerOf[t.for], !.proved = Proved(p)]
      BY <2>1, <1>1
  <2>3. OwnerOf[t.for] \in Client
      BY BearerAssumption, <1>1 DEF TypeOK, Token
  <2>4. OwnerOf[t.for] \in Proved(p)
      BY <2>1, <2>3, AuthenticatedProved
  <2> QED
      BY <2>2, <2>4, <1>4 DEF Idle, Bounded, Entitled, Excused
<1> QED
    BY <1>7, <1>8, <1>9, <1>10, <1>11, <1>12, <1>13, <1>14, <1>15 DEF Serve, Arrive

LEMMA Inductive == Inv /\ [Next]_vars => Inv'
<1> SUFFICES ASSUME Inv, [Next]_vars PROVE Inv'
    OBVIOUS
<1> DEFINE Workers == \A v \in Worker : Bounded(v) /\ Entitled(v) /\ Excused(v)
<1>1. TypeOK' /\ TypeOK
    BY TypeInductive DEF Inv
<1>2. \A t \in Token : ExpiryClaim(t)' = ExpiryClaim(t)
    BY DEF ExpiryClaim, Ticks
<1>3. ASSUME UNCHANGED entry \/ \E t : entry' = EntriesWithout(t) PROVE EntriesBounded'
    BY <1>3, <1>1, <1>2, WithoutEntry DEF Inv, EntriesBounded, TypeOK, ExpiryClaim, Ticks
\* An entry may go if its token has stopped working.
<1>10. ASSUME UNCHANGED <<handedOut, withdrawn>>,
              UNCHANGED entry \/ \E t \in Token : ~JWTValid(t) /\ entry' = EntriesWithout(t)
       PROVE  Accounted'
  <2> SUFFICES ASSUME NEW t \in handedOut PROVE t \in DOMAIN entry' \/ GoodReason(t)'
      BY <1>10 DEF Accounted
  <2>1. t \in Token /\ (t \in DOMAIN entry \/ ~JWTValid(t) \/ t \in withdrawn)
      BY <1>1 DEF Inv, Accounted, GoodReason, TypeOK
  <2>2. ~JWTValid(t) => ~JWTValid(t)'
      BY <2>1, TimePasses
  <2>3. t \notin DOMAIN entry' => t \notin DOMAIN entry \/ ~JWTValid(t)
      BY <1>10, WithoutEntry
  <2> QED
      BY <2>1, <2>2, <2>3, <1>10 DEF GoodReason
<1>4. ASSUME sweep'.clock = sweep.clock, sweep'.victim = sweep.victim PROVE SweepBounded'
    BY <1>4, <1>1, TimePasses DEF Inv, SweepBounded, Sweep, TypeOK
<1>5. ASSUME UNCHANGED task, Next PROVE Workers'
    BY <1>5, OthersUnmoved
<1>6. CASE UNCHANGED vars
    BY <1>6, <1>1, <1>3, <1>4, <1>10 DEF vars, Inv, Bounded, Entitled, Excused, JWTValid, ExpiryClaim, Ticks
<1>7. CASE Tick /\ Observe
    BY <1>1, <1>3, <1>4, <1>5, <1>7, <1>10 DEF Tick, Inv, Next
<1>8. CASE Clean /\ Observe
  <2>1. /\ UNCHANGED <<now, task, handedOut, withdrawn>>
        /\ UNCHANGED entry \/ \E t \in Token : ~JWTValid(t) /\ entry' = EntriesWithout(t)
      BY <1>8, <1>1 DEF Inv, TypeOK, Sweep, SweepBounded, Clean, StartSweep, SweepVisit, SweepDelete, SweptEntries, EndSweep
  <2>2. SweepBounded'
    <3>1. CASE StartSweep
        BY <3>1, TimePasses DEF StartSweep, NoSweep, SweepBounded
    <3>2. CASE SweepVisit
      <4>1. PICK t \in sweep.todo \cap DOMAIN entry : sweep' = [sweep EXCEPT
               !.todo = @ \ {t}, !.victim = IF sweep.clock > entry[t] THEN t ELSE NoToken]
          BY <3>2 DEF SweepVisit
      <4>2. /\ t \in Token /\ ExpiryClaim(t) \in Nat /\ entry[t] \in Nat
            /\ entry[t] >= ExpiryClaim(t)
          BY <1>1, TicksType DEF TypeOK, Inv, EntriesBounded
      <4>3. sweep.clock \in Nat /\ sweep.clock <= now /\ now \in Nat /\ sweep \in Sweep
          BY <1>1, TimePasses DEF Inv, SweepBounded, TypeOK, Sweep
      <4>4. sweep.clock > entry[t] => ~JWTValid(t)
          BY <4>2, <4>3 DEF JWTValid
      <4> QED
          BY <4>1, <4>3, <4>4, <2>1 DEF SweepBounded, Sweep, JWTValid, ExpiryClaim, Ticks
    <3>3. CASE SweepDelete
        BY <3>3, <2>1, <1>1 DEF SweepDelete, SweepBounded, Inv, TypeOK, Sweep
    <3>4. CASE EndSweep
        BY <3>4, TimePasses DEF EndSweep, NoSweep, SweepBounded
    <3> QED
        BY <3>1, <3>2, <3>3, <3>4, <1>8 DEF Clean
  <2> QED
      BY <2>1, <2>2, <1>1, <1>3, <1>5, <1>8, <1>10 DEF Inv, Next
<1>9. ASSUME NEW w \in Worker, Serve(w) \/ Arrive(w), Observe PROVE Inv'
  <2>1. Next /\ sweep'.clock = sweep.clock /\ sweep'.victim = sweep.victim
    <3>1. Next /\ (UNCHANGED sweep \/ \E todo : sweep' = StoredMeanwhile(w, todo))
        BY <1>9 DEF Next, Serve, Arrive, StoreToken, ValidateJWT, Load, Compare, Drop, Delete,
                    Answer, Sign, Present, Revoke, RevokeThroughRefresh
    <3>2. sweep \in Sweep
        BY <1>1 DEF TypeOK
    <3> QED
        BY <3>1, <3>2 DEF Sweep, StoredMeanwhile
  <2>2. Workers'
      BY <1>9, <2>1, WorkersInductive
  <2>3. EntriesBounded'
    <3>1. CASE StoreToken(w)
      <4>1. task[w].expiresAt >= ExpiryClaim(task[w].token)
          BY <3>1 DEF StoreToken, Inv, Bounded
      <4> QED
          BY <3>1, <4>1 DEF StoreToken, EntriesBounded, Inv, ExpiryClaim, Ticks
    <3>2. CASE ~StoreToken(w)
        BY <3>2, <1>3, <1>9 DEF Serve, Arrive, ValidateJWT, Load, Compare, Drop, Delete, Answer,
                                Sign, Present, Revoke, RevokeThroughRefresh
    <3> QED
        BY <3>1, <3>2
  <2>4. Accounted'
    <3>1. CASE StoreToken(w)
      <4> SUFFICES ASSUME NEW t \in handedOut' PROVE t \in DOMAIN entry' \/ GoodReason(t)'
          BY DEF Accounted
      <4>1. CASE t = task[w].token
          BY <3>1, <4>1 DEF StoreToken
      <4>2. CASE t # task[w].token
        <5>1. t \in handedOut /\ UNCHANGED now
            BY <3>1, <4>2 DEF StoreToken
        <5>2. t \in DOMAIN entry \/ ~JWTValid(t) \/ t \in withdrawn
            BY <5>1 DEF Inv, Accounted, GoodReason
        <5>3. (t \in DOMAIN entry => t \in DOMAIN entry') /\ (t \in withdrawn => t \in withdrawn')
            BY <3>1, <4>2 DEF StoreToken
        <5> QED
            BY <5>1, <5>2, <5>3 DEF GoodReason, JWTValid, ExpiryClaim, Ticks
      <4> QED
          BY <4>1, <4>2
    <3>2. CASE Delete(w)
      <4> SUFFICES ASSUME NEW t \in handedOut PROVE t \in DOMAIN entry' \/ GoodReason(t)'
          BY <3>2 DEF Accounted, Delete
      <4>1. UNCHANGED now /\ (t \in DOMAIN entry \/ ~JWTValid(t) \/ t \in withdrawn)
          BY <3>2 DEF Inv, Accounted, GoodReason, Delete
      <4>2. (t \in DOMAIN entry => t \in DOMAIN entry' \/ t \in withdrawn')
              /\ (t \in withdrawn => t \in withdrawn')
          BY <3>2, WithoutEntry DEF Delete
      <4> QED
          BY <4>1, <4>2 DEF GoodReason, JWTValid, ExpiryClaim, Ticks
    <3>3. CASE Drop(w)
      <4>1. task[w].token \in Token /\ ~JWTValid(task[w].token)
          BY <3>3 DEF Drop, Inv, TypeOK, Bounded
      <4> QED
          BY <3>3, <4>1, <1>10 DEF Drop
    <3>4. CASE ~StoreToken(w) /\ ~Delete(w) /\ ~Drop(w)
        BY <3>4, <1>9, <1>10 DEF Serve, Arrive, ValidateJWT, Load, Compare, Answer,
                                 Sign, Present, Revoke, RevokeThroughRefresh
    <3> QED
        BY <3>1, <3>2, <3>3, <3>4
  <2> QED
      BY <2>1, <2>2, <2>3, <2>4, <1>1, <1>4 DEF Inv
<1> QED
    BY <1>6, <1>7, <1>8, <1>9 DEF Next

LEMMA InitInv == Init => Inv
<1> SUFFICES ASSUME Init PROVE Inv
    OBVIOUS
<1>1. TypeOK
    BY BearerAssumption, ClientAuthAssumption
    DEF Init, TypeOK, Idle, Task, Step, NoSweep, Sweep
<1>2. DOMAIN entry = {}
    BY DEF Init
<1> QED
    BY <1>1, <1>2 DEF Init, Inv, EntriesBounded, Accounted, SweepBounded, NoSweep, Idle,
                      Bounded, Entitled, Excused

THEOREM Invariance == Spec => []Inv
BY InitInv, Inductive, PTL DEF Spec

-----------------------------------------------------------------------------
(* The properties *)

\* Tokens, expiries, clocks and requests are what the code takes them for; no
\* clock and no expiry is negative.
THEOREM TypeCorrect == Spec => []TypeOK
<1>1. Inv => TypeOK
    BY DEF Inv
<1> QED
    BY <1>1, Invariance, PTL

\* However many requests, sweeps and re-issues of one string run together, a
\* request is refused only for a token that was revoked or past its claim.
THEOREM RefusedForAReasonHolds == Spec => []RefusedForAReason
<1>1. Inv => RefusedForAReason
    BY DEF Inv, Excused, RefusedForAReason
<1> QED
    BY <1>1, Invariance, PTL

\* Whatever credentials a request presents, and in which of the two places, only
\* one with the secret of the token's client comes to delete its entry.
THEOREM OnlyOwnersWithdrawHolds == Spec => []OnlyOwnersWithdraw
<1>1. Inv => OnlyOwnersWithdraw
    BY DEF Inv, Entitled, OnlyOwnersWithdraw
<1> QED
    BY <1>1, Invariance, PTL

-----------------------------------------------------------------------------
(* The walk *)

\* While a walk is under way, whatever changes an entry either leaves a fresh one or is
\* known to the walk.
LEMMA WalkGoesOn ==
    ASSUME Inv, WalkMissesNothing, [Next]_vars
    PROVE  WalkMissesNothing'
<1>1. sweep \in Sweep /\ DOMAIN entry \subseteq Token
    BY DEF Inv, TypeOK
<1>2. ASSUME UNCHANGED sweep, UNCHANGED entry \/ \E t : entry' = EntriesWithout(t)
      PROVE  WalkMissesNothing'
  <2>1. \A u \in DOMAIN entry' : u \in DOMAIN entry /\ entry'[u] = entry[u]
      BY <1>2, WithoutEntry
  <2> QED
      BY <1>2, <2>1 DEF WalkMissesNothing
<1>3. ASSUME NEW w \in Worker, StoreToken(w) PROVE WalkMissesNothing'
  <2> DEFINE t == task[w].token
  <2> SUFFICES ASSUME sweep'.on, NEW u \in DOMAIN entry', sweep'.clock > entry'[u]
               PROVE  u \in sweep'.todo \cup {sweep'.victim} \cup sweep'.late
      BY DEF WalkMissesNothing
  <2>1. PICK missed \in SUBSET {t} : sweep.on /\ sweep' = StoredMeanwhile(w, sweep.todo \ missed)
      BY <1>3 DEF StoreToken
  <2>2. /\ sweep'.todo = sweep.todo \ missed /\ sweep'.victim = sweep.victim
        /\ sweep'.clock = sweep.clock
        /\ sweep.late \subseteq sweep'.late
        /\ t \notin sweep'.todo /\ sweep.clock > task[w].expiresAt => t \in sweep'.late
      BY <2>1, <1>1 DEF StoredMeanwhile, Sweep
  <2>3. CASE u = t
    <3>1. entry'[u] = task[w].expiresAt
        BY <1>3, <2>3 DEF StoreToken
    <3> QED
        BY <2>2, <2>3, <3>1
  <2>4. CASE u # t
    <3>1. u \in DOMAIN entry /\ entry'[u] = entry[u]
        BY <1>3, <2>4 DEF StoreToken
    <3> QED
        BY <2>1, <2>2, <2>4, <3>1 DEF WalkMissesNothing
  <2> QED
      BY <2>3, <2>4
<1>4. ASSUME NEW w \in Worker, Serve(w) \/ Arrive(w), ~StoreToken(w) PROVE WalkMissesNothing'
    BY <1>2, <1>4 DEF Serve, Arrive, ValidateJWT, Load, Compare, Drop, Delete, Answer, Sign,
                      Present, Revoke, RevokeThroughRefresh
<1>5. CASE Clean
  <2>1. CASE StartSweep
      BY <2>1, <1>1 DEF StartSweep, NoSweep, WalkMissesNothing
  <2>2. CASE SweepVisit
    <3>1. PICK t \in sweep.todo \cap DOMAIN entry : sweep' = [sweep EXCEPT
             !.todo = @ \ {t}, !.victim = IF sweep.clock > entry[t] THEN t ELSE NoToken]
        BY <2>2 DEF SweepVisit
    <3>2. sweep.victim = NoToken /\ UNCHANGED entry
        BY <2>2 DEF SweepVisit
    <3>3. /\ sweep'.on = sweep.on /\ sweep'.clock = sweep.clock /\ sweep'.late = sweep.late
          /\ sweep'.todo = sweep.todo \ {t}
          /\ sweep'.victim = IF sweep.clock > entry[t] THEN t ELSE NoToken
        BY <3>1, <1>1 DEF Sweep
    <3> QED
        BY <3>2, <3>3, <1>1, NoTokenAssumption DEF WalkMissesNothing
  <2>3. CASE SweepDelete
    <3>1. /\ sweep'.on = sweep.on /\ sweep'.clock = sweep.clock /\ sweep'.late = sweep.late
          /\ sweep'.todo = sweep.todo
        BY <2>3, <1>1 DEF SweepDelete, Sweep
    <3>2. entry' = EntriesWithout(sweep.victim)
        BY <2>3 DEF SweepDelete, SweptEntries
    <3> QED
        BY <3>1, <3>2, WithoutEntry DEF WalkMissesNothing
  <2>4. CASE EndSweep
      BY <2>4 DEF EndSweep, NoSweep, WalkMissesNothing
  <2> QED
      BY <2>1, <2>2, <2>3, <2>4, <1>5 DEF Clean
<1>6. CASE Tick \/ UNCHANGED vars
    BY <1>2, <1>6 DEF Tick, vars
<1> QED
    BY <1>3, <1>4, <1>5, <1>6 DEF Next

\* However long a walk takes and whatever requests do meanwhile, it passes over no entry
\* that had expired when it began (store.go:155-162).
THEOREM WalkMissesNothingHolds == Spec => []WalkMissesNothing
<1>1. Init => WalkMissesNothing
    BY DEF Init, NoSweep, WalkMissesNothing
<1>2. Inv /\ WalkMissesNothing /\ [Next]_vars => WalkMissesNothing'
    BY WalkGoesOn
<1> QED
    BY <1>1, <1>2, Invariance, PTL DEF Spec

-----------------------------------------------------------------------------
(* The refinement of TokenLife *)

Valid == {t \in DOMAIN entry : JWTValid(t)}
Leaving == {task[w].token : w \in {v \in Worker : task[v].at = "delete"}}
Lapsed == {t \in Token : ~JWTValid(t)}

LEMMA InitLife == Init => Life!Init
<1> SUFFICES ASSUME Init PROVE Life!Init
    OBVIOUS
<1>1. ASSUME NEW t \in Token PROVE JWTValid(t)
  <2>1. t.iat \in Nat /\ TicksPerSecond \in Nat /\ TicksPerSecond > 0
          /\ AccessExpiry \in Nat /\ AccessExpiry > 0
      BY TicksType, BearerAssumption
  <2>2. t.iat + AccessExpiry \in Nat /\ t.iat + AccessExpiry > 0
      BY <2>1
  <2>3. \A m, n \in Nat : m > 0 /\ n > 0 => m * n > 0
      BY Z3
  <2> QED
      BY <2>1, <2>2, <2>3 DEF Init, JWTValid, ExpiryClaim, Ticks
<1>2. DOMAIN entry = {} /\ Leaving = {}
    BY DEF Init, Idle, Leaving
<1> QED
    BY <1>1, <1>2 DEF Life!Init, Leaving

LEMMA StepLife == Inv /\ [Next]_vars => [Life!Next]_(Life!lifeVars)
<1> SUFFICES ASSUME Inv, [Next]_vars
             PROVE  [Life!Next]_(Life!lifeVars)
    OBVIOUS
<1>1. /\ DOMAIN entry \subseteq Token /\ task \in [Worker -> Task]
      /\ \A w \in Worker : task[w].at # "idle" => task[w].token \in Token
    BY DEF Inv, TypeOK
<1>2. \A t \in Token : ExpiryClaim(t)' = ExpiryClaim(t)
    BY DEF ExpiryClaim, Ticks
<1>3. \A t \in Token : UNCHANGED now => (JWTValid(t)' <=> JWTValid(t))
    BY <1>2 DEF JWTValid
<1>4. UNCHANGED now => UNCHANGED Lapsed
    BY <1>3 DEF Lapsed
<1>5. UNCHANGED <<now, entry>> => UNCHANGED Valid
    BY <1>1, <1>3 DEF Valid
<1>6. UNCHANGED task => UNCHANGED Leaving
    BY DEF Leaving
<1>7. ASSUME UNCHANGED <<Valid, Leaving, Lapsed>> PROVE [Life!Next]_(Life!lifeVars)
    BY <1>7 DEF Life!lifeVars, Valid, Leaving, Lapsed
\* Deleting what has lapsed does not show.
<1>8. ASSUME UNCHANGED now, NEW t \in Token, ~JWTValid(t), entry' = EntriesWithout(t)
      PROVE  UNCHANGED Valid
    BY <1>1, <1>3, <1>8, WithoutEntry DEF Valid
\* A request that neither is nor gets at the deletion does not show.
<1>9. ASSUME NEW w \in Worker, NEW x, task' = [task EXCEPT ![w] = x],
             task[w].at # "delete", x.at # "delete"
      PROVE  UNCHANGED Leaving
  <2>1. \A v \in Worker : task[v].at = "delete" <=> task'[v].at = "delete"
      BY <1>1, <1>9
  <2>2. \A v \in Worker : task[v].at = "delete" => task'[v] = task[v]
      BY <1>1, <1>9
  <2> QED
      BY <2>1, <2>2 DEF Leaving
<1>10. ASSUME NEW w \in Worker, NotFound(w), task[w].at # "delete" PROVE UNCHANGED Leaving
  <2>1. CASE task[w].kind = "bearer"
    <3>1. task' = [task EXCEPT ![w] = [task[w] EXCEPT !.at = "refused"]]
        BY <2>1, <1>1, <1>10 DEF NotFound, Goto
    <3>2. [task[w] EXCEPT !.at = "refused"].at = "refused"
        BY <1>1 DEF Task
    <3> QED
        BY <3>1, <3>2, <1>9, <1>10
  <2>2. CASE task[w].kind # "bearer"
      BY <2>2, <1>9, <1>10 DEF NotFound, Finish, Idle
  <2> QED
      BY <2>1, <2>2
\* Getting at the deletion is what TokenLife asks for.
<1>11. ASSUME NEW w \in Worker, NEW t \in Token, UNCHANGED <<now, entry>>, task[w].at # "delete",
              NEW x, task' = [task EXCEPT ![w] = x], x.at = "delete", x.token = t
       PROVE  [Life!Next]_(Life!lifeVars)
  <2>1. Leaving' = Leaving \cup {t}
    <3>1. \A v \in Worker : v # w => task'[v] = task[v]
        BY <1>1, <1>11
    <3>2. task'[w].at = "delete" /\ task'[w].token = t
        BY <1>1, <1>11
    <3> QED
        BY <3>1, <3>2, <1>11 DEF Leaving
  <2>2. Life!Ask
      BY <2>1, <1>4, <1>5, <1>11 DEF Life!Ask, Valid, Leaving, Lapsed
  <2> QED
      BY <2>2 DEF Life!Next
<1>12. CASE UNCHANGED vars
    BY <1>4, <1>5, <1>6, <1>7, <1>12 DEF vars
<1>13. CASE Tick
  <2>1. Lapsed' \in SUBSET Token /\ Lapsed \subseteq Lapsed' /\ Valid' = Valid \ Lapsed'
      BY <1>1, <1>13, TimePasses DEF Tick, Valid, Lapsed
  <2>2. Life!Lapse
      BY <2>1, <1>6, <1>13 DEF Tick, Life!Lapse, Valid, Leaving, Lapsed
  <2> QED
      BY <2>2 DEF Life!Next
<1>14. CASE Clean
  <2>1. UNCHANGED <<now, task>>
      BY <1>14 DEF Clean, StartSweep, SweepVisit, SweepDelete, EndSweep
  <2>2. UNCHANGED Valid
    <3>1. CASE SweepDelete
      <4>1. sweep.victim \in Token /\ ~JWTValid(sweep.victim)
          BY <3>1 DEF SweepDelete, Inv, TypeOK, Sweep, SweepBounded
      <4> QED
          BY <3>1, <4>1, <2>1, <1>8 DEF SweepDelete, SweptEntries
    <3>2. CASE ~SweepDelete
        BY <3>2, <2>1, <1>5, <1>14 DEF Clean, StartSweep, SweepVisit, EndSweep
    <3> QED
        BY <3>1, <3>2
  <2> QED
      BY <2>1, <2>2, <1>4, <1>6, <1>7
<1>15. ASSUME NEW w \in Worker, Serve(w) PROVE [Life!Next]_(Life!lifeVars)
  <2>1. UNCHANGED now /\ task[w].at # "idle" /\ task[w] \in Task /\ task[w].token \in Token
      BY <1>1, <1>15 DEF Serve, StoreToken, ValidateJWT, Load, Compare, Drop, Delete, Answer
  <2>2. ASSUME NEW s \in Step \ {"delete"}, Goto(w, s), task[w].at # "delete"
        PROVE  UNCHANGED Leaving
      BY <2>1, <2>2, <1>1, <1>9 DEF Goto, Task
  <2>3. ASSUME Finish(w), task[w].at # "delete" PROVE UNCHANGED Leaving
    <3>1. Idle.at # "delete"
        BY DEF Idle
    <3> QED
        BY <3>1, <2>3, <1>9 DEF Finish
  <2>4. CASE StoreToken(w)
    <3> DEFINE t == task[w].token
    <3>1. UNCHANGED Leaving
        BY <2>3, <2>4 DEF StoreToken
    <3>2. Valid' = IF JWTValid(t) THEN Valid \cup {t} ELSE Valid
        BY <2>1, <2>4, <1>1, <1>3 DEF StoreToken, Valid
    <3>3. CASE JWTValid(t)
      <4>1. Life!Issue
          BY <3>1, <3>2, <3>3, <2>1, <1>4 DEF Life!Issue, Valid, Leaving, Lapsed
      <4> QED
          BY <4>1, <2>1 DEF Life!Next
    <3>4. CASE ~JWTValid(t)
        BY <3>1, <3>2, <3>4, <2>1, <1>4, <1>7
    <3> QED
        BY <3>3, <3>4
  <2>5. CASE ValidateJWT(w)
    <3>1. UNCHANGED Leaving
        BY <2>2, <2>5 DEF ValidateJWT, Step
    <3> QED
        BY <3>1, <2>5, <1>4, <1>5, <1>7 DEF ValidateJWT
  <2>6. CASE Load(w)
    <3>1. CASE task[w].token \in DOMAIN entry
      <4>1. task' = [task EXCEPT ![w] =
                      [task[w] EXCEPT !.at = "compare", !.expiresAt = entry[task[w].token]]]
          BY <3>1, <2>6, <1>1 DEF Load
      <4>2. [task[w] EXCEPT !.at = "compare", !.expiresAt = entry[task[w].token]].at = "compare"
          BY <2>1 DEF Task
      <4>3. UNCHANGED Leaving
          BY <4>1, <4>2, <2>6, <1>9 DEF Load
      <4> QED
          BY <4>3, <2>6, <1>4, <1>5, <1>7 DEF Load
    <3>2. CASE task[w].token \notin DOMAIN entry
        BY <3>2, <2>6, <1>4, <1>5, <1>7, <1>10 DEF Load
    <3> QED
        BY <3>1, <3>2
  <2>7. CASE Compare(w)
    <3>1. CASE Goto(w, "delete")
      <4>1. task' = [task EXCEPT ![w] = [task[w] EXCEPT !.at = "delete"]]
          BY <3>1, <1>1 DEF Goto
      <4>2. [task[w] EXCEPT !.at = "delete"].at = "delete"
              /\ [task[w] EXCEPT !.at = "delete"].token = task[w].token
          BY <2>1 DEF Task
      <4> QED
          BY <4>1, <4>2, <2>1, <2>7, <1>11 DEF Compare
    <3>2. CASE ~Goto(w, "delete")
      <4>1. UNCHANGED Leaving
          BY <3>2, <2>2, <2>3, <2>7 DEF Compare, Found, Step
      <4> QED
          BY <4>1, <2>7, <1>4, <1>5, <1>7 DEF Compare
    <3> QED
        BY <3>1, <3>2
  <2>8. CASE Drop(w)
    <3>1. ~JWTValid(task[w].token)
        BY <2>8 DEF Drop, Inv, Bounded
    <3>2. UNCHANGED Valid
        BY <3>1, <2>1, <2>8, <1>8 DEF Drop
    <3> QED
        BY <3>2, <2>1, <2>8, <1>4, <1>7, <1>10 DEF Drop
  <2>9. CASE Delete(w)
    <3>0. PICK t \in Token : t = task[w].token
        BY <2>1
    <3>1. Valid' = Valid \ {t}
        BY <3>0, <2>1, <2>9, <1>1, <1>3, WithoutEntry DEF Delete, Valid
    <3>2. \A v \in Worker : v # w => task'[v] = task[v]
        BY <2>9, <1>1 DEF Delete, Finish
    <3>3. task'[w].at # "delete" /\ task[w].at = "delete"
        BY <2>9, <1>1 DEF Delete, Finish, Idle
    <3>4. Leaving' = {task[v].token : v \in {u \in Worker : task[u].at = "delete" /\ u # w}}
        BY <3>2, <3>3 DEF Leaving
    <3>5. t \in Leaving /\ Leaving' \in {Leaving, Leaving \ {t}}
        BY <3>0, <3>3, <3>4 DEF Leaving
    <3>6. Life!Withdraw
        BY <3>1, <3>5, <2>1, <1>4 DEF Life!Withdraw, Valid, Leaving, Lapsed
    <3> QED
        BY <3>6 DEF Life!Next
  <2>10. CASE Answer(w)
      BY <2>1, <2>3, <2>10, <1>4, <1>5, <1>7 DEF Answer
  <2> QED
      BY <2>4, <2>5, <2>6, <2>7, <2>8, <2>9, <2>10, <1>15 DEF Serve
<1>16. ASSUME NEW w \in Worker, Arrive(w) PROVE [Life!Next]_(Life!lifeVars)
  <2>1. UNCHANGED <<now, entry>> /\ task[w].at = "idle"
      BY <1>16 DEF Arrive, Sign, Present, Revoke, RevokeThroughRefresh
  <2>2. CASE RevokeThroughRefresh(w)
    <3>1. PICK t \in handedOut, p \in Presentation :
            task' = [task EXCEPT ![w] = [Idle EXCEPT
               !.kind = "revoke", !.at = "delete", !.token = t,
               !.client = OwnerOf[t.for], !.proved = Proved(p)]]
        BY <2>2 DEF RevokeThroughRefresh
    <3>2. t \in Token
        BY DEF Inv, TypeOK
    <3> DEFINE x == [Idle EXCEPT !.kind = "revoke", !.at = "delete", !.token = t,
                                 !.client = OwnerOf[t.for], !.proved = Proved(p)]
    <3>3. x.at = "delete" /\ x.token = t
        BY DEF Idle
    <3> QED
        BY <3>1, <3>2, <3>3, <2>1, <1>11
  <2>3. CASE Sign(w) \/ Present(w) \/ Revoke(w)
    <3>2. ASSUME Sign(w) PROVE UNCHANGED Leaving
      <4>1. PICK for \in Grant : task' = [task EXCEPT ![w] = [Idle EXCEPT
               !.kind = "issue", !.at = "store",
               !.token = [for |-> for, iat |-> now \div TicksPerSecond],
               !.expiresAt = SignedUntil]]
          BY <3>2 DEF Sign
      <4> DEFINE x == [Idle EXCEPT
               !.kind = "issue", !.at = "store",
               !.token = [for |-> for, iat |-> now \div TicksPerSecond],
               !.expiresAt = SignedUntil]
      <4>2. x.at # "delete" /\ task' = [task EXCEPT ![w] = x]
          BY <4>1 DEF Idle
      <4> HIDE DEF x
      <4> QED
          BY <4>2, <2>1, <1>9
    <3>3. ASSUME Present(w) PROVE UNCHANGED Leaving
      <4>1. PICK t \in handedOut : task' = [task EXCEPT ![w] = [Idle EXCEPT
               !.kind = "bearer", !.at = "validate", !.token = t]]
          BY <3>3 DEF Present
      <4> DEFINE x == [Idle EXCEPT !.kind = "bearer", !.at = "validate", !.token = t]
      <4>2. x.at # "delete" /\ task' = [task EXCEPT ![w] = x]
          BY <4>1 DEF Idle
      <4> HIDE DEF x
      <4> QED
          BY <4>2, <2>1, <1>9
    <3>4. ASSUME Revoke(w) PROVE UNCHANGED Leaving
      <4>1. PICK t \in handedOut, p \in Presentation, client \in Client :
              task' = [task EXCEPT ![w] = [Idle EXCEPT
               !.kind = "revoke", !.at = "load", !.token = t,
               !.client = client, !.proved = Proved(p)]]
          BY <3>4 DEF Revoke
      <4> DEFINE x == [Idle EXCEPT !.kind = "revoke", !.at = "load", !.token = t,
                                   !.client = client, !.proved = Proved(p)]
      <4>2. x.at # "delete" /\ task' = [task EXCEPT ![w] = x]
          BY <4>1 DEF Idle
      <4> HIDE DEF x
      <4> QED
          BY <4>2, <2>1, <1>9
    <3>5. UNCHANGED Leaving
        BY <3>2, <3>3, <3>4, <2>3
    <3> QED
        BY <3>5, <2>1, <1>4, <1>5, <1>7
  <2> QED
      BY <2>2, <2>3, <1>16 DEF Arrive
<1> QED
    BY <1>12, <1>13, <1>14, <1>15, <1>16 DEF Next

\* The stores, the handlers and the sweep together keep the promise of
\* TokenLife, for every clock resolution, lifetime and number of requests.
THEOREM LifeImplemented == Spec => LifeSpec
BY InitLife, StepLife, Invariance, PTL DEF Spec, LifeSpec, Life!Spec

=============================================================================
