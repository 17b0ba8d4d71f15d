---------------------------- MODULE RateLimiter ----------------------------
(***************************************************************************)
(* The rate limiter of the token endpoint (internal/middleware): windows   *)
(* per client address in one map, opened and counted under one mutex that  *)
(* allow and the cleanup goroutine each hold throughout.  A call of either *)
(* is therefore one step, and both read the clock with the mutex held.     *)
(***************************************************************************)
EXTENDS Naturals, Sequences, FiniteSets, Functions

CONSTANTS
    Address,     \* client addresses, as gin's ClientIP reports them
    Limit,       \* requests a window admits: 10
    Window,      \* its length in ticks: one minute
    MaxVisitors, \* entries the map may hold before a new one sweeps: 10000
    MaxTime,     \* bound: the clock stops at this tick
    MaxRequests  \* bound: requests per address

\* router.DefaultConfig.  With a Limit of 0 the code would still admit the
\* request that opens a window.
ASSUME LimiterAssumption ==
    /\ Limit \in Nat \ {0} /\ Window \in Nat /\ MaxVisitors \in Nat
    /\ MaxTime \in Nat /\ MaxRequests \in Nat

VARIABLES
    now,
    visitors, \* rateLimiter.visitors: address |-> its window's count and end
    served,   \* history: address |-> its admitted requests, oldest first
    refused   \* history: address |-> how many requests were answered with 429

vars == <<now, visitors, served, refused>>

VisitorInfo == [count : Nat \ {0}, resetAt : Nat]

\* When a request was admitted, and the end of the window that admitted it.
Admission == [at : Nat, resetAt : Nat]

TypeOK ==
    /\ now \in Nat
    /\ DOMAIN visitors \subseteq Address
    /\ visitors \in [DOMAIN visitors -> VisitorInfo]
    /\ served \in [Address -> Seq(Admission)]
    /\ refused \in [Address -> Nat]

Init ==
    /\ now = 0
    /\ visitors = <<>>
    /\ served = [a \in Address |-> <<>>]
    /\ refused = [a \in Address |-> 0]

-----------------------------------------------------------------------------
(* Names ending in a _Fault are deliberately wrong variants of the definition *)
(* that follows them; nothing uses them but the mutants that show that the    *)
(* properties can fail.                                                       *)

Over_EarlyFault(v) == now >= v.resetAt
Over(v) == now > v.resetAt

Live(a) == a \in DOMAIN visitors /\ ~Over(visitors[a])

\* cleanupLocked
Swept_FullFault == <<>>
Swept == Restrict(visitors, {a \in DOMAIN visitors : ~Over(visitors[a])})

\* allow sweeps before it adds an entry to a full map.
Full_NeverFault == FALSE
Full == Cardinality(DOMAIN visitors) >= MaxVisitors
Remaining == IF Full THEN Swept ELSE visitors

WithVisitor(map, a, v) == [b \in DOMAIN map \cup {a} |-> IF b = a THEN v ELSE map[b]]

MayAsk(a) == Len(served[a]) + refused[a] < MaxRequests

Admitted(a, resetAt) ==
    served' = [served EXCEPT ![a] = Append(@, [at |-> now, resetAt |-> resetAt])]

OpenWindow(a) ==
    /\ MayAsk(a)
    /\ ~Live(a)
    /\ visitors' = WithVisitor(Remaining, a, [count |-> 1, resetAt |-> now + Window])
    /\ Admitted(a, now + Window)
    /\ UNCHANGED <<now, refused>>

WithinLimit(count) == count <= Limit

\* Refused requests are counted too, and do not move the window's end.
Counted_ExtendedFault(v) == [count |-> v.count + 1, resetAt |-> now + Window]
Counted(v) == [v EXCEPT !.count = @ + 1]

CountRequest(a) ==
    /\ MayAsk(a)
    /\ Live(a)
    /\ visitors' = [visitors EXCEPT ![a] = Counted(@)]
    /\ IF WithinLimit(visitors[a].count + 1)
       THEN Admitted(a, visitors[a].resetAt) /\ UNCHANGED refused
       ELSE refused' = [refused EXCEPT ![a] = @ + 1] /\ UNCHANGED served
    /\ UNCHANGED now

allow(a) == OpenWindow(a) \/ CountRequest(a)

\* One turn of the cleanup goroutine; how long it slept is left open.
cleanup ==
    /\ visitors' = Swept
    /\ UNCHANGED <<now, served, refused>>

Tick ==
    /\ now < MaxTime
    /\ now' = now + 1
    /\ UNCHANGED <<visitors, served, refused>>

Next == Tick \/ cleanup \/ \E a \in Address : allow(a)

Spec == Init /\ [][Next]_vars

-----------------------------------------------------------------------------
(* Properties *)

\* However requests straddle the windows, no span of one window's length ever
\* sees more than twice the limit admitted for one address: the windows of an
\* address do not overlap, also when a sweep has forgotten it in between.  The
\* "10 requests/minute" of README:728 itself does not hold over such spans.
AtMostTwiceTheLimit ==
    \A a \in Address : \A i \in 1 .. Len(served[a]) :
        i + 2 * Limit <= Len(served[a]) =>
            served[a][i + 2 * Limit].at > served[a][i].at + Window

\* A request is refused only if the last Limit admitted ones of its address lie
\* within the last window: a client that keeps to the limit over every such
\* span is never refused, and refusals do not prolong the refusal.
RefusedOnlyWhenSpent ==
    [][\A a \in Address :
          refused'[a] # refused[a] =>
              /\ Len(served[a]) >= Limit
              /\ now <= served[a][Len(served[a]) - Limit + 1].at + Window]_vars

\* The map outgrows MaxVisitors only by addresses that all have a window open
\* (the sweep in allow comes before the insertion).
OutgrownOnlyByLive ==
    [][Cardinality(DOMAIN visitors') > MaxVisitors /\ DOMAIN visitors' # DOMAIN visitors
         => \A a \in DOMAIN visitors' : visitors'[a].resetAt >= now]_vars

-----------------------------------------------------------------------------
(* The abstract specification.  An address that is in the map with a window *)
(* that has run out and one that is not in the map are the same to it.      *)

MinCount(n) == IF n <= Limit THEN n ELSE Limit

Windows == INSTANCE FixedWindow WITH
    used <- [a \in Address |-> IF Live(a) THEN MinCount(visitors[a].count) ELSE 0],
    opened <- [a \in Address |-> IF Live(a) THEN visitors[a].resetAt - Window ELSE 0],
    admitted <- [a \in Address |-> Len(served[a])]

\* Sweeping, lazy resets and evictions are invisible: every request is answered
\* as a limiter with unlimited memory would answer it.
WindowsSpec == Windows!Spec

=============================================================================
