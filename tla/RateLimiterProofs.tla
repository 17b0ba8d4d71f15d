------------------------- MODULE RateLimiterProofs -------------------------
(***************************************************************************)
(* The bounds of RateLimiter and its refinement of FixedWindow, for any    *)
(* number of addresses, any limit, window and capacity of the map.         *)
(***************************************************************************)
EXTENDS RateLimiter, FiniteSetTheorems, TLAPS

-----------------------------------------------------------------------------
(* The inductive invariant *)

\* An address's admissions, in order: each lies in its window, a window admits
\* at most Limit, and a new window starts after the last one has ended.
Ordered(s) ==
    /\ \A i \in 1 .. Len(s) :
         s[i].resetAt <= s[i].at + Window /\ s[i].at <= s[i].resetAt
    /\ \A i \in 1 .. Len(s) : i + Limit <= Len(s) =>
         s[i].resetAt + Window < s[i + Limit].resetAt

\* The window of an address: ending at end, with n admissions in it.
InWindow(s, end, n) ==
    /\ n <= Len(s)
    /\ \A i \in 1 .. Len(s) :
         IF i > Len(s) - n THEN s[i].resetAt = end ELSE s[i].resetAt + Window < end

History(a) ==
    /\ Ordered(served[a])
    /\ Live(a) => /\ visitors[a].resetAt <= now + Window
                  /\ InWindow(served[a], visitors[a].resetAt, MinCount(visitors[a].count))
    /\ ~Live(a) => \A i \in 1 .. Len(served[a]) : served[a][i].resetAt < now

Inv == TypeOK /\ \A a \in Address : History(a)

-----------------------------------------------------------------------------

\* Counting to Limit and no further.
LEMMA MinCountType ==
    ASSUME NEW n \in Nat \ {0}
    PROVE  /\ MinCount(n) \in 1 .. Limit
           /\ n < Limit => MinCount(n + 1) = MinCount(n) + 1 /\ MinCount(n) = n
           /\ n >= Limit => MinCount(n + 1) = MinCount(n) /\ MinCount(n) = Limit
BY LimiterAssumption DEF MinCount

\* Admissions carry natural numbers.
LEMMA AdmissionFields ==
    ASSUME NEW s \in Seq(Admission)
    PROVE  /\ Len(s) \in Nat
           /\ \A i \in 1 .. Len(s) : s[i].at \in Nat /\ s[i].resetAt \in Nat
<1>1. Len(s) \in Nat /\ \A i \in 1 .. Len(s) : s[i] \in Admission
  OBVIOUS
<1> QED
  BY <1>1 DEF Admission

\* A sweep removes entries that are over and nothing else.
LEMMA SweptKeepsLive ==
    ASSUME TypeOK, NEW map \in {Swept, Remaining}
    PROVE  /\ DOMAIN map \subseteq DOMAIN visitors
           /\ \A b \in DOMAIN map : map[b] = visitors[b]
           /\ \A b \in DOMAIN visitors : Live(b) => b \in DOMAIN map
           /\ map \in [DOMAIN map -> VisitorInfo]
<1>1. /\ DOMAIN Swept \subseteq DOMAIN visitors
      /\ \A b \in DOMAIN Swept : Swept[b] = visitors[b]
      /\ \A b \in DOMAIN visitors : Live(b) => b \in DOMAIN Swept
      /\ Swept \in [DOMAIN Swept -> VisitorInfo]
  BY DEF Swept, Restrict, Live, TypeOK
<1> QED
  BY <1>1 DEF Remaining, TypeOK

\* Opening a window touches no other live window.
LEMMA OpenWindowEffect ==
    ASSUME TypeOK, NEW a \in Address, OpenWindow(a)
    PROVE  /\ visitors' \in [DOMAIN visitors' -> VisitorInfo] /\ DOMAIN visitors' \subseteq Address
           /\ Live(a)' /\ visitors'[a] = [count |-> 1, resetAt |-> now + Window]
           /\ \A b \in Address \ {a} :
                Live(b)' = Live(b) /\ (Live(b) => visitors'[b] = visitors[b])
<1> DEFINE v == [count |-> 1, resetAt |-> now + Window]
<1>1. now \in Nat /\ v \in VisitorInfo
  BY LimiterAssumption DEF TypeOK, VisitorInfo
<1>2. now' = now /\ visitors' = WithVisitor(Remaining, a, v)
  BY DEF OpenWindow
<1>3. /\ DOMAIN visitors' = DOMAIN Remaining \cup {a}
      /\ visitors'[a] = v
      /\ \A b \in DOMAIN Remaining : b # a => visitors'[b] = visitors[b]
      /\ DOMAIN Remaining \subseteq DOMAIN visitors
      /\ \A b \in DOMAIN visitors : Live(b) => b \in DOMAIN Remaining
      /\ visitors' \in [DOMAIN visitors' -> VisitorInfo]
  BY <1>1, <1>2, SweptKeepsLive DEF WithVisitor
<1>4. Live(a)'
  BY <1>1, <1>2, <1>3, LimiterAssumption DEF Live, Over
<1>5. ASSUME NEW b \in Address \ {a}
      PROVE  Live(b)' = Live(b) /\ (Live(b) => visitors'[b] = visitors[b])
  BY <1>2, <1>3 DEF Live, Over
<1> QED
  BY <1>3, <1>4, <1>5 DEF TypeOK

\* Counting a request moves no window's end and touches no other address.
LEMMA CountRequestEffect ==
    ASSUME TypeOK, NEW a \in Address, CountRequest(a)
    PROVE  /\ visitors' \in [DOMAIN visitors' -> VisitorInfo] /\ DOMAIN visitors' \subseteq Address
           /\ Live(a)' /\ visitors'[a].count = visitors[a].count + 1
           /\ visitors'[a].resetAt = visitors[a].resetAt
           /\ \A b \in Address \ {a} :
                Live(b)' = Live(b) /\ (Live(b) => visitors'[b] = visitors[b])
<1>1. visitors[a] \in VisitorInfo /\ a \in DOMAIN visitors
  BY DEF TypeOK, CountRequest, Live
<1>2. /\ now' = now
      /\ visitors' = [visitors EXCEPT ![a] = Counted(visitors[a])]
      /\ Counted(visitors[a]).count = visitors[a].count + 1
      /\ Counted(visitors[a]).resetAt = visitors[a].resetAt
      /\ Counted(visitors[a]) \in VisitorInfo
  BY <1>1 DEF CountRequest, Counted, VisitorInfo
<1>3. /\ DOMAIN visitors' = DOMAIN visitors /\ visitors'[a] = Counted(visitors[a])
      /\ \A b \in DOMAIN visitors : b # a => visitors'[b] = visitors[b]
      /\ visitors' \in [DOMAIN visitors' -> VisitorInfo]
  BY <1>1, <1>2 DEF TypeOK
<1> QED
  BY <1>1, <1>2, <1>3 DEF CountRequest, Live, Over, TypeOK

\* A turn of the cleanup goroutine touches no live window.
LEMMA CleanupEffect ==
    ASSUME TypeOK, cleanup
    PROVE  /\ visitors' \in [DOMAIN visitors' -> VisitorInfo] /\ DOMAIN visitors' \subseteq Address
           /\ \A b \in Address :
                Live(b)' = Live(b) /\ (Live(b) => visitors'[b] = visitors[b])
<1>1. /\ now' = now
      /\ DOMAIN visitors' \subseteq DOMAIN visitors
      /\ \A b \in DOMAIN visitors' : visitors'[b] = visitors[b]
      /\ \A b \in DOMAIN visitors : Live(b) => b \in DOMAIN visitors'
      /\ visitors' \in [DOMAIN visitors' -> VisitorInfo]
  BY SweptKeepsLive DEF cleanup
<1> QED
  BY <1>1 DEF Live, Over, TypeOK

\* The limiter starts with an empty map and no history.
LEMMA InitInv == Init => Inv
BY DEF Init, Inv, TypeOK, History, Ordered, Live

\* One more admission keeps the order if the window holds fewer than Limit.
LEMMA AppendOrdered ==
    ASSUME NEW s \in Seq(Admission), NEW adm \in Admission, NEW n \in Nat,
           Ordered(s), InWindow(s, adm.resetAt, n), n < Limit,
           adm.resetAt <= adm.at + Window, adm.at <= adm.resetAt
    PROVE  /\ Append(s, adm) \in Seq(Admission)
           /\ Ordered(Append(s, adm))
           /\ InWindow(Append(s, adm), adm.resetAt, n + 1)
<1> USE LimiterAssumption
<1> DEFINE t == Append(s, adm)
<1>1. /\ t \in Seq(Admission) /\ Len(t) = Len(s) + 1 /\ Len(s) \in Nat
      /\ t[Len(t)] = adm
      /\ \A i \in 1 .. Len(s) : t[i] = s[i] /\ s[i] \in Admission
  OBVIOUS
<1>2. \A i \in 1 .. Len(t) : t[i].resetAt <= t[i].at + Window /\ t[i].at <= t[i].resetAt
  BY <1>1 DEF Ordered
<1>3. ASSUME NEW i \in 1 .. Len(t), i + Limit <= Len(t)
      PROVE  t[i].resetAt + Window < t[i + Limit].resetAt
  <2>1. CASE i + Limit <= Len(s)
    BY <2>1, <1>1 DEF Ordered
  <2>2. CASE i + Limit = Len(t)
    <3>1. i \in 1 .. Len(s) /\ ~(i > Len(s) - n)
      BY <2>2, <1>1
    <3> QED
      BY <3>1, <2>2, <1>1 DEF InWindow
  <2> QED
    BY <2>1, <2>2, <1>1, <1>3
<1>4. InWindow(t, adm.resetAt, n + 1)
  BY <1>1 DEF InWindow
<1> QED
  BY <1>1, <1>2, <1>3, <1>4 DEF Ordered

\* Opening a window for an address that has none.
LEMMA OpenWindowInv ==
    ASSUME Inv, NEW a \in Address, OpenWindow(a)
    PROVE  Inv'
<1> USE LimiterAssumption
<1> DEFINE adm == [at |-> now, resetAt |-> now + Window]
           s == served[a]
<1>1. /\ now \in Nat /\ adm \in Admission /\ s \in Seq(Admission)
      /\ adm.at = now /\ adm.resetAt = now + Window
  BY DEF Inv, TypeOK, Admission
<1>2. /\ \A i \in 1 .. Len(s) : s[i] \in Admission
      /\ Len(s) \in Nat
  BY <1>1
<1>3. InWindow(s, adm.resetAt, 0)
  BY <1>1, <1>2 DEF OpenWindow, Inv, History, InWindow, Admission
<1>4. /\ Append(s, adm) \in Seq(Admission)
      /\ Ordered(Append(s, adm))
      /\ InWindow(Append(s, adm), adm.resetAt, 1)
  <2>1. Ordered(s) /\ 0 < Limit /\ 0 \in Nat /\ 0 + 1 = 1
    BY DEF Inv, History
  <2>2. adm.resetAt <= adm.at + Window /\ adm.at <= adm.resetAt
    BY <1>1
  <2>3. InWindow(Append(s, adm), adm.resetAt, 0 + 1)
        /\ Append(s, adm) \in Seq(Admission) /\ Ordered(Append(s, adm))
    BY <1>1, <1>3, <2>1, <2>2, AppendOrdered
  <2> QED
    BY <2>1, <2>3
<1>5. /\ now' = now /\ refused' = refused
      /\ served' = [served EXCEPT ![a] = Append(s, adm)]
  BY DEF OpenWindow, Admitted
<1>6. TypeOK'
  BY <1>1, <1>4, <1>5, OpenWindowEffect DEF Inv, TypeOK
<1>7. History(a)'
  <2>1. MinCount(1) = 1
    BY DEF MinCount
  <2>2. Live(a)' /\ visitors'[a].resetAt = now' + Window /\ visitors'[a].count = 1
    BY <1>5, OpenWindowEffect DEF Inv
  <2>3. served'[a] = Append(s, adm)
    BY <1>5 DEF Inv, TypeOK
  <2> QED
    BY <1>1, <1>4, <1>5, <2>1, <2>2, <2>3 DEF History
<1>8. ASSUME NEW b \in Address \ {a} PROVE History(b)'
  BY <1>5, OpenWindowEffect DEF Inv, TypeOK, History
<1> QED
  BY <1>6, <1>7, <1>8 DEF Inv

\* Counting a request in an open window, admitted or refused.
LEMMA CountRequestInv ==
    ASSUME Inv, NEW a \in Address, CountRequest(a)
    PROVE  Inv'
<1> USE LimiterAssumption
<1> DEFINE v == visitors[a]
           adm == [at |-> now, resetAt |-> v.resetAt]
           s == served[a]
           n == MinCount(v.count)
<1>1. /\ now \in Nat /\ adm \in Admission /\ v \in VisitorInfo /\ s \in Seq(Admission)
      /\ adm.at = now /\ adm.resetAt = v.resetAt /\ a \in DOMAIN visitors
      /\ v.count \in Nat \ {0} /\ v.resetAt \in Nat
  BY DEF Inv, TypeOK, Admission, VisitorInfo, CountRequest, Live
<1>2. now <= v.resetAt /\ v.resetAt <= now + Window /\ InWindow(s, v.resetAt, n) /\ Ordered(s)
  BY <1>1 DEF CountRequest, Live, Over, Inv, History
<1>3. now' = now
  BY DEF CountRequest
<1>4. /\ served' \in [Address -> Seq(Admission)] /\ refused' \in [Address -> Nat]
      /\ \A b \in Address \ {a} : served'[b] = served[b]
      /\ Ordered(served'[a])
      /\ InWindow(served'[a], v.resetAt, MinCount(v.count + 1))
  <2>1. CASE WithinLimit(v.count + 1)
    <3>1. served' = [served EXCEPT ![a] = Append(s, adm)] /\ refused' = refused
      BY <2>1 DEF CountRequest, Admitted
    <3>2. v.count < Limit
      BY <2>1, <1>1 DEF WithinLimit
    <3>3. n \in Nat /\ n < Limit /\ MinCount(v.count + 1) = n + 1
      BY <3>2, <1>1, MinCountType
    <3>4. /\ Append(s, adm) \in Seq(Admission)
          /\ Ordered(Append(s, adm))
          /\ InWindow(Append(s, adm), adm.resetAt, n + 1)
      BY <1>1, <1>2, <3>3, AppendOrdered
    <3> QED
      BY <1>1, <3>1, <3>3, <3>4 DEF Inv, TypeOK
  <2>2. CASE ~WithinLimit(v.count + 1)
    <3>1. served' = served /\ refused' = [refused EXCEPT ![a] = @ + 1]
      BY <2>2 DEF CountRequest
    <3>2. MinCount(v.count + 1) = n
      BY <2>2, <1>1, MinCountType DEF WithinLimit
    <3> QED
      BY <1>2, <3>1, <3>2 DEF Inv, TypeOK
  <2> QED
    BY <2>1, <2>2
<1>5. TypeOK'
  BY <1>3, <1>4, CountRequestEffect DEF Inv, TypeOK
<1>6. History(a)'
  BY <1>2, <1>3, <1>4, CountRequestEffect DEF Inv, History
<1>7. ASSUME NEW b \in Address \ {a} PROVE History(b)'
  BY <1>3, <1>4, CountRequestEffect DEF Inv, History
<1> QED
  BY <1>5, <1>6, <1>7 DEF Inv

\* Every step of the limiter keeps its invariant.
THEOREM NextInv == Inv /\ [Next]_vars => Inv'
<1> SUFFICES ASSUME Inv, [Next]_vars PROVE Inv'
  OBVIOUS
<1> USE LimiterAssumption
<1>1. CASE Tick
  <2>1. now' = now + 1 /\ UNCHANGED <<visitors, served, refused>> /\ now \in Nat
    BY <1>1 DEF Tick, Inv, TypeOK
  <2>2. ASSUME NEW a \in Address PROVE History(a)'
    <3> DEFINE s == served[a]
    <3>1. s \in Seq(Admission) /\ Len(s) \in Nat
          /\ \A i \in 1 .. Len(s) : s[i].resetAt \in Nat
      <4>1. s \in Seq(Admission)
        BY DEF Inv, TypeOK
      <4> QED
        BY <4>1, AdmissionFields
    <3>2. Ordered(s') /\ s' = s
      BY <2>1 DEF Inv, History
    <3>3. CASE Live(a)
      <4>1. visitors[a].resetAt \in Nat /\ visitors[a].resetAt <= now + Window
            /\ InWindow(s, visitors[a].resetAt, MinCount(visitors[a].count))
        BY <3>3 DEF Inv, TypeOK, History, Live, VisitorInfo
      <4>2. \A i \in 1 .. Len(s) : s[i].resetAt <= visitors[a].resetAt
        BY <3>1, <4>1 DEF InWindow
      <4>3. CASE Live(a)'
        BY <4>1, <4>3, <2>1, <3>2 DEF History
      <4>4. CASE ~Live(a)'
        BY <4>2, <4>1, <3>1, <4>4, <2>1, <3>2, <3>3 DEF History, Live, Over
      <4> QED
        BY <4>3, <4>4
    <3>4. CASE ~Live(a)
      <4>1. ~Live(a)'
        BY <3>4, <2>1 DEF Live, Over, Inv, TypeOK, VisitorInfo
      <4> QED
        BY <3>4, <4>1, <3>1, <3>2, <2>1 DEF Inv, History
    <3> QED
      BY <3>3, <3>4
  <2> QED
    BY <2>1, <2>2 DEF Inv, TypeOK
<1>2. CASE cleanup
  <2>1. UNCHANGED <<now, served, refused>>
    BY <1>2 DEF cleanup
  <2>2. TypeOK'
    BY <1>2, <2>1, CleanupEffect DEF Inv, TypeOK
  <2>3. ASSUME NEW a \in Address PROVE History(a)'
    BY <1>2, <2>1, CleanupEffect DEF Inv, History
  <2> QED
    BY <2>2, <2>3 DEF Inv
<1>3. ASSUME NEW a \in Address, allow(a) PROVE Inv'
  BY <1>3, OpenWindowInv, CountRequestInv DEF allow
<1>4. CASE UNCHANGED vars
  BY <1>4 DEF vars, Inv, TypeOK, History, Live, Over
<1> QED
  BY <1>1, <1>2, <1>3, <1>4 DEF Next

\* The limiter's invariant holds for ever.
THEOREM LimiterInvariant == Spec => []Inv
<1>1. Init => Inv
  BY InitInv
<1>2. Inv /\ [Next]_vars => Inv'
  BY NextInv
<1> QED
  BY <1>1, <1>2, PTL DEF Spec

-----------------------------------------------------------------------------

\* The ends of three windows of which each starts after the one before has ended.
LEMMA TwoWindows ==
    ASSUME NEW at1 \in Nat, NEW end1 \in Nat, NEW end2 \in Nat, NEW at3 \in Nat,
           NEW end3 \in Nat, at1 <= end1, end1 + Window < end2, end2 + Window < end3,
           end3 <= at3 + Window
    PROVE  at3 > at1 + Window
BY LimiterAssumption

\* No span of one window's length sees more than twice the limit admitted for
\* an address, for every limit, window and capacity (middleware.go:100-114).
THEOREM AtMostTwiceTheLimitHolds == Spec => []AtMostTwiceTheLimit
<1>1. Inv => AtMostTwiceTheLimit
  <2> SUFFICES ASSUME Inv, NEW a \in Address, NEW i \in 1 .. Len(served[a]),
                      i + 2 * Limit <= Len(served[a])
               PROVE  served[a][i + 2 * Limit].at > served[a][i].at + Window
    BY DEF AtMostTwiceTheLimit
  <2> DEFINE s == served[a]
  <2> USE LimiterAssumption
  <2>1. /\ Len(s) \in Nat
        /\ \A k \in 1 .. Len(s) : s[k].at \in Nat /\ s[k].resetAt \in Nat
    <3>1. s \in Seq(Admission)
      BY DEF Inv, TypeOK
    <3> QED
      BY <3>1, AdmissionFields
  <2>2. PICK j \in 1 .. Len(s), k \in 1 .. Len(s) : j = i + Limit /\ k = j + Limit
    BY <2>1
  <2>3. Ordered(s)
    BY DEF Inv, History
  <2>4. s[i].resetAt + Window < s[j].resetAt /\ s[j].resetAt + Window < s[k].resetAt
    <3>1. i + Limit <= Len(s) /\ j + Limit <= Len(s)
      BY <2>1, <2>2
    <3>2. s[i].resetAt + Window < s[i + Limit].resetAt
      BY <3>1, <2>3 DEF Ordered
    <3>3. s[j].resetAt + Window < s[j + Limit].resetAt
      BY <3>1, <2>3 DEF Ordered
    <3> QED
      BY <3>2, <3>3, <2>2
  <2>5. s[i].at <= s[i].resetAt /\ s[k].resetAt <= s[k].at + Window
    BY <2>2, <2>3 DEF Ordered
  <2>6. /\ s[i].at \in Nat /\ s[i].resetAt \in Nat /\ s[j].resetAt \in Nat
        /\ s[k].at \in Nat /\ s[k].resetAt \in Nat
    BY <2>1, <2>2
  <2>7. s[k].at > s[i].at + Window
    BY <2>4, <2>5, <2>6, TwoWindows
  <2>8. k = i + 2 * Limit
    BY <2>1, <2>2
  <2> QED
    BY <2>7, <2>8
<1> QED
  BY <1>1, LimiterInvariant, PTL

\* A request is refused only when Limit requests of its address were admitted in
\* the window before it; so refusals prolong nothing.
THEOREM RefusedOnlyWhenSpentHolds == Spec => RefusedOnlyWhenSpent
<1> USE LimiterAssumption
<1> DEFINE Spent(a) == /\ Len(served[a]) >= Limit
                       /\ now <= served[a][Len(served[a]) - Limit + 1].at + Window
<1>1. ASSUME Inv, [Next]_vars, NEW a \in Address, refused'[a] # refused[a]
      PROVE  Spent(a)
  <2>1. CountRequest(a) /\ ~WithinLimit(visitors[a].count + 1)
    <3>1. PICK b \in Address : CountRequest(b) /\ refused' # refused
      BY <1>1 DEF Next, Tick, cleanup, allow, OpenWindow, vars
    <3>2. refused' = [refused EXCEPT ![b] = @ + 1] /\ ~WithinLimit(visitors[b].count + 1)
      BY <3>1 DEF CountRequest
    <3>3. b = a
      BY <3>2, <1>1 DEF Inv, TypeOK
    <3> QED
      BY <3>1, <3>2, <3>3
  <2> DEFINE s == served[a]
             v == visitors[a]
             first == Len(s) - Limit + 1
  <2>2. /\ v.count \in Nat \ {0} /\ v.resetAt \in Nat /\ now \in Nat /\ now <= v.resetAt
        /\ s \in Seq(Admission)
    BY <1>1, <2>1 DEF CountRequest, Live, Over, Inv, TypeOK, VisitorInfo
  <2>3. MinCount(v.count) = Limit
    BY <2>1, <2>2, MinCountType DEF WithinLimit
  <2>4. InWindow(s, v.resetAt, Limit) /\ Ordered(s)
    BY <1>1, <2>1, <2>3 DEF CountRequest, Inv, History
  <2>5. /\ first \in 1 .. Len(s) /\ first > Len(s) - Limit /\ Limit <= Len(s)
        /\ s[first].at \in Nat /\ s[first].resetAt \in Nat
    BY <2>2, <2>4, AdmissionFields DEF InWindow
  <2>6. s[first].resetAt = v.resetAt /\ s[first].resetAt <= s[first].at + Window
    BY <2>4, <2>5 DEF InWindow, Ordered
  <2>7. Len(s) >= Limit /\ now <= s[first].at + Window
    BY <2>2, <2>5, <2>6
  <2> QED
    BY <2>7
<1>2. Inv /\ [Next]_vars =>
        [\A a \in Address : refused'[a] # refused[a] => Spent(a)]_vars
  BY <1>1
<1> QED
  BY <1>2, LimiterInvariant, PTL DEF Spec, RefusedOnlyWhenSpent

-----------------------------------------------------------------------------
(* The refinement *)

Used == [a \in Address |-> IF Live(a) THEN MinCount(visitors[a].count) ELSE 0]
Opened == [a \in Address |-> IF Live(a) THEN visitors[a].resetAt - Window ELSE 0]
AdmittedCount == [a \in Address |-> Len(served[a])]

\* The abstract count of admissions follows the history.
LEMMA AdmittedOneMore ==
    ASSUME TypeOK, NEW a \in Address, NEW adm \in Admission,
           served' = [served EXCEPT ![a] = Append(@, adm)]
    PROVE  AdmittedCount' = [AdmittedCount EXCEPT ![a] = @ + 1]
<1>1. \A b \in Address : served'[b] = IF b = a THEN Append(served[a], adm) ELSE served[b]
  BY DEF TypeOK
<1>2. served[a] \in Seq(Admission)
  BY DEF TypeOK
<1>3. Len(Append(served[a], adm)) = Len(served[a]) + 1
  BY <1>2
<1>4. /\ AdmittedCount' = [b \in Address |-> Len(served'[b])]
      /\ AdmittedCount[a] = Len(served[a])
  BY DEF AdmittedCount
<1>5. AdmittedCount' = [b \in Address |-> IF b = a THEN Len(served[a]) + 1 ELSE Len(served[b])]
  <2>1. ASSUME NEW b \in Address
        PROVE  Len(served'[b]) = IF b = a THEN Len(served[a]) + 1 ELSE Len(served[b])
    <3>1. CASE b = a
      BY <3>1, <1>1, <1>3
    <3>2. CASE b # a
      BY <3>2, <1>1
    <3> QED
      BY <3>1, <3>2
  <2> QED
    BY <1>4, <2>1, Zenon
<1>6. [AdmittedCount EXCEPT ![a] = @ + 1] =
        [b \in Address |-> IF b = a THEN Len(served[a]) + 1 ELSE Len(served[b])]
  BY DEF AdmittedCount
<1> QED
  BY <1>5, <1>6

\* Every request is answered as a limiter that never forgets an address would
\* answer it: sweeps and evictions are invisible, for every capacity of the map.
THEOREM WindowsImplemented == Spec => WindowsSpec
<1> USE LimiterAssumption
<1>1. Init => Windows!Init
  BY DEF Init, Windows!Init, Live
<1>2. ASSUME Inv, Tick PROVE Windows!Tick
  <2>1. now' = now + 1 /\ UNCHANGED <<visitors, served, refused>> /\ now \in Nat
    BY <1>2 DEF Tick, Inv, TypeOK
  <2>2. ASSUME NEW a \in Address
        PROVE  /\ Used'[a] = IF Used[a] > 0 /\ now + 1 > Opened[a] + Window THEN 0 ELSE Used[a]
               /\ Opened'[a] = IF Used[a] > 0 /\ now + 1 > Opened[a] + Window THEN 0 ELSE Opened[a]
    <3>1. CASE Live(a)
      <4>1. visitors[a].resetAt \in Nat /\ visitors[a].count \in Nat \ {0} /\ a \in DOMAIN visitors
        BY <3>1, <1>2 DEF Inv, TypeOK, VisitorInfo, Live
      <4>2. MinCount(visitors[a].count) > 0
        BY <4>1, MinCountType
      <4>3. Live(a)' <=> ~(now + 1 > visitors[a].resetAt)
        BY <4>1, <2>1 DEF Live, Over
      <4>4. Used[a] > 0 /\ Opened[a] + Window = visitors[a].resetAt
        BY <3>1, <4>1, <4>2 DEF Used, Opened
      <4> QED
        BY <3>1, <2>1, <4>3, <4>4 DEF Used, Opened
    <3>2. CASE ~Live(a)
      <4>1. ~Live(a)'
        BY <3>2, <2>1, <1>2 DEF Live, Over, Inv, TypeOK, VisitorInfo
      <4> QED
        BY <3>2, <4>1, <2>1 DEF Used, Opened
    <3> QED
      BY <3>1, <3>2
  <2> QED
    BY <2>1, <2>2 DEF Windows!Tick, Windows!Closes, Used, Opened
<1>3. ASSUME Inv, cleanup PROVE UNCHANGED Windows!windowVars
  BY <1>3, CleanupEffect DEF cleanup, Inv, Windows!windowVars
<1>4. ASSUME Inv, NEW a \in Address, OpenWindow(a) PROVE Windows!Admit(a)
  <2>1. ~Live(a) /\ now' = now /\ refused' = refused /\ now \in Nat
    BY <1>4 DEF OpenWindow, Inv, TypeOK
  <2>2. MinCount(1) = 1
    BY DEF MinCount
  <2>3. /\ Live(a)' /\ visitors'[a].count = 1 /\ visitors'[a].resetAt - Window = now
        /\ \A b \in Address \ {a} :
             Live(b)' = Live(b) /\ (Live(b) => visitors'[b] = visitors[b])
    BY <1>4, <2>1, OpenWindowEffect DEF Inv
  <2>4. Used' = [Used EXCEPT ![a] = @ + 1]
    <3>1. Used'[a] = Used[a] + 1
      BY <2>1, <2>2, <2>3 DEF Used
    <3>2. \A b \in Address : b # a => Used'[b] = Used[b]
      BY <2>3 DEF Used
    <3> QED
      BY <3>1, <3>2, Zenon DEF Used
  <2>5. Opened' = [Opened EXCEPT ![a] = IF Used[a] = 0 THEN now ELSE @]
    <3>1. Used[a] = 0 /\ Opened'[a] = now
      BY <2>1, <2>3 DEF Used, Opened
    <3>2. \A b \in Address \ {a} : Opened'[b] = Opened[b]
      BY <2>3 DEF Opened
    <3> QED
      BY <3>1, <3>2 DEF Opened
  <2>6. AdmittedCount' = [AdmittedCount EXCEPT ![a] = @ + 1]
    <3>1. [at |-> now, resetAt |-> now + Window] \in Admission
      BY <2>1 DEF Admission
    <3> QED
      BY <1>4, <3>1, AdmittedOneMore DEF OpenWindow, Admitted, Inv
  <2>7. Used[a] < Limit
    BY <2>1 DEF Used
  <2> QED
    BY <2>1, <2>4, <2>5, <2>6, <2>7 DEF Windows!Admit, Used, Opened, AdmittedCount
<1>5. ASSUME Inv, NEW a \in Address, CountRequest(a), WithinLimit(visitors[a].count + 1)
      PROVE  Windows!Admit(a)
  <2>1. Live(a) /\ now' = now /\ refused' = refused /\ visitors[a].count \in Nat \ {0}
    BY <1>5 DEF CountRequest, Inv, TypeOK, Live, VisitorInfo
  <2>2. /\ MinCount(visitors[a].count + 1) = MinCount(visitors[a].count) + 1
        /\ MinCount(visitors[a].count) < Limit /\ MinCount(visitors[a].count) # 0
    BY <1>5, <2>1, MinCountType DEF WithinLimit
  <2>3. Used' = [Used EXCEPT ![a] = @ + 1]
    BY <1>5, <2>1, <2>2, CountRequestEffect DEF Inv, Used
  <2>4. Opened' = [Opened EXCEPT ![a] = IF Used[a] = 0 THEN now ELSE @]
    BY <1>5, <2>1, <2>2, CountRequestEffect DEF Inv, Used, Opened
  <2>5. AdmittedCount' = [AdmittedCount EXCEPT ![a] = @ + 1]
    <3>1. [at |-> now, resetAt |-> visitors[a].resetAt] \in Admission
      BY <1>5, <2>1 DEF Inv, TypeOK, Live, VisitorInfo, Admission
    <3> QED
      BY <1>5, <3>1, AdmittedOneMore DEF CountRequest, Admitted, Inv
  <2>6. Used[a] < Limit
    BY <2>1, <2>2 DEF Used
  <2> QED
    BY <2>1, <2>3, <2>4, <2>5, <2>6 DEF Windows!Admit, Used, Opened, AdmittedCount
<1>6. ASSUME Inv, NEW a \in Address, CountRequest(a), ~WithinLimit(visitors[a].count + 1)
      PROVE  Windows!Refuse(a)
  <2>1. /\ Live(a) /\ now' = now /\ served' = served /\ visitors[a].count \in Nat \ {0}
        /\ refused' = [refused EXCEPT ![a] = @ + 1]
    BY <1>6 DEF CountRequest, Inv, TypeOK, Live, VisitorInfo
  <2>2. /\ MinCount(visitors[a].count + 1) = MinCount(visitors[a].count)
        /\ MinCount(visitors[a].count) = Limit
    BY <1>6, <2>1, MinCountType DEF WithinLimit
  <2>3. Used' = Used /\ Opened' = Opened /\ Used[a] = Limit
    BY <1>6, <2>1, <2>2, CountRequestEffect DEF Inv, Used, Opened
  <2> QED
    BY <2>1, <2>3 DEF Windows!Refuse, Used, Opened
<1>7. Inv /\ [Next]_vars => [Windows!Next]_(Windows!windowVars)
  <2> SUFFICES ASSUME Inv, [Next]_vars PROVE [Windows!Next]_(Windows!windowVars)
    OBVIOUS
  <2>1. CASE UNCHANGED vars
    BY <2>1 DEF vars, Windows!windowVars, Live, Over
  <2> QED
    BY <2>1, <1>2, <1>3, <1>4, <1>5, <1>6 DEF Next, allow, Windows!Next
<1> QED
  BY <1>1, <1>7, LimiterInvariant, PTL DEF Spec, WindowsSpec, Windows!Spec

-----------------------------------------------------------------------------
(* The size of the map *)

FiniteMap == IsFiniteSet(DOMAIN visitors)

\* One more element makes a finite set larger by one at most.
LEMMA OneMore ==
    ASSUME NEW S, IsFiniteSet(S), NEW x
    PROVE  /\ Cardinality(S) \in Nat /\ Cardinality(S \cup {x}) \in Nat
           /\ Cardinality(S \cup {x}) <= Cardinality(S) + 1
<1>1. Cardinality(S) \in Nat
  BY FS_CardinalityType
<1>2. Cardinality(S \cup {x}) = IF x \in S THEN Cardinality(S) ELSE Cardinality(S) + 1
  BY FS_AddElement
<1> QED
  BY <1>1, <1>2

\* Which addresses are in the map after each call.
LEMMA DomainEffect ==
    ASSUME TypeOK, Next
    PROVE  \/ DOMAIN visitors' = DOMAIN visitors
           \/ visitors' = Swept
           \/ \E a \in Address :
                /\ DOMAIN visitors' = DOMAIN Remaining \cup {a}
                /\ visitors'[a].resetAt = now + Window
                /\ \A b \in DOMAIN Remaining \ {a} : visitors'[b] = Remaining[b]
<1>1. CASE Tick
  BY <1>1 DEF Tick
<1>2. CASE cleanup
  BY <1>2 DEF cleanup
<1>3. ASSUME NEW a \in Address, CountRequest(a)
      PROVE  DOMAIN visitors' = DOMAIN visitors
  BY <1>3 DEF CountRequest
<1>4. ASSUME NEW a \in Address, OpenWindow(a)
      PROVE  /\ DOMAIN visitors' = DOMAIN Remaining \cup {a}
             /\ visitors'[a].resetAt = now + Window
             /\ \A b \in DOMAIN Remaining \ {a} : visitors'[b] = Remaining[b]
  BY <1>4 DEF OpenWindow, WithVisitor
<1> QED
  BY <1>1, <1>2, <1>3, <1>4 DEF Next, allow

\* The map stays finite, for infinitely many addresses too.
LEMMA NextFiniteMap ==
    ASSUME TypeOK, FiniteMap, [Next]_vars
    PROVE  FiniteMap'
<1>1. CASE Next
  <2>1. DOMAIN Swept \subseteq DOMAIN visitors /\ DOMAIN Remaining \subseteq DOMAIN visitors
    BY SweptKeepsLive
  <2>2. IsFiniteSet(DOMAIN Swept) /\ IsFiniteSet(DOMAIN Remaining)
    BY <2>1, FS_Subset DEF FiniteMap
  <2>3. \A a \in Address : IsFiniteSet(DOMAIN Remaining \cup {a})
    BY <2>2, FS_AddElement
  <2> QED
    BY <1>1, <2>2, <2>3, DomainEffect DEF FiniteMap
<1>2. CASE UNCHANGED vars
  BY <1>2 DEF vars, FiniteMap
<1> QED
  BY <1>1, <1>2

\* Only addresses that all have a window open can make the map outgrow its
\* capacity, for every capacity (middleware.go:105-107).
THEOREM OutgrownOnlyByLiveHolds == Spec => OutgrownOnlyByLive
<1> DEFINE Outgrown == Cardinality(DOMAIN visitors') > MaxVisitors
                         /\ DOMAIN visitors' # DOMAIN visitors
           AllLive == \A a \in DOMAIN visitors' : visitors'[a].resetAt >= now
<1>1. ASSUME TypeOK, FiniteMap, Next, Outgrown PROVE AllLive
  <2>1. \A b \in DOMAIN Swept : Swept[b].resetAt >= now
    BY <1>1 DEF Swept, Restrict, Over, TypeOK, VisitorInfo
  <2>2. CASE visitors' = Swept
    BY <2>1, <2>2
  <2>3. ASSUME NEW a \in Address,
               DOMAIN visitors' = DOMAIN Remaining \cup {a},
               visitors'[a].resetAt = now + Window,
               \A b \in DOMAIN Remaining \ {a} : visitors'[b] = Remaining[b]
        PROVE  AllLive
    <3>1. Full
      <4> SUFFICES ASSUME ~Full PROVE FALSE
        OBVIOUS
      <4>1. /\ Cardinality(DOMAIN visitors) \in Nat
            /\ Cardinality(DOMAIN visitors \cup {a}) \in Nat
            /\ Cardinality(DOMAIN visitors \cup {a}) <= Cardinality(DOMAIN visitors) + 1
        BY <1>1, OneMore DEF FiniteMap
      <4>2. Cardinality(DOMAIN visitors) < MaxVisitors
        BY <4>1, LimiterAssumption DEF Full
      <4>3. DOMAIN visitors' = DOMAIN visitors \cup {a}
        BY <2>3 DEF Remaining
      <4> QED
        BY <1>1, <4>1, <4>2, <4>3, LimiterAssumption
    <3>2. Remaining = Swept
      BY <3>1 DEF Remaining
    <3>3. visitors'[a].resetAt >= now
      BY <1>1, <2>3, LimiterAssumption DEF TypeOK
    <3> QED
      BY <2>1, <2>3, <3>2, <3>3
  <2> QED
    BY <1>1, <2>2, <2>3, DomainEffect
<1>2. Inv /\ FiniteMap /\ [Next]_vars => [Outgrown => AllLive]_vars
  BY <1>1 DEF Inv
<1>3. Init => FiniteMap
  BY FS_EmptySet DEF Init, FiniteMap
<1>4. Inv /\ FiniteMap /\ [Next]_vars => FiniteMap'
  BY NextFiniteMap DEF Inv
<1> QED
  BY <1>2, <1>3, <1>4, LimiterInvariant, PTL DEF Spec, OutgrownOnlyByLive

=============================================================================
