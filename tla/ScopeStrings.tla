---------------------------- MODULE ScopeStrings ----------------------------
(***************************************************************************)
(* How the server takes a scope string apart (internal/server/store.go).   *)
(* Scopes takes such a string for the set of its names; here it is the     *)
(* sequence of its characters, and the two are compared.                   *)
(***************************************************************************)
EXTENDS Naturals, Sequences, SequencesExt, Scopes

CONSTANTS Blank,       \* the separator
          Letter,      \* the other characters
          Word,        \* scope name |-> its letters
          MaxLength    \* bound: strings of at most this many characters

ASSUME ScopeStringsAssumption ==
    /\ Blank \notin Letter /\ MaxLength \in Nat
    /\ Word \in [ScopeName -> Seq(Letter) \ {<<>>}]
    /\ \A m, n \in ScopeName : Word[m] = Word[n] => m = n

-----------------------------------------------------------------------------

\* One character of fieldSplit's loop: the parts so far, and where the next begins.
\* The fault lets the next part begin with the separator.
Visit_OffByOneFault(s, sep, acc, i) ==
    IF s[i] # sep THEN acc
    ELSE [parts |-> IF i > acc.start THEN Append(acc.parts, SubSeq(s, acc.start, i - 1))
                                     ELSE acc.parts,
          start |-> i]
Visit(s, sep, acc, i) ==
    IF s[i] # sep THEN acc
    ELSE [parts |-> IF i > acc.start THEN Append(acc.parts, SubSeq(s, acc.start, i - 1))
                                     ELSE acc.parts,
          start |-> i + 1]

\* What the loop holds behind each character.
Scan(s, sep) ==
    LET scan[i \in 0 .. Len(s)] ==
          IF i = 0 THEN [parts |-> <<>>, start |-> 1] ELSE Visit(s, sep, scan[i - 1], i) IN
    scan

fieldSplit(s, sep) ==
    LET end == Scan(s, sep)[Len(s)] IN
    IF end.start <= Len(s) THEN Append(end.parts, SubSeq(s, end.start, Len(s))) ELSE end.parts

\* The scope string ValidateClientScope makes of a client's registration: all of
\* it is the last of the strings that its first k names are joined to.
Joined(names) ==
    LET joined[k \in 0 .. Len(names)] ==
          IF k = 0 THEN <<>>
          ELSE IF k = 1 THEN names[1] ELSE joined[k - 1] \o <<Blank>> \o names[k] IN
    joined
Join(names) == Joined(names)[Len(names)]

-----------------------------------------------------------------------------
(* What Scopes says of sets, as store.go says it of strings: the parts of a *)
(* scope string, and a client's registration as a list of strings.          *)

\* Behind the split, splitSpaces filters empty parts once more.
Parts(scope) == ToSet(fieldSplit(scope, Blank)) \ {<<>>}

StringContains(scope, target) == target \in Parts(scope)

StringPermitted(registered, requested) ==
    \/ Len(registered) = 0
    \/ requested = <<>>
    \/ Parts(requested) \subseteq ToSet(registered)

StringResolved(registered, requested) ==
    IF Len(registered) # 0 /\ requested = <<>> THEN Join(registered) ELSE requested

StringNarrowed(requested, original) ==
    original = <<>> \/ Parts(requested) \subseteq Parts(original)

-----------------------------------------------------------------------------
(* The reference: what a string says to a reader *)

\* The maximal runs of letters of s, as intervals.
Runs(s) ==
    {r \in (1 .. Len(s)) \X (1 .. Len(s)) :
        /\ r[1] <= r[2] /\ \A i \in r[1] .. r[2] : s[i] # Blank
        /\ r[1] > 1 => s[r[1] - 1] = Blank
        /\ r[2] < Len(s) => s[r[2] + 1] = Blank}
WordAt(s, r) == SubSeq(s, r[1], r[2])

\* parts are the words at these runs of s, all of them, each once and in order.
Splits(parts, s, runs) ==
    \E order \in [1 .. Len(parts) -> runs] :
        /\ \A r \in runs : \E k \in 1 .. Len(parts) : order[k] = r
        /\ \A j, k \in 1 .. Len(parts) : j < k => order[j][2] < order[k][1]
        /\ \A k \in 1 .. Len(parts) : parts[k] = WordAt(s, order[k])

\* The scope that Scopes takes s for.  A word that is no name is refused or ignored.
SpelledBy(s) ==
    IF s = <<>> THEN NoScope
    ELSE {name \in ScopeName : \E r \in Runs(s) : WordAt(s, r) = Word[name]}

\* A string that is made of names.
Legible(s) ==
    /\ s \in Seq(Letter \cup {Blank})
    /\ \A r \in Runs(s) : \E name \in ScopeName : WordAt(s, r) = Word[name]

\* The scopes that have a spelling which does not fall into its words, and the
\* registrations joined to a string which does not fall into the registered names.
Misread ==
    {SpelledBy(s) : s \in {t \in BoundedSeq(Letter \cup {Blank}, MaxLength) :
                             ~Splits(fieldSplit(t, Blank), t, Runs(t))}}
Misjoined ==
    {{name \in ScopeName : Word[name] \in ToSet(ws)} :
        ws \in {us \in BoundedSeq({Word[name] : name \in ScopeName}, MaxLength) :
                   fieldSplit(Join(us), Blank) # us}}

=============================================================================
