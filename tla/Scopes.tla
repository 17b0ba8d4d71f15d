------------------------------- MODULE Scopes -------------------------------
(***************************************************************************)
(* Scope strings (internal/server/store.go).                               *)
(*                                                                         *)
(* The code carries scopes as space-separated strings and only ever splits *)
(* them, tests membership, or compares them with "".  A scope string is    *)
(* therefore either NoScope (the empty string) or the SET of its names; a  *)
(* string of blanks is the empty set, which the code does tell apart from  *)
(* "".  Order and repetition of the names are abstracted.                  *)
(*                                                                         *)
(* Names ending in a _Fault are deliberately wrong variants of the         *)
(* definition that follows them; nothing uses them but the mutants that    *)
(* show that the properties can fail.                                      *)
(***************************************************************************)
CONSTANTS ScopeName,  \* the names a scope string may contain
          OpenID,     \* "openid"
          NoScope     \* ""

ASSUME ScopesAssumption ==
    /\ OpenID \in ScopeName
    /\ \A names \in SUBSET ScopeName : names # NoScope

ScopeString == {NoScope} \cup SUBSET ScopeName

splitSpaces(s) == IF s = NoScope THEN {} ELSE s

ContainsScope(scope, target) == target \in splitSpaces(scope)

\* ValidateClientScope returns no error: a client registered without scopes is
\* unrestricted, and omitting the parameter asks for everything registered.
ScopePermitted(registered, requested) ==
    \/ registered = {}
    \/ requested = NoScope
    \/ splitSpaces(requested) \subseteq registered

\* ... and the string it returns then.
ResolvedScope_NoDefaultFault(registered, requested) == requested
ResolvedScope(registered, requested) ==
    IF registered # {} /\ requested = NoScope THEN registered ELSE requested

isScopeNarrowed_SwappedFault(requested, original) ==
    splitSpaces(original) \subseteq splitSpaces(requested)
isScopeNarrowed(requested, original) ==
    \/ original = NoScope
    \/ splitSpaces(requested) \subseteq splitSpaces(original)

=============================================================================
