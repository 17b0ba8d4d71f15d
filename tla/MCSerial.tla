------------------------------ MODULE MCSerial ------------------------------
(* One request at a time, and the scope strings those requests carry.        *)
EXTENDS MCGrants, ScopeStrings

\* The server after so many Ticks that a code can have expired: either nobody has
\* come yet, or someone has let the code expire that Authorize issued at first.
\* It is still in its map.
LateInit ==
    /\ now = Ticks(CodeExpiry) + 1
    /\ \/ codeInfo = <<>>
       \/ \E stale \in Code, client \in Client, user \in User, uri \in RedirectURI,
             verifier \in Verifier :
             codeInfo = [c \in {stale} |->
                 [client |-> client, user |-> user, redirectURI |-> uri,
                  scope |-> ResolvedScope(RegisteredScopes[client], NoScope),
                  challenge |-> S256(verifier), expiresAt |-> Ticks(CodeExpiry)]]
    /\ codes = DOMAIN codeInfo
    /\ refreshInfo = <<>> /\ refreshTokens = {} /\ accessTokens = <<>>
    /\ pc = [w \in Worker |-> "idle"]
    /\ req = [w \in Worker |-> NoRequest]
    /\ pair = [w \in Worker |-> NoPair]
    /\ handedOut = {} /\ lineage = <<>>

LateSpec == LateInit /\ [][Next]_vars

MCWord == [name \in ScopeName |-> IF name = "openid" THEN <<"a">> ELSE <<"a", "b">>]

\* However a client spells the scope it sends, and in whatever form the stores hold
\* one, the server takes it apart into the names that Scopes takes it for; for a
\* request without scope, the registration that replaces it (store.go:257-274
\* against store.go:286).
SplitsIntoNames ==
    /\ \A c \in DOMAIN codeInfo : codeInfo[c].scope \notin Misread
    /\ \A w \in Worker : req[w].kind \in {"password", "client_credentials", "refresh_token"} =>
          /\ req[w].scope \notin Misread
          /\ req[w].scope = NoScope => RegisteredScopes[req[w].client] \notin Misjoined

=============================================================================
