----------------------------- MODULE ClientAuth -----------------------------
(***************************************************************************)
(* How a client authenticates at the token and revocation endpoints        *)
(* (internal/handler: token.go, revoke.go, handler.go; Server.Validate-    *)
(* Client): by HTTP Basic, or by parameters of the body.                   *)
(***************************************************************************)
CONSTANTS
    Client,        \* registered client identifiers
    ClientID,      \* the identifiers a request may carry
    NoID,          \* "": no identifier
    ClientSecret,  \* Client.Secret
    SecretString   \* the secrets a request may carry

ASSUME ClientAuthAssumption ==
    /\ Client \subseteq ClientID
    /\ NoID \in ClientID \ Client
    /\ ClientSecret \in [Client -> SecretString]

Credentials == [id : ClientID, secret : SecretString]

\* The two places of a request.  parseBasicAuth makes a missing or malformed
\* header one without identifier.
Presentation == [header : Credentials, body : Credentials]

Conflicting(p) == p.header.id # NoID /\ p.body.id \notin {NoID, p.header.id}

\* The header takes precedence.
Chosen(p) == IF p.header.id # NoID THEN p.header ELSE p.body

ValidateClient(id, secret) == id \in Client /\ ClientSecret[id] = secret

AuthenticatedAs(p, client) ==
    /\ ~Conflicting(p)
    /\ Chosen(p).id = client
    /\ ValidateClient(Chosen(p).id, Chosen(p).secret)

\* The clients whose secret a request carries next to their name, used or not.
Proved(p) ==
    {c \in Client : \E half \in {p.header, p.body} :
                        half.id = c /\ half.secret = ClientSecret[c]}

=============================================================================
