----------------------------- MODULE MCSessions -----------------------------
(* Values for the constants of Sessions in its run by itself.                *)
EXTENDS Sessions

NoLogout == {"browse"}
AllGranted == [uri \in AuthorizeURI |-> "granted"]

=============================================================================
