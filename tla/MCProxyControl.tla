--------------------------- MODULE MCProxyControl ---------------------------
(* ProxyControl on small instances: a run that drains while the next one    *)
(* binds, on the same port or another, with clients in both backlogs.       *)
EXTENDS ProxyControl
=============================================================================
