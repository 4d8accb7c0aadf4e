---------------------------- MODULE MCProxyPage ----------------------------
(* ProxyPage with a single port and one client.                             *)
EXTENDS ProxyPage
=============================================================================
