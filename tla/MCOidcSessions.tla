--------------------------- MODULE MCOidcSessions ---------------------------
(* An instance of OidcSessions for TLC.  It has a liveness property, which  *)
(* rules symmetry out: the constants of its configuration are all it adds.  *)
EXTENDS OidcSessions
=============================================================================
