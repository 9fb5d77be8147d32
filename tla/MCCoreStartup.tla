--------------------------- MODULE MCCoreStartup ---------------------------
(* Three members are enough for a cycle beside a chain and for an unknown tag *)
(* behind a member that depends on it.                                        *)
EXTENDS CoreStartup
=============================================================================
