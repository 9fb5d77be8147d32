---------------------------- MODULE MCResolvers ----------------------------
(* Three servers: one that is passed over, one asked while the work of the   *)
(* first is still ending, and one that is left unasked.                       *)
EXTENDS Resolvers
=============================================================================
