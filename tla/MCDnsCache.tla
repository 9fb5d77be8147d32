----------------------------- MODULE MCDnsCache -----------------------------
(* Two networks, and enough queries that one waits while another asks.        *)
EXTENDS DnsCache

CONSTANTS q1, q2
=============================================================================
