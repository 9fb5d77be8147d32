------------------------- MODULE MCSubscriptionUpdate -------------------------
(* Two requests in the main process and the periodic one in :bg. *)
EXTENDS SubscriptionUpdate, TLC

CONSTANTS main, bg, m1, m2, b1, a, b, x, z, l1, l2

\* x is an AnyTLS configuration published with a certificate policy, z one of a
\* protocol without a choice of core.
MCTypeOf == [c \in {x, z} |-> IF c = x THEN "anytls" ELSE "other"]
MCPolicyOf == [c \in {x, z} |-> IF c = x THEN [value |-> "trust", source |-> "published"] ELSE NoPolicy]

\* mihomo is no longer offered; a restored profile that had it goes to automatic.
MCCores == [t \in {"anytls", "other"} |-> IF t = "anytls" THEN {"auto", "sing-box"} ELSE {"auto"}]
MCCanonical == [c \in {x, z} |-> [k \in Core |-> c]]
MCLegacyCore == [c \in {x, z} |-> [k \in Core |-> IF c = z \/ k = "mihomo" THEN "auto" ELSE k]]
MCLegacyPolicy == [c \in {x, z} |-> [k \in Core |-> "pin"]]

SomeConfig(c, k, p) == [content |-> c, override |-> "none", core |-> k, policy |-> p]
Tested(n, config, m) == [name |-> n, config |-> config, status |-> {config}, mine |-> m, born |-> 0]

\* A group of two profiles, one of them of a version without certificate policies
\* and with the core that has been removed; a backup in which the group has another
\* link, one of the two ids is another profile of it, with a policy of unknown
\* source, and the other a profile of another group; and one without the group.
MCBackups ==
  {[rows |-> [i \in 1..MaxId |->
       CASE i = 1 -> Tested(a, SomeConfig(x, "mihomo", [value |-> "legacy", source |-> "unknown"]), TRUE)
         [] i = 2 -> Tested(b, SomeConfig(z, "auto", NoPolicy), TRUE)
         [] OTHER -> NoRow],
    group |-> [link |-> l1, updated |-> l1], top |-> 2],
   [rows |-> [i \in 1..MaxId |->
       CASE i = 1 -> Tested(b, SomeConfig(x, "auto", [value |-> "pin", source |-> "unknown"]), TRUE)
         [] i = 2 -> Tested(a, SomeConfig(z, "auto", NoPolicy), FALSE)
         [] OTHER -> NoRow],
    group |-> [link |-> l2, updated |-> Never], top |-> 2],
   [rows |-> [i \in 1..MaxId |-> IF i = 1 THEN Tested(a, SomeConfig(x, "auto", MCPolicyOf[x]), FALSE) ELSE NoRow],
    group |-> None, top |-> 1]}

\* The two requests of the main process are interchangeable.
Symmetry == Permutations({m1, m2})

MCProcOf == [j \in {m1, m2, b1} |-> IF j = b1 THEN bg ELSE main]

=============================================================================
