----------------------- MODULE MCServiceLifecycle -----------------------
(* ServiceLifecycle on two Service objects: one of each class, which coexist  *)
(* across a mode switch, or two of VpnService, the second created while the   *)
(* first, destroyed by the framework, is still closing in the background.     *)
EXTENDS ServiceLifecycle

CONSTANTS v1, v2, p1

OneOfEach == {v1, p1}
OneVpn == {v1}
TwoVpn == {v1, v2}

=============================================================================
