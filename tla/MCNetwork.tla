------------------------------- MODULE MCNetwork -------------------------------
(***************************************************************************)
(* Instance of Network for TLC: two leases, the second without a router.     *)
(* Load keeps four calls and events of any kind, five without questions,     *)
(* six with questions only.                                                 *)
(***************************************************************************)
EXTENDS Network, TLC
MCLeases == {<<1, 1, 1>>, <<2, 0, 2>>}
Symmetry == Permutations(Procs)
\* Pings and DNS queries.
Asking == rt.ping_sequence # 0 \/ rt.dns_queries # [i \in DnsIds |-> NDns]
\* Sockets, the echo service and DHCP.
Serving == \/ rt.user # [id \in UserIds |-> NoUser] \/ rt.echo_handle # NoHandle
           \/ ~rt.dhcp_enabled \/ rt.dhcp.lease # Static
Load == calls + events <= IF ~Serving THEN 6 ELSE IF ~Asking THEN 5 ELSE 4
=============================================================================
