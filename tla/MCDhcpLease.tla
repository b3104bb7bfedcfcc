---------------------------- MODULE MCDhcpLease ----------------------------
(* Instances of DhcpLease: one network, two clients and two addresses.     *)
EXTENDS DhcpLease

CONSTANTS m1, m2, n

OneNet == [ip \in Ip |-> n]

NoHosts == [m \in Mac |-> 0]

\* Client m2 has a static address inside the range.
HostInRange == [m \in Mac |-> IF m = m2 THEN 1 ELSE 0]
=============================================================================
