------------------------------- MODULE MCRipDb -------------------------------
(* TLC instances of RipDb: neighbour n1 on interface 1, n2 and n3 on interface *)
(* 2, and g, a router on interface 2 that does not speak RIP.  All the remote  *)
(* prefixes share a bucket of the hash table.                                  *)
EXTENDS RipDb

CONSTANTS n1, n2, n3, g, p1

MCOn == [x \in Nbr \union Gw |-> IF x = n1 THEN 1 ELSE 2]
MCBucket == [p \in Prefix |-> IF p[1] = "net" THEN p[2] ELSE 10]

MCRemote == {<<"rem", p>> : p \in Remote}
DirectHops == {<<n, n>> : n \in Nbr}
NoRoutes == {}
StaticViaG == {<<p, g>> : p \in MCRemote}
StaticViaN1 == {<<p, n1>> : p \in MCRemote}
OspfViaG == {<<p, g>> : p \in MCRemote}
NetOfTwo == {NetOf(2)}
==============================================================================
