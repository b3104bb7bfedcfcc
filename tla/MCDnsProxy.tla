----------------------------- MODULE MCDnsProxy -----------------------------
(* Instances of DnsProxy: the name q1 may be in the host table.            *)
EXTENDS DnsProxy, TLC

CONSTANTS q1, q2, c1, s1, s2

\* Answers to q1 may be aliases, answers to q2 may not be worth caching.
Answers == (q1 :> {"address", "cname"}) @@ (q2 :> {"address", "uncached"})
=============================================================================
