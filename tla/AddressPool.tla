---------------------------- MODULE AddressPool ----------------------------
(***************************************************************************)
(* What a DHCP server promises to the hosts of its networks, with the      *)
(* protocol, the timers, the lease file and the restarts left out: an      *)
(* address is granted to a host while no other host holds it, and a host   *)
(* is granted one address at a time.                                       *)
(***************************************************************************)
CONSTANTS
    Mac,            \* the clients
    Ip              \* the addresses

VARIABLE
    held            \* the pairs <<client, address>> in force

Init == held = {}

\* The client may be holding the address already: it then renews it.
Grant(m, ip) ==
    /\ \A h \in held : (h[1] = m) <=> (h[2] = ip)
    /\ held' = held \cup {<<m, ip>>}

\* Leases end: they run out, several in the same second perhaps, they are
\* released, or the administrator clears them.
End == held' \in SUBSET held

Next ==
    \/ \E m \in Mac, ip \in Ip : Grant(m, ip)
    \/ End

Spec == Init /\ [][Next]_held

(***************************************************************************)
(* No two hosts hold the same address.                                     *)
(***************************************************************************)
OneHolder == \A h1, h2 \in held : h1[2] = h2[2] => h1[1] = h2[1]
=============================================================================
