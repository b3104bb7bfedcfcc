----------------------------- MODULE DhcpLease -----------------------------
(***************************************************************************)
(* The DHCP server of rcp100: the lease table and the lease file           *)
(* (dhcp/exec/lease.c), the handlers of the client messages                *)
(* (dhcp/exec/dhcp_rx_server.c), the probe that holds an offer back until  *)
(* the address has not answered an echo request (dhcp/exec/icmp.c), the    *)
(* timer branch of the main loop and the administrator's commands.         *)
(*                                                                         *)
(* Clients, and the network that loses, delays and repeats their messages, *)
(* are not restricted: any DISCOVER, REQUEST or DECLINE may arrive at any  *)
(* time.  A RELEASE is the exception, see Release.                         *)
(***************************************************************************)
EXTENDS Naturals, FiniteSets, Sequences, FiniteSetsExt, SequencesExt

CONSTANTS
    Mac,            \* hardware addresses of the clients
    Ip,             \* addresses, a set of positive numbers
    Net,            \* dhcps_network[]: the networks the server may serve
    NetOf,          \* the network of an address
    HostIp,         \* dhcps_host[]: the static address of a client, 0 if none
    Foreign,        \* addresses hosts use that were configured by hand
    Tid,            \* transaction identifiers (0 means "assigned" in a lease)
    OfferTime,      \* DHCP_OFFER_LEASE_TIME
    LeaseTime,      \* lease_days, lease_hours and lease_minutes in seconds
    ProbeTtl,       \* ticks an offer waits for the answer to its probe
    Wheel,          \* LEASE_TSTAMP_HASH_MAX
    Ops,            \* the commands and faults of this instance
    MaxNow,         \* bound on the clock
    MaxFaults,      \* bound on the number of commands and crashes
    MaxFile,        \* bound on the lease file, for the appends
    MaxQueue        \* bound on the offers waiting for their probe

ASSUME DhcpAssumption ==
    /\ Ip \subseteq Nat \ {0}
    /\ NetOf \in [Ip -> Net]
    /\ HostIp \in [Mac -> Ip \cup {0}]
    /\ Tid \subseteq Nat
    /\ OfferTime \in Nat
    /\ LeaseTime \in Nat \ {0}      \* an all-zero time is the default's
    /\ ProbeTtl \in Nat \ {0}
    /\ Wheel \in Nat \ {0}
    /\ MaxNow \in Nat
    /\ MaxFaults \in Nat
    /\ MaxFile \in Nat
    /\ MaxQueue \in Nat

VARIABLES
    now,            \* time(NULL)
    mode,           \* "up", "down", "loading" or "segv" (died in lease_init)
    leases,         \* the hash tables of lease.c
    file,           \* DHCP_LEASE_FILE, which exists (empty at first)
    tmp,            \* DHCP_LEASE_FILE_TMP, left behind by a crash
    rd,             \* lease_init: the next record of the file, else 0
    queue,          \* icmp_queue, the newest offer first
    icmp_sock,      \* the probe socket is open
    enable,         \* dhcps_enable
    valid,          \* the configured networks
    last_ip,        \* last address assigned in each network
    faults,         \* commands and crashes so far
    promise         \* what clients were told and has not run out

vars == <<now, mode, leases, file, tmp, rd, queue, icmp_sock, enable, valid,
          last_ip, faults, promise>>

conf == <<enable, valid>>

Lease == [mac : Mac, ip : Ip, tstamp : Nat, tid : Tid \cup {0},
          declined : BOOLEAN]
Record == [mac : Mac, ip : Ip, tstamp : Nat]        \* LeaseStore
Promise == [mac : Mac, ip : Ip, until : Nat]
Offer == [mac : Mac, ip : Ip, tid : Tid, ttl : Nat, response : BOOLEAN]

(***************************************************************************)
(* The lease table.                                                        *)
(***************************************************************************)
FindMac(m) == {l \in leases : l.mac = m}
FindIp(ip) == {l \in leases : l.ip = ip}

\* The lease both keys lead to, as the handlers want it.
Both(m, ip) == {l \in leases : l.mac = m /\ l.ip = ip}

\* Mutant: only the address is looked up.
CanAddIpOnly(table, m, ip, tstamp) ==
    /\ \A l \in table : l.ip # ip
    /\ tstamp >= now

\* lease_add refuses a known key and a time that has passed.
CanAdd(table, m, ip, tstamp) ==
    /\ \A l \in table : l.mac # m /\ l.ip # ip
    /\ tstamp >= now

NewLease(m, ip, tstamp, tid) ==
    [mac |-> m, ip |-> ip, tstamp |-> tstamp, tid |-> tid, declined |-> FALSE]

Change(l, new) == leases' = (leases \ {l}) \cup {new}

Stored(l) == [mac |-> l.mac, ip |-> l.ip, tstamp |-> l.tstamp]

\* lease_file_update: the table, in some order, is appended to the temporary
\* file, which then replaces the lease file.
LeaseFileUpdate(table) ==
    /\ \E s \in SetToSeqs({Stored(l) : l \in table}) : file' = tmp \o s
    /\ tmp' = <<>>

-----------------------------------------------------------------------------
Init ==
    /\ now = 0
    /\ mode = "up"
    /\ leases = {}
    /\ file = <<>>
    /\ tmp = <<>>
    /\ rd = 0
    /\ queue = <<>>
    /\ icmp_sock = FALSE
    /\ enable = TRUE
    /\ valid = Net
    /\ last_ip = [n \in Net |-> 0]
    /\ faults = 0
    /\ promise = {}

(***************************************************************************)
(* assign_ip: the static address of the client, whether it is free or not, *)
(* else the first free address after the last one assigned, cyclically; 0  *)
(* when the range is exhausted.                                            *)
(***************************************************************************)
Static(n, m) == HostIp[m] # 0 /\ NetOf[HostIp[m]] = n

RangeOf(n) == {ip \in Ip : NetOf[ip] = n}

Start(n) ==
    IF last_ip[n] # 0 /\ last_ip[n] + 1 \in RangeOf(n)
    THEN last_ip[n] + 1 ELSE Min(RangeOf(n))

AssignIp(n, m) ==
    LET free == {ip \in RangeOf(n) : FindIp(ip) = {}}
        ahead == {ip \in free : ip >= Start(n)}
    IN CASE Static(n, m) -> HostIp[m]
         [] ~Static(n, m) /\ ahead # {} -> Min(ahead)
         [] ~Static(n, m) /\ ahead = {} /\ free # {} -> Min(free)
         [] OTHER -> 0

(***************************************************************************)
(* send_icmp_pkt: the offer waits some ticks for an answer to its probe.   *)
(***************************************************************************)
Probe(m, ip, tid) ==
    queue' = <<[mac |-> m, ip |-> ip, tid |-> tid, ttl |-> ProbeTtl,
                response |-> FALSE]>> \o queue

Serving == mode = "up" /\ enable

(***************************************************************************)
(* process_discover, from a client of network n or through a relay in it.  *)
(* A known client is offered its lease, whose time is left as it is, and a *)
(* client that declined or released its lease is not answered.             *)
(***************************************************************************)
DiscoverKnown(m, tid) ==
    /\ Serving
    /\ Len(queue) < MaxQueue
    /\ \E l \in FindMac(m) :
        /\ ~l.declined
        /\ NetOf[l.ip] \in valid
        /\ Change(l, [l EXCEPT !.tid = tid])
        /\ Probe(m, l.ip, tid)
    /\ UNCHANGED <<now, mode, file, tmp, rd, icmp_sock, conf, last_ip,
                   promise, faults>>

DiscoverNew(n, m, tid) ==
    /\ Serving
    /\ Len(queue) < MaxQueue
    /\ FindMac(m) = {}
    /\ n \in valid
    /\ LET ip == AssignIp(n, m) IN
        /\ last_ip' = IF Static(n, m) THEN last_ip
                      ELSE [last_ip EXCEPT ![n] = ip]
        /\ IF ip # 0 /\ CanAdd(leases, m, ip, now + OfferTime)
           THEN /\ leases' = leases
                      \cup {NewLease(m, ip, now + OfferTime, tid)}
                /\ Probe(m, ip, tid)
           ELSE UNCHANGED <<leases, queue>>
    /\ UNCHANGED <<now, mode, file, tmp, rd, icmp_sock, conf, promise, faults>>

(***************************************************************************)
(* process_request: an acknowledged lease is renewed, stored and promised  *)
(* to the client; anything else is refused and changes nothing.            *)
(***************************************************************************)
TidOK(l, tid) == l.tid = 0 \/ l.tid = tid

Request(m, ip, tid) ==
    /\ Serving
    /\ \E l \in Both(m, ip) :
        /\ TidOK(l, tid)
        /\ IF NetOf[ip] \in valid
           THEN LET new == [l EXCEPT !.tid = 0, !.tstamp = now + LeaseTime] IN
                /\ Len(file) < MaxFile
                /\ Change(l, new)
                /\ file' = Append(file, Stored(new))
                /\ promise' =
                    {p \in promise : ~(p.mac = m /\ p.ip = ip)}
                      \cup {[mac |-> m, ip |-> ip, until |-> now + LeaseTime]}
           ELSE /\ Change(l, [l EXCEPT !.tid = 0])
                /\ UNCHANGED <<file, promise>>
    /\ UNCHANGED <<now, mode, tmp, rd, queue, icmp_sock, conf, last_ip,
                   faults>>

\* process_decline does not care whether the network is still configured.
Decline(m, ip, tid) ==
    /\ Serving
    /\ \E l \in Both(m, ip) :
        /\ TidOK(l, tid)
        /\ Change(l, [l EXCEPT !.declined = TRUE])
    /\ UNCHANGED <<now, mode, file, tmp, rd, queue, icmp_sock, conf, last_ip,
                   promise, faults>>

(***************************************************************************)
(* process_release.  The client gives its address up when it sends the     *)
(* message, which reaches the server before the client's next message, or  *)
(* is lost: then, or when the server refuses it, only the client forgets.  *)
(***************************************************************************)
GiveUp(m, ip) == promise' = {p \in promise : ~(p.mac = m /\ p.ip = ip)}

CanRelease(l) == l.tid = 0 /\ NetOf[l.ip] \in valid

Release(m, ip) ==
    /\ Serving
    /\ Len(file) < MaxFile
    /\ \E l \in Both(m, ip) :
        /\ CanRelease(l)
        /\ LET new == [l EXCEPT !.tstamp = now + OfferTime, !.declined = TRUE]
           IN /\ Change(l, new)
              /\ file' = Append(file, Stored(new))
    /\ GiveUp(m, ip)
    /\ UNCHANGED <<now, mode, tmp, rd, queue, icmp_sock, conf, last_ip,
                   faults>>

ReleaseLost(m, ip) ==
    /\ \E p \in promise : p.mac = m /\ p.ip = ip
    /\ GiveUp(m, ip)
    /\ UNCHANGED <<now, mode, leases, file, tmp, rd, queue, icmp_sock, conf,
                   last_ip, faults>>

(***************************************************************************)
(* get_icmp_pkt: a host that uses the probed address answers.  The first   *)
(* offer of the queue for this address is marked.                          *)
(***************************************************************************)
InUse(ip) == ip \in Foreign \/ \E p \in promise : p.ip = ip

EchoReply(ip) ==
    /\ mode = "up"
    /\ icmp_sock
    /\ InUse(ip)
    /\ LET at == {i \in DOMAIN queue : queue[i].ip = ip} IN
        /\ at # {}
        /\ queue' = [queue EXCEPT ![Min(at)].response = TRUE,
                                  ![Min(at)].ttl = 0]
    /\ UNCHANGED <<now, mode, leases, file, tmp, rd, icmp_sock, conf, last_ip,
                   promise, faults>>

(***************************************************************************)
(* The timer branch of the main loop: the probe socket follows the         *)
(* configuration, offers whose wait is over leave the queue, the bucket of *)
(* the current second is searched for expired leases, and once an hour the *)
(* lease file is rewritten.                                                *)
(***************************************************************************)
\* The offers at some places of the queue, one second older, in their order.
Remaining(at) ==
    \E f \in [1..Cardinality(at) -> at] :
        /\ \A i, j \in DOMAIN f : i < j => f[i] < f[j]
        /\ queue' = [i \in DOMAIN f |-> [queue[f[i]] EXCEPT !.ttl = @ - 1]]

\* Mutant: only a count of exactly zero ends the wait.
IcmpTimeoutExact == Remaining({i \in DOMAIN queue : queue[i].ttl # 1})

IcmpTimeout == Remaining({i \in DOMAIN queue : queue[i].ttl > 1})

\* Mutant: the whole bucket is taken to have expired.
ExpiredBucket(l) == l.tstamp % Wheel = now % Wheel

Expired(l) == l.tstamp % Wheel = now % Wheel /\ l.tstamp <= now

Timer ==
    /\ mode = "up"
    /\ icmp_sock' = enable
    /\ IcmpTimeout
    /\ leases' = {l \in leases : ~Expired(l)}
    /\ \/ UNCHANGED <<file, tmp>>
       \/ LeaseFileUpdate(leases')
    /\ UNCHANGED <<now, mode, rd, conf, last_ip, promise, faults>>

\* Reading the lease file takes less than a second.
Advance ==
    /\ now < MaxNow
    /\ mode # "loading"
    /\ now' = now + 1
    /\ promise' = {p \in promise : p.until > now'}
    /\ UNCHANGED <<mode, leases, file, tmp, rd, queue, icmp_sock, conf,
                   last_ip, faults>>

\* A command or a crash, of which an instance has a few.
Disturb(op) ==
    /\ op \in Ops
    /\ faults < MaxFaults
    /\ faults' = faults + 1

(***************************************************************************)
(* The commands.  What the administrator clears is no longer promised.     *)
(* `clear ip dhcp lease` rewrites the file, with an address it does not.   *)
(***************************************************************************)
ClearAll ==
    /\ Disturb("clear")
    /\ mode = "up"
    /\ leases' = {}
    /\ LeaseFileUpdate({})
    /\ promise' = {}
    /\ UNCHANGED <<now, mode, rd, queue, icmp_sock, conf, last_ip>>

ClearLease(ip) ==
    /\ Disturb("clear")
    /\ mode = "up"
    /\ FindIp(ip) # {}
    /\ leases' = leases \ FindIp(ip)
    /\ promise' = {p \in promise : p.ip # ip}
    /\ UNCHANGED <<now, mode, file, tmp, rd, queue, icmp_sock, conf, last_ip>>

ServerEnable ==
    /\ Disturb("enable")
    /\ mode = "up"
    /\ enable' = ~enable
    /\ UNCHANGED <<now, mode, leases, file, tmp, rd, queue, icmp_sock, valid,
                   last_ip, promise>>

\* `network` and `no network`; the record of the network is cleared.
ServerNetwork(n) ==
    /\ Disturb("network")
    /\ mode = "up"
    /\ valid' = IF n \in valid THEN valid \ {n} ELSE valid \cup {n}
    /\ last_ip' = [last_ip EXCEPT ![n] = 0]
    /\ UNCHANGED <<now, mode, leases, file, tmp, rd, queue, icmp_sock, enable,
                   promise>>

(***************************************************************************)
(* A crash loses the memory of the process; inside lease_file_update it    *)
(* leaves a temporary file to which the next update will append.  The      *)
(* configuration and last_ip are in shared memory.                         *)
(***************************************************************************)
Die ==
    /\ leases' = {}
    /\ rd' = 0
    /\ queue' = <<>>
    /\ icmp_sock' = FALSE

Crash ==
    /\ Disturb("crash")
    /\ mode \in {"up", "loading"}
    /\ mode' = "down"
    /\ Die
    /\ UNCHANGED <<now, file, tmp, conf, last_ip, promise>>

CrashInUpdate ==
    /\ Disturb("crash")
    /\ mode = "up" \/ (mode = "loading" /\ rd > Len(file))
    /\ \E s \in SetToSeqs({Stored(l) : l \in leases}) :
        \E k \in 0..Len(s) : tmp' = tmp \o SubSeq(s, 1, k)
    /\ mode' = "down"
    /\ Die
    /\ UNCHANGED <<now, file, conf, last_ip, promise>>

(***************************************************************************)
(* lease_init, a record at a time: expired records are skipped, a record   *)
(* replaces the lease of its address, and the process dies on the lease    *)
(* lease_add did not return.                                               *)
(***************************************************************************)
Restart ==
    /\ mode \in {"down", "segv"}
    /\ mode' = "loading"
    /\ rd' = 1
    /\ UNCHANGED <<now, leases, file, tmp, queue, icmp_sock, conf, last_ip,
                   promise, faults>>

LoadRecord ==
    /\ mode = "loading"
    /\ rd <= Len(file)
    /\ LET r == file[rd]
           rest == leases \ FindIp(r.ip)
       IN \/ /\ r.tstamp <= now
             /\ rd' = rd + 1
             /\ UNCHANGED <<mode, leases, queue, icmp_sock>>
          \/ /\ r.tstamp > now
             /\ CanAdd(rest, r.mac, r.ip, r.tstamp)
             /\ leases' = rest \cup {NewLease(r.mac, r.ip, r.tstamp, 0)}
             /\ rd' = rd + 1
             /\ UNCHANGED <<mode, queue, icmp_sock>>
          \/ /\ r.tstamp > now
             /\ ~CanAdd(rest, r.mac, r.ip, r.tstamp)
             /\ mode' = "segv"
             /\ Die
    /\ UNCHANGED <<now, file, tmp, conf, last_ip, promise, faults>>

LoadDone ==
    /\ mode = "loading"
    /\ rd > Len(file)
    /\ LeaseFileUpdate(leases)
    /\ mode' = "up"
    /\ rd' = 0
    /\ UNCHANGED <<now, leases, queue, icmp_sock, conf, last_ip,
                   promise, faults>>

Next ==
    \/ \E m \in Mac, tid \in Tid :
        \/ DiscoverKnown(m, tid)
        \/ \E n \in Net : DiscoverNew(n, m, tid)
        \/ \E ip \in Ip : Request(m, ip, tid) \/ Decline(m, ip, tid)
    \/ \E m \in Mac, ip \in Ip : Release(m, ip) \/ ReleaseLost(m, ip)
    \/ \E ip \in Ip : EchoReply(ip) \/ ClearLease(ip)
    \/ \E n \in Net : ServerNetwork(n)
    \/ Timer \/ Advance \/ ClearAll \/ ServerEnable
    \/ Crash \/ CrashInUpdate \/ Restart \/ LoadRecord \/ LoadDone

Spec == Init /\ [][Next]_vars

-----------------------------------------------------------------------------
TypeOK ==
    /\ now \in Nat
    /\ mode \in {"up", "down", "loading", "segv"}
    /\ leases \in SUBSET Lease
    /\ file \in Seq(Record)
    /\ tmp \in Seq(Record)
    /\ rd \in Nat
    /\ queue \in Seq(Offer)
    /\ icmp_sock \in BOOLEAN
    /\ enable \in BOOLEAN
    /\ valid \in SUBSET Net
    /\ last_ip \in [Net -> Ip \cup {0}]
    /\ faults \in Nat
    /\ promise \in SUBSET Promise

(***************************************************************************)
(* A lease that was acknowledged is remembered until it runs out, across   *)
(* crashes, restarts and rewrites of the lease file: a serving process has *)
(* it in its table, for at least the time the client was told.             *)
(***************************************************************************)
PromiseKept ==
    mode = "up" =>
        \A p \in promise : \E l \in leases :
            l.mac = p.mac /\ l.ip = p.ip /\ l.tstamp >= p.until

(***************************************************************************)
(* The server implements the address pool: an acknowledgement grants an    *)
(* address that no other client holds, to a client that holds no other.    *)
(***************************************************************************)
Pool == INSTANCE AddressPool
            WITH held <- {<<p.mac, p.ip>> : p \in promise}

PoolSpec == Pool!Spec

(***************************************************************************)
(* An offer goes out when its address did not answer: once an answer has   *)
(* come, no offer of this address that was waiting for one is left to be   *)
(* sent.  "we didn't receive any response to our ping, forward the dhcp    *)
(* packet" (icmp_timeout).                                                 *)
(***************************************************************************)
AnswerStopsOffers ==
    \A i, j \in DOMAIN queue :
        i < j /\ queue[i].ip = queue[j].ip /\ queue[i].response
            => queue[j].response

(***************************************************************************)
(* lease_init reads the current leases: the server comes back.             *)
(***************************************************************************)
LeasesReadable == mode # "segv"
=============================================================================
