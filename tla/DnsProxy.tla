------------------------------ MODULE DnsProxy ------------------------------
(***************************************************************************)
(* The DNS proxy of rcp100: queries of clients are answered from a cache   *)
(* or forwarded to one of two name servers under a new transaction number  *)
(* (dns_client.c), answers are matched with the waiting requests and       *)
(* cached (dns_server.c), requests live in a fixed pool (dns_rq.c), and    *)
(* the host table of the configuration is kept in the cache as static      *)
(* entries (dns_cache.c), refreshed by messages of the services process.   *)
(*                                                                         *)
(* The network loses, delays and repeats packets: an answer may come at    *)
(* any time after its query was forwarded, any number of times or never.   *)
(***************************************************************************)
EXTENDS Integers, FiniteSets, Functions

CONSTANTS
    Client,         \* an asker: address, port and its transaction number
    Query,          \* a name with a record type
    Unqualified,    \* queries for names without a domain
    HostQuery,      \* IPv4 queries for names that the host table may hold
    Addr,           \* addresses the host table may give them
    NoAddr,         \* not in the host table
    Kinds,          \* kinds of answers the servers send to a query
    Server,         \* name servers
    NoServer,       \* an empty configuration slot
    Tid,            \* transaction numbers of the proxy
    MaxReq,         \* DNS_MAX_REQ
    ReqTtl,         \* MAX_REQ_TTL
    CacheTtl,       \* the time an answer is cached
    RateLimit,      \* dns_rate_limit, when configured
    RateMod,        \* the rate counter has 16 bits
    Reconnect,      \* ticks before a process without multiplexer exits
    MaxNet,         \* bound on the queries servers may still answer
    MaxOwed,        \* bound on the answers a client waits for
    MaxFaults       \* bound on commands, lost connections and crashes

ASSUME DnsAssumption ==
    /\ Unqualified \subseteq Query /\ HostQuery \subseteq Query
    /\ NoAddr \notin Addr /\ NoServer \notin Server
    /\ Kinds \in [Query -> SUBSET {"address", "cname", "uncached"}]
    /\ {MaxReq, ReqTtl, CacheTtl, RateMod, Reconnect, MaxNet}
            \subseteq Nat \ {0}
    /\ {RateLimit, MaxOwed, MaxFaults} \subseteq Nat

VARIABLES
    mode,           \* "up" or "down"
    active,         \* the active requests
    inactive,       \* the length of the list of inactive requests
    last_server,    \* slot of the name server asked last
    rate_limit,     \* queries counted in this tick
    cache,          \* cache entries, by query
    client_sock,    \* the clients' socket is open
    mux,            \* muxsock: "up", "eof" (peer gone) or "closed"
    reconnect,      \* reconnect_timer
    updates,        \* RCP_PKT_TYPE_UPDATEDNS packets on the way
    hosts,          \* ip_host[] of the configuration
    ns,             \* name_server1 and name_server2
    dns_server,     \* dns_server and
    limit,          \* dns_rate_limit of the configuration
    net,            \* queries a name server has received and may answer
    owed,           \* answers each client has asked for and not received
    faults,         \* disturbances so far
    untold          \* history: hosts removed without a message to the proxy

conf == <<hosts, ns, dns_server, limit>>

vars == <<mode, active, inactive, last_server, rate_limit, cache, client_sock,
          mux, reconnect, updates, conf, net, owed, faults, untold>>

Slot == {1, 2}
Req == [client : Client, query : Query, tid : Tid, server : Server,
        ttl : 1..ReqTtl]
Entry == [addr : Addr \cup {NoAddr}, ttl : 0..CacheTtl, dns_static : BOOLEAN,
          marker : BOOLEAN, cname : {"none", "kept", "freed"}]

(***************************************************************************)
(* The cache.                                                              *)
(***************************************************************************)
StaticEntry(a) == [addr |-> a, ttl |-> CacheTtl, dns_static |-> TRUE,
                   marker |-> TRUE, cname |-> "none"]

\* cache_add_static: a CNAME packet is released and stays in the entry.
AddStatic(c, q, a) ==
    IF q \notin DOMAIN c THEN StaticEntry(a)
    ELSE [StaticEntry(a) EXCEPT
            !.cname = IF c[q].cname = "none" THEN "none" ELSE "freed"]

Hosts == {q \in HostQuery : hosts[q] # NoAddr}

\* cache_update_static
UpdateStatic(c) ==
    [q \in DOMAIN c \cup Hosts |->
        IF q \in Hosts THEN AddStatic(c, q, hosts[q])
        ELSE [c[q] EXCEPT !.marker = FALSE]]

\* A CNAME packet is released a second time: the process aborts.
Aborts(c, qs) == \E q \in qs \cap DOMAIN c : c[q].cname = "freed"

\* cache_timer
\* Mutant: entries of removed hosts are kept.
ExpiresKeepsStatic(e) == ~e.dns_static /\ e.ttl <= 1

Expires(e) == IF e.dns_static THEN ~e.marker ELSE e.ttl <= 1
Aged(e) == IF e.dns_static THEN e ELSE [e EXCEPT !.ttl = @ - 1]

CacheTimer(c) ==
    [q \in {p \in DOMAIN c : ~Expires(c[p])} |-> Aged(c[q])]

-----------------------------------------------------------------------------
NoEntries == [q \in {} |-> StaticEntry(NoAddr)]

\* The process starts: main and rq_list_init.
Start ==
    /\ active' = {}
    /\ inactive' = MaxReq
    /\ last_server' = 1
    /\ rate_limit' = 0
    /\ cache' = UpdateStatic(NoEntries)
    /\ client_sock' = dns_server
    /\ mux' = "up"
    /\ reconnect' = 0
    /\ updates' = 0
    /\ untold' = {}

Init ==
    /\ mode = "up"
    /\ active = {}
    /\ inactive = MaxReq
    /\ last_server = 1
    /\ rate_limit = 0
    /\ cache = NoEntries
    /\ client_sock = TRUE
    /\ mux = "up"
    /\ reconnect = 0
    /\ updates = 0
    /\ hosts = [q \in HostQuery |-> NoAddr]
    /\ ns \in [Slot -> Server]
    /\ ns[1] # ns[2]
    /\ dns_server = TRUE
    /\ limit = RateLimit
    /\ net = {}
    /\ owed = [c \in Client |-> [q \in Query |-> 0]]
    /\ faults = 0
    /\ untold = {}

(***************************************************************************)
(* process_client.  The servers take turns; the turn passes even when the  *)
(* answer comes from the cache or the query is dropped.  A name without a  *)
(* domain is looked up in a form no entry has.                             *)
(***************************************************************************)
NextSlot ==
    LET other == 3 - last_server IN
    IF ns[other] # NoServer THEN other ELSE last_server

Asked(c, q) == [owed EXCEPT ![c][q] = @ + 1]
Answered(o, c, q) == [o EXCEPT ![c][q] = @ - 1]

CanAsk(c, q) == mode = "up" /\ client_sock /\ owed[c][q] < MaxOwed

Cached(q) == q \in DOMAIN cache /\ q \notin Unqualified

\* ++rate_limit > dns_rate_limit
Counted == IF limit = 0 THEN rate_limit ELSE (rate_limit + 1) % RateMod
Limited == limit # 0 /\ Counted > limit

UsedTid == {r.tid : r \in active}

ClientDropped(c, q) ==
    /\ CanAsk(c, q)
    /\ \/ /\ ns[NextSlot] = NoServer
          /\ UNCHANGED rate_limit
       \/ /\ ns[NextSlot] # NoServer /\ ~Cached(q)
          /\ Limited \/ inactive = 0
          /\ rate_limit' = Counted
    /\ last_server' = NextSlot
    /\ UNCHANGED <<mode, active, inactive, cache, client_sock, mux, reconnect,
                   updates, conf, net, owed, faults, untold>>

ClientCached(c, q) ==
    /\ CanAsk(c, q)
    /\ ns[NextSlot] # NoServer
    /\ Cached(q)
    /\ last_server' = NextSlot
    /\ owed' = Answered(Asked(c, q), c, q)
    /\ UNCHANGED <<mode, active, inactive, rate_limit, cache, client_sock,
                   mux, reconnect, updates, conf, net, faults, untold>>

ClientForwarded(c, q) ==
    /\ CanAsk(c, q)
    /\ ns[NextSlot] # NoServer
    /\ ~Cached(q) /\ ~Limited /\ inactive > 0
    /\ last_server' = NextSlot
    /\ rate_limit' = Counted
    /\ inactive' = inactive - 1
    /\ \E t \in Tid \ UsedTid :
        /\ active' = active \cup {[client |-> c, query |-> q, tid |-> t,
                                   server |-> ns[NextSlot], ttl |-> ReqTtl]}
        /\ \E kept \in SUBSET net :
            /\ net' = kept \cup {[tid |-> t, server |-> ns[NextSlot],
                                  query |-> q]}
            /\ Cardinality(net') <= MaxNet
    /\ owed' = Asked(c, q)
    /\ UNCHANGED <<mode, cache, client_sock, mux, reconnect, updates, conf,
                   faults, untold>>

(***************************************************************************)
(* process_server: the request must wait for this transaction, from this   *)
(* server, about this query; then the packet goes to the client of the     *)
(* request and, unless it is known or short-lived, into the cache.         *)
(***************************************************************************)
\* Mutant: the question of the answer is not compared.
MatchesAnyQuery(r, p) == r.tid = p.tid /\ r.server = p.server

Matches(r, p) == r.tid = p.tid /\ r.server = p.server /\ r.query = p.query

\* Mutant: an answer replaces the entry of its query.
LearnReplaces(p, kind) ==
    IF kind = "uncached" THEN cache
    ELSE [q \in DOMAIN cache \cup {p.query} |->
            IF q = p.query
            THEN [addr |-> NoAddr, ttl |-> CacheTtl, dns_static |-> FALSE,
                  marker |-> FALSE, cname |-> "none"]
            ELSE cache[q]]

Learn(p, kind) ==
    IF kind = "uncached" \/ p.query \in DOMAIN cache THEN cache
    ELSE [q \in DOMAIN cache \cup {p.query} |->
            IF q = p.query
            THEN [addr |-> NoAddr, ttl |-> CacheTtl, dns_static |-> FALSE,
                  marker |-> FALSE,
                  cname |-> IF kind = "cname" THEN "kept" ELSE "none"]
            ELSE cache[q]]

ServerAnswer(p, kind) ==
    /\ mode = "up"
    /\ p.server \in Range(ns)
    /\ \E r \in active :
        /\ Matches(r, p)
        /\ active' = active \ {r}
        /\ owed' = Answered(owed, r.client, p.query)
    /\ inactive' = inactive + 1
    /\ cache' = Learn(p, kind)
    /\ UNCHANGED <<mode, last_server, rate_limit, client_sock, mux, reconnect,
                   updates, conf, net, faults, untold>>

(***************************************************************************)
(* The timer branch: cache_timer, rq_timer and the rate counter.           *)
(***************************************************************************)
\* Mutant: a request is released one tick late.
RqTimerLate ==
    LET late == {r \in active : r.ttl = 0} IN
    /\ active' = {[r EXCEPT !.ttl = @ - 1] : r \in active \ late}
    /\ inactive' = inactive + Cardinality(late)

\* Mutant: late requests are removed and not returned to the other list.
RqTimerLeaks ==
    /\ active' = {[r EXCEPT !.ttl = @ - 1] : r \in {x \in active : x.ttl > 1}}
    /\ UNCHANGED inactive

\* Mutant: requests do not age.
RqTimerIdle ==
    UNCHANGED <<active, inactive>>

RqTimer ==
    LET late == {r \in active : r.ttl = 1} IN
    /\ active' = {[r EXCEPT !.ttl = @ - 1] : r \in active \ late}
    /\ inactive' = inactive + Cardinality(late)

Timer ==
    /\ mode = "up"
    /\ reconnect < Reconnect
    /\ reconnect' = IF reconnect > 0 THEN reconnect + 1 ELSE 0
    /\ IF Aborts(cache, {q \in DOMAIN cache : Expires(cache[q])})
       THEN mode' = "down" /\ UNCHANGED <<cache, active, inactive, rate_limit>>
       ELSE /\ cache' = CacheTimer(cache)
            /\ RqTimer
            /\ rate_limit' = 0
            /\ UNCHANGED mode
    /\ UNCHANGED <<last_server, client_sock, mux, updates, conf, net, owed,
                   faults, untold>>

(***************************************************************************)
(* The services process changes the host table and tells the proxy, if it  *)
(* is connected; the proxy reads the table again.                          *)
(***************************************************************************)
Disturb == faults < MaxFaults /\ faults' = faults + 1

IpHost(q, a) ==
    /\ Disturb
    /\ hosts' = [hosts EXCEPT ![q] = a]
    /\ updates' = IF mode = "up" /\ mux = "up" THEN updates + 1 ELSE updates
    /\ UNCHANGED <<mode, active, inactive, last_server, rate_limit, cache,
                   client_sock, mux, reconnect, ns, dns_server, limit, net,
                   owed, untold>>

\* `no ip host`: all hosts are removed, and the proxy is not told.
NoIpHostAll ==
    /\ Disturb
    /\ hosts' = [q \in HostQuery |-> NoAddr]
    /\ untold' = untold \cup Hosts
    /\ UNCHANGED <<mode, active, inactive, last_server, rate_limit, cache,
                   client_sock, mux, reconnect, updates, ns, dns_server, limit,
                   net, owed>>

RxUpdate ==
    /\ mode = "up" /\ mux # "closed"
    /\ updates > 0
    /\ updates' = updates - 1
    /\ mode' = IF Aborts(cache, Hosts) THEN "down" ELSE "up"
    /\ untold' = {}
    /\ cache' = UpdateStatic(cache)
    /\ UNCHANGED <<active, inactive, last_server, rate_limit,
                   client_sock, mux, reconnect, conf, net, owed, faults>>

\* cliClearIpHost: all entries are removed and the static ones come back.
ClearIpHost ==
    /\ Disturb
    /\ mode = "up" /\ mux = "up"
    /\ mode' = IF Aborts(cache, Query) THEN "down" ELSE "up"
    /\ untold' = {}
    /\ cache' = UpdateStatic(NoEntries)
    /\ UNCHANGED <<active, inactive, last_server, rate_limit,
                   client_sock, mux, reconnect, updates, conf, net, owed>>

\* `ip name-server`, into the first empty slot or the second, and its `no`.
AddServer(srv) ==
    IF ns[1] = NoServer THEN [ns EXCEPT ![1] = srv] ELSE [ns EXCEPT ![2] = srv]

DropServer(srv) == [s \in Slot |-> IF ns[s] = srv THEN NoServer ELSE ns[s]]

IpNameServer(srv) ==
    /\ Disturb
    /\ ns' = IF srv \in Range(ns) THEN DropServer(srv) ELSE AddServer(srv)
    /\ UNCHANGED <<mode, active, inactive, last_server, rate_limit, cache,
                   client_sock, mux, reconnect, updates, hosts, dns_server,
                   limit, net, owed, untold>>

(***************************************************************************)
(* cliIpDnsServer.  The socket can be opened by a new process only; it is  *)
(* closed when requests are waiting.                                       *)
(***************************************************************************)
CloseSockets ==
    client_sock /\ active # {}

IpDnsServer(on) ==
    /\ Disturb
    /\ mode = "up" /\ mux = "up"
    /\ dns_server' = on
    /\ limit' \in IF on THEN {limit, RateLimit} ELSE {0}
    /\ mode' = IF on /\ ~client_sock /\ active = {} THEN "down" ELSE "up"
    /\ IF ~on /\ CloseSockets
       THEN /\ client_sock' = FALSE
            /\ active' = {}
            /\ inactive' = inactive + Cardinality(active)
       ELSE UNCHANGED <<client_sock, active, inactive>>
    /\ UNCHANGED <<last_server, rate_limit, cache, mux, reconnect, updates,
                   hosts, ns, net, owed, untold>>

(***************************************************************************)
(* The connection to the services process is lost.  The process finds out  *)
(* when it reads, and exits some ticks later because it has no privileges  *)
(* to connect again, or it dies at its next write.  The supervisor starts  *)
(* it again.                                                               *)
(***************************************************************************)
MuxLost ==
    /\ Disturb
    /\ mode = "up" /\ mux = "up"
    /\ mux' = "eof"
    /\ UNCHANGED <<mode, active, inactive, last_server, rate_limit, cache,
                   client_sock, reconnect, updates, conf, net, owed, untold>>

RxEof ==
    /\ mode = "up" /\ mux = "eof"
    /\ updates = 0
    /\ mux' = "closed"
    /\ reconnect' = 1
    /\ UNCHANGED <<mode, active, inactive, last_server, rate_limit, cache,
                   client_sock, updates, conf, net, owed, faults, untold>>

Exit ==
    /\ mode = "up"
    /\ mux = "eof" \/ reconnect >= Reconnect
    /\ mode' = "down"
    /\ UNCHANGED <<active, inactive, last_server, rate_limit, cache,
                   client_sock, mux, reconnect, updates, conf, net, owed,
                   faults, untold>>

Restart ==
    /\ mode = "down"
    /\ mode' = "up"
    /\ Start
    /\ UNCHANGED <<conf, net, owed, faults>>

Next ==
    \/ \E c \in Client, q \in Query :
        ClientDropped(c, q) \/ ClientCached(c, q) \/ ClientForwarded(c, q)
    \/ \E p \in net : \E kind \in Kinds[p.query] : ServerAnswer(p, kind)
    \/ \E q \in HostQuery, a \in Addr \cup {NoAddr} : IpHost(q, a)
    \/ \E srv \in Server : IpNameServer(srv)
    \/ \E on \in BOOLEAN : IpDnsServer(on)
    \/ Timer \/ NoIpHostAll \/ RxUpdate \/ ClearIpHost
    \/ MuxLost \/ RxEof \/ Exit \/ Restart

Spec == Init /\ [][Next]_vars

(***************************************************************************)
(* The timer branch runs whenever the sockets have been quiet for a        *)
(* second, pending messages are read, and the supervisor restarts an       *)
(* exited process.                                                         *)
(***************************************************************************)
FairSpec ==
    /\ Spec
    /\ WF_vars(Timer) /\ WF_vars(RxUpdate) /\ WF_vars(RxEof)
    /\ WF_vars(Exit) /\ WF_vars(Restart)

-----------------------------------------------------------------------------
TypeOK ==
    /\ mode \in {"up", "down"}
    /\ active \in SUBSET Req
    /\ inactive \in 0..MaxReq
    /\ last_server \in Slot
    /\ rate_limit \in 0..(RateMod - 1)
    /\ DOMAIN cache \subseteq Query
    /\ \A q \in DOMAIN cache : cache[q] \in Entry
    /\ client_sock \in BOOLEAN
    /\ mux \in {"up", "eof", "closed"}
    /\ reconnect \in 0..Reconnect
    /\ updates \in Nat
    /\ hosts \in [HostQuery -> Addr \cup {NoAddr}]
    /\ ns \in [Slot -> Server \cup {NoServer}]
    /\ dns_server \in BOOLEAN
    /\ limit \in {0, RateLimit}
    /\ net \in SUBSET [tid : Tid, server : Server, query : Query]
    /\ owed \in [Client -> [Query -> Int]]
    /\ faults \in 0..MaxFaults
    /\ untold \in SUBSET HostQuery

(***************************************************************************)
(* A request is in one of the two lists, and a transaction number leads to *)
(* one request: the pool of dns_rq.c does not leak over timeouts, repeated *)
(* answers and the closing of the sockets.                                 *)
(***************************************************************************)
RequestPool ==
    /\ Cardinality(active) + inactive = MaxReq
    /\ \A r1, r2 \in active : r1.tid = r2.tid => r1 = r2

(***************************************************************************)
(* Every active request stands for an answer its client still waits for:   *)
(* no query is answered twice, or with the answer of another query, by     *)
(* late and repeated packets whose transaction number is in use again.     *)
(***************************************************************************)
AnswersOwed ==
    \A c \in Client, q \in Query :
        owed[c][q] >= Cardinality({r \in active : r.client = c /\ r.query = q})

\* The entry of a configured host (StaticIsAddress says what it may miss).
Serves(q) ==
    /\ q \in DOMAIN cache
    /\ cache[q].dns_static /\ cache[q].marker /\ cache[q].addr = hosts[q]

(***************************************************************************)
(* The host table wins over what the name servers say: without an update   *)
(* on the way the cache has every configured host with its address, and a  *)
(* static entry that is not configured goes at the next tick, unless it    *)
(* was `no ip host` that removed the host and no table was read since.     *)
(***************************************************************************)
StaticCurrent ==
    mode = "up" /\ mux = "up" /\ updates = 0 =>
        \A q \in HostQuery :
            IF hosts[q] # NoAddr
            THEN Serves(q)
            ELSE q \in DOMAIN cache /\ cache[q].dns_static =>
                    ~cache[q].marker \/ q \in untold

(***************************************************************************)
(* However the connection to the services process is lost and updates with *)
(* it, the cache ends up with the host table of the configuration, and     *)
(* with nothing else but what `no ip host` removed without telling.        *)
(***************************************************************************)
HostsServed ==
    <>[](mode = "up" /\ \A q \in HostQuery :
            IF hosts[q] # NoAddr
            THEN Serves(q)
            ELSE q \in DOMAIN cache /\ cache[q].dns_static => q \in untold)

(***************************************************************************)
(* A request does not wait for ever.                                       *)
(***************************************************************************)
RequestsEnd ==
    \A t \in Tid : [](t \in UsedTid => <>(t \notin UsedTid))

(***************************************************************************)
(* A host that is no longer configured is forgotten ("send dns update      *)
(* message to dns proxy"), whichever command removed it.                   *)
(***************************************************************************)
RemovedForgotten ==
    <>[](\A q \in HostQuery :
            hosts[q] = NoAddr =>
                ~(q \in DOMAIN cache /\ cache[q].dns_static))

(***************************************************************************)
(* `no ip dns server` closes the clients' socket ("open/close sockets").   *)
(***************************************************************************)
DisabledIsClosed == mode = "up" /\ ~dns_server => ~client_sock

(***************************************************************************)
(* "if an entry is already present, make the entry static": what is served *)
(* for a configured host is the configured address, and not the packet the *)
(* entry held before.                                                      *)
(***************************************************************************)
StaticIsAddress ==
    \A q \in DOMAIN cache : cache[q].dns_static => cache[q].cname = "none"
=============================================================================
