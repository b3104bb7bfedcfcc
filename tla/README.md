# RCP100: a verification project

RCP100 is the control plane of a router, written in C: OSPF and RIP daemons, a
DHCP server and relay, a DNS proxy, access lists, a network monitor, a command
line and the process that supervises them. This directory holds TLA+ models of
its core, the TLC configurations that check them on small instances, and proofs
that TLAPS checks for every instance.

    tlc -workers 2 -config MCExchange.cfg MCOspfAdjacency   # one run
    tlapm RipDbProofs.tla                                   # one set of proofs

`PROJECT.json` lists the components, runs, hazards, findings and theorems, and
maps every definition to the lines it models. Paths below are relative to
`src/src/`.

## 1. Inventory

Every daemon is one process with one `select` loop: a branch for packets, one
for the messages of the other processes (the *mux* socket) and one that runs
when nothing has arrived for a second. A handler therefore runs alone in its
process. What interleaves is the two ends of a protocol, the processes that
share the configuration in shared memory and talk over the mux, the kernel,
and crashes.

| Part | State | Operations | What is hard | What makes it correct |
|---|---|---|---|---|
| OSPF adjacency (`ospf/exec/neighbor_fsm.c`, `dbdesc.c`, `lsrequest.c`, `lsack.c`, `hello.c`) | neighbour structure: state, DD sequence number, summary, request and retransmission lists, last packets | hello, DD, request, update and acknowledgement handlers; retransmission and inactivity timers | loss, overtaking timers, restart of one side in any state | the lists belong to the state, a packet to repeat always exists, one leader, both end up Full |
| OSPF link state database (`lsa.c`, `lsupdate.c`, `lsa_router.c`, `lsa_network.c`) | LSAs by type, id, origin; flood flags; the global sequence number | originate, renew, install, flood, age, flush | instances on the wire in any order, LSAs of an earlier incarnation | no entry goes back, settled databases agree, LSAs of earlier incarnations go away |
| OSPF election (`drbdr.c`, `network_fsm.c`) | DR and BDR of a network, ballots of the neighbours | election, interface events | the ballot is run twice over mutated structures; hellos that claim or give up an office in any order | one DR, agreed on by all; the Backup takes over |
| OSPF routes (`spf.c`, `route.c`, `redist.c`, `range.c`, ...) | shortest path tree, route table | SPF run, route update, redistribution | equal cost paths, summarisation | the tree is the shortest path tree; the kernel follows it |
| RIP database (`rip/exec/rip_db.c`) | hash table of routes with two timers each; the kernel's and OSPF's copies | add, kill, age, free, announce, redistribute | orders of learning, worsening, losing and taking over equal cost routes | the kernel has what the database says; one timer runs; the listeners are told |
| RIP daemon (`main.c`, `rip_interface.c`, `rip_rx.c`, `callbacks.c`, `restart.c`) | interface membership, configuration, pending updates | interface, loopback and route messages; responses; commands; crash | messages older than the shared memory they refer to | a dead link is withdrawn, a live one comes back |
| Kernel interface (`librcp/kernel.c`) | the kernel's routing table | add, delete, equal cost variants | deletion that names neither protocol nor metric | nobody deletes another's routes |
| Router process (`router/exec`) | interfaces, static routes, ARP | link polling, address and route commands | link changes faster than their messages are read | every process hears every change |
| DHCP (`dhcp/exec`) | leases, the lease file, offers that wait for an ICMP probe | discover, request, decline, release, expiry, rewrite and reading of the file | a late or repeated request for an offer that has gone; a crash in the rewrite | an address has one holder; a lease survives a restart |
| DNS proxy (`dns/exec`) | request pool, cache, host table entries | query, answer, ageing, limits, host table updates | late, duplicate and crossed answers; updates lost with the connection | an answer goes to who asked; the host table wins |
| Supervision and IPC (`services/exec/proc_mon.c`, `*/rcp_init.c`, `librcp/mux.c`) | process table, watchdog counters, semaphore, sockets | start, count, check, kill and start again, forward a message | a process that dies while it starts, or holding the semaphore | a process that stopped is started again, and runs once |
| Shared memory allocator (`librcp/smem.c`) | one byte for each chunk, the last allocation | allocate, free | a walk that starts in the middle, in a full or fragmented memory | blocks never overlap; the walk ends |
| Log (`services/exec/log.c`) | list of messages, rate | store, make room, drop, clear | one of two allocations fails | no block is lost or used twice |
| Command parser and line, access lists, monitor, SNMP, NTP, web pages | configuration and files | | input and output | |

Components interact through shared memory (interfaces, configuration and
statistics: the router process writes `link_up`, RIP and OSPF read it), through
mux messages (`IFUP`, `IFDOWN`, `LOOPBACK`, `ADDROUTE`, `DELROUTE`, `ROUTE_RQ`)
and through the kernel's routing table.

Vendored code (`system/`: net-snmp, openntpd, pure-ftpd, telnet, tftp, xinetd)
is not part of the project.

## 2. Modules

| Module | Models |
|---|---|
| `OspfAdjacency`, `MCOspfAdjacency`, `OspfAdjacencyProofs`, `OspfExchangeProofs` | two OSPF routers on a broadcast link: neighbour state machine, database exchange, flooding |
| `OspfElection`, `MCOspfElection`, `OspfElectionProofs` | the election of DR and Backup from hellos, on a link with any number of routers |
| `RipDb`, `MCRipDb`, `RipDbProofs` | the RIP daemon: route database, kernel and OSPF copies, interfaces, commands |
| `DhcpLease`, `MCDhcpLease`, `DhcpLeaseProofs` | the DHCP server: leases, lease file, probes |
| `AddressPool` | what a DHCP server promises; `DhcpLease` implements it |
| `DnsProxy`, `MCDnsProxy`, `DnsProxyProofs` | the DNS proxy: requests, cache, host table, connection to the services process |
| `Supervisor`, `SupervisorProofs` | the watchdog and the start of the daemons |
| `Smem` | the shared memory allocator |
| `LogStore`, `LogStoreProofs` | the log, a user of `Smem` (composition by `EXTENDS`) |
| `Heap` | what users of an allocator rely on; `LogStore` with `Smem` implements it |

An `MC...` module holds the instances for TLC, a `...Proofs` module the theorems.

Operators whose comment says *mutant* are deliberately wrong variants of the
definition after them. Nothing uses them; they record, for each property, a
plausible mistake in the code that the property catches (`mutants` in
`PROJECT.json`).

### 2.1 OspfAdjacency

`nb[r]` is r's `OspfNeighbor` structure for its peer, `ls[r]` its link state
database (`db` keyed by LSA and `self_originated`; `flood` the entries with
`h.flood`; `here` those with `h.net_ip` of this network; `old` the instance that
`old_cnt` waits to overtake; `next` the global `seq_number`; `upd` the flag
`network_lsa_update`). `adj[r]` and `dr[r]` are the result of the election,
`chan[r]` the packets on the wire towards r, in order. `boot` counts restarts
and `env` how much of each bound is spent.

A handler is a composition of transformers of a record `[n, d, out]`, named for
the C functions: `StartAdj` (`start_adj`), `TwoWayReceived`, `OneWay`,
`SeqNumberMismatch`, `NegotiationDone`, `ExchangeDone`, `BuildDd`, `BuildReq`,
`ClearLsa`, `Flood` (`lsa_tx_network`), `Originate`, `Renew`, `Store`
(the body of `lsupdateRx`), `Elect` (the tail of `drbdrElection`). The actions:

* `HelloRx`, `HelloRxElect`: `helloRx`, without and with an interface event;
* `DdRxIgnored`, `DdRxMismatch`, `DdRxMaster`, `DdRxSlave`: `dbdescRx`, split by
  what it does with the packet;
* `LsReqRx`, `BadLsReqRx`, `LsUpdRx`, `LsAckRx`: the other packet handlers;
* `DdRxmt`, `LsReqRxmt`, `LsUpdRxmt`, `FreeLast`: the timers of `networkTimeout`;
* `NetLsaUpdate`, `AgeOut`, `OldTimer`, `FloodTimer`, `Refresh`, `ForeignFlush`:
  the timer branch of the main loop, one branch of `lsadbAgeAreaType` each;
* `WaitTimer`, `InactivityTimer`, `Restart`, and the environment's `Lose` and
  `Learn` (an update received on another interface).

Abstractions. LSA bodies are a tag (the incarnation that wrote them), standing
for what the checksum and `lsa_compare` tell apart. Ages are *fresh* or
*MaxAge*. MTU, options and authentication are equal on both sides. A timer may
fire whenever it is armed and its packet is not still on the wire; while
something is on the wire it may do so `MaxEarly` times, since the wire is faster
than timers of seconds but not always. The comparison of a new router-LSA with
the old one reads beyond the structure (`lsa_router.c:45` uses a length in
network byte order), so its outcome is left open where the contents are equal.
Who wins the election is left open within `Role`.

### 2.2 RipDb

`db` maps a key (type, prefix, next hop, announcing neighbour) to its element:
metric, the two countdown timers in eight bits, the update flag, the interface
and the place in the list of its hash bucket, because `find` returns the first
element of a prefix and a response lists them in this order. `kern` is the
kernel's table, `ext[p]` OSPF's copy of the redistributed route, `told[i][p]`
the metric that the listeners on interface i heard last. `link`, `joined`,
`cfg`, `trig`, `upd`, `mux` are `link_up`, `rip_multicast_ip`, the RIP
configuration, `static_update_trigger`, `ripdb_update_available` and the queued
interface messages.

One step is one database call. A handler that makes several puts them in
`todo`, and no other handler starts before it is empty; a crash may come between
any two. The calls are `ripdb_add` (four cases), `clean_route`, `list_timeout`
(`Age`, five cases), `Send`, and the loops `rip_update_interfaces`,
`_connected`, `_connected_subnets`, `_static`. The handlers are `Tick` (the timer
branch: interfaces, ageing, updates, the static trigger, redistribution),
`RxResponse`, `RxInterface`, `RxLoopback`, `RxAddRoute`, `RxDelRoute`,
`RxRouteRequest`, and the commands keep their names
(`cliNetworkCidrCmd`, `cliRedistStaticCmd`, ..., `cliClearIpRipCmd`). `Ops`
chooses which of them an instance uses.

If an element ever had both timers at zero, no case of `Age` would apply and TLC
would report a deadlock, which is what `ASSERT(0)` in `list_timeout` is.

Abstractions. Addresses and masks are names; the interval between full updates
and the 180 second redistribution timer may expire at any tick; malformed and
unauthenticated packets never reach the database and are left out. What OSPF
does with a route message is taken from `ospf/exec/main.c`: it keeps the last
one whose next hop is on an interface that is up.

### 2.3 DhcpLease and AddressPool

`leases` is the content of the three hash tables of `lease.c`, `file` and `tmp`
the lease file and the temporary file of its rewrite, as sequences of records,
`queue` the offers that `icmp.c` holds back, newest first, `last_ip` the address
assigned last in each network. `promise` is a history variable: what clients
were told in an acknowledgement and has not run out, been released or been
cleared by the administrator.

* `DiscoverKnown`, `DiscoverNew`: `process_discover`, with `AssignIp`
  (`assign_ip`) and `CanAdd` (what `lease_add` refuses); `Request`, `Decline`,
  `Release`: the other handlers of `dhcp_rx_server.c`. A message that is refused
  changes nothing and has no action.
* `EchoReply` (`get_icmp_pkt`), `Timer` (the timer branch: probe socket, probe
  queue, the bucket of this second, the hourly rewrite), `Advance` (the clock).
* `ClearAll`, `ClearLease`, `ServerEnable`, `ServerNetwork`: the commands.
* `Crash`, `CrashInUpdate` (inside `lease_file_update`: the temporary file stays
  and is appended to), `Restart`, `LoadRecord`, `LoadDone` (`lease_init`, a record
  at a time; `segv` is the null pointer of `lease.c:385`).

Clients are not restricted: any DISCOVER, REQUEST or DECLINE may arrive at any
time, which covers loss, delay and repetition. The exception is RELEASE, which
reaches the server before the client's next message or never: a delayed RELEASE
of a client that has since got the address again would end a lease that it
holds, in any server.

`AddressPool` has the pairs of client and address in force. An acknowledgement
must be a `Grant`: no other client holds the address and the client holds no
other. The mapping is `held <- {<<p.mac, p.ip>> : p \in promise}`.

### 2.4 DnsProxy

`active` holds the requests in use and `inactive` the length of the other list
of the pool of `dns_rq.c`; `cache` maps a query to its entry (`cname` says
whether it holds a packet, and whether that has been freed); `updates` counts the
messages of the services process on their way, `mux` is the connection to it,
`net` has the queries that a name server has received and may answer, any number
of times and in any order, `owed` counts the answers each client waits for.
`untold` is a history variable: the names that `no ip host` has taken out of the
host table since the proxy last read it.

`ClientDropped`, `ClientCached`, `ClientForwarded` are the ends of the handler of
a query (`dns_client.c`), `ServerAnswer` the handler of an answer
(`dns_server.c`), `Timer` the timer branch (ageing of requests and cache, rate
counter, sockets, reconnection), `RxUpdate` the message that the host table has
changed, `MuxLost`, `RxEof`, `Exit`, `Restart` the loss of the connection and what
follows; `IpHost`, `NoIpHostAll`, `IpNameServer`, `IpDnsServer`, `ClearIpHost` the
commands. `IpHost` (`ip host` and `no ip host` with a name) sends the proxy a
message; `NoIpHostAll` (`no ip host` alone, `services/exec/dns.c:207-218`) sends
none, so the names stay in the cache until another message, a `clear ip host` or
a restart has the table read again.
A forwarded query gets any transaction number that no active request uses.

### 2.5 OspfElection

`net[r]` is r's `OspfNetwork` (state, DR, BDR, priority, wait timer), `nbr[r][s]`
what it knows of s (state up to 2-Way, what s declared, inactivity timer),
`wire[s][r]` the hello on its way. `step2and3` is one round of the ballot over
what the routers declare and the set of those whose `bdr_election_sum` is not
zero; the second round reads what the first one cleared. Router ids break ties
of the priority, as the sums do. `InterfaceUp`, `InterfaceDown`, `networkTimeout`
(wait, inactivity and hello timers), `SetPriority` (`ip ospf priority`, which
holds no election), `helloRx` with the four events of `hello.c`. Time passes in
hello intervals (`Interval`): each router runs its timers once in an interval,
in any order, and a hello arrives within it or is lost.

### 2.6 Supervisor

`wproc`, `wmonitor`, `pid`, `noLogging` are the fields of the table in shared
memory, `st[p][i]` the stage of process i of daemon p, `sem` who holds the named
semaphore. `Enter`, `Name`, `Post` are `rcp_init` between its system calls, so
that a process can end, or be killed, at each; `Beat` is `wproc++` in the timer
branch; `Crash`, `Stick`, `Unstick`, `Exit` (the DNS proxy ends itself),
`CliRestartProcess` the disturbances; `rcp_monitor_procs` the check every ten
seconds, with kill and start. `beats` and `blamed` are history variables.

A period is long enough for a daemon to start and to count once, unless it is
stuck or waits for a semaphore that nobody will release (`PeriodOver`).

### 2.7 Smem, Heap and LogStore

`pmem` has the byte of each chunk, `walk` the loop of `rcpAlloc`: one step is
one turn (`Jump` over a block, `Skip` of a run that is too short, `Found`, the
second start at chunk 0 in `Wrap`, `GiveUp`). `LogStore` adds the list of
messages and where `logStore` is: `Message`, `Allocating`, `EntryDone`, `MakeRoom`, `RemoveLast`, `GiveUpMessage`,
`Link`, and between calls `RateTimer` and `ClearLogging`. `Heap` knows blocks
only: `Take` adds a block as long as asked for that shares no chunk with
another, `Release` removes some. The mapping is `blocks <- Blocks`, the blocks
that the cells describe.

## 3. Runs

Each passing run ends within the bounds below; every action fires in one of
them. TLC checks deadlock except in `dhcp` and `election`, where the clock or
the number of times an interface goes down is bounded and nothing may be left to
do.

### 3.1 OSPF adjacency

Router ids 1 and 2, router 2 the DR; `DdMax` 2, `UpdMax` 1, so that the exchange
needs several packets. In `exchange` there is one external LSA, held in
different instances by the two routers, so that something has to be requested
and replaced, and `LsReqMax` is 2, so that an answer may be shorter than its
request. `MaxFaults` bounds the faults of all kinds together: one in `exchange`,
at any point of it, two in the other runs. `MaxDd` bounds the DD sequence
numbers and is not reached by these instances.

| Run | Environment | Property |
|---|---|---|
| `exchange` | one of: a loss, an early timer, a restart or a dead interval of the DR, a refresh, a new instance, a re-election | `TypeOK`, `ListsFollowState`, `RetransmissionArmed`, `HigherIdIsMaster`, `FullHasPeerDatabase`, `UndisturbedAgree`, `NeverOlder` |
| `restart` | a restart of the DR and a change, in any order, or a restart of the other router and then an early timer (constraint `RestartCases`; reaches LSAs of an earlier incarnation, and BadLSReq) | `OldIncarnationOvertaken` |
| `live` | a restart of either router, no loss, fair | `EventuallyFull` |
| `loss_live` | one loss, fair; ends in a counterexample (3.8) | `EventuallyFull` |

### 3.2 RIP

Two interfaces, one or two neighbours, one remote prefix. The update timer is 1
(and 2), so that the timeout is 6 ticks and garbage collection 4: elements live
long enough to be refreshed, replaced and revived at each value of both timers.

| Run | Operations | Property |
|---|---|---|
| `rip_links` | two neighbours; responses with metrics 1, 2, 16; link changes; fair | `TypeOK`, `OneMetric`, `ToldCurrent`, `RedistHasRoute`, `KernelMatches`, `Withdrawn`, `Recovered` |
| `rip_commands` | responses, static and OSPF redistribution, route requests, loopbacks, clear, no router rip, crash | `KernelMatches` |
| `rip_connected` | a neighbour announces an interface's network; connected routes and networks come and go; the update timer changes | `ToldCurrent`, `TimersRun` |

`KernelMatches` is in two runs: with two neighbours, so that equal cost routes are
installed, replaced and deleted, and with one and all that can take a route over
or lose it.

The interface messages of these runs are read before the link changes again
(`MaxQueue` 1, no `flap`); section 3.8 says what happens otherwise.

### 3.3 DHCP

`dhcp`: two clients, two addresses, one of them the static address of the second
client and inside the range, so that both compete for it. An offer lasts one
second, a lease two, the wheel has two buckets, so that a bucket holds leases
that are not due, and the clock runs to 3: an address is granted, runs out and is
granted to the other client. One command or crash, at any point. It checks
`TypeOK`, `PromiseKept` (an acknowledged lease is in the table of a serving
process for as long as the client was told, across crashes, restarts and
rewrites of the file) and `PoolSpec`, the refinement.

### 3.4 DNS

`dns`: one client, a name that may be in the host table and one that may not,
two servers, a pool of two requests, two transaction numbers (as few as
possible, so that a number is soon in use again when a late answer comes), and
two of: commands, lost connections. `RequestPool` and `AnswersOwed` say that no
request is lost and no client gets an answer it does not wait for;
`StaticCurrent` that the host table wins as long as nothing is on its way, and
that a name which is no longer in it goes, unless `no ip host` removed it and
the proxy was not told (`untold`; section 3.8 has what happens then);
`HostsServed` and `RequestsEnd` that it does so in the end, and that every
request ends. With three disturbances, so that a host is configured, removed by
`no ip host` and the table read again for another command, the properties hold
too; that takes a little more than five minutes.

### 3.5 Election

`election`: two routers, the first with priority 0 or 2, a dead interval of four
hellos (the code's default ratio), two interface failures, one command, one lost
hello. `NeverBoth`; `Settles`, without losses and commands; `BackupTakesOver`.
With one loss the routers may disagree for good (3.8), which is why `Settles` has
its condition. Two routers are enough for both rounds of the ballot, a
contested office, and a Backup that takes over; with three, `Settles` takes
longer than five minutes.

### 3.6 Supervisor

`supervisor`: two daemons, one of which exits by itself, three process slots
each, counters modulo 5 (so that they wrap, and meet an old copy), up to two
signs of life in a period, three faults. `SilenceNoticed`, `OneInstance`,
`Recovers`.

### 3.7 Log

`log`: nine chunks, cells of two bits, entries of one chunk, texts of one to
three, one message removed at a time: memory fills up, fragments, and both
allocations fail with and without room to make. `NothingLost`, `HeapSpec` (the
refinement), `Returns`.

### 3.8 Disagreements

`loss_live` checks what a comment of the code says and ends in a
counterexample; its finding in `PROJECT.json` quotes the lines. The slave drops
a duplicate DD packet instead of repeating its own; after one loss the master
stays in Exchange.

The modules state more properties that a comment, a log message or a definition
of the code promises and the code does not keep. They have no run of their own;
the change of a cfg in the table, with the property in place of its properties,
shows each of them. *One change* stands for `MCRestart.cfg` with `MaxBoot = 0`,
`MaxEarly = 0` and without its constraint.

| Property | Cfg | What happens |
|---|---|---|
| `SettledAgree` | one change | An LSA that changes between the snapshot and Full is never sent (`lsa.c:359`, `613`; `neighbor_fsm.c:459` "neighbor %d.%d.%d.%d synchronized"). |
| `RxmtUntilReceived` | one change | The acknowledgement of an old instance stops the retransmission of a new one (`lsack.c:130`; `lsack.c:24` "To make the flooding of LSAs reliable, flooded LSAs are explicitly acknowledged"). |
| `NoOldIncarnation` | one change, `MaxBoot = 1` | An LSA of the earlier incarnation with the same sequence number survives (`lsupdate.c:370`, `378`). |
| `FlushedByRecent` | one change, `MaxDead = 1`, `Faulty = {2}` | A MaxAge copy of an old instance ages the current one (`lsupdate.c:388`). |
| `OneDr` | `MCElection.cfg`, `Prio <- EqualPrio`, `MaxDown = 0`, `MaxCmd = 0` | After a lost hello both elect themselves; reaching 2-Way holds no election (`neighbor_fsm.c:296-345`; `network_fsm.c:205-210` "Bidirectional communication has been established to a neighbor"). With `Dead = 3` they may also disagree on the Backup for good: the second round is skipped when there is none (`drbdr.c:309`). |
| `TimeoutSpansUpdates` | `MCRipLinks.cfg`, `Timers = {43}`, `DefaultTimer = 43`, `Ops = {"rx"}`, `Nbr = {n1}` | Six times 43 seconds is 2 in eight bits (`rip_db.c:35`; `rip.h:46`, and the command accepts 5 to 60). |
| `FullHasPeerDatabase` | `MCExchange.cfg`, `Faulty = {1}`, `MaxDead = 0`, `MaxChange = 0`, `MaxFaults = 2`, `DdMax = 1`, `MaxDd = 2000`, and 300 for the `Epoch` of router 2 | A slave that restarts in an exchange takes the repeated first packet of the master for a new exchange. The master takes the reply of the slave's last life and drops the new one, its Init bit set or not, as a duplicate: the number is tested before the bits (`dbdesc.c:292`). It becomes Full without the LSAs of the new reply. |
| `Recovered` | `MCRipLinks.cfg`, `Ops = {"link", "flap"}`, `MaxQueue = 2` | A link that is up again before IFDOWN is read never gets its network route back (`main.c:193`, `rip_interface.c:59`, `95`; `rip_interface.c:48` "call this function periodically to update multicast group and rip networks"). |
| `AnnouncedReachable` | `MCRipLinks.cfg`, `Nbr = {n2, n3}`, `Ops = {"rx"}` | A dead equal cost route later in the list makes the prefix unreachable to the listeners (`rip_db.c:683`). |
| `RedistHasRoute` | `MCRipLinks.cfg`, `Ops = {"rx", "request"}` | OSPF is given dead routes on request and never told to drop them (`rip_db.c:710`). |
| `RedistGw` | `MCRipLinks.cfg`, `Nbr = {n1, n2, n3}`, `Ops = {"rx"}` | OSPF is given the next hop of a dead route of the bucket (`rip_db.c:214`). |
| `StaticKept` | `MCRipCommands.cfg`, `StaticRt <- StaticViaN1` | Deleting a RIP route deletes a static one with the same prefix and next hop (`librcp/kernel.c:83`). |
| `ToldCurrent` | `MCRipCommands.cfg` | A deleted loopback is announced with metric 1 until it is freed (`rip_db.c:664`). |
| `LeasesReadable` | `MCDhcp.cfg`, `HostIp <- NoHosts`, `Ops = {"crash"}` | A client that got a second address has two records; `lease_init` uses the lease that `lease_add` refused (`lease.c:385`; `lease.c:355` "initialize hash tables and read current leases"). |
| `AnswerStopsOffers` | `MCDhcp.cfg`, `HostIp <- NoHosts`, `Foreign = {1}`, `Ops = {}`, `MaxFaults = 0`, `MaxQueue = 2` | Of two offers of an address only one is stopped by the answer (`icmp.c:76-115`; `icmp.c:186` "we didn't receive any response to our ping, forward the  dhcp packet"). |
| `DisabledIsClosed` | `MCDns.cfg` | `no ip dns server` without waiting requests leaves the socket open (`callbacks.c:91-101`). |
| `StaticIsAddress` | `MCDns.cfg` | A CNAME packet is freed and stays in the entry that is made static (`dns_cache.c:256`). |
| `RemovedForgotten` | `MCDns.cfg` | `no ip host` removes every host and, unlike the commands for one host (`services/exec/dns.c:237`, `275` "send dns update message to dns proxy"), sends no message: the proxy goes on serving them (`dns.c:207-218`). |
| `BlameJustified` | `MCSupervisor.cfg` | A daemon that started since the last check is killed and reported when its counter has just reached the old copy (`proc_mon.c:51` "process %s not responding, restarting..."). |
| `AllSent` | `MCLog.cfg` | The first message of an empty log is not sent (`log.c:317-321`; `log.c:327` "send log message to all syslog servers"). |

A comment of the allocator gives 256 chunks as the largest block (`smem.c:31`).
Such a block has 0 in its first cell and looks free; `LogConstants` leaves it out,
and the log asks for 65 chunks at most.

### 3.9 Fairness

`OspfAdjacency!Fairness`: weak fairness of hello, packet reception and the wait
timer (the loop reads what arrives, hellos are periodic); strong fairness of the
retransmission and LSA timers, because a packet on the wire disables them for a
moment and the one second branch runs again and again. Nothing is assumed of
losses, restarts, dead intervals, refreshes and re-elections: they may happen
within their bounds or never.

`RipDb!FairSpec`: weak fairness of the loops (a running handler ends), of
reading an interface message and of the timer branch. That the timer branch runs
is an assumption on the traffic: the code runs it only when `select` times out
(a hazard noted in `PROJECT.json`). Nothing is assumed of neighbours, commands
and links.

`DnsProxy!FairSpec`: weak fairness of the timer branch (the same assumption), of
reading a message or the end of the connection, of a process that has decided to
exit, and of its restart, which `Supervisor` is about. Nothing is assumed of
clients, servers and commands.

`OspfElection!FairSpec`: each router's timers run in every interval, a hello on
the wire arrives or is lost, intervals end. Nothing is assumed of losses,
failures and commands.

`Supervisor!Fairness`: the steps of a start and the first sign of life in a period
are weakly fair, the semaphore is strongly fair to a process that waits (other
processes may take it first), and the check runs: the services process forces
its timer branch when it falls behind the clock. A stuck daemon need not come
back.

`LogStore!FairSpec`: `logStore` goes on with what it has begun.

## 4. Proofs

Nothing is bounded in the theorems: `Ext`, the packet sizes, the sets of
interfaces, neighbours and prefixes, the hash function and the limits `MaxLoss`,
`MaxBoot`, ... are arbitrary values that satisfy the named assumptions of the
modules (`IdAssumption`, `SizeAssumption`, `BoundAssumption`;
`ShapeAssumption`, `NumberAssumption`; `DhcpAssumption`; `DnsAssumption`;
`ElectionAssumption`; `ConstantsOK`; `SmemConstants`, `LogConstants`). One of
them comes from a command's handler: a lease time is not 0, because
`dhcp/exec/callbacks_server.c:388-393` replaces an all-zero one by the default.

**OspfAdjacencyProofs.** `TypeCorrect`, `ListsSafe`, `AlwaysArmed` and
`LeaderAgreed` prove `TypeOK`, `ListsFollowState`, `RetransmissionArmed` and
`HigherIdIsMaster`. The inductive invariant `IInv` is the conjunction of the
four: none is inductive alone. That Loading has a request to repeat rests on the
lists (the request list is not empty when the exchange ends in Loading), that
the lists are empty when an exchange starts rests on the state and on who leads.
Each is about one neighbour structure, so the proof shows transformer by
transformer that a good structure stays good (`...Good`), and action by action
that the step is such a transformation (`...Inv`). `Between` describes the
structure in the middle of `dbdescRx`, where the invariant does not hold.

`NewerOnly` proves the action property `NeverOlder`. It needs `NumbersSpent`
besides `IInv`: what a router originated has a number below its global
`seq_number`, so that an origination, which takes that number, is newer than
what it replaces. Every handler but `lsupdateRx` is a sequence of removals and
originations (`Evolves`, which is transitive); `lsupdateRx` compares before it
stores.

**OspfExchangeProofs.** `FullHasDatabase` proves `FullHasPeerDatabase`: a router
that has just become Full has every LSA of its neighbour that no flooding could
have brought it. `SlaveFullHasDatabase` says it of the slave only and without a
condition on who restarts; `UnfailingFullHasDatabase` of both when no router
fails. Any number of packets may be lost, duplicated by retransmission or
overtaken by timers.

The property is about one moment, so `ExchangeInv` says at every moment of an
exchange what is still to come. `Led` is the exchange as the master leads it: no
number on the wire or with the slave is beyond the master's (`DdBounded`), the wire
holds one packet per number, and of the current number the last one sent
(`DdCurrent`), the two are never more than one number apart (`DdAcked`), nothing
on the wire is older than one number back or ahead of what the slave expects
(`DdWindow`), the summary is whole while the first packet is under way
(`DdFirst`), and what the slave has neither got nor asked for is in the rest of
the master's summary or in its last packet (`SlaveCovered`). `Paired` is the
exchange as the master sees it: what it has neither got nor asked for is in the
rest of the slave's summary or in the slave's last answer (`MasterCovered`), the
first packet is answered only from Exchange (`Synced`), and no request reaches the
slave before the master has left Exchange (`NoStrayRequest`); a request for an LSA
that is not there would send it back to ExStart. Every action is shown to be a
step of one of eight kinds (`Stays`, `Begins`, `Drops`, `Repeats`, `Continues`,
`Concludes`, `Follows`, `Keeps`), and each kind keeps each part, so the protocol
argument is made about the kinds and not about the handlers.

Two hypotheses are needed, and the instance `exchange` satisfies both. A master
that restarts takes its first number from the clock (`neighbor_fsm.c:184-185`), so
`ClockAhead` asks that the clock has passed the numbers it used in its last
life; with an `Era` of 0 the numbers of two lives collide and TLC finds an old
reply accepted for a new packet. The slave must not restart in an exchange
(`R1 \notin Faulty`): section 3.8 has the counterexample.

`UndisturbedAgreed` proves `UndisturbedAgree`, without a hypothesis: as long as
no router has failed and no LSA has changed, two routers that are Full and have
nothing left to read, to flood or to repeat have the same instance of every LSA,
for all databases, packet sizes, losses and early timers. Once something has
failed or changed the property says nothing, and so does the invariant `CalmInv`,
which is `IInv` and, while `Calm`, `ExchangeInv`, `Answers` and `Orderly`; `Calm`
cannot come back (`CalmBefore`). `Orderly` has four parts, one for each way the
agreement could fail:

* `Genuine`: every instance that is held, described, sent or kept for
  retransmission is the one its originator has, or one of the two that the
  routers booted with of an external LSA; nobody asks for what the other does not
  have (so there is no BadLSReq). Without it agreement would not follow from
  completeness: two complete databases could hold different instances.
* `Started`: an adjacency starts after the election, and the election originates
  the router-LSA, so the summary of every exchange has it.
* `Exchanging`: there is one exchange, whose numbers start at the clock of the
  master's boot (`Once`), the slave ends it with one last answer and the master
  with that answer (`Done`), so no router falls back into ExStart, and the two
  router-LSAs get across in it (`SlaveLearns`, `MasterLearns`). Those
  are usually dequeued for flooding before the neighbour is Full, when flooding
  sends nothing: the exchange has to carry them.
* `Told`: the network-LSA, originated when the adjacency is Full already and too
  late for the exchange, is queued for flooding, on the retransmission list or
  with the peer.

The external LSAs get across as in `UnfailingFullHasDatabase`, which the proof
uses; that both routers then have the newer of the two instances is the bound
from above in `Genuine` together with the bound from below in `Inventory`.

**RipDbProofs.** `RipTypeCorrect`, `RipTimersRun` and `RipEqualCost` prove
`TypeOK`, `TimersRun` and `OneMetric` from `DbInv`: the elements are well typed,
places in a bucket are unique (`Listed`; without it "the last element" of a
prefix is not one element), exactly one timer runs (`Timed`), usable RIP routes
of a prefix have one metric (`Even`), and `todo` only holds calls the
configuration allows, so that no route is added with metric 0. `TimersRun` uses
that 6t and 4t are no multiples of 256 for the timers the command accepts.

`RipKernelFollows` proves `KernelMatches` under `NoSharedHop`: no static route has
the prefix and the next hop of a possible RIP route. With one, RIP deletes the
static route in place of its own (section 3.8).
`KernelInv` adds to `DbInv` that the static routes are in the kernel, exactly,
and that every prefix is *settled* (the kernel has its route) or *pending*: after
`clear ip rip`, `rtclean` has removed all RIP routes and the loop that kills the
elements has still to visit those of the prefix. Every database call re-installs
exactly one prefix, and `ReinstallSettles` shows that what `ecmp_del` names is
what is there.

`RipRedistHasRoute` proves `RedistHasRoute` when neither `crash` nor `request` is
among the operations: a crash of the RIP daemon leaves OSPF its copies, and a
route request gives OSPF dead routes (section 3.8). Between those two every
database call takes the copy of its prefix away and gives it back only for a
usable route, so the property also holds inside a handler (`HasRoute`).

`RipToldCurrent` proves `ToldCurrent` without loopbacks and crashes: the subnet
of a loopback is announced with metric 1 even when it is deleted, and a crash
loses the elements but not what neighbours heard. The property is about the time
between updates; `ToldInv` says what makes it true at the next one. Either an
element still says what was announced or one of its prefix is marked for the
next update (`CurrentOrNews`), a mark raises the flag of the timer branch
(`NewsFlagged`), only interfaces in use were announced on (`ToldWhileUp`), and
a dead element that is marked is not freed before the update is sent
(`NewsLast`): garbage collection takes four seconds at least, and only one is
taken off between two looks at the flag, because ageing and sending are in one
timer branch in this order (`TickOrder`). `JoinedFirst` is about the loop before
it, which joins interfaces that the update has to reach. The instance
`rip_links` satisfies the conditions of both theorems.

**DhcpLeaseProofs.** `DhcpTyped`, `LeasesRemembered` and `ServesPool` prove
`TypeOK`, `PromiseKept` and the refinement `PoolSpec`; `NoAddressTwice` combines
the last with a lemma about `AddressPool`: no two clients hold an address at the
same time. `PromiseKept` speaks of a serving process and says nothing while it is
down, so `DhcpInv` says where a promise is kept then: the last record of its
address in the lease file backs it (`OnFile`), and while `lease_init` reads the
file, the records read so far have made their leases (`Loaded`). A later record
of the address would replace the lease; none is appended, because a client and
an address lead to one lease each (`UniqueKeys`). The rewrite of the file puts
the table, which has one lease of the address, behind whatever a crash had left
in the temporary file, and what expired in the same second backs no promise,
because a promise ends with its lease (`PromisesRun`).
The refinement follows: an acknowledgement needs a lease of this client with
this address, and anybody else's promise would have one too.

**DnsProxyProofs.** `DnsTyped`, `PoolKept`, `NoUnaskedAnswer` and `HostTableWins`
prove `TypeOK`, `RequestPool`, `AnswersOwed` and `StaticCurrent`. `DnsInv` is
their conjunction with the finiteness of the active list: the length of the
inactive list stays within its bounds because of the count of the active
requests, the count survives `rq_timer` because transaction numbers are unique
(two requests that age do not become one), and an answer is owed because the
count is kept for each client and query. `StaticCurrent` is inductive by itself:
an answer never replaces an entry, the timer removes no marked one, every reading
of the table marks exactly its names, and what `no ip host` removes was marked
for a name that it puts into `untold`.

**OspfElectionProofs.** `ElectionTyped` and `ElectionNeverBoth` prove `TypeOK` and
`NeverBoth` for any number of routers; the run has two. The core is about
`drbdr.c` alone. One round of the ballot may leave the router both, when nobody
claims to be DR and the Backup is promoted; the second round is then held,
because the router's own position has changed, and ends well because the router
either counts as a DR or has given up its claim to be Backup. `ElectInv` adds
that every neighbour that is known has time left on its inactivity timer
(`Ticking`).
That a finite set of candidates has a best one, and that the timers of all
neighbours can be run in any order, are inductions over a number; they are
proved by a least counterexample (`LeastNumber`), because the induction
theorems of the library cannot be used with these provers.

**SupervisorProofs.** `ProcTyped`, `ProcOnce` and `SilentRestarted` prove `TypeOK`,
`OneInstance` and `SilenceNoticed`. The inductive invariant `ProcInv` says that the semaphore
belongs to the process that initialises itself (`HolderInit`), that the recorded
process is the one that filled the entry (`RecordedPid`), that at most one
process of a daemon is past `sem_wait` (`OnePast`), that none other runs until a
process has ended with the semaphore (`OneRuns`), and that a daemon that has
exited by itself has no process left (`ExitedGone`). `OneInstance` needs all of
it: the check kills the recorded process, which is the only one because a
process is recorded before it lets go of the semaphore and starts within a period. What
`SilenceNoticed` says of the counters follows with `ConstantsOK`: a counter does
not go all the way round within a period.

**LogStoreProofs.** `LogHeap`, `LogTyped` and `HeapImplemented` prove `CellsOK`
and `NothingLost`, `TypeOK`, and that the log's heap implements `Heap`. The
inductive invariant `Inv` adds `Control`, which relates where `logStore` is to
the state of the walk. `CellsOK` speaks of every cell of the rest of a block and
not only of its first one, so that what a freed or found run does to the cells
follows without induction over its length: `FoundBlock` (writing n, n - 1, ..., 1
into a free run adds one block and leaves the others) and `FreedBlocks`
(clearing the cells of some blocks removes those blocks only) carry the proof.
`HeapImplemented` then maps the turn of the walk that finds a block to `Take` and
the steps that free to `Release`.

**Only model-checked.** The liveness properties (`EventuallyFull`, `Withdrawn`,
`Recovered`, `HostsServed`, `RequestsEnd`, `Settles`, `BackupTakesOver`,
`Recovers`, `Returns`), which are out of the prover's reach, and one invariant of
`OspfAdjacency`. `OldIncarnationOvertaken` is `UndisturbedAgree` across restarts:
an inductive invariant would have to say of every instance of an earlier
incarnation, in the peer's database, in its summary, in a request, in an update
or on a retransmission list, that it will still reach its originator, in
exchanges that restart at any point. `Genuine` and `Once`, on which
`UndisturbedAgreed` rests, are false then.

## 5. Not modelled

* OSPF: three or more routers in an exchange (DROther, implied acknowledgements,
  the AdjOK branch that dissolves an adjacency), several areas, summary and
  external LSA origination, sequence number wrap, SPF and routes, the batching
  of flooded LSAs, neighbour limits.
* RIP: the limit of 32000 routes, requests (they only read), authentication,
  passive interfaces, unicast neighbours, default-information originate, changes
  of an interface's address, static routes configured while RIP runs, VLAN
  messages. The kernel keeps its routes when a link goes down: only what RIP
  asks of it is modelled.
* DHCP: the relay (it keeps no state), INFORM (it changes nothing), options,
  configuration of ranges, lease times and hosts while the server runs, failing
  writes of the lease file, a lease file that does not exist, the debug command
  that adds test leases.
* DNS: packet formats, source ports, statistics, the limit of 1024 hosts.
* Supervision: the multiplexer's forwarding of packets between processes.
* Log: readers in other processes (`http/html.c:235`), which walk the list
  without a lock.
* The components marked `not_modelled` in `PROJECT.json`, with the reason. By
  far the largest part of the repository's lines are vendored packages under
  `system/`, which are not this system's logic.

What can go wrong and is left to reading the code: sequence numbers of LSAs that
wrap (`ospf/exec/lsa.h:172`); `flush_flooding`, which walks one queue where the
other was filled (`lsa.c:653`); the limit of adjacencies, which AdjOK does not
apply (`neighbor_fsm.c:312`); RIP routes that stay in OSPF when the RIP daemon dies
(`rip/exec/main.c:40`); timer branches that steady traffic postpones
(`rip/exec/main.c:89`); a lease that could not be stored and is acknowledged
(`dhcp/exec/lease.c:304`); `declined`, which is never reset
(`dhcp_rx_server.c:439`); the DNS rate counter, which wraps in 16 bits
(`dns_client.c:141`); the 1025th host, for which `ip host` uses a null pointer
(`services/exec/dns.c:266`); a daemon that takes longer than a period to start
(`proc_mon.c:65`).

## 6. Plan

1. *Done*: `OspfAdjacency`, `RipDb`, `OspfElection`, `DhcpLease`, `DnsProxy`,
   `Supervisor`, `Smem` and `LogStore` with their runs; the refinements of
   `AddressPool` and `Heap`; the theorems of section 4.
2. *Done*: every safety property of the runs but one has a theorem.
   Left: `OldIncarnationOvertaken`.
3. Refinement: an abstract route table ("the equal cost routes of the best
   metric") that `RipDb` implements under the mapping of `KernelMatches`.
4. `Mux`: forwarding between processes, composed with `RipDb`'s interface messages
   and `Supervisor` to find where a restart loses one.
5. `OspfSpf`: the tree and next hops as operators, against a reference definition
   of shortest paths on small graphs.
