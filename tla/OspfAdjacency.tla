---------------------------- MODULE OspfAdjacency ----------------------------
(* Two OSPF routers of RCP100 on one broadcast link: hello, the neighbour     *)
(* state machine, the Database Description exchange, link state requests,     *)
(* updates and acknowledgements, flooding and the retransmission timers,      *)
(* over FIFO channels that may lose packets, with router restarts.            *)
(*                                                                            *)
(* Each daemon runs one select loop, so every packet handler and every timer  *)
(* branch is one atomic step.  A handler is a composition of transformers of  *)
(* a record [n, d, out]: the neighbour structure, the link state database and *)
(* the packets sent.  Abstracted: MTU, options and authentication (equal on   *)
(* both sides), LSA bodies (a content tag "val"), LSA age (fresh or MaxAge),  *)
(* timer values (a timer may fire whenever it is armed).                      *)
EXTENDS Naturals, Sequences, FiniteSets

CONSTANTS R1, R2,       \* router ids, R1 < R2
          Ext,          \* external LSAs, originated by routers elsewhere
          ExtSeq,       \* ExtSeq[r][e]: the instance r holds when it boots, 0 for none
          DdMax,        \* OSPF_DD_MAX: headers in one DD packet
          LsReqMax,     \* OSPF_LS_REQ_MAX: LSAs in one LS request
          UpdMax,       \* LSAs that fit in one LS update (OSPF_MAX_PAYLOAD)
          Epoch, Era,   \* time(NULL) at r: Epoch[r], and Era more per restart or dead interval
          Role,         \* Role[r]: whether r may win, or lose, the election of the DR
          Faulty,       \* routers that may restart, or miss hellos for a dead interval
          MaxLoss,      \* bound: packets lost
          MaxBoot,      \* bound: restarts, over both routers
          MaxDead,      \* bound: inactivity timer expirations
          MaxEarly,     \* bound: timers that fire before the wire is quiet
          MaxChange,    \* bound: topology changes, refreshes and re-elections
          MaxFaults,    \* bound: all of the above together
          MaxDd         \* bound: DD sequence numbers

ASSUME IdAssumption == R1 \in Nat /\ R2 \in Nat /\ R1 < R2

Router == {R1, R2}

ASSUME SizeAssumption ==
  /\ IsFiniteSet(Ext)
  /\ DdMax \in Nat \ {0} /\ LsReqMax \in Nat \ {0} /\ UpdMax \in Nat \ {0}
  /\ Epoch \in [Router -> Nat] /\ Era \in Nat
  /\ Role \in [Router -> SUBSET BOOLEAN] /\ Faulty \subseteq Router
  /\ ExtSeq \in [Router -> [Ext -> Nat]]

ASSUME BoundAssumption ==
  /\ MaxLoss \in Nat /\ MaxBoot \in Nat /\ MaxDead \in Nat /\ MaxEarly \in Nat
  /\ MaxChange \in Nat /\ MaxFaults \in Nat /\ MaxDd \in Nat

VARIABLES nb,     \* nb[r]: r's OspfNeighbor structure for its peer
          ls,     \* ls[r]: r's link state database
          adj,    \* adj[r]: r has elected a DR, so become_adjacent() is true
          dr,     \* dr[r]: r's interface is in state DR (else BACKUP, once adj[r])
          chan,   \* chan[r]: packets on the wire towards r
          boot,   \* boot[r]: restarts of r
          env     \* how much of the bounded environment is spent

vars == <<nb, ls, adj, dr, chan, boot, env>>

Peer(r) == IF r = R1 THEN R2 ELSE R1

(* NSTATE_* of area.h *)
DOWN == 0
INIT == 2
TWOWAY == 3
EXSTART == 4
EXCHANGE == 5
LOADING == 6
FULL == 7

(* LSA identities: one router-LSA and one network-LSA per router, and Ext *)
Rtr(r) == <<"rtr", r>>
Net(r) == <<"net", r>>
Lsa == {Rtr(r) : r \in Router} \union {Net(r) : r \in Router} \union {<<"ext", e>> : e \in Ext}

(* An LSA instance: identity, sequence number (0: no instance), a tag for the *)
(* contents that the checksum covers, and whether its age is MaxAge           *)
Inst == [l : Lsa, seq : Nat, val : Nat, max : BOOLEAN]
NoInst(l) == [l |-> l, seq |-> 0, val |-> 0, max |-> FALSE]

(* A database entry is keyed by identity and h.self_originated *)
Key == Lsa \X BOOLEAN

Chunk(S, max) == {c \in SUBSET S : Cardinality(c) = IF Cardinality(S) < max THEN Cardinality(S) ELSE max}

(* ------------------------------- packets -------------------------------- *)
NoPkt == [t |-> "none"]
Dd(i, m, ms, seq, hs) == [t |-> "dd", init |-> i, more |-> m, ms |-> ms, seq |-> seq, hs |-> hs]
LsReq(ids) == [t |-> "req", ids |-> ids]
LsUpd(hs) == [t |-> "upd", hs |-> hs]
LsAck(hs) == [t |-> "ack", hs |-> hs]

(* --------------------------- link state database ------------------------ *)
(* A booting router: external LSAs of its other interfaces, nothing else *)
BootLs(r) ==
  [ db    |-> [k \in Key |-> IF k[1][1] = "ext" /\ ~k[2]
                             THEN [NoInst(k[1]) EXCEPT !.seq = ExtSeq[r][k[1][2]]]
                             ELSE NoInst(k[1])],
    flood |-> {},                       \* entries with h.flood set
    here  |-> {},                       \* entries with h.net_ip = this network
    old   |-> [l \in Lsa |-> 0],        \* h.old_self_originated_seq while h.old_cnt runs
    next  |-> 1,                        \* seq_number
    upd   |-> FALSE ]                   \* network_lsa_update

Present(d, k) == d.db[k].seq > 0

(* lsadbFindHeader, lsadbFindRequest: a self-originated entry is found first *)
Found(d, l) == IF Present(d, <<l, TRUE>>) THEN d.db[<<l, TRUE>>] ELSE d.db[<<l, FALSE>>]

Snapshot(d) == {d.db[k] : k \in {kk \in Key : Present(d, kk)}}

lsadbRemove(d, ks) ==
  [d EXCEPT !.db = [k \in Key |-> IF k \in ks THEN NoInst(k[1]) ELSE @[k]],
            !.flood = @ \ ks,
            !.here = @ \ ks,
            !.old = [l \in Lsa |-> IF <<l, TRUE>> \in ks THEN 0 ELSE @[l]]]

(* lsa_originate_rtr / lsa_originate_net followed by lsadbAdd: the sequence   *)
(* number is spent even when the contents turn out to be unchanged            *)
Originate(d, l, val, changed) ==
  IF Present(d, <<l, TRUE>>) /\ ~changed
  THEN [d EXCEPT !.next = @ + 1]
  ELSE [d EXCEPT !.next = @ + 1,
                 !.db[<<l, TRUE>>] = [l |-> l, seq |-> d.next, val |-> val, max |-> FALSE],
                 !.flood = @ \union {<<l, TRUE>>},
                 !.old[l] = 0]

(* lsa_renew: a new instance with the same contents *)
Renew(d, l) ==
  [d EXCEPT !.next = @ + 1,
            !.db[<<l, TRUE>>] = [@ EXCEPT !.seq = d.next, !.max = FALSE]]

(* Mutant: replaces whatever copy is in the database *)
InstallsAny(d, h) ==
  LET f == Found(d, h.l)
  IN  IF f.seq = 0 THEN ~h.max ELSE ~Present(d, <<h.l, TRUE>>) /\ f.seq # h.seq

(* lsupdateRx, one LSA: not in the database and not MaxAge, or newer than a   *)
(* learned entry: install it and flood it later                               *)
Installs(d, h) ==
  LET f == Found(d, h.l)
  IN  IF f.seq = 0 THEN ~h.max ELSE ~Present(d, <<h.l, TRUE>>) /\ f.seq < h.seq

(* ... a copy that only sets the age of the database entry to MaxAge *)
Ages(d, h) ==
  h.max /\ Found(d, h.l).seq > 0 /\ (Present(d, <<h.l, TRUE>>) \/ ~(Found(d, h.l).seq < h.seq))

(* ... a newer copy of a self-originated LSA: start the three second timer *)
IsOldSelf(d, h) == ~h.max /\ Present(d, <<h.l, TRUE>>) /\ Found(d, h.l).seq < h.seq

Store(d, hs) ==
  LET new == {h \in hs : Installs(d, h)}
      newKeys == {<<h.l, FALSE>> : h \in new}
      aged == {<<h.l, Present(d, <<h.l, TRUE>>)>> : h \in {g \in hs : Ages(d, g)}}
      old == {h \in hs : IsOldSelf(d, h)}
  IN  [d EXCEPT !.db = [k \in Key |->
                          IF k \in newKeys THEN CHOOSE h \in new : h.l = k[1]
                          ELSE IF k \in aged THEN [@[k] EXCEPT !.max = TRUE] ELSE @[k]],
                !.flood = @ \union newKeys,
                !.here = @ \union newKeys,
                !.old = [l \in Lsa |-> IF \E h \in old : h.l = l
                                      THEN (CHOOSE h \in old : h.l = l).seq ELSE @[l]]]

(* --------------------------- neighbour structure ------------------------ *)
NoNb == [ state |-> DOWN, master |-> FALSE, ddseq |-> 0, more0 |-> FALSE,
          ddsum |-> {},       \* headers not yet acknowledged by the peer
          sent |-> {},        \* those of them in the last DD packet
          lsreq |-> {},       \* LSAs to be requested
          lastdd |-> NoPkt, lastreq |-> NoPkt,
          rxmt |-> {} ]       \* flooded and not acknowledged

Self(r) == [n |-> nb[r], d |-> ls[r], out |-> <<>>]

Send(x, p) == [x EXCEPT !.out = Append(@, p)]

(* dbdescBuildPkt *)
BuildDd(x, more, ms, c) ==
  LET ex == x.n.state = EXSTART
      p == IF ex THEN Dd(TRUE, TRUE, TRUE, x.n.ddseq, {})
                 ELSE Dd(FALSE, more, ms, x.n.ddseq, c)
  IN  Send([x EXCEPT !.n.lastdd = p, !.n.sent = IF ex THEN @ ELSE c], p)

(* time(NULL), read when the first adjacency of a neighbour structure starts; *)
(* a restart and a dead interval take longer than the exchange before them    *)
Time(r) == Epoch[r] + (env["boot"] + env["dead"]) * Era

(* start_adj *)
StartAdj(r, x) ==
  BuildDd([x EXCEPT !.n.state = EXSTART,
                    !.n.ddseq = (IF @ = 0 THEN Time(r) ELSE @) + 1,
                    !.n.master = TRUE], TRUE, TRUE, {})

(* the part of nfsmSeqNumberMismatch and of clear_lsa that empties the lists *)
ClearLists(x) == [x EXCEPT !.n.ddsum = {}, !.n.sent = {}, !.n.lsreq = {}, !.n.rxmt = {}]

(* clear_lsa: the peer's router-LSA and its network-LSA of this network go too; *)
(* they are flooded nowhere: the only neighbour has just left state Full        *)
ClearLsa(r, x) ==
  [ClearLists(x) EXCEPT !.d = lsadbRemove(@, {<<Rtr(Peer(r)), FALSE>>, <<Net(Peer(r)), FALSE>>})]

(* nfsm2WayReceived *)
TwoWayReceived(r, x) ==
  IF x.n.state # INIT THEN x
  ELSE IF adj[r] THEN StartAdj(r, x)
  ELSE [x EXCEPT !.n.state = TWOWAY]

(* nfsm1Way *)
OneWay(r, x) ==
  IF x.n.state >= TWOWAY THEN ClearLsa(r, [x EXCEPT !.n.state = INIT]) ELSE x

(* Mutant: the last packets are freed after start_adj instead of before it *)
SeqNumberMismatchLate(r, x) ==
  [StartAdj(r, ClearLists([x EXCEPT !.n.ddseq = @ + 1])) EXCEPT !.n.lastdd = NoPkt, !.n.lastreq = NoPkt]

(* nfsmSeqNumberMismatch, nfsmBadLSReq: called in state Exchange or greater *)
SeqNumberMismatch(r, x) ==
  StartAdj(r, ClearLists([x EXCEPT !.n.ddseq = @ + 1, !.n.lastdd = NoPkt, !.n.lastreq = NoPkt]))

(* nfsmNegotiationDone *)
NegotiationDone(x) ==
  [x EXCEPT !.n.state = EXCHANGE, !.n.more0 = FALSE, !.n.lastdd = NoPkt,
            !.n.ddsum = @ \union Snapshot(x.d)]

(* lsrequestBuildPkt *)
BuildReq(x, c) == Send([x EXCEPT !.n.lastreq = LsReq(c)], LsReq(c))

(* the transition to Full in nfsmExchangeDone and nfsmLoadingDone: the DR     *)
(* originates its network-LSA, which lists this neighbour                     *)
GoFull(r, x) ==
  [x EXCEPT !.n.state = FULL,
            !.d = IF dr[r] THEN Originate(@, Net(r), boot[r], FALSE) ELSE @]

(* Mutant: straight to Full, whatever is left to request *)
ExchangeDoneNoLoading(r, x, c) == GoFull(r, [x EXCEPT !.n.lastdd = NoPkt])

(* nfsmExchangeDone; c is the first LS request *)
ExchangeDone(r, x, c) ==
  LET y == [x EXCEPT !.n.lastdd = NoPkt]
  IN  IF x.n.lsreq = {} THEN GoFull(r, y)
      ELSE BuildReq([y EXCEPT !.n.state = LOADING], c)

(* Mutant: flooded once, not added to the retransmission list *)
FloodOnce(x, k, i, isdr) ==
  IF x.n.state = FULL /\ (isdr \/ k \notin x.d.here) THEN Send(x, LsUpd({i})) ELSE x

(* lsadbFlood on this network: lsa_tx_network sends nothing while the only    *)
(* neighbour is not Full, nor what a BACKUP router learned on this network    *)
Flood(x, k, i, isdr) ==
  IF x.n.state = FULL /\ (isdr \/ k \notin x.d.here)
  THEN Send([x EXCEPT !.n.rxmt = {j \in @ : j.l # i.l} \union {i}], LsUpd({i}))
  ELSE x

(* flood a MaxAge copy of entry k and remove it *)
FlushLsa(x, k, isdr) ==
  LET y == IF Present(x.d, k) THEN Flood(x, k, [x.d.db[k] EXCEPT !.max = TRUE], isdr) ELSE x
  IN  [y EXCEPT !.d = lsadbRemove(@, {k})]

(* lsa_originate_net_update *)
NetUpdate(r, x, isdr) ==
  IF isdr /\ x.n.state = FULL
  THEN [x EXCEPT !.d = Originate(@, Net(r), boot[r], FALSE)]
  ELSE FlushLsa(x, <<Net(r), TRUE>>, isdr)

(* An election in the interface state machine (netfsmWaitTimer,               *)
(* netfsmBackupSeen, netfsmNeighborChange): the tail of drbdrElection, AdjOK  *)
(* for the neighbour, a new router-LSA, and the network-LSA when the          *)
(* interface state changes.  Which router wins is left open here.  The        *)
(* comparison of the new router-LSA with the old one reads past both, so      *)
(* "changed" may be either when the contents are equal.                       *)
Elect(r, x, isdr, changed) ==
  LET x1 == IF isdr /\ x.n.state = FULL
            THEN [x EXCEPT !.d = Originate(@, Net(r), boot[r], FALSE)] ELSE x
      x2 == IF x1.n.state = TWOWAY THEN StartAdj(r, x1) ELSE x1
      d3 == Originate(x2.d, Rtr(r), boot[r], changed)
      x3 == [x2 EXCEPT !.d = IF isdr THEN [d3 EXCEPT !.upd = TRUE] ELSE d3]
  IN  IF ~adj[r] \/ isdr # dr[r] THEN NetUpdate(r, x3, isdr) ELSE x3

(* an election in a timer branch: network_lsa_update is served in the same branch *)
TimerElect(r, x, isdr, changed) ==
  LET y == Elect(r, x, isdr, changed)
  IN  IF y.d.upd THEN NetUpdate(r, [y EXCEPT !.d.upd = FALSE], isdr) ELSE y

(* -------------------------------- steps --------------------------------- *)
(* a handler took the first packet of chan[r] *)
Rx(r, x) ==
  /\ nb' = [nb EXCEPT ![r] = x.n]
  /\ ls' = [ls EXCEPT ![r] = x.d]
  /\ chan' = [chan EXCEPT ![r] = Tail(@), ![Peer(r)] = @ \o x.out]

(* a timer branch ran *)
Tick(r, x) ==
  /\ nb' = [nb EXCEPT ![r] = x.n]
  /\ ls' = [ls EXCEPT ![r] = x.d]
  /\ chan' = [chan EXCEPT ![Peer(r)] = @ \o x.out]

Arrived(r, t) == chan[r] # <<>> /\ Head(chan[r]).t = t

InFlight(r, p) == \E i \in 1..Len(chan[Peer(r)]) : chan[Peer(r)][i] = p

(* the counters of env, one per bound *)
Budget == {"loss", "boot", "dead", "early", "change"}

Spent == env["loss"] + env["boot"] + env["dead"] + env["early"] + env["change"]

Spend(what) == Spent < MaxFaults /\ env' = [env EXCEPT ![what] = @ + 1]

Quiet == \A r \in Router : chan[r] = <<>>

(* Timers run in seconds (RxmtInterval, or two ticks of the main loop before  *)
(* an LSA is flooded): by then what was sent has arrived or is lost, except   *)
(* for the bounded number of times that a timer overtakes the wire.           *)
TimerDue == IF Quiet THEN UNCHANGED env ELSE env["early"] < MaxEarly /\ Spend("early")

(* The peer's periodic hello (networkTimeout, helloBuildPkt) lists r unless   *)
(* the peer has no neighbour structure for r.  It is received when it is      *)
(* sent: a lost hello is a hello interval without this step.                  *)
HelloSeen(r) == nb[Peer(r)].state # DOWN

(* Mutant: a neighbour first heard of goes to NSTATE_ATTEMPT *)
HelloReceivedAttempt(r) ==
  LET x == Self(r)
      y == IF x.n.state = DOWN THEN [x EXCEPT !.n.state = 1] ELSE x
  IN  IF HelloSeen(r) THEN TwoWayReceived(r, y) ELSE OneWay(r, y)

(* helloRx up to the interface events: nfsmHelloReceived, then 2Way or 1Way *)
HelloReceived(r) ==
  LET x == Self(r)
      y == IF x.n.state = DOWN THEN [x EXCEPT !.n.state = INIT] ELSE x
  IN  IF HelloSeen(r) THEN TwoWayReceived(r, y) ELSE OneWay(r, y)

HelloRx(r) ==
  /\ Tick(r, HelloReceived(r))
  /\ UNCHANGED <<adj, dr, boot, env>>

(* helloRx when the hello also causes BackupSeen or NeighborChange *)
HelloRxElect(r, isdr, changed) ==
  /\ Tick(r, Elect(r, HelloReceived(r), isdr, changed))
  /\ adj' = [adj EXCEPT ![r] = TRUE]
  /\ dr' = [dr EXCEPT ![r] = isdr]
  /\ IF adj[r] /\ dr[r] \in Role[r] THEN env["change"] < MaxChange /\ Spend("change") ELSE UNCHANGED env
  /\ UNCHANGED boot

(* netfsmWaitTimer *)
WaitTimer(r, isdr, changed) ==
  /\ ~adj[r]
  /\ Tick(r, TimerElect(r, Self(r), isdr, changed))
  /\ adj' = [adj EXCEPT ![r] = TRUE]
  /\ dr' = [dr EXCEPT ![r] = isdr]
  /\ UNCHANGED <<boot, env>>

(* dbdescRx: an Init neighbour first becomes 2-Way or ExStart *)
DdReceiver(r) == TwoWayReceived(r, Self(r))

(* Mutant: the packet expected next is taken for a duplicate *)
DuplicateOrNext(n, p) == IF n.master THEN n.ddseq >= p.seq ELSE n.ddseq + 1 > p.seq

Duplicate(n, p) == IF n.master THEN n.ddseq > p.seq ELSE n.ddseq + 1 > p.seq

(* Mutant: either router may become the slave *)
NegotiatesSlaveAnyId(r, n, p) == n.state = EXSTART /\ p.init /\ p.more /\ p.ms /\ p.hs = {}

NegotiatesSlave(r, n, p) ==
  n.state = EXSTART /\ p.init /\ p.more /\ p.ms /\ p.hs = {} /\ Peer(r) > r

NegotiatesMaster(r, n, p) ==
  n.state = EXSTART /\ ~p.init /\ ~p.ms /\ p.seq = n.ddseq /\ Peer(r) < r

NextInSequence(n, p) ==
  /\ n.state = EXCHANGE /\ ~Duplicate(n, p)
  /\ p.ms # n.master /\ ~p.init
  /\ p.seq = IF n.master THEN n.ddseq ELSE n.ddseq + 1

Mismatches(n, p) ==
  \/ n.state = EXCHANGE /\ ~Duplicate(n, p) /\ ~NextInSequence(n, p)
  \/ n.state >= LOADING /\ (p.init \/ ~Duplicate(n, p))

Accepts(r, n, p) ==
  NegotiatesSlave(r, n, p) \/ NegotiatesMaster(r, n, p) \/ NextInSequence(n, p)

(* rejected, ignored in ExStart, or discarded as a duplicate *)
DdRxIgnored(r) ==
  /\ Arrived(r, "dd")
  /\ LET x == DdReceiver(r) p == Head(chan[r])
     IN  /\ ~Accepts(r, x.n, p) /\ ~Mismatches(x.n, p)
         /\ Rx(r, x)
  /\ UNCHANGED <<adj, dr, boot, env>>

DdRxMismatch(r) ==
  /\ Arrived(r, "dd")
  /\ nb[r].ddseq + 2 <= MaxDd
  /\ Mismatches(nb[r], Head(chan[r]))
  /\ Rx(r, SeqNumberMismatch(r, Self(r)))
  /\ UNCHANGED <<adj, dr, boot, env>>

(* Mutant: an LSA we hold in another instance is not requested *)
MissingOnly(d, hs) == {h.l : h \in {g \in hs : Found(d, g.l).seq = 0}}

(* the LSAs to request: those not in the database with this sequence number   *)
(* and checksum                                                               *)
Wanted(d, hs) == {h.l : h \in {g \in hs : Found(d, g.l) # g}}

(* accepted: negotiation or acknowledgement of what we sent, then the headers *)
(* that differ from our database go to the request list                       *)
Accepted(r, x, p) ==
  LET y == IF NegotiatesSlave(r, x.n, p)
           THEN NegotiationDone([x EXCEPT !.n.master = FALSE, !.n.ddseq = p.seq])
           ELSE IF NegotiatesMaster(r, x.n, p)
           THEN NegotiationDone([x EXCEPT !.n.master = TRUE])
           ELSE [x EXCEPT !.n.ddsum = @ \ x.n.sent, !.n.sent = {}]
  IN  [y EXCEPT !.n.lsreq = @ \union Wanted(x.d, p.hs)]

(* the master sends the next packet, or is done *)
DdRxMaster(r) ==
  /\ Arrived(r, "dd")
  /\ LET p == Head(chan[r]) x == Accepted(r, DdReceiver(r), p)
     IN  /\ Accepts(r, DdReceiver(r).n, p) /\ x.n.master
         /\ IF x.n.more0 /\ ~p.more
            THEN \E c \in Chunk(x.n.lsreq, LsReqMax) :
                   Rx(r, ExchangeDone(r, [x EXCEPT !.n.more0 = FALSE], c))
            ELSE \E c \in Chunk(x.n.ddsum, DdMax) :
                   Rx(r, BuildDd([x EXCEPT !.n.ddseq = @ + 1,
                                           !.n.more0 = @ \/ x.n.ddsum = {}],
                                 x.n.ddsum # {}, TRUE, c))
  /\ UNCHANGED <<adj, dr, boot, env>>

(* the slave answers, and may be done *)
DdRxSlave(r) ==
  /\ Arrived(r, "dd")
  /\ LET p == Head(chan[r]) x == Accepted(r, DdReceiver(r), p)
     IN  /\ Accepts(r, DdReceiver(r).n, p) /\ ~x.n.master
         /\ \E c \in Chunk(x.n.ddsum, DdMax) :
              LET y == BuildDd([x EXCEPT !.n.ddseq = p.seq], x.n.ddsum # {} \/ p.more, FALSE, c)
              IN  IF ~p.more /\ x.n.ddsum = {}
                  THEN \E q \in Chunk(x.n.lsreq, LsReqMax) : Rx(r, ExchangeDone(r, y, q))
                  ELSE Rx(r, y)
  /\ UNCHANGED <<adj, dr, boot, env>>

(* lsrequestRx: refused below Exchange; answered with what fits in one update; *)
(* an LSA that is not in the database is event BadLSReq                        *)
LsReqRx(r) ==
  /\ Arrived(r, "req")
  /\ LET x == Self(r) ids == Head(chan[r]).ids
     IN  \/ x.n.state < EXCHANGE /\ Rx(r, x)
         \/ /\ x.n.state >= EXCHANGE /\ \A l \in ids : Found(x.d, l).seq > 0
            /\ \E c \in Chunk(ids, UpdMax) : Rx(r, Send(x, LsUpd({Found(x.d, l) : l \in c})))
  /\ UNCHANGED <<adj, dr, boot, env>>

BadLsReqRx(r) ==
  /\ Arrived(r, "req")
  /\ nb[r].ddseq + 2 <= MaxDd
  /\ nb[r].state >= EXCHANGE
  /\ \E l \in Head(chan[r]).ids : Found(ls[r], l).seq = 0
  /\ Rx(r, SeqNumberMismatch(r, Self(r)))
  /\ UNCHANGED <<adj, dr, boot, env>>

(* lsupdateRx: every LSA leaves the request list and the retransmission list  *)
(* whatever its instance, is stored, and is acknowledged                      *)
LsUpdRx(r) ==
  /\ Arrived(r, "upd")
  /\ LET x == Self(r)
         hs == Head(chan[r]).hs
         ids == {h.l : h \in hs}
         y == Send([x EXCEPT !.d = Store(@, hs),
                             !.n.lsreq = @ \ ids,
                             !.n.rxmt = {j \in @ : j.l \notin ids}], LsAck(hs))
     IN  \/ x.n.state < EXCHANGE /\ Rx(r, x)
         \/ x.n.state \in {EXCHANGE, FULL} /\ Rx(r, y)
         \/ x.n.state = LOADING /\ y.n.lsreq = {} /\ Rx(r, GoFull(r, y))
         \/ /\ x.n.state = LOADING /\ y.n.lsreq # {}
            /\ \E c \in Chunk(y.n.lsreq, LsReqMax) : Rx(r, BuildReq(y, c))
  /\ UNCHANGED <<adj, dr, boot, env>>

(* lsackRx: whatever the instance acknowledged *)
LsAckRx(r) ==
  /\ Arrived(r, "ack")
  /\ LET x == Self(r) ids == {h.l : h \in Head(chan[r]).hs}
     IN  Rx(r, IF x.n.state = FULL THEN [x EXCEPT !.n.rxmt = {j \in @ : j.l \notin ids}] ELSE x)
  /\ UNCHANGED <<adj, dr, boot, env>>

(* networkTimeout, neighbour timers *)
DdRxmt(r) ==
  /\ nb[r].lastdd # NoPkt /\ nb[r].state \in {EXSTART, EXCHANGE}
  /\ TimerDue /\ ~InFlight(r, nb[r].lastdd)
  /\ Tick(r, Send(Self(r), nb[r].lastdd))
  /\ UNCHANGED <<adj, dr, boot>>

LsReqRxmt(r) ==
  /\ nb[r].lastreq # NoPkt /\ nb[r].state = LOADING
  /\ TimerDue /\ ~InFlight(r, nb[r].lastreq)
  /\ Tick(r, Send(Self(r), nb[r].lastreq))
  /\ UNCHANGED <<adj, dr, boot>>

LsUpdRxmt(r) ==
  /\ nb[r].rxmt # {} /\ nb[r].state = FULL
  /\ TimerDue /\ ~InFlight(r, LsUpd(nb[r].rxmt))
  /\ Tick(r, Send(Self(r), LsUpd(nb[r].rxmt)))
  /\ UNCHANGED <<adj, dr, boot>>

FreeLast(r) ==
  /\ nb[r].state = FULL /\ TimerDue
  /\ nb[r].lastdd # NoPkt \/ nb[r].lastreq # NoPkt
  /\ Tick(r, [Self(r) EXCEPT !.n.lastdd = NoPkt, !.n.lastreq = NoPkt])
  /\ UNCHANGED <<adj, dr, boot>>

(* the timer branch of the main loop, when network_lsa_update is set *)
NetLsaUpdate(r) ==
  /\ ls[r].upd
  /\ TimerDue
  /\ Tick(r, NetUpdate(r, [Self(r) EXCEPT !.d.upd = FALSE], dr[r]))
  /\ UNCHANGED <<adj, dr, boot>>

(* lsadbAgeAreaType, in the order of its branches for one entry *)
AgeOut(r, k) ==
  LET x == Self(r) l == k[1]
  IN  /\ TimerDue /\ Present(x.d, k) /\ x.d.db[k].max
      /\ Tick(r, IF k[2] THEN LET y == [x EXCEPT !.d = Renew(@, l)]
                              IN  Flood(y, k, y.d.db[k], dr[r])
                         ELSE FlushLsa(x, k, dr[r]))
      /\ UNCHANGED <<adj, dr, boot>>

(* Mutant: seq_number is not raised past the old instance *)
OvertakeNot(d, l) == Renew([d EXCEPT !.old[l] = 0], l)

(* old_cnt reaches 0: a new instance, with a number above the one that came back *)
Overtake(d, l) ==
  Renew([d EXCEPT !.old[l] = 0, !.next = IF d.old[l] > @ THEN d.old[l] + 1 ELSE @], l)

OldTimer(r, l) ==
  LET x == Self(r)
      y == [x EXCEPT !.d = Overtake(@, l)]
      k == <<l, TRUE>>
  IN  /\ TimerDue /\ Present(x.d, k) /\ ~x.d.db[k].max /\ x.d.old[l] > 0
      /\ Tick(r, Flood(y, k, y.d.db[k], dr[r]))
      /\ UNCHANGED <<adj, dr, boot>>

Idle(d, k) == Present(d, k) /\ ~d.db[k].max /\ (k[2] => d.old[k[1]] = 0)

FloodTimer(r, k) ==
  LET x == Self(r)
  IN  /\ TimerDue /\ Idle(x.d, k) /\ k \in x.d.flood
      /\ Tick(r, Flood([x EXCEPT !.d.flood = @ \ {k}], k, x.d.db[k], dr[r]))
      /\ UNCHANGED <<adj, dr, boot>>

Refresh(r, l) ==
  LET k == <<l, TRUE>> y == [Self(r) EXCEPT !.d = Renew(@, l)]
  IN  /\ env["change"] < MaxChange /\ Spend("change")
      /\ Idle(ls[r], k) /\ k \notin ls[r].flood
      /\ Tick(r, Flood(y, k, y.d.db[k], dr[r]))
      /\ UNCHANGED <<adj, dr, boot>>

ForeignFlush(r, l) ==
  LET k == <<l, FALSE>>
  IN  /\ TimerDue /\ l \in {Rtr(r), Net(r)}
      /\ Idle(ls[r], k) /\ k \notin ls[r].flood
      /\ Tick(r, FlushLsa(Self(r), k, dr[r]))
      /\ UNCHANGED <<adj, dr, boot>>

(* lsupdateRx on another interface of r: a new instance of an external LSA *)
Learn(r, e) ==
  LET k == <<<<"ext", e>>, FALSE>>
  IN  /\ env["change"] < MaxChange /\ Spend("change")
      /\ ls' = [ls EXCEPT ![r].db[k] = [NoInst(k[1]) EXCEPT !.seq = ls[r].db[k].seq + 1],
                          ![r].flood = @ \union {k},
                          ![r].here = @ \ {k}]
      /\ UNCHANGED <<nb, adj, dr, chan, boot>>

(* nfsmInactivityTimer: the neighbour is removed, update_lsadb originates, and *)
(* the election that follows makes r the DR of an empty network                *)
InactivityTimer(r, changed) ==
  LET x == [ClearLsa(r, Self(r)) EXCEPT !.n = NoNb]
      y == [x EXCEPT !.d = Originate(@, Rtr(r), boot[r], changed)]
  IN  /\ r \in Faulty /\ env["dead"] < MaxDead /\ Spend("dead")
      /\ nb[r].state # DOWN
      /\ Tick(r, IF adj[r] THEN TimerElect(r, y, TRUE, changed) ELSE y)
      /\ dr' = [dr EXCEPT ![r] = adj[r]]
      /\ UNCHANGED <<adj, boot>>

(* the daemon crashes and starts again with nothing but its other interfaces *)
Restart(r) ==
  /\ r \in Faulty /\ env["boot"] < MaxBoot /\ Spend("boot")
  /\ boot' = [boot EXCEPT ![r] = @ + 1]
  /\ nb' = [nb EXCEPT ![r] = NoNb]
  /\ ls' = [ls EXCEPT ![r] = BootLs(r)]
  /\ adj' = [adj EXCEPT ![r] = FALSE]
  /\ dr' = [dr EXCEPT ![r] = FALSE]
  /\ chan' = [chan EXCEPT ![r] = <<>>]

Lose(r) ==
  /\ env["loss"] < MaxLoss /\ Spend("loss")
  /\ chan[r] # <<>>
  /\ chan' = [chan EXCEPT ![r] = Tail(@)]
  /\ UNCHANGED <<nb, ls, adj, dr, boot>>

Init ==
  /\ nb = [r \in Router |-> NoNb]
  /\ ls = [r \in Router |-> BootLs(r)]
  /\ adj = [r \in Router |-> FALSE]
  /\ dr = [r \in Router |-> FALSE]
  /\ chan = [r \in Router |-> <<>>]
  /\ boot = [r \in Router |-> 0]
  /\ env = [b \in Budget |-> 0]

Receive(r) ==
  \/ DdRxIgnored(r) \/ DdRxMismatch(r) \/ DdRxMaster(r) \/ DdRxSlave(r)
  \/ LsReqRx(r) \/ BadLsReqRx(r) \/ LsUpdRx(r) \/ LsAckRx(r)

LsaTimers(r) ==
  \/ NetLsaUpdate(r)
  \/ \E k \in Key : AgeOut(r, k) \/ FloodTimer(r, k)
  \/ \E l \in Lsa : OldTimer(r, l) \/ ForeignFlush(r, l)

Rxmt(r) == DdRxmt(r) \/ LsReqRxmt(r) \/ LsUpdRxmt(r)

Timer(r) == Rxmt(r) \/ FreeLast(r) \/ LsaTimers(r)

Election(r) ==
  \E isdr \in Role[r], changed \in BOOLEAN : WaitTimer(r, isdr, changed)

Environment(r) ==
  \/ \E isdr \in Role[r], changed \in BOOLEAN : HelloRxElect(r, isdr, changed)
  \/ \E changed \in BOOLEAN : InactivityTimer(r, changed)
  \/ \E l \in Lsa : Refresh(r, l)
  \/ \E e \in Ext : Learn(r, e)
  \/ Restart(r) \/ Lose(r)

Next ==
  \E r \in Router : HelloRx(r) \/ Receive(r) \/ Timer(r) \/ Election(r) \/ Environment(r)

Spec == Init /\ [][Next]_vars

(* The select loop reads the packets that arrive, and its timer branch runs   *)
(* every second, so a timer that stays armed fires.  Fairness on the timers   *)
(* is strong because a packet on the wire disables them for a while.  Nothing *)
(* is assumed of Environment.                                                 *)
Fairness ==
  \A r \in Router :
    /\ WF_vars(HelloRx(r)) /\ WF_vars(Receive(r)) /\ WF_vars(Election(r))
    /\ SF_vars(Rxmt(r)) /\ SF_vars(LsaTimers(r))

FairSpec == Spec /\ Fairness

(* ------------------------------ properties ------------------------------ *)
DdPkt == [t : {"dd"}, init : BOOLEAN, more : BOOLEAN, ms : BOOLEAN, seq : Nat, hs : SUBSET Inst]
ReqPkt == [t : {"req"}, ids : SUBSET Lsa]
Pkt == DdPkt \union ReqPkt
         \union [t : {"upd"}, hs : SUBSET Inst] \union [t : {"ack"}, hs : SUBSET Inst]

NbType == [ state : {DOWN, INIT, TWOWAY, EXSTART, EXCHANGE, LOADING, FULL},
            master : BOOLEAN, ddseq : Nat, more0 : BOOLEAN,
            ddsum : SUBSET Inst, sent : SUBSET Inst, lsreq : SUBSET Lsa,
            lastdd : DdPkt \union {NoPkt}, lastreq : ReqPkt \union {NoPkt},
            rxmt : SUBSET Inst ]

LsType == [ db : [Key -> Inst], flood : SUBSET Key, here : SUBSET Key,
            old : [Lsa -> Nat], next : Nat \ {0}, upd : BOOLEAN ]

(* Every variable holds values of its kind: the structures of area.h, lsa.h and packet.h. *)
TypeOK ==
  /\ nb \in [Router -> NbType]
  /\ ls \in [Router -> LsType]
  /\ adj \in [Router -> BOOLEAN]
  /\ dr \in [Router -> BOOLEAN]
  /\ chan \in [Router -> Seq(Pkt)]
  /\ boot \in [Router -> Nat]
  /\ env \in [Budget -> Nat]

(* What the lists of neighbour structure n may hold in its state *)
ListsOf(n) ==
  /\ n.state < EXCHANGE => n.ddsum = {} /\ n.lsreq = {}
  /\ n.state >= LOADING => n.ddsum = {}
  /\ n.state = FULL => n.lsreq = {}
  /\ n.rxmt # {} => n.state = FULL
  /\ n.sent \subseteq n.ddsum
  /\ n.state = EXCHANGE /\ n.more0 => n.ddsum = {}

(* The lists belong to the state: nothing is summarised or requested before   *)
(* Exchange (the ASSERT in nfsmNegotiationDone), everything has been          *)
(* summarised after it, nothing is left to request in Full, and only a Full   *)
(* neighbour has LSAs to be acknowledged.                                     *)
ListsFollowState == \A r \in Router : ListsOf(nb[r])

(* What the retransmission timers of n need in its state *)
ArmedOf(n) ==
  /\ n.state \in {EXSTART, EXCHANGE} => n.lastdd # NoPkt /\ n.lastdd.seq = n.ddseq
  /\ n.state = LOADING => n.lastreq # NoPkt /\ n.lastreq.ids # {} /\ n.lastreq.ids \subseteq n.lsreq

(* While an adjacency is being built there is always a packet that the        *)
(* retransmission timers of networkTimeout can repeat: the last DD packet in  *)
(* ExStart and Exchange, and in Loading a request for LSAs still wanted.      *)
RetransmissionArmed == \A r \in Router : ArmedOf(nb[r])

LeaderOf(r, n) == n.state >= EXCHANGE => (n.master <=> r > Peer(r))

(* dbdescRx: the exchange is led by the router with the higher id *)
HigherIdIsMaster == \A r \in Router : LeaderOf(r, nb[r])

(* A router that reports its neighbour Full has every external LSA its peer   *)
(* booted with, in an instance at least as recent, whatever dbdescRx lost,    *)
(* took twice or started anew on the way (changes to the LSAs excluded).  The *)
(* router with the higher id may restart; a restart of the other one in the   *)
(* middle of an exchange can break it (dbdesc.c:292).                         *)
FullHasPeerDatabase ==
  \A r \in Router : nb[r].state = FULL =>
    \A e \in Ext : Found(ls[r], <<"ext", e>>).seq >= ExtSeq[Peer(r)][e]

(* Nothing is left to do: both Full, the wire quiet, nothing to flood,         *)
(* retransmit, renew or flush                                                 *)
Settled ==
  /\ Quiet /\ dr[R1] # dr[R2]
  /\ \A r \in Router :
       /\ nb[r].state = FULL /\ nb[r].rxmt = {}
       /\ ls[r].flood = {} /\ ~ls[r].upd
       /\ \A k \in Key : ~ls[r].db[k].max
       /\ \A l \in Lsa : ls[r].old[l] = 0
       /\ \A l \in {Rtr(r), Net(r)} : ~Present(ls[r], <<l, FALSE>>)

(* Once everything has settled the two databases hold the same instances: the *)
(* neighbours are "synchronized", as nfsmExchangeDone logs.  A change between  *)
(* the snapshot and Full breaks it.                                            *)
SettledAgree == Settled => \A l \in Lsa : Found(ls[R1], l) = Found(ls[R2], l)

(* ... and they do when no LSA has changed and nobody has restarted since the  *)
(* routers met, whatever was lost or repeated                                  *)
UndisturbedAgree == env["boot"] = 0 /\ env["dead"] = 0 /\ env["change"] = 0 => SettledAgree

(* Once everything has settled the peer does not hold a more recent           *)
(* router-LSA of r than r itself: what an earlier incarnation left behind has *)
(* been noticed and overtaken (old_cnt in lsupdateRx and lsadbAgeAreaType)    *)
OldIncarnationOvertaken ==
  Settled => \A r \in Router : Found(ls[Peer(r)], Rtr(r)).seq <= Found(ls[r], Rtr(r)).seq

(* While both stay Full, an instance leaves a retransmission list only when a *)
(* newer one takes its place or the peer holds one at least as recent         *)
RxmtUntilReceived ==
  [][\A r \in Router :
       (\A s \in Router : nb[s].state = FULL /\ nb'[s].state = FULL) =>
         \A j \in nb[r].rxmt \ nb'[r].rxmt :
           \/ j.max
           \/ \E i \in nb'[r].rxmt : i.l = j.l
           \/ Found(ls[Peer(r)], j.l).seq >= j.seq]_vars

(* An entry of the database is never replaced by an older instance, except by *)
(* a restart                                                                  *)
NeverOlder ==
  [][boot' = boot =>
       \A r \in Router, k \in Key :
         Present(ls[r], k) /\ ls'[r].db[k].seq > 0 => ls'[r].db[k].seq >= ls[r].db[k].seq]_vars

(* Both routers end up Full with each other *)
EventuallyFull == <>[](\A r \in Router : nb[r].state = FULL)

(* ----------------- what the code does not guarantee --------------------- *)
(* Two statements of the comments in the code that TLC refutes at once.  No    *)
(* LSA of an earlier incarnation survives (lsa.c:628): broken by MaxBoot = 1.  *)
NoOldIncarnation ==
  Settled => \A r \in Router : Found(ls[Peer(r)], Rtr(r)) = Found(ls[r], Rtr(r))

(* A MaxAge copy leaves a more recent database copy alone (lsupdate.c:311):    *)
(* broken by MaxDead = 1, Faulty = {2}.                                        *)
FlushedByRecent ==
  [][\A r \in Router, l \in Lsa :
       ~ls[r].db[<<l, FALSE>>].max /\ ls'[r].db[<<l, FALSE>>].max =>
         \E h \in Head(chan[r]).hs : h.l = l /\ h.seq >= ls[r].db[<<l, FALSE>>].seq]_vars

=============================================================================
