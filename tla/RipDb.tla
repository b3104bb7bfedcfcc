-------------------------------- MODULE RipDb --------------------------------
(* The RIP daemon of RCP100: the route database with its timeout and garbage  *)
(* collection timers, equal cost routes, the kernel routing table it drives,  *)
(* the copy redistributed into OSPF, the updates sent on the RIP interfaces,  *)
(* interface events and the configuration commands.                           *)
(*                                                                            *)
(* The daemon is one select loop.  A handler that makes several database      *)
(* calls leaves the calls still to be made in "todo" and nothing else runs    *)
(* until it is empty: one step of the model is one database call, one handler *)
(* is a run of steps.  Abstracted: addresses and masks (a prefix is a name),  *)
(* the update interval of an interface and the 180 s redistribution timer     *)
(* (they may expire at any tick), authentication and malformed packets        *)
(* (dropped before the database), unicast neighbours and passive interfaces.  *)
EXTENDS Naturals, Sequences, FiniteSets

CONSTANTS Intf,       \* interfaces: their indexes in shm->config.intf
          Loop,       \* loopback interfaces: indexes too
          Nbr,        \* RIP neighbours
          On,         \* On[n]: the interface neighbour n is on
          Remote,     \* prefixes that are neither an interface's nor a loopback's
          Hops,       \* <<gw, n>>: n announces routes through next hop gw
          StaticRt,   \* <<p, gw>>: the configured static routes
          OspfRt,     \* <<p, gw>>: the routes OSPF may redistribute into RIP
          Bucket,     \* Bucket[p]: hash(p)
          RxPrefix,   \* prefixes the neighbours announce
          RxMetric,   \* metrics on the wire, 16 is infinity
          Timers,     \* values of the update-timer command
          DefaultTimer, \* RCP_RIP_DEFAULT_TIMER
          Metrics,    \* metrics of the redistribute commands
          Ops,        \* the operations the environment uses
          MaxQueue    \* bound: interface messages waiting on the mux socket

NoGw == 0
Gw == {h[1] : h \in Hops} \union {s[2] : s \in StaticRt} \union {s[2] : s \in OspfRt}
NetOf(i) == <<"net", i>>
Prefix == {NetOf(i) : i \in Intf \union Loop} \union {<<"rem", p>> : p \in Remote}

ASSUME ShapeAssumption ==
  /\ Intf \subseteq Nat /\ Loop \subseteq Nat /\ Intf \intersect Loop = {}
  /\ On \in [Nbr \union Gw -> Intf] /\ Hops \subseteq (Nbr \union Gw) \X Nbr
  /\ StaticRt \subseteq Prefix \X (Nbr \union Gw) /\ OspfRt \subseteq Prefix \X (Nbr \union Gw)
  /\ RxPrefix \subseteq Prefix /\ Bucket \in [Prefix -> 0..255]
  /\ NoGw \notin Nbr \union Gw

ASSUME NumberAssumption ==
  /\ RxMetric \subseteq 1..16 /\ Metrics \subseteq 1..15
  /\ Timers \subseteq 1..60 /\ DefaultTimer \in Timers
  /\ MaxQueue \in Nat

VARIABLES db,      \* ripdb_index: the elements by (type, prefix, gw, partner)
          upd,     \* ripdb_update_available
          kern,    \* the kernel's routes
          ext,     \* ext[p]: the next hop of OSPF's copy of p, {} for none
          told,    \* told[i][p]: the metric announced last on i, {} for none
          link,    \* link[i]: intf->link_up
          joined,  \* joined[i]: intf->rip_multicast_ip # 0
          cfg,     \* the RIP configuration
          trig,    \* static_update_trigger is running
          mux,     \* IFUP and IFDOWN messages waiting on the mux socket
          todo     \* the calls the running handler has still to make

vars == <<db, upd, kern, ext, told, link, joined, cfg, trig, mux, todo>>
env == <<told, link, joined, cfg, mux>>

(* ------------------------------- the database --------------------------- *)
KeyOf(t, p, gw, by) == [t |-> t, p |-> p, gw |-> gw, by |-> by]
IntfKey(t, i) == KeyOf(t, NetOf(i), NoGw, NoGw)

Key == {IntfKey(t, i) : t \in {"net", "con"}, i \in Intf}
       \union {IntfKey("sub", i) : i \in Loop}
       \union {KeyOf("sta", s[1], s[2], NoGw) : s \in StaticRt}
       \union {KeyOf("osp", s[1], s[2], NoGw) : s \in OspfRt}
       \union {KeyOf("rip", p, h[1], h[2]) : p \in RxPrefix, h \in Hops}

KeysOf(t) == {k \in Key : k.t = t}

(* RcpRouteType: a smaller type is preferred at equal metric *)
Rank(t) == CASE t = "net" -> 0 [] t = "con" -> 1 [] t = "sta" -> 2
             [] t = "rip" -> 4 [] t = "osp" -> 5 [] OTHER -> 10

Infinity == 16

(* RipDbElem; metric 0: no such element.  pos is its place in the list of its *)
(* bucket, 1 at the head                                                      *)
NoElem == [metric |-> 0, timeout |-> 0, gc |-> 0, updated |-> FALSE, intf |-> 0, pos |-> 0]
Elem == [metric : 0..16, timeout : 0..255, gc : 0..255, updated : BOOLEAN,
         intf : Intf \union Loop \union {0}, pos : Nat]

(* RIP_ROUTE_TIMEOUT and RIP_ROUTE_CLEANUP, stored in a uint8_t *)
RouteTimeout == (cfg.timer * 6) % 256
RouteCleanup == (cfg.timer * 4) % 256

Used(d, p) == {k \in Key : k.p = p /\ d[k].metric > 0}
InBucket(d, p) == {k \in Key : Bucket[k.p] = Bucket[p] /\ d[k].metric > 0}
Dead(d, k) == d[k].metric = Infinity

(* find: the element of p nearest to the head *)
First(d, p) == {k \in Used(d, p) : \A j \in Used(d, p) : d[k].pos <= d[j].pos}
LastOf(d, S) == {k \in S : \A j \in S : d[j].pos <= d[k].pos}

(* the RIP elements of p that ecmp_add and ecmp_del count *)
Ecmp(d, p) == {k \in Used(d, p) : k.t = "rip" /\ ~Dead(d, k)}
Multi(S) == \E j \in S, k \in S : j # k
GwsOf(S) == {k.gw : k \in S}

Insert(d, k, e) ==
  [j \in Key |-> IF j = k THEN [e EXCEPT !.pos = 1]
                 ELSE IF j \in InBucket(d, k.p) THEN [d[j] EXCEPT !.pos = @ + 1] ELSE d[j]]

Free(d, k) ==
  [j \in Key |-> IF j = k THEN NoElem
                 ELSE IF j \in InBucket(d, k.p) /\ d[j].pos > d[k].pos
                      THEN [d[j] EXCEPT !.pos = @ - 1] ELSE d[j]]

(* ------------------- the kernel and the copy in OSPF -------------------- *)
(* the route ecmp_add installs for p: an empty set when nothing is usable *)
Routes(d, p) ==
  {[p |-> p, rip |-> TRUE, metric |-> d[k].metric, multi |-> Multi(Ecmp(d, p)), gws |-> GwsOf(Ecmp(d, p))] :
     k \in LastOf(d, Ecmp(d, p))}

(* rcpDelRoute names neither protocol nor metric: of the single routes through *)
(* gw the kernel removes the one with the smallest metric, a static one first  *)
rcpDelRoute(K, p, gws) ==
  LET same == {r \in K : r.p = p /\ ~r.multi /\ r.gws = gws}
  IN  K \ (IF \E r \in same : ~r.rip THEN {r \in same : ~r.rip} ELSE same)

rcpDelECMPRoute(K, p, gws) == K \ {r \in K : r.p = p /\ r.rip /\ r.multi /\ r.gws = gws}

\* mutant: only the equal cost routes are deleted
EcmpDelMultiOnly(K, d, p) ==
  IF Multi(Ecmp(d, p)) THEN rcpDelECMPRoute(K, p, GwsOf(Ecmp(d, p))) ELSE K

\* mutant: an equal cost route is deleted as if it had one next hop
EcmpDelSingleOnly(K, d, p) ==
  IF Ecmp(d, p) = {} THEN K ELSE rcpDelRoute(K, p, GwsOf(Ecmp(d, p)))

ecmp_del(K, d, p) ==
  LET S == Ecmp(d, p)
  IN  IF S = {} THEN K
      ELSE IF Multi(S) THEN rcpDelECMPRoute(K, p, GwsOf(S)) ELSE rcpDelRoute(K, p, GwsOf(S))

(* NLM_F_EXCL: the kernel refuses a second route of one metric *)
ecmp_add(K, d, p) ==
  K \union {r \in Routes(d, p) : \A q \in K : ~(q.p = p /\ q.rip /\ q.metric = r.metric)}

(* What OSPF does with a redistributed route: it takes the next hop of the    *)
(* last message whose next hop is on an interface that is up.  With equal     *)
(* cost routes the loop sends a message for every element of the bucket.      *)
HopUp(k) == k.gw # NoGw /\ link[On[k.gw]]

\* mutant: no DELROUTE message
ExtDelNot(x, d, p) == x

ExtDel(x, d, p) == IF Ecmp(d, p) = {} THEN x ELSE [x EXCEPT ![p] = {}]

ExtAdd(x, d, p) ==
  LET S == IF Multi(Ecmp(d, p)) THEN InBucket(d, p) ELSE Ecmp(d, p)
      up == {k \in S : HopUp(k)}
  IN  IF Ecmp(d, p) = {} \/ up = {} THEN x ELSE [x EXCEPT ![p] = GwsOf(LastOf(d, up))]

(* ecmp_del before and ecmp_add after a change of p's elements *)
Reinstall(d, p) ==
  /\ db' = d
  /\ kern' = ecmp_add(ecmp_del(kern, db, p), d, p)
  /\ ext' = ExtAdd(ExtDel(ext, db, p), d, p)

(* ----------------------------- clean_route ------------------------------ *)
\* mutant: update flag not set
KillQuiet(e) == [e EXCEPT !.metric = Infinity, !.timeout = 0, !.gc = IF @ = 0 THEN RouteCleanup ELSE @]

Kill(e) == [e EXCEPT !.metric = Infinity, !.timeout = 0,
                     !.gc = IF @ = 0 THEN RouteCleanup ELSE @,
                     !.updated = @ \/ e.gc = 0]

clean_route(k) ==
  LET d == [db EXCEPT ![k] = Kill(@)]
  IN  /\ IF k.t = "rip" THEN Reinstall(d, k.p) ELSE db' = d /\ UNCHANGED <<kern, ext>>
      /\ upd' = (upd \/ db[k].gc = 0)
      /\ trig' = (trig \/ (k.t = "rip" /\ cfg.sta # 0))

\* mutant: the worse elements stay
CleanMetricNot(d, p) == d

(* clean_metric: RIP elements of p worse than the best one are dead *)
clean_metric(d, p) ==
  [k \in Key |-> IF k.t = "rip" /\ k \in Used(d, p) /\ \E j \in Ecmp(d, p) : d[j].metric < d[k].metric
                 THEN Kill(d[k]) ELSE d[k]]

(* ------------------------------ ripdb_add ------------------------------- *)
Fresh(m, i, pos) == [metric |-> m, timeout |-> RouteTimeout, gc |-> 0, updated |-> TRUE, intf |-> i, pos |-> pos]

Better(t, m, k, e) == m < e.metric \/ (m = e.metric /\ Rank(t) < Rank(k.t))
Equal(t, m, k, e) == m = e.metric /\ t = k.t

\* mutant: the garbage collection of a refreshed element is not stopped
AddRefreshKeepsGc(k, m, i) ==
  LET e == db[k]
      update == e.metric # m \/ e.intf # i
      d == [db EXCEPT ![k] = [Fresh(m, i, e.pos) EXCEPT !.updated = e.updated \/ update, !.gc = e.gc]]
  IN  /\ e.metric > 0
      /\ IF k.t = "rip" /\ update THEN Reinstall(clean_metric(d, k.p), k.p)
         ELSE db' = d /\ UNCHANGED <<kern, ext>>
      /\ upd' = (upd \/ update)

AddRefresh(k, m, i) ==
  LET e == db[k]
      update == e.metric # m \/ e.gc # 0 \/ e.intf # i
      d == [db EXCEPT ![k] = [Fresh(m, i, e.pos) EXCEPT !.updated = e.updated \/ update]]
  IN  /\ e.metric > 0
      /\ IF k.t = "rip" /\ update THEN Reinstall(clean_metric(d, k.p), k.p)
         ELSE db' = d /\ UNCHANGED <<kern, ext>>
      /\ upd' = (upd \/ update)

AddWorse(k, m) ==
  /\ db[k].metric = 0
  /\ \E f \in First(db, k.p) : ~Better(k.t, m, f, db[f]) /\ ~Equal(k.t, m, f, db[f])
  /\ UNCHANGED <<db, upd, kern, ext>>

AddBetter(k, m, i) ==
  /\ db[k].metric = 0
  /\ \E f \in First(db, k.p) :
       /\ Better(k.t, m, f, db[f])
       /\ Reinstall(clean_metric([db EXCEPT ![f] = NoElem, ![k] = Fresh(m, i, db[f].pos)], k.p), k.p)
  /\ upd' = TRUE

AddNew(k, m, i) ==
  LET d == Insert(db, k, Fresh(m, i, 1))
  IN  /\ db[k].metric = 0
      /\ Used(db, k.p) = {} \/ \E f \in First(db, k.p) : Equal(k.t, m, f, db[f])
      /\ IF k.t = "rip" THEN Reinstall(d, k.p) ELSE db' = d /\ UNCHANGED <<kern, ext>>
      /\ upd' = TRUE

ripdb_add(k, m, i) == AddRefresh(k, m, i) \/ AddWorse(k, m) \/ AddBetter(k, m, i) \/ AddNew(k, m, i)

(* ----------------------- the loops of the handlers ---------------------- *)
(* A call still to be made: the loop, and the elements or would-be elements   *)
(* it has not yet visited (for a loop over interfaces or static routes, the    *)
(* keys of the elements it adds)                                               *)
Call == [op : {"intf", "con", "sub", "sta", "clean", "age", "send"}, S : SUBSET Key]

Idle == todo = <<>>
At(op) == ~Idle /\ Head(todo).op = op
Rest == Head(todo).S
Pop == todo' = Tail(todo)
Visit(x) == todo' = <<[Head(todo) EXCEPT !.S = @ \ {x}]>> \o Tail(todo)

(* the next element of ripdb_index in the order of the table *)
InOrder(S, k) ==
  LET here == {j \in S : db[j].metric > 0}
  IN  /\ k \in here
      /\ \A j \in here : \/ Bucket[k.p] < Bucket[j.p]
                         \/ Bucket[k.p] = Bucket[j.p] /\ db[k].pos <= db[j].pos

NextOf(S, i, t) == IntfKey(t, i) \in S /\ \A j \in Intf \union Loop : IntfKey(t, j) \in S => i <= j

(* ripdb_delete, ripdb_delete_interface, ripdb_delete_type, ripdb_delete_all *)
Clean ==
  /\ At("clean")
  /\ \E k \in Key : InOrder(Rest, k) /\ clean_route(k) /\ Visit(k)
  /\ UNCHANGED env

(* list_timeout, one element *)
AgeNot(k) == k.t # "rip" /\ db[k].timeout > 0 /\ UNCHANGED <<db, upd, kern, ext, trig>>

AgeRun(k) ==
  /\ k.t = "rip" /\ db[k].timeout > 1
  /\ db' = [db EXCEPT ![k].timeout = @ - 1]
  /\ UNCHANGED <<upd, kern, ext, trig>>

AgeExpire(k) == k.t = "rip" /\ db[k].timeout = 1 /\ clean_route(k)

AgeDead(k) ==
  /\ db[k].timeout = 0 /\ db[k].gc > 1
  /\ db' = [db EXCEPT ![k].gc = @ - 1]
  /\ UNCHANGED <<upd, kern, ext, trig>>

AgeFree(k) ==
  /\ db[k].timeout = 0 /\ db[k].gc = 1
  /\ db' = Free(db, k)
  /\ UNCHANGED <<upd, kern, ext, trig>>

Age ==
  /\ At("age")
  /\ \E k \in Key : /\ InOrder(Rest, k)
                    /\ AgeNot(k) \/ AgeRun(k) \/ AgeExpire(k) \/ AgeDead(k) \/ AgeFree(k)
                    /\ Visit(k)
  /\ UNCHANGED env

(* ripdb_build_response: the metric announced for an element on interface i; *)
(* when a response holds several routes of one prefix the last one counts     *)
Ann(d, i, k) ==
  CASE k.t = "net" -> IF k.p = NetOf(i) THEN Infinity ELSE d[k].metric
    [] k.t = "rip" -> IF On[k.by] = i THEN Infinity ELSE d[k].metric
    [] k.t = "sub" -> 1
    [] OTHER -> d[k].metric

Announce(i, p, S) == {Ann(db, i, k) : k \in LastOf(db, S)}

(* rip_send_delta_updates when an update is available, then                   *)
(* rip_send_timeout_updates for the interfaces whose update timer expires     *)
Send ==
  /\ At("send") /\ Pop
  /\ \E full \in SUBSET {i \in Intf : joined[i] /\ link[i] /\ cfg.net[i]} :
       told' = [i \in Intf |-> [p \in Prefix |->
                  LET new == {k \in Used(db, p) : db[k].updated}
                  IN  IF i \in full /\ Used(db, p) # {} THEN Announce(i, p, Used(db, p))
                      ELSE IF joined[i] /\ link[i] /\ cfg.net[i] /\ upd /\ new # {}
                           THEN Announce(i, p, new) ELSE told[i][p]]]
  /\ db' = [k \in Key |-> [db[k] EXCEPT !.updated = FALSE]]
  /\ upd' = FALSE
  /\ UNCHANGED <<kern, ext, link, joined, cfg, trig, mux>>

(* rip_update_interfaces, one interface *)
\* mutant: the link is not looked at
JoinAnyLink(i) ==
  /\ ~joined[i] /\ cfg.net[i]
  /\ joined' = [joined EXCEPT ![i] = TRUE]
  /\ ripdb_add(IntfKey("net", i), 1, i)
  /\ Visit(IntfKey("net", i))
  /\ UNCHANGED trig

Join(i) ==
  /\ ~joined[i] /\ link[i] /\ cfg.net[i]
  /\ joined' = [joined EXCEPT ![i] = TRUE]
  /\ ripdb_add(IntfKey("net", i), 1, i)
  /\ Visit(IntfKey("net", i))
  /\ UNCHANGED trig

\* mutant: the membership is not reset
LeaveStillJoined(i) ==
  /\ joined[i] /\ ~(link[i] /\ cfg.net[i])
  /\ todo' = <<[op |-> "clean", S |-> {k \in Key : db[k].intf = i}], [Head(todo) EXCEPT !.S = @ \ {IntfKey("net", i)}]>> \o Tail(todo)
  /\ UNCHANGED <<db, upd, kern, ext, trig, joined>>

Leave(i) ==
  /\ joined[i] /\ ~(link[i] /\ cfg.net[i])
  /\ joined' = [joined EXCEPT ![i] = FALSE]
  /\ todo' = <<[op |-> "clean", S |-> {k \in Key : db[k].intf = i}], [Head(todo) EXCEPT !.S = @ \ {IntfKey("net", i)}]>> \o Tail(todo)
  /\ UNCHANGED <<db, upd, kern, ext, trig>>

Stay(i) ==
  /\ joined[i] = (link[i] /\ cfg.net[i])
  /\ Visit(IntfKey("net", i))
  /\ UNCHANGED <<db, upd, kern, ext, trig, joined>>

UpdateInterfaces ==
  /\ At("intf")
  /\ \E i \in Intf : NextOf(Rest, i, "net") /\ (Join(i) \/ Leave(i) \/ Stay(i))
  /\ UNCHANGED <<told, link, cfg, mux>>

(* rip_update_connected, one interface *)
UpdateConnected ==
  /\ At("con")
  /\ \E i \in Intf : /\ NextOf(Rest, i, "con") /\ Visit(IntfKey("con", i))
                     /\ IF link[i] THEN ripdb_add(IntfKey("con", i), cfg.con, i)
                        ELSE UNCHANGED <<db, upd, kern, ext>>
  /\ UNCHANGED <<trig, env>>

(* rip_update_connected_subnets, one loopback interface *)
UpdateSubnets ==
  /\ At("sub")
  /\ \E i \in Loop : /\ NextOf(Rest, i, "sub") /\ Visit(IntfKey("sub", i))
                     /\ ripdb_add(IntfKey("sub", i), 1, i)
  /\ UNCHANGED <<trig, env>>

(* rip_update_static, one static route *)
UpdateStatic ==
  /\ At("sta")
  /\ \E k \in Rest :
       /\ Visit(k)
       /\ IF link[On[k.gw]] THEN ripdb_add(k, cfg.sta, On[k.gw]) /\ UNCHANGED trig
          ELSE IF db[k].metric > 0 THEN clean_route(k)
          ELSE UNCHANGED <<db, upd, kern, ext, trig>>
  /\ UNCHANGED env

(* the end of a loop *)
Return ==
  /\ ~Idle /\ Head(todo).op # "send"
  /\ IF Head(todo).op \in {"clean", "age"} THEN \A k \in Rest : db[k].metric = 0 ELSE Rest = {}
  /\ Pop
  /\ UNCHANGED <<db, upd, kern, ext, trig, env>>

(* the calls of the rip_update_* functions under configuration c *)
LoopOver(op, S) == <<[op |-> op, S |-> S]>>
CleanCall(S) == LoopOver("clean", S)
IntfCalls == LoopOver("intf", KeysOf("net"))
ConCalls(c) == IF c.con = 0 THEN <<>> ELSE LoopOver("con", KeysOf("con"))
SubCalls(c) == IF c.sub THEN LoopOver("sub", KeysOf("sub")) ELSE CleanCall(KeysOf("sub"))
StaCalls(c) == IF c.sta # 0 THEN LoopOver("sta", KeysOf("sta")) ELSE CleanCall(KeysOf("sta"))

(* ------------------------------ the handlers ---------------------------- *)
Does(op) == Idle /\ op \in Ops

(* the select timeout: main.c runs its seven steps *)
Tick ==
  /\ Idle /\ mux = <<>>
  /\ \E static \in BOOLEAN, redist \in BOOLEAN :
       /\ static => trig
       /\ trig' = (trig /\ ~static)
       /\ todo' = IntfCalls \o LoopOver("age", Key) \o LoopOver("send", {})
                  \o (IF static THEN StaCalls(cfg) ELSE <<>>)
                  \o (IF redist THEN ConCalls(cfg) \o SubCalls(cfg) \o StaCalls(cfg) ELSE <<>>)
  /\ UNCHANGED <<db, upd, kern, ext, env>>

\* mutant: infinity is not looked at
ReachableAlways(m) == TRUE

(* the metric of a received route, incremented, is still below infinity *)
Reachable(m) == m + 1 < Infinity

(* rxpacket: one route of a response from neighbour n.  A response of several *)
(* routes is several such steps.                                              *)
RxResponse ==
  /\ Does("rx")
  /\ \E p \in RxPrefix, h \in Hops, m \in RxMetric :
       LET k == KeyOf("rip", p, h[1], h[2])
       IN  /\ link[On[h[2]]] /\ cfg.net[On[h[2]]]
           /\ IF Reachable(m)
              THEN ripdb_add(k, m + 1, On[h[2]]) /\ UNCHANGED trig
              ELSE IF db[k].metric > 0 THEN clean_route(k)
              ELSE UNCHANGED <<db, upd, kern, ext, trig>>
  /\ UNCHANGED <<todo, env>>

(* IFUP and IFDOWN *)
RxInterface ==
  /\ Idle /\ mux # <<>>
  /\ mux' = Tail(mux)
  /\ todo' = (IF Head(mux).up THEN <<>> ELSE CleanCall({k \in Key : db[k].intf = Head(mux).intf}))
             \o IntfCalls \o ConCalls(cfg) \o SubCalls(cfg) \o StaCalls(cfg)
  /\ UNCHANGED <<db, upd, kern, ext, told, link, joined, cfg, trig>>

(* LOOPBACK *)
RxLoopback ==
  /\ Does("loop")
  /\ \E i \in Loop, up \in BOOLEAN :
       todo' = IF up THEN SubCalls(cfg) ELSE CleanCall({IntfKey("sub", i)})
  /\ UNCHANGED <<db, upd, kern, ext, trig, env>>

(* ADDROUTE and DELROUTE from OSPF *)
RxAddRoute ==
  /\ Does("ospf") /\ cfg.osp # 0
  /\ \E s \in OspfRt : /\ link[On[s[2]]]
                       /\ ripdb_add(KeyOf("osp", s[1], s[2], NoGw), cfg.osp, On[s[2]])
  /\ UNCHANGED <<trig, todo, env>>

RxDelRoute ==
  /\ Does("ospf")
  /\ \E s \in OspfRt : todo' = CleanCall({KeyOf("osp", s[1], s[2], NoGw)})
  /\ UNCHANGED <<db, upd, kern, ext, trig, env>>

(* OSPF drops its RIP routes and asks for them again: ROUTE_RQ,               *)
(* ripdb_route_request                                                        *)
RxRouteRequest ==
  /\ Does("request")
  /\ ext' = [p \in Prefix |-> GwsOf(LastOf(db, {k \in Used(db, p) : k.t = "rip" /\ HopUp(k)}))]
  /\ UNCHANGED <<db, upd, kern, trig, todo, env>>

(* ------------------------------ the commands ---------------------------- *)
(* told is what the listeners heard while link and network stayed in place *)
Forget(i) == [told EXCEPT ![i] = [p \in Prefix |-> {}]]

cliNetworkCidrCmd ==
  /\ Does("network")
  /\ \E i \in Intf : /\ cfg' = [cfg EXCEPT !.net[i] = ~@]
                     /\ told' = Forget(i)
  /\ UNCHANGED <<db, upd, kern, ext, link, joined, trig, mux, todo>>

(* cliRedistStaticCmd, cliRedistConnectedCmd, cliRedistOspfCmd: another       *)
(* metric (0: no redistribution) first deletes the elements of the type       *)
TypeCalls(t, old, m) == IF m = old /\ m # 0 THEN <<>> ELSE CleanCall(KeysOf(t))

cliRedistStaticCmd ==
  /\ Does("static")
  /\ \E m \in Metrics \union {0} :
       LET c == [cfg EXCEPT !.sta = m]
       IN  cfg' = c /\ todo' = TypeCalls("sta", cfg.sta, m) \o StaCalls(c)
  /\ UNCHANGED <<db, upd, kern, ext, told, link, joined, trig, mux>>

cliRedistConnectedCmd ==
  /\ Does("connected")
  /\ \E m \in Metrics \union {0} :
       LET c == [cfg EXCEPT !.con = m]
       IN  cfg' = c /\ todo' = TypeCalls("con", cfg.con, m) \o ConCalls(c)
  /\ UNCHANGED <<db, upd, kern, ext, told, link, joined, trig, mux>>

cliRedistConnectedSubnetsCmd ==
  /\ Does("loop")
  /\ \E on \in BOOLEAN :
       LET c == [cfg EXCEPT !.sub = on]
       IN  cfg' = c /\ todo' = SubCalls(c)
  /\ UNCHANGED <<db, upd, kern, ext, told, link, joined, trig, mux>>

cliRedistOspfCmd ==
  /\ Does("ospf")
  /\ \E m \in Metrics \union {0} :
       cfg' = [cfg EXCEPT !.osp = m] /\ todo' = TypeCalls("osp", cfg.osp, m)
  /\ UNCHANGED <<db, upd, kern, ext, told, link, joined, trig, mux>>

cliUpdateTimerCmd ==
  /\ Does("timer")
  /\ \E t \in Timers : cfg' = [cfg EXCEPT !.timer = t]
  /\ UNCHANGED <<db, upd, kern, ext, told, link, joined, trig, mux, todo>>

cliNoRouterRipCmd ==
  /\ Does("norouter")
  /\ cfg' = [cfg EXCEPT !.net = [i \in Intf |-> FALSE], !.con = 0, !.sta = 0, !.timer = DefaultTimer]
  /\ told' = [i \in Intf |-> [p \in Prefix |-> {}]]
  /\ todo' = CleanCall(Key)
  /\ UNCHANGED <<db, upd, kern, ext, link, joined, trig, mux>>

(* restart(): rtclean, ripdb_delete_all, the multicast memberships and the    *)
(* redistributed routes                                                       *)
cliClearIpRipCmd ==
  /\ Does("clear")
  /\ kern' = {r \in kern : ~r.rip}
  /\ joined' = [i \in Intf |-> FALSE]
  /\ todo' = CleanCall(Key) \o ConCalls(cfg) \o StaCalls(cfg)
  /\ UNCHANGED <<db, upd, ext, told, link, cfg, trig, mux>>

(* The daemon dies, at any call, and is started again: the database is lost,  *)
(* the configuration is in shared memory                                      *)
Crash ==
  /\ "crash" \in Ops
  /\ db' = [k \in Key |-> NoElem] /\ upd' = FALSE /\ trig' = FALSE
  /\ kern' = {r \in kern : ~r.rip}
  /\ joined' = [i \in Intf |-> FALSE]
  /\ mux' = <<>>
  /\ todo' = ConCalls(cfg) \o StaCalls(cfg)
  /\ UNCHANGED <<ext, told, link, cfg>>

(* --------------------------- the router process ------------------------- *)
(* a link changes: the router process writes link_up and queues a message.    *)
(* Without "flap" it does so only when RIP has seen the change before         *)
LinkChange ==
  /\ "link" \in Ops /\ Len(mux) < MaxQueue
  /\ "flap" \in Ops \/ (mux = <<>> /\ Idle)
  /\ \E i \in Intf :
       /\ link' = [link EXCEPT ![i] = ~@]
       /\ mux' = Append(mux, [intf |-> i, up |-> ~link[i]])
       /\ told' = Forget(i)
  /\ UNCHANGED <<db, upd, kern, ext, joined, cfg, trig, todo>>

StaticRoutes == {[p |-> s[1], rip |-> FALSE, metric |-> 0, multi |-> FALSE, gws |-> {s[2]}] : s \in StaticRt}

Init ==
  /\ db = [k \in Key |-> NoElem] /\ upd = FALSE /\ trig = FALSE
  /\ kern = StaticRoutes
  /\ ext = [p \in Prefix |-> {}]
  /\ told = [i \in Intf |-> [p \in Prefix |-> {}]]
  /\ link = [i \in Intf |-> TRUE] /\ joined = [i \in Intf |-> FALSE]
  /\ \E sta \in Metrics \union {0} :
       cfg = [net |-> [i \in Intf |-> TRUE], con |-> 0, sub |-> FALSE, sta |-> sta, osp |-> 0, timer |-> DefaultTimer]
  /\ mux = <<>> /\ todo = <<>>

Handler == \/ Tick \/ RxResponse \/ RxInterface \/ RxLoopback \/ RxAddRoute \/ RxDelRoute \/ RxRouteRequest
Command == \/ cliNetworkCidrCmd \/ cliRedistStaticCmd \/ cliRedistConnectedCmd
           \/ cliRedistConnectedSubnetsCmd \/ cliRedistOspfCmd \/ cliUpdateTimerCmd
           \/ cliNoRouterRipCmd \/ cliClearIpRipCmd
Loops == \/ Clean \/ Age \/ Send \/ UpdateInterfaces \/ UpdateConnected \/ UpdateSubnets
         \/ UpdateStatic \/ Return

Next == Loops \/ Handler \/ Command \/ Crash \/ LinkChange

Spec == Init /\ [][Next]_vars
FairSpec == Spec /\ WF_vars(Loops) /\ WF_vars(Tick) /\ WF_vars(RxInterface)

(* ------------------------------ properties ------------------------------ *)
(* Every variable has its type: in particular no metric exceeds 16 and no      *)
(* timer the uint8_t it is stored in.                                          *)
TypeOK ==
  /\ db \in [Key -> Elem] /\ upd \in BOOLEAN /\ trig \in BOOLEAN
  /\ kern \subseteq [p : Prefix, rip : BOOLEAN, metric : 0..15, multi : BOOLEAN, gws : SUBSET (Nbr \union Gw)]
  /\ ext \in [Prefix -> SUBSET (Nbr \union Gw)]
  /\ told \in [Intf -> [Prefix -> SUBSET (1..16)]]
  /\ link \in [Intf -> BOOLEAN] /\ joined \in [Intf -> BOOLEAN]
  /\ cfg \in [net : [Intf -> BOOLEAN], con : 0..15, sub : BOOLEAN, sta : 0..15, osp : 0..15, timer : Timers]
  /\ mux \in Seq([intf : Intf, up : BOOLEAN])
  /\ todo \in Seq(Call)

(* Exactly one of an element's two timers runs: the route timeout while the    *)
(* route is usable, the garbage collection once its metric is 16.  With both   *)
(* at zero list_timeout asserts and the rest of the bucket never ages; a dead  *)
(* element without the second would never be freed.                            *)
TimersRun ==
  \A k \in Key : db[k].metric > 0 =>
    IF Dead(db, k) THEN db[k].timeout = 0 /\ db[k].gc > 0 ELSE db[k].timeout > 0 /\ db[k].gc = 0

(* The usable RIP routes of a prefix have one metric, whatever order they were *)
(* learned, worsened, lost and refreshed in: ecmp_add installs them as one     *)
(* equal cost route with the metric of the last one it meets.                  *)
OneMetric ==
  \A p \in Prefix : \A j \in Ecmp(db, p), k \in Ecmp(db, p) : db[j].metric = db[k].metric

(* Between handlers the kernel has, for every prefix, the RIP route the        *)
(* database asks for and no other: the deletions of ecmp_del name exactly what *)
(* the last ecmp_add installed, also when the route is taken over by another   *)
(* type, when rtclean ran first, and after a crash.                            *)
KernelMatches ==
  Idle => \A p \in Prefix : {r \in kern : r.p = p /\ r.rip} = Routes(db, p)

(* When no update is pending, what was announced last on a RIP interface for a *)
(* prefix is infinity or what an element of the prefix still says: a withdrawn *)
(* route was announced as such before it is freed.                             *)
ToldCurrent ==
  Idle /\ ~upd => \A i \in Intf, p \in Prefix :
    joined[i] /\ link[i] /\ cfg.net[i] => told[i][p] \subseteq {Infinity} \union {Ann(db, i, k) : k \in Used(db, p)}

(* Between handlers OSPF redistributes a prefix for RIP only while RIP has a   *)
(* usable route to it.                                                         *)
RedistHasRoute == Idle => \A p \in Prefix : ext[p] # {} => Ecmp(db, p) # {}

(* A route whose timeout is restarted survives the loss of one update: the     *)
(* countdown timer spans at least two update intervals.                        *)
TimeoutSpansUpdates ==
  [][\A k \in Key : db'[k].timeout > db[k].timeout => db'[k].timeout >= 2 * cfg.timer]_vars

(* Once a link stays down, every route through the interface ends up dead or   *)
(* freed and stays so, although the periodic loops go on adding routes.        *)
Withdrawn == \A i \in Intf : <>[]~link[i] => <>[](\A k \in Key : db[k].intf = i => Dead(db, k) \/ db[k].metric = 0)

(* Once an interface stays up and inside a RIP network, its network route ends *)
(* up usable and stays so.                                                     *)
NetUsable(i) == LET e == db[IntfKey("net", i)] IN 0 < e.metric /\ e.metric < Infinity
Recovered == \A i \in Intf : <>[](link[i] /\ cfg.net[i]) => <>[]NetUsable(i)

(* ----------------- what the code does not guarantee --------------------- *)
(* Three statements that TLC refutes at once.                                  *)
(* RIP never removes a static route from the kernel.  Broken by a static route *)
(* with the prefix and the next hop of a RIP route (StaticRt <- StaticViaN1):  *)
(* rcpDelRoute names neither protocol nor metric.                              *)
StaticKept == StaticRoutes \subseteq kern

(* The next hop OSPF was given for a prefix is the next hop of a usable RIP    *)
(* route to it: ecmp_add redistributes "ecmp routes" (rip_db.c:205).  Broken   *)
(* by three neighbours and Ops = {"rx"}.                                       *)
RedistGw == Idle => \A p \in Prefix : ext[p] \subseteq GwsOf(Ecmp(db, p))

(* A prefix announced as unreachable on an interface is unreachable, or is     *)
(* poisoned because a usable route to it leaves through that interface.        *)
(* Broken by two neighbours on interface 2 and Ops = {"rx"}.                   *)
AnnouncedReachable ==
  Idle /\ ~upd => \A i \in Intf, p \in Prefix :
    joined[i] /\ link[i] /\ cfg.net[i] /\ told[i][p] = {Infinity} =>
      \/ \A k \in Used(db, p) : Ann(db, i, k) = Infinity
      \/ \E k \in Ecmp(db, p) : On[k.by] = i
=============================================================================
