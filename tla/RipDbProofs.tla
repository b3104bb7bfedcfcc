----------------------------- MODULE RipDbProofs -----------------------------
(* Proofs about RipDb for every set of interfaces, neighbours and prefixes.    *)
(*                                                                             *)
(* DbInv is inductive: the database is well typed, the elements of a bucket    *)
(* have different places in its list, every element has one timer running, and *)
(* the usable RIP routes of a prefix have one metric.  KernelInv adds that the *)
(* kernel has for every prefix either what the database asks for or, while     *)
(* rtclean's work is being followed up, nothing.  HasRoute ties OSPF's copy to *)
(* the database; ToldInv ties what the neighbours were told to it, through the *)
(* order of the calls of a tick.                                               *)
EXTENDS RipDb, TLAPS

(* ----------------------------- constants -------------------------------- *)
(* What the key of a database element can be. *)
LEMMA KeyFacts ==
  /\ \A k \in Key : /\ k.p \in Prefix
                    /\ k.gw \in Gw \union {NoGw}
                    /\ k.t \in {"sta", "osp", "rip"} => k.gw \in Gw
                    /\ k.t = "rip" => k.by \in Nbr
  /\ \A i \in Intf : IntfKey("net", i) \in Key /\ IntfKey("con", i) \in Key
  /\ \A i \in Loop : IntfKey("sub", i) \in Key
  /\ \A s \in OspfRt : KeyOf("osp", s[1], s[2], NoGw) \in Key
  /\ \A p \in RxPrefix, h \in Hops : KeyOf("rip", p, h[1], h[2]) \in Key
<1>1. \A k \in Key : k.p \in Prefix
  BY ShapeAssumption DEF Key, KeyOf, IntfKey, Prefix
<1>2. \A k \in Key : k.gw \in Gw \union {NoGw} /\ (k.t \in {"sta", "osp", "rip"} => k.gw \in Gw)
  <2> SUFFICES ASSUME NEW k \in Key PROVE k.gw \in Gw \union {NoGw} /\ (k.t \in {"sta", "osp", "rip"} => k.gw \in Gw)
    OBVIOUS
  <2>1. CASE \E t \in {"net", "con"}, i \in Intf : k = IntfKey(t, i)
    BY <2>1 DEF IntfKey, KeyOf
  <2>2. CASE \E i \in Loop : k = IntfKey("sub", i)
    BY <2>2 DEF IntfKey, KeyOf
  <2>3. CASE \E s \in StaticRt : k = KeyOf("sta", s[1], s[2], NoGw)
    BY <2>3 DEF KeyOf, Gw
  <2>4. CASE \E s \in OspfRt : k = KeyOf("osp", s[1], s[2], NoGw)
    BY <2>4 DEF KeyOf, Gw
  <2>5. CASE \E p \in RxPrefix, h \in Hops : k = KeyOf("rip", p, h[1], h[2])
    BY <2>5 DEF KeyOf, Gw
  <2> QED BY <2>1, <2>2, <2>3, <2>4, <2>5 DEF Key
<1>3. \A k \in Key : k.t = "rip" => k.by \in Nbr
  BY ShapeAssumption DEF Key, KeyOf, IntfKey
<1>4. /\ \A i \in Intf : IntfKey("net", i) \in Key /\ IntfKey("con", i) \in Key
      /\ \A i \in Loop : IntfKey("sub", i) \in Key
  BY DEF Key
<1>5. /\ \A s \in OspfRt : KeyOf("osp", s[1], s[2], NoGw) \in Key
      /\ \A p \in RxPrefix, h \in Hops : KeyOf("rip", p, h[1], h[2]) \in Key
  BY DEF Key
<1> QED BY <1>1, <1>2, <1>3, <1>4, <1>5

(* The interface a next hop or a neighbour is on. *)
LEMMA OnFacts ==
  /\ \A k \in Key : k.t \in {"sta", "osp", "rip"} => On[k.gw] \in Intf
  /\ \A k \in Key : k.gw # NoGw => k.gw \in Gw /\ On[k.gw] \in Intf
  /\ \A h \in Hops : On[h[2]] \in Intf
  /\ \A s \in OspfRt : On[s[2]] \in Intf
<1>1. \A g \in Gw : On[g] \in Intf
  BY ShapeAssumption
<1>2. \A h \in Hops : On[h[2]] \in Intf
  BY ShapeAssumption
<1>3. \A s \in OspfRt : On[s[2]] \in Intf
  BY <1>1 DEF Gw
<1> QED BY <1>1, <1>2, <1>3, KeyFacts

(* RIP_ROUTE_TIMEOUT and RIP_ROUTE_CLEANUP are not zero in their uint8_t. *)
LEMMA TimerFacts ==
  ASSUME cfg.timer \in Timers
  PROVE  RouteTimeout \in 1..255 /\ RouteCleanup \in 1..255
<1> DEFINE t == cfg.timer
<1>1. t \in 1..60
  BY NumberAssumption
<1> HIDE DEF t
<1>2. (t * 6) % 256 \in 1..255 /\ (t * 4) % 256 \in 1..255
  BY <1>1
<1> QED BY <1>2 DEF RouteTimeout, RouteCleanup, t

(* ------------------------------ elements -------------------------------- *)
(* Marking an element as deleted keeps its place and starts its garbage collection. *)
LEMMA KillElem ==
  ASSUME cfg.timer \in Timers, NEW e \in Elem
  PROVE  /\ Kill(e) \in Elem
         /\ Kill(e).metric = Infinity /\ Kill(e).timeout = 0
         /\ Kill(e).gc > 0 /\ Kill(e).pos = e.pos /\ Kill(e).intf = e.intf
<1> DEFINE u == e.updated \/ e.gc = 0
           c == IF e.gc = 0 THEN RouteCleanup ELSE e.gc
<1>1. u \in BOOLEAN
  OBVIOUS
<1>2. c \in 1..255
  BY TimerFacts DEF Elem
<1>3. Kill(e) = [e EXCEPT !.metric = Infinity, !.timeout = 0, !.gc = c, !.updated = u]
  BY Zenon DEF Kill
<1> HIDE DEF u, c
<1>4. Kill(e) = [metric |-> Infinity, timeout |-> 0, gc |-> c, updated |-> u, intf |-> e.intf, pos |-> e.pos]
  BY <1>3 DEF Elem
<1> QED BY <1>1, <1>2, <1>4 DEF Elem, Infinity

(* An element written by ripdb_add has its timeout running. *)
LEMMA FreshElem ==
  ASSUME cfg.timer \in Timers, NEW m \in 1..15, NEW i \in Intf \union Loop, NEW pos \in Nat, NEW u \in BOOLEAN
  PROVE  LET e == [Fresh(m, i, pos) EXCEPT !.updated = u]
         IN  /\ e \in Elem /\ Fresh(m, i, pos) \in Elem
             /\ e.metric = m /\ e.timeout > 0 /\ e.gc = 0 /\ e.pos = pos
             /\ Fresh(m, i, pos).metric = m /\ Fresh(m, i, pos).timeout > 0
             /\ Fresh(m, i, pos).gc = 0 /\ Fresh(m, i, pos).pos = pos
  BY TimerFacts DEF Fresh, Elem

(* ------------------------------ databases ------------------------------- *)
(* the places of the elements in the lists of the hash table *)
Listed(d) ==
  /\ \A k \in Key : d[k].metric > 0 => d[k].pos > 0
  /\ \A j \in Key, k \in Key :
       d[j].metric > 0 /\ d[k].metric > 0 /\ Bucket[j.p] = Bucket[k.p] /\ j # k => d[j].pos # d[k].pos

(* TimersRun and OneMetric of a database d *)
Timed(d) ==
  \A k \in Key : d[k].metric > 0 =>
    IF Dead(d, k) THEN d[k].timeout = 0 /\ d[k].gc > 0 ELSE d[k].timeout > 0 /\ d[k].gc = 0

Even(d, p) == \A j \in Ecmp(d, p), k \in Ecmp(d, p) : d[j].metric = d[k].metric

GoodDb(d) == d \in [Key -> Elem] /\ Listed(d) /\ Timed(d) /\ \A p \in Prefix : Even(d, p)

(* the routes to other prefixes than p are the same in d and e *)
SameElsewhere(d, e, p) == \A q \in Prefix \ {p} : Routes(e, q) = Routes(d, q)

(* the routes ecmp_add installs for q depend on the usable RIP elements of q,  *)
(* their metrics and their order in the list only                              *)
LEMMA RoutesSame ==
  ASSUME NEW d, NEW e, NEW q,
         Ecmp(e, q) = Ecmp(d, q),
         \A k \in Ecmp(d, q) : e[k].metric = d[k].metric,
         \A j \in Ecmp(d, q), k \in Ecmp(d, q) : (e[j].pos <= e[k].pos) <=> (d[j].pos <= d[k].pos)
  PROVE  Routes(e, q) = Routes(d, q)
<1>1. LastOf(e, Ecmp(e, q)) = LastOf(d, Ecmp(d, q))
  BY DEF LastOf
<1>2. \A k \in LastOf(d, Ecmp(d, q)) : e[k].metric = d[k].metric
  BY DEF LastOf
<1> QED BY <1>1, <1>2, Zenon DEF Routes

(* elements of q that keep metric and place *)
LEMMA Untouched ==
  ASSUME NEW d, NEW e, NEW q,
         \A k \in Key : k.p = q /\ k.t = "rip" => e[k].metric = d[k].metric /\ e[k].pos = d[k].pos
  PROVE  /\ Ecmp(e, q) = Ecmp(d, q)
         /\ Routes(e, q) = Routes(d, q)
         /\ Even(d, q) => Even(e, q)
<1>1. Ecmp(e, q) = Ecmp(d, q) /\ \A k \in Ecmp(d, q) : e[k].metric = d[k].metric /\ e[k].pos = d[k].pos
  BY DEF Ecmp, Used, Dead
<1>2. Routes(e, q) = Routes(d, q)
  BY <1>1, RoutesSame
<1> QED BY <1>1, <1>2 DEF Even

(* An element that changes anything but its place. *)
LEMMA UpdateGood ==
  ASSUME NEW d, GoodDb(d), NEW k \in Key, d[k].metric > 0,
         NEW e \in Elem, e.metric > 0, e.pos = d[k].pos,
         IF e.metric = Infinity THEN e.timeout = 0 /\ e.gc > 0 ELSE e.timeout > 0 /\ e.gc = 0
  PROVE  LET x == [d EXCEPT ![k] = e]
         IN  /\ x \in [Key -> Elem] /\ Listed(x) /\ Timed(x)
             /\ \A q \in Prefix \ {k.p} : Even(x, q)
             /\ SameElsewhere(d, x, k.p)
             /\ k.t # "rip" \/ e.metric = d[k].metric => GoodDb(x) /\ Routes(x, k.p) = Routes(d, k.p)
<1> DEFINE x == [d EXCEPT ![k] = e]
<1>1. x \in [Key -> Elem] /\ x[k] = e /\ \A j \in Key \ {k} : x[j] = d[j]
  BY DEF GoodDb
<1> HIDE DEF x
<1>2. Listed(x)
  BY <1>1 DEF GoodDb, Listed
<1>3. Timed(x)
  BY <1>1 DEF GoodDb, Timed, Dead
<1>4. ASSUME NEW q \in Prefix, q # k.p \/ k.t # "rip" \/ e.metric = d[k].metric
      PROVE  Even(x, q) /\ Routes(x, q) = Routes(d, q)
  <2>1. \A j \in Key : j.p = q /\ j.t = "rip" => x[j].metric = d[j].metric /\ x[j].pos = d[j].pos
    BY <1>1, <1>4
  <2> QED BY <2>1, Untouched DEF GoodDb
<1> QED BY <1>1, <1>2, <1>3, <1>4, KeyFacts DEF GoodDb, SameElsewhere, x

(* clean_route marks an element as deleted. *)
LEMMA KillGood ==
  ASSUME cfg.timer \in Timers, NEW d, GoodDb(d), NEW k \in Key, d[k].metric > 0
  PROVE  LET x == [d EXCEPT ![k] = Kill(@)]
         IN  /\ GoodDb(x) /\ SameElsewhere(d, x, k.p)
             /\ k.t # "rip" => Routes(x, k.p) = Routes(d, k.p)
<1> DEFINE x == [d EXCEPT ![k] = Kill(@)]
           e == Kill(d[k])
<1>1. d[k] \in Elem
  BY DEF GoodDb
<1>2. e \in Elem /\ e.metric = Infinity /\ e.timeout = 0 /\ e.gc > 0 /\ e.pos = d[k].pos
  BY <1>1, KillElem
<1>3. x = [d EXCEPT ![k] = e]
  OBVIOUS
<1> HIDE DEF x, e
<1>4. LET y == [d EXCEPT ![k] = e]
      IN  /\ y \in [Key -> Elem] /\ Listed(y) /\ Timed(y)
          /\ \A q \in Prefix \ {k.p} : Even(y, q)
          /\ SameElsewhere(d, y, k.p)
          /\ k.t # "rip" \/ e.metric = d[k].metric => GoodDb(y) /\ Routes(y, k.p) = Routes(d, k.p)
  <2>1. e.metric > 0 /\ IF e.metric = Infinity THEN e.timeout = 0 /\ e.gc > 0 ELSE e.timeout > 0 /\ e.gc = 0
    BY <1>2 DEF Infinity
  <2> QED BY <1>2, <2>1, UpdateGood, Zenon
<1>5. Even(x, k.p)
  <2>1. \A j \in Ecmp(x, k.p) : j \in Ecmp(d, k.p) /\ x[j] = d[j]
    BY <1>2, <1>3 DEF Ecmp, Used, Dead, GoodDb
  <2>2. Even(d, k.p)
    BY KeyFacts DEF GoodDb
  <2> QED BY <2>1, <2>2 DEF Even
<1> QED BY <1>3, <1>4, <1>5, KeyFacts DEF GoodDb, x

(* clean_metric leaves the best RIP routes of p, and so equal metrics. *)
LEMMA CleanMetricGood ==
  ASSUME cfg.timer \in Timers, NEW d \in [Key -> Elem], Listed(d), Timed(d),
         NEW p \in Prefix, \A q \in Prefix \ {p} : Even(d, q)
  PROVE  GoodDb(clean_metric(d, p)) /\ SameElsewhere(d, clean_metric(d, p), p)
<1> DEFINE x == clean_metric(d, p)
           W(k) == k.t = "rip" /\ k \in Used(d, p) /\ \E j \in Ecmp(d, p) : d[j].metric < d[k].metric
<1>1. x \in [Key -> Elem] /\ \A k \in Key : x[k] = IF W(k) THEN Kill(d[k]) ELSE d[k]
  BY KillElem DEF clean_metric
<1>2. \A k \in Key : W(k) => /\ k.p = p /\ d[k].metric > 0 /\ x[k].metric = Infinity
                             /\ x[k].timeout = 0 /\ x[k].gc > 0 /\ x[k].pos = d[k].pos
  BY <1>1, KillElem DEF Used
<1>3. \A k \in Key : ~W(k) => x[k] = d[k]
  BY <1>1
<1>4. \A k \in Key : x[k].pos = d[k].pos /\ (x[k].metric > 0 <=> d[k].metric > 0)
  BY <1>2, <1>3 DEF Infinity
<1>5. Listed(x)
  <2> HIDE DEF x, W
  <2> QED BY <1>4 DEF Listed
<1>6. Timed(x)
  <2> HIDE DEF x, W
  <2> QED BY <1>2, <1>3 DEF Timed, Dead
<1>7. ASSUME NEW q \in Prefix \ {p} PROVE Even(x, q) /\ Routes(x, q) = Routes(d, q)
  <2>1. \A k \in Key : k.p = q /\ k.t = "rip" => x[k].metric = d[k].metric /\ x[k].pos = d[k].pos
    <3> HIDE DEF x, W
    <3> QED BY <1>2, <1>3
  <2> HIDE DEF x
  <2> QED BY <2>1, Untouched
<1>8. Even(x, p)
  <2> SUFFICES ASSUME NEW j \in Ecmp(x, p), NEW k \in Ecmp(x, p) PROVE x[j].metric = x[k].metric
    BY DEF Even
  <2>1. j \in Key /\ k \in Key /\ j.t = "rip" /\ k.t = "rip" /\ j.p = p /\ k.p = p
        /\ x[j].metric > 0 /\ x[k].metric > 0 /\ x[j].metric # Infinity /\ x[k].metric # Infinity
    BY DEF Ecmp, Used, Dead
  <2>2. ~W(j) /\ ~W(k) /\ x[j] = d[j] /\ x[k] = d[k]
    <3> HIDE DEF x, W
    <3> QED BY <2>1, <1>2, <1>3
  <2>3. j \in Ecmp(d, p) /\ k \in Ecmp(d, p) /\ j \in Used(d, p) /\ k \in Used(d, p)
    BY <2>1, <2>2 DEF Ecmp, Used, Dead
  <2>4. ~(d[j].metric < d[k].metric) /\ ~(d[k].metric < d[j].metric)
    BY <2>1, <2>2, <2>3
  <2>5. d[j].metric \in Nat /\ d[k].metric \in Nat
    BY <2>1 DEF Elem
  <2> QED BY <2>2, <2>4, <2>5
<1> QED BY <1>1, <1>5, <1>6, <1>7, <1>8 DEF GoodDb, SameElsewhere

(* A better route takes the place of element f. *)
LEMMA ReplaceGood ==
  ASSUME NEW d, GoodDb(d), NEW f \in Key, NEW k \in Key, f.p = k.p, d[f].metric > 0, d[k].metric = 0,
         NEW e \in Elem, e.metric \in 1..15, e.pos = d[f].pos, e.timeout > 0, e.gc = 0
  PROVE  LET x == [d EXCEPT ![f] = NoElem, ![k] = e]
         IN  /\ x \in [Key -> Elem] /\ Listed(x) /\ Timed(x)
             /\ \A q \in Prefix \ {k.p} : Even(x, q)
             /\ SameElsewhere(d, x, k.p)
<1> DEFINE x == [d EXCEPT ![f] = NoElem, ![k] = e]
<1>1. /\ x \in [Key -> Elem] /\ x[k] = e /\ x[f] = NoElem /\ f # k
      /\ \A j \in Key \ {f, k} : x[j] = d[j]
  <2>1. NoElem \in Elem
    BY DEF NoElem, Elem
  <2>2. d \in [Key -> Elem] /\ f # k
    BY DEF GoodDb
  <2> QED BY <2>1, <2>2
<1> HIDE DEF x
<1>2. Listed(x)
  <2>1. x[f].metric = 0
    BY <1>1 DEF NoElem
  <2>2. \A j \in Key \ {f, k} : j # f /\ x[j] = d[j]
    BY <1>1
  <2>3. x[k].pos = d[f].pos /\ Listed(d)
    BY <1>1 DEF GoodDb
  <2> QED BY <2>1, <2>2, <2>3 DEF Listed
<1>3. Timed(x)
  BY <1>1 DEF GoodDb, Timed, Dead, NoElem, Infinity
<1>4. ASSUME NEW q \in Prefix \ {k.p} PROVE Even(x, q) /\ Routes(x, q) = Routes(d, q)
  <2>1. \A j \in Key : j.p = q /\ j.t = "rip" => x[j].metric = d[j].metric /\ x[j].pos = d[j].pos
    BY <1>1
  <2> QED BY <2>1, Untouched DEF GoodDb
<1> QED BY <1>1, <1>2, <1>3, <1>4 DEF SameElsewhere, x

(* An element is put at the head of its bucket's list. *)
LEMMA InsertGood ==
  ASSUME NEW d, GoodDb(d), NEW k \in Key, d[k].metric = 0,
         NEW e \in Elem, e.metric \in 1..15, e.timeout > 0, e.gc = 0,
         \A j \in Ecmp(d, k.p) : k.t = "rip" => d[j].metric = e.metric
  PROVE  LET x == Insert(d, k, e)
         IN  /\ GoodDb(x) /\ SameElsewhere(d, x, k.p)
             /\ k.t # "rip" => Routes(x, k.p) = Routes(d, k.p)
<1> DEFINE x == Insert(d, k, e)
           B(j) == Bucket[j.p] = Bucket[k.p] /\ d[j].metric > 0
<1>1. /\ x \in [Key -> Elem] /\ x[k] = [e EXCEPT !.pos = 1]
      /\ \A j \in Key \ {k} : x[j] = IF B(j) THEN [d[j] EXCEPT !.pos = @ + 1] ELSE d[j]
  <2>1. d \in [Key -> Elem]
    BY DEF GoodDb
  <2>2. [e EXCEPT !.pos = 1] \in Elem
    BY DEF Elem
  <2>3. ASSUME NEW j \in Key PROVE [d[j] EXCEPT !.pos = @ + 1] \in Elem
    <3>1. d[j] \in Elem
      BY <2>1
    <3> QED BY <3>1 DEF Elem
  <2>4. x = [j \in Key |-> IF j = k THEN [e EXCEPT !.pos = 1]
                          ELSE IF B(j) THEN [d[j] EXCEPT !.pos = @ + 1] ELSE d[j]]
    BY DEF Insert, InBucket
  <2> HIDE DEF x, B
  <2> QED BY <2>1, <2>2, <2>3, <2>4
<1>2. x[k].metric = e.metric /\ x[k].pos = 1 /\ x[k].timeout = e.timeout /\ x[k].gc = e.gc
  BY <1>1 DEF Elem
<1>3. \A j \in Key \ {k} : /\ x[j].metric = d[j].metric /\ x[j].timeout = d[j].timeout /\ x[j].gc = d[j].gc
                           /\ x[j].pos = IF B(j) THEN d[j].pos + 1 ELSE d[j].pos
                           /\ d[j].pos \in Nat /\ d[j].metric \in Nat
  BY <1>1 DEF GoodDb, Elem
<1> HIDE DEF x
<1>4. Listed(x)
  <2>1. \A j \in Key : x[j].metric > 0 => x[j].pos > 0
    BY <1>2, <1>3 DEF GoodDb, Listed
  <2>2. \A j \in Key \ {k} : B(j) => x[j].pos > 1
    BY <1>3 DEF GoodDb, Listed
  <2>3. ASSUME NEW i \in Key \ {k}, NEW j \in Key \ {k}, x[i].metric > 0, x[j].metric > 0,
               Bucket[i.p] = Bucket[j.p], i # j
        PROVE  x[i].pos # x[j].pos
    <3>1. d[i].pos # d[j].pos
      BY <1>3, <2>3 DEF GoodDb, Listed
    <3> QED BY <1>3, <2>3, <3>1
  <2>4. \A j \in Key \ {k} : x[j].metric > 0 /\ Bucket[j.p] = Bucket[k.p] => x[j].pos # x[k].pos
    BY <1>2, <1>3, <2>2
  <2> QED BY <2>1, <2>3, <2>4 DEF Listed
<1>5. Timed(x)
  BY <1>2, <1>3 DEF GoodDb, Timed, Dead, Infinity
<1>6. ASSUME NEW q \in Prefix, q # k.p \/ k.t # "rip" PROVE Even(x, q) /\ Routes(x, q) = Routes(d, q)
  <2>1. Ecmp(x, q) = Ecmp(d, q) /\ k \notin Ecmp(d, q)
    BY <1>3, <1>6 DEF Ecmp, Used, Dead
  <2>2. \A j \in Ecmp(d, q) : j \in Key \ {k} /\ j.p = q /\ d[j].metric > 0
    BY <2>1 DEF Ecmp, Used
  <2>3. \A i \in Ecmp(d, q), j \in Ecmp(d, q) : (x[i].pos <= x[j].pos) <=> (d[i].pos <= d[j].pos)
    BY <1>3, <2>2
  <2>4. Routes(x, q) = Routes(d, q)
    BY <1>3, <2>1, <2>2, <2>3, RoutesSame
  <2> QED BY <1>3, <2>1, <2>2, <2>4 DEF Even, GoodDb
<1>7. k.t = "rip" => Even(x, k.p)
  <2>1. \A j \in Ecmp(x, k.p) : j # k => j \in Ecmp(d, k.p) /\ j \in Key \ {k}
    BY <1>3 DEF Ecmp, Used, Dead
  <2> QED BY <1>2, <1>3, <2>1 DEF Even
<1> QED BY <1>1, <1>4, <1>5, <1>6, <1>7, KeyFacts DEF GoodDb, SameElsewhere, x

(* A dead element is taken out of its bucket's list. *)
LEMMA FreeGood ==
  ASSUME NEW d, GoodDb(d), NEW k \in Key, d[k].metric = Infinity
  PROVE  GoodDb(Free(d, k)) /\ \A q \in Prefix : Routes(Free(d, k), q) = Routes(d, q)
<1> DEFINE x == Free(d, k)
           B(j) == Bucket[j.p] = Bucket[k.p] /\ d[j].metric > 0 /\ d[j].pos > d[k].pos
<1>1. /\ x \in [Key -> Elem] /\ x[k] = NoElem
      /\ \A j \in Key \ {k} : x[j] = IF B(j) THEN [d[j] EXCEPT !.pos = @ - 1] ELSE d[j]
  <2>1. NoElem \in Elem
    BY DEF NoElem, Elem
  <2>2. \A j \in Key : d[j] \in Elem
    BY DEF GoodDb
  <2>3. \A j \in Key : B(j) => [d[j] EXCEPT !.pos = @ - 1] \in Elem
    BY <2>2 DEF Elem
  <2> QED BY <2>1, <2>2, <2>3 DEF Free, InBucket
<1>2. x[k].metric = 0
  BY <1>1 DEF NoElem
<1>3. \A j \in Key \ {k} : /\ x[j].metric = d[j].metric /\ x[j].timeout = d[j].timeout /\ x[j].gc = d[j].gc
                           /\ x[j].pos = IF B(j) THEN d[j].pos - 1 ELSE d[j].pos
                           /\ d[j].pos \in Nat /\ d[j].metric \in Nat
  BY <1>1 DEF GoodDb, Elem
<1>4. d[k].pos \in Nat /\ d[k].pos > 0 /\ \A j \in Key \ {k} : d[j].metric > 0 /\ Bucket[j.p] = Bucket[k.p] => d[j].pos # d[k].pos
  BY DEF GoodDb, Listed, Elem, Infinity
<1> HIDE DEF x
<1>5. Listed(x)
  <2>1. \A j \in Key : x[j].metric > 0 => x[j].pos > 0
    BY <1>2, <1>3, <1>4 DEF GoodDb, Listed
  <2>2. ASSUME NEW i \in Key \ {k}, NEW j \in Key \ {k}, x[i].metric > 0, x[j].metric > 0,
               Bucket[i.p] = Bucket[j.p], i # j
        PROVE  x[i].pos # x[j].pos
    <3>1. d[i].pos # d[j].pos
      BY <1>3, <2>2 DEF GoodDb, Listed
    <3> QED BY <1>3, <1>4, <2>2, <3>1
  <2> QED BY <1>2, <2>1, <2>2 DEF Listed
<1>6. Timed(x)
  BY <1>2, <1>3 DEF GoodDb, Timed, Dead, Infinity
<1>7. ASSUME NEW q \in Prefix PROVE Even(x, q) /\ Routes(x, q) = Routes(d, q)
  <2>1. Ecmp(x, q) = Ecmp(d, q) /\ k \notin Ecmp(d, q)
    BY <1>2, <1>3 DEF Ecmp, Used, Dead
  <2>2. \A j \in Ecmp(d, q) : j \in Key \ {k} /\ j.p = q /\ d[j].metric > 0
    BY <2>1 DEF Ecmp, Used
  <2>3. \A i \in Ecmp(d, q), j \in Ecmp(d, q) : (x[i].pos <= x[j].pos) <=> (d[i].pos <= d[j].pos)
    BY <1>3, <1>4, <2>2
  <2>4. Routes(x, q) = Routes(d, q)
    BY <1>3, <2>1, <2>2, <2>3, RoutesSame
  <2> QED BY <1>3, <2>1, <2>2, <2>4 DEF Even, GoodDb
<1> QED BY <1>1, <1>5, <1>6, <1>7 DEF GoodDb, x

(* ------------------------------ the kernel ------------------------------ *)
Route == [p : Prefix, rip : BOOLEAN, metric : 0..15, multi : BOOLEAN, gws : SUBSET (Nbr \union Gw)]

RipOf(K, p) == {r \in K : r.p = p /\ r.rip}

(* the static part of the kernel is what the router process installed *)
StaticExact(K) == {r \in K : ~r.rip} = StaticRoutes

(* No neighbour announces a prefix that has a static route through the next hop *)
(* of that static route.                                                        *)
NoSharedHop == \A s \in StaticRt, k \in Key : ~(k.t = "rip" /\ k.p = s[1] /\ k.gw = s[2])

(* The elements ecmp_add and ecmp_del count are usable RIP routes of the prefix. *)
LEMMA EcmpFacts ==
  ASSUME NEW d \in [Key -> Elem], NEW p \in Prefix
  PROVE  /\ \A k \in Ecmp(d, p) : k \in Key /\ k.t = "rip" /\ k.p = p /\ d[k].metric \in 1..15
         /\ GwsOf(Ecmp(d, p)) \subseteq Nbr \union Gw
         /\ Multi(Ecmp(d, p)) \in BOOLEAN
<1>1. \A k \in Ecmp(d, p) : k \in Key /\ k.t = "rip" /\ k.p = p /\ d[k].metric \in 1..15
  BY DEF Ecmp, Used, Dead, Infinity, Elem
<1>2. GwsOf(Ecmp(d, p)) \subseteq Nbr \union Gw
  BY <1>1, KeyFacts DEF GwsOf
<1>3. Multi(Ecmp(d, p)) \in BOOLEAN
  BY DEF Multi
<1> QED BY <1>1, <1>2, <1>3

(* What ecmp_add installs is a RIP route of the prefix through all its next hops. *)
LEMMA RoutesFacts ==
  ASSUME NEW d \in [Key -> Elem], NEW p \in Prefix, NEW r \in Routes(d, p)
  PROVE  /\ r \in Route /\ r.p = p /\ r.rip /\ Ecmp(d, p) # {}
         /\ r.multi = Multi(Ecmp(d, p)) /\ r.gws = GwsOf(Ecmp(d, p))
<1> DEFINE b == Multi(Ecmp(d, p))
           g == GwsOf(Ecmp(d, p))
<1>1. b \in BOOLEAN /\ g \in SUBSET (Nbr \union Gw)
  BY EcmpFacts
<1>2. PICK k \in LastOf(d, Ecmp(d, p)) : r = [p |-> p, rip |-> TRUE, metric |-> d[k].metric, multi |-> b, gws |-> g]
  BY DEF Routes
<1>3. k \in Ecmp(d, p)
  BY DEF LastOf
<1>4. d[k].metric \in 0..15
  BY <1>3, EcmpFacts
<1> HIDE DEF b, g
<1>5. r \in Route /\ r.p = p /\ r.rip /\ r.multi = b /\ r.gws = g
  BY <1>1, <1>2, <1>4 DEF Route
<1> QED BY <1>3, <1>5 DEF b, g

(* ecmp_del and ecmp_add leave the kernel's routes to other prefixes alone. *)
LEMMA ReinstallType ==
  ASSUME db \in [Key -> Elem], NEW d \in [Key -> Elem], NEW p \in Prefix,
         kern \subseteq Route, ext \in [Prefix -> SUBSET (Nbr \union Gw)], Reinstall(d, p)
  PROVE  /\ kern' \subseteq Route /\ ext' \in [Prefix -> SUBSET (Nbr \union Gw)]
         /\ \A q \in Prefix \ {p} : RipOf(kern', q) = RipOf(kern, q)
<1> DEFINE K == ecmp_del(kern, db, p)
<1>1. K \subseteq kern /\ \A r \in kern : r.p # p => r \in K
  BY DEF ecmp_del, rcpDelECMPRoute, rcpDelRoute
<1>2. kern' = ecmp_add(K, d, p)
  BY DEF Reinstall
<1> HIDE DEF K
<1>3. \A r \in kern' : r \in K \/ (r \in Route /\ r.p = p)
  BY <1>2, RoutesFacts DEF ecmp_add
<1>4. K \subseteq kern'
  BY <1>2 DEF ecmp_add
<1>5. kern' \subseteq Route
  BY <1>1, <1>3
<1>6. \A q \in Prefix \ {p} : RipOf(kern', q) = RipOf(kern, q)
  BY <1>1, <1>3, <1>4 DEF RipOf
<1>7. ExtDel(ext, db, p) \in [Prefix -> SUBSET (Nbr \union Gw)]
  BY DEF ExtDel
<1>8. \A y \in [Prefix -> SUBSET (Nbr \union Gw)] : ExtAdd(y, d, p) \in [Prefix -> SUBSET (Nbr \union Gw)]
  <2> DEFINE S == IF Multi(Ecmp(d, p)) THEN InBucket(d, p) ELSE Ecmp(d, p)
             up == {k \in S : HopUp(k)}
  <2>1. \A k \in LastOf(d, up) : k \in Key /\ k.gw # NoGw
    BY EcmpFacts DEF LastOf, HopUp, InBucket
  <2>2. GwsOf(LastOf(d, up)) \in SUBSET (Nbr \union Gw)
    BY <2>1, KeyFacts DEF GwsOf
  <2>3. \A y : ExtAdd(y, d, p) = IF Ecmp(d, p) = {} \/ up = {} THEN y ELSE [y EXCEPT ![p] = GwsOf(LastOf(d, up))]
    BY DEF ExtAdd
  <2> HIDE DEF up
  <2> QED BY <2>2, <2>3
<1> QED BY <1>5, <1>6, <1>7, <1>8 DEF Reinstall

(* ecmp_del removes what the last ecmp_add installed, ecmp_add installs what d *)
(* asks for, and no static route is touched.                                   *)
LEMMA ReinstallSettles ==
  ASSUME NoSharedHop, StaticExact(kern),
         db \in [Key -> Elem], NEW d \in [Key -> Elem], NEW p \in Prefix,
         kern \subseteq Route, Reinstall(d, p),
         RipOf(kern, p) = Routes(db, p) \/ RipOf(kern, p) = {}
  PROVE  RipOf(kern', p) = Routes(d, p) /\ StaticExact(kern')
<1> DEFINE K == ecmp_del(kern, db, p)
           S == Ecmp(db, p)
<1>1. \A r \in kern : ~r.rip => ~(r.p = p /\ ~Multi(S) /\ S # {} /\ r.gws = GwsOf(S))
  <2> SUFFICES ASSUME NEW r \in kern, ~r.rip, r.p = p, S # {}, r.gws = GwsOf(S) PROVE FALSE
    OBVIOUS
  <2>1. PICK s \in StaticRt : r.p = s[1] /\ r.gws = {s[2]}
    BY DEF StaticExact, StaticRoutes
  <2>2. PICK k \in S : TRUE
    OBVIOUS
  <2>3. k.gw \in GwsOf(S) /\ k \in Key /\ k.t = "rip" /\ k.p = p
    BY EcmpFacts DEF GwsOf
  <2> QED BY <2>1, <2>3 DEF NoSharedHop
<1>2. K \subseteq kern
  BY DEF ecmp_del, rcpDelECMPRoute, rcpDelRoute
<1>3. \A r \in kern : ~r.rip => r \in K
  BY <1>1 DEF ecmp_del, rcpDelECMPRoute, rcpDelRoute
<1>4. RipOf(K, p) = {}
  <2>1. CASE RipOf(kern, p) = {}
    BY <1>2, <2>1 DEF RipOf
  <2>2. CASE RipOf(kern, p) = Routes(db, p)
    <3> SUFFICES ASSUME NEW r \in kern, r.p = p, r.rip PROVE r \notin K
      BY <1>2 DEF RipOf
    <3>1. r.multi = Multi(S) /\ r.gws = GwsOf(S) /\ S # {}
      BY <2>2, RoutesFacts DEF RipOf
    <3>2. CASE Multi(S)
      BY <3>1, <3>2 DEF ecmp_del, rcpDelECMPRoute
    <3>3. CASE ~Multi(S)
      <4>1. K = rcpDelRoute(kern, p, GwsOf(S))
        BY <3>1, <3>3 DEF ecmp_del
      <4>2. ~\E q \in kern : q.p = p /\ ~q.multi /\ q.gws = GwsOf(S) /\ ~q.rip
        BY <1>1, <3>1, <3>3
      <4> QED BY <3>1, <3>3, <4>1, <4>2 DEF rcpDelRoute
    <3> QED BY <3>2, <3>3
  <2> QED BY <2>1, <2>2
<1>5. kern' = ecmp_add(K, d, p)
  BY DEF Reinstall
<1> HIDE DEF K
<1>6. kern' = K \union Routes(d, p)
  BY <1>4, <1>5 DEF ecmp_add, RipOf
<1>7. RipOf(kern', p) = Routes(d, p)
  BY <1>4, <1>6, RoutesFacts DEF RipOf
<1>8. StaticExact(kern')
  BY <1>2, <1>3, <1>6, RoutesFacts DEF StaticExact
<1> QED BY <1>7, <1>8

(* --------------------------- database calls ----------------------------- *)
ExtType == [Prefix -> SUBSET (Nbr \union Gw)]
CfgType == [net : [Intf -> BOOLEAN], con : 0..15, sub : BOOLEAN, sta : 0..15, osp : 0..15, timer : Timers]

(* what every database call needs and keeps *)
Sound == GoodDb(db) /\ kern \subseteq Route /\ ext \in ExtType /\ upd \in BOOLEAN

Settled(p) == RipOf(kern, p) = Routes(db, p)
AllSettled == StaticExact(kern) /\ \A p \in Prefix : Settled(p)

(* A change of p's elements between ecmp_del and ecmp_add. *)
LEMMA ReinstallCall ==
  ASSUME Sound, NEW d, GoodDb(d), NEW p \in Prefix, SameElsewhere(db, d, p), Reinstall(d, p)
  PROVE  /\ GoodDb(db') /\ kern' \subseteq Route /\ ext' \in ExtType
         /\ \A q \in Prefix \ {p} : RipOf(kern', q) = RipOf(kern, q) /\ Routes(db', q) = Routes(db, q)
         /\ NoSharedHop /\ StaticExact(kern) /\ (Settled(p) \/ RipOf(kern, p) = {})
              => StaticExact(kern') /\ Settled(p)'
         /\ NoSharedHop /\ AllSettled => AllSettled'
<1>1. db \in [Key -> Elem] /\ d \in [Key -> Elem] /\ db' = d
  BY DEF Sound, GoodDb, Reinstall
<1>2. /\ kern' \subseteq Route /\ ext' \in ExtType
      /\ \A q \in Prefix \ {p} : RipOf(kern', q) = RipOf(kern, q)
  BY <1>1, ReinstallType DEF Sound, ExtType
<1>3. \A q \in Prefix \ {p} : Routes(db', q) = Routes(db, q)
  BY <1>1 DEF SameElsewhere
<1>4. NoSharedHop /\ StaticExact(kern) /\ (Settled(p) \/ RipOf(kern, p) = {})
        => StaticExact(kern') /\ Settled(p)'
  BY <1>1, ReinstallSettles DEF Sound, Settled
<1>5. NoSharedHop /\ AllSettled => AllSettled'
  BY <1>2, <1>3, <1>4 DEF AllSettled, Settled
<1> QED BY <1>1, <1>2, <1>3, <1>4, <1>5

(* A change that leaves the routes of every prefix as they are. *)
LEMMA QuietCall ==
  ASSUME Sound, NEW d, GoodDb(d), \A q \in Prefix : Routes(d, q) = Routes(db, q),
         db' = d, UNCHANGED <<kern, ext>>
  PROVE  /\ GoodDb(db') /\ kern' \subseteq Route /\ ext' \in ExtType
         /\ \A q \in Prefix : RipOf(kern', q) = RipOf(kern, q) /\ Routes(db', q) = Routes(db, q)
         /\ AllSettled => AllSettled'
  BY DEF Sound, AllSettled, Settled

(* clean_route keeps the database sound and, for a RIP route, settles its prefix. *)
LEMMA CleanRouteCall ==
  ASSUME Sound, cfg \in CfgType, trig \in BOOLEAN, NEW k \in Key, db[k].metric > 0, clean_route(k)
  PROVE  /\ Sound' /\ trig' \in BOOLEAN
         /\ \A q \in Prefix \ {k.p} : RipOf(kern', q) = RipOf(kern, q) /\ Routes(db', q) = Routes(db, q)
         /\ k.t # "rip" => RipOf(kern', k.p) = RipOf(kern, k.p) /\ Routes(db', k.p) = Routes(db, k.p) /\ kern' = kern
         /\ k.t = "rip" /\ NoSharedHop /\ StaticExact(kern) /\ (Settled(k.p) \/ RipOf(kern, k.p) = {})
              => StaticExact(kern') /\ Settled(k.p)'
         /\ NoSharedHop /\ AllSettled => AllSettled'
         /\ \A q \in Prefix : Ecmp(db', q) \subseteq Ecmp(db, q) \ {k}
<1> DEFINE d == [db EXCEPT ![k] = Kill(@)]
<1>1. k.p \in Prefix /\ cfg.timer \in Timers
  BY KeyFacts DEF CfgType
<1>2. /\ GoodDb(d) /\ SameElsewhere(db, d, k.p)
      /\ k.t # "rip" => Routes(d, k.p) = Routes(db, k.p)
  BY <1>1, KillGood DEF Sound
<1>3. upd' \in BOOLEAN /\ trig' \in BOOLEAN
  BY DEF clean_route
<1>4. db' = d
  BY DEF clean_route, Reinstall
<1>5. \A q \in Prefix : Ecmp(db', q) \subseteq Ecmp(db, q) \ {k}
  <2>1. db \in [Key -> Elem] /\ Kill(db[k]).metric = Infinity
    BY <1>1, KillElem DEF Sound, GoodDb
  <2>2. d[k].metric = Infinity /\ \A j \in Key \ {k} : d[j] = db[j]
    BY <2>1
  <2> HIDE DEF d
  <2> QED BY <1>4, <2>2 DEF Ecmp, Used, Dead
<1> HIDE DEF d
<1>6. CASE k.t = "rip"
  <2>1. Reinstall(d, k.p)
    BY <1>6 DEF clean_route, d
  <2> QED BY <1>1, <1>2, <1>3, <1>5, <1>6, <2>1, ReinstallCall DEF Sound
<1>7. CASE k.t # "rip"
  <2>1. UNCHANGED <<kern, ext>> /\ \A q \in Prefix : Routes(d, q) = Routes(db, q)
    BY <1>2, <1>7 DEF clean_route, SameElsewhere
  <2> QED BY <1>2, <1>3, <1>4, <1>5, <1>7, <2>1, <1>1, QuietCall DEF Sound
<1> QED BY <1>6, <1>7

(* ripdb_add of an element that is there already. *)
LEMMA AddRefreshCall ==
  ASSUME Sound, cfg \in CfgType, NEW k \in Key, NEW m \in 1..15, NEW i \in Intf \union Loop, AddRefresh(k, m, i)
  PROVE  Sound' /\ (NoSharedHop /\ AllSettled => AllSettled')
<1> DEFINE e == db[k]
           update == e.metric # m \/ e.gc # 0 \/ e.intf # i
           u == e.updated \/ update
           f == [Fresh(m, i, e.pos) EXCEPT !.updated = u]
           d == [db EXCEPT ![k] = f]
<1>1. k.p \in Prefix /\ cfg.timer \in Timers /\ e \in Elem /\ e.metric > 0 /\ GoodDb(db)
  BY KeyFacts DEF CfgType, Sound, GoodDb, AddRefresh
<1>2. u \in BOOLEAN /\ e.pos \in Nat
  BY <1>1 DEF Elem
<1>3. f \in Elem /\ f.metric = m /\ f.timeout > 0 /\ f.gc = 0 /\ f.pos = e.pos
  <2> HIDE DEF u, e
  <2> QED BY <1>1, <1>2, FreshElem
<1>4. f.metric > 0 /\ IF f.metric = Infinity THEN f.timeout = 0 /\ f.gc > 0 ELSE f.timeout > 0 /\ f.gc = 0
  BY <1>3 DEF Infinity
<1>5. /\ d \in [Key -> Elem] /\ Listed(d) /\ Timed(d)
      /\ \A q \in Prefix \ {k.p} : Even(d, q)
      /\ SameElsewhere(db, d, k.p)
      /\ k.t # "rip" \/ f.metric = e.metric => GoodDb(d) /\ Routes(d, k.p) = Routes(db, k.p)
  <2> HIDE DEF f
  <2> QED BY <1>1, <1>3, <1>4, UpdateGood
<1>6. /\ IF k.t = "rip" /\ update THEN Reinstall(clean_metric(d, k.p), k.p)
         ELSE db' = d /\ UNCHANGED <<kern, ext>>
      /\ upd' = (upd \/ update)
  BY Zenon DEF AddRefresh
<1>7. upd' \in BOOLEAN
  BY <1>6
<1>8. CASE k.t = "rip" /\ update
  <2> DEFINE x == clean_metric(d, k.p)
  <2> HIDE DEF d, update
  <2>1. GoodDb(x) /\ SameElsewhere(d, x, k.p)
    BY <1>1, <1>5, CleanMetricGood
  <2>2. SameElsewhere(db, x, k.p) /\ Reinstall(x, k.p)
    BY <1>5, <1>6, <1>8, <2>1 DEF SameElsewhere
  <2> HIDE DEF x
  <2> QED BY <1>1, <1>7, <2>1, <2>2, ReinstallCall DEF Sound
<1>9. CASE ~(k.t = "rip" /\ update)
  <2>1. k.t # "rip" \/ f.metric = e.metric
    BY <1>3, <1>9
  <2> HIDE DEF d, f, update, e
  <2>2. GoodDb(d) /\ \A q \in Prefix : Routes(d, q) = Routes(db, q)
    BY <1>5, <2>1 DEF SameElsewhere
  <2> QED BY <1>6, <1>7, <1>9, <2>2, QuietCall DEF Sound
<1> QED BY <1>8, <1>9

(* ripdb_add of a route better than the first one of its prefix. *)
LEMMA AddBetterCall ==
  ASSUME Sound, cfg \in CfgType, NEW k \in Key, NEW m \in 1..15, NEW i \in Intf \union Loop, AddBetter(k, m, i)
  PROVE  Sound' /\ (NoSharedHop /\ AllSettled => AllSettled')
<1>1. PICK f \in First(db, k.p) :
        Reinstall(clean_metric([db EXCEPT ![f] = NoElem, ![k] = Fresh(m, i, db[f].pos)], k.p), k.p)
  BY DEF AddBetter
<1>2. f \in Key /\ f.p = k.p /\ db[f].metric > 0 /\ db[k].metric = 0
  BY DEF First, Used, AddBetter
<1> DEFINE e == Fresh(m, i, db[f].pos)
           d == [db EXCEPT ![f] = NoElem, ![k] = e]
           x == clean_metric(d, k.p)
<1>3. k.p \in Prefix /\ cfg.timer \in Timers /\ db[f].pos \in Nat /\ GoodDb(db)
  BY <1>2, KeyFacts DEF CfgType, Sound, GoodDb, Elem
<1>4. e \in Elem /\ e.metric = m /\ e.timeout > 0 /\ e.gc = 0 /\ e.pos = db[f].pos
  BY <1>3, TimerFacts DEF Fresh, Elem
<1> HIDE DEF e
<1>5. /\ d \in [Key -> Elem] /\ Listed(d) /\ Timed(d)
      /\ \A q \in Prefix \ {k.p} : Even(d, q)
      /\ SameElsewhere(db, d, k.p)
  BY <1>2, <1>3, <1>4, ReplaceGood
<1> HIDE DEF d
<1>6. GoodDb(x) /\ SameElsewhere(d, x, k.p)
  BY <1>3, <1>5, CleanMetricGood
<1>7. SameElsewhere(db, x, k.p) /\ Reinstall(x, k.p)
  BY <1>1, <1>5, <1>6 DEF SameElsewhere, d, e
<1> HIDE DEF x
<1>8. upd' \in BOOLEAN
  BY DEF AddBetter
<1> QED BY <1>3, <1>6, <1>7, <1>8, ReinstallCall DEF Sound

(* ripdb_add of a new prefix or of an equal cost route. *)
LEMMA AddNewCall ==
  ASSUME Sound, cfg \in CfgType, NEW k \in Key, NEW m \in 1..15, NEW i \in Intf \union Loop, AddNew(k, m, i)
  PROVE  Sound' /\ (NoSharedHop /\ AllSettled => AllSettled')
<1> DEFINE e == Fresh(m, i, 1)
           d == Insert(db, k, e)
<1>1. k.p \in Prefix /\ cfg.timer \in Timers /\ GoodDb(db) /\ db[k].metric = 0
  BY KeyFacts DEF CfgType, Sound, AddNew
<1>2. e \in Elem /\ e.metric = m /\ e.timeout > 0 /\ e.gc = 0
  BY <1>1, TimerFacts DEF Fresh, Elem
<1>3. \A j \in Ecmp(db, k.p) : k.t = "rip" => db[j].metric = e.metric
  <2>1. CASE Used(db, k.p) = {}
    BY <2>1 DEF Ecmp
  <2>2. CASE \E f \in First(db, k.p) : Equal(k.t, m, f, db[f])
    <3>1. PICK f \in First(db, k.p) : m = db[f].metric /\ k.t = f.t
      BY <2>2 DEF Equal
    <3>2. k.t = "rip" => f \in Ecmp(db, k.p)
      <4>1. f \in Used(db, k.p) /\ db[f].metric # Infinity
        BY <3>1 DEF First, Infinity
      <4> QED BY <3>1, <4>1 DEF Ecmp, Dead
    <3> QED BY <1>1, <1>2, <3>1, <3>2 DEF GoodDb, Even
  <2> QED BY <2>1, <2>2 DEF AddNew
<1> HIDE DEF e
<1>4. /\ GoodDb(d) /\ SameElsewhere(db, d, k.p)
      /\ k.t # "rip" => Routes(d, k.p) = Routes(db, k.p)
  BY <1>1, <1>2, <1>3, InsertGood
<1>5. /\ IF k.t = "rip" THEN Reinstall(d, k.p) ELSE db' = d /\ UNCHANGED <<kern, ext>>
      /\ upd' = TRUE
  BY DEF AddNew, e
<1> HIDE DEF d
<1>6. CASE k.t = "rip"
  BY <1>1, <1>4, <1>5, <1>6, ReinstallCall DEF Sound
<1>7. CASE k.t # "rip"
  <2>1. \A q \in Prefix : Routes(d, q) = Routes(db, q)
    BY <1>4, <1>7 DEF SameElsewhere
  <2> QED BY <1>4, <1>5, <1>7, <2>1, QuietCall DEF Sound
<1> QED BY <1>6, <1>7

(* ripdb_add, in every case, keeps database and kernel together. *)
LEMMA AddCall ==
  ASSUME Sound, cfg \in CfgType, NEW k \in Key, NEW m \in 1..15, NEW i \in Intf \union Loop, ripdb_add(k, m, i)
  PROVE  Sound' /\ (NoSharedHop /\ AllSettled => AllSettled')
<1>1. CASE AddWorse(k, m)
  BY <1>1 DEF AddWorse, Sound, AllSettled, Settled
<1> QED BY <1>1, AddRefreshCall, AddBetterCall, AddNewCall DEF ripdb_add

(* --------------------------- the invariant ------------------------------ *)
(* a loop that adds redistributed routes is running only while a metric is     *)
(* configured for them                                                         *)
Legal(c) == {x \in Call : /\ x.op = "con" => c.con > 0
                          /\ x.op = "sta" => c.sta > 0 /\ x.S \subseteq KeysOf("sta")}

EnvType ==
  /\ told \in [Intf -> [Prefix -> SUBSET (1..16)]]
  /\ link \in [Intf -> BOOLEAN] /\ joined \in [Intf -> BOOLEAN]
  /\ cfg \in CfgType /\ mux \in Seq([intf : Intf, up : BOOLEAN])

DbInv == Sound /\ EnvType /\ trig \in BOOLEAN /\ todo \in Seq(Legal(cfg))

(* rtclean has removed the RIP routes and the loop of ripdb_delete_all has not *)
(* yet come to p                                                               *)
Pending(p) == RipOf(kern, p) = {} /\ At("clean") /\ Ecmp(db, p) \subseteq Rest

KernelInv == StaticExact(kern) /\ \A p \in Prefix : Settled(p) \/ Pending(p)

(* Outside a deletion loop kernel and database agree on every prefix. *)
LEMMA SettledUnlessCleaning ==
  ASSUME KernelInv, ~At("clean")
  PROVE  AllSettled
  BY DEF KernelInv, Pending, AllSettled

(* Work put in front of other work is a sequence of the same calls. *)
LEMMA Concatenated ==
  ASSUME NEW S, NEW a \in Seq(S), NEW b \in Seq(S)
  PROVE  a \o b \in Seq(S)
  OBVIOUS

(* A step of one of the loops leaves legal calls. *)
LEMMA VisitLegal ==
  ASSUME cfg \in CfgType, todo \in Seq(Legal(cfg)), ~Idle, NEW x, Visit(x) \/ Pop
  PROVE  todo' \in Seq(Legal(cfg))
<1> DEFINE L == Legal(cfg)
           h == [Head(todo) EXCEPT !.S = @ \ {x}]
<1>1. todo # <<>> /\ todo \in Seq(L)
  BY DEF Idle
<1>2. Head(todo) \in L
  BY <1>1
<1>3. h \in L
  BY <1>2 DEF Legal, Call
<1>4. todo' = <<h>> \o Tail(todo) \/ todo' = Tail(todo)
  BY DEF Visit, Pop
<1> HIDE DEF L, h
<1>5. Tail(todo) \in Seq(L) /\ <<h>> \in Seq(L)
  BY <1>1, <1>3
<1>6. <<h>> \o Tail(todo) \in Seq(L)
  BY <1>5, Concatenated
<1>7. todo' \in Seq(L)
  BY <1>4, <1>5, <1>6
<1> QED BY <1>7 DEF L

(* The calls that handlers leave to be made are legal. *)
LEMMA CallsLegal ==
  ASSUME NEW c \in CfgType
  PROVE  /\ \A S \in SUBSET Key : CleanCall(S) \in Seq(Legal(c))
         /\ IntfCalls \in Seq(Legal(c)) /\ ConCalls(c) \in Seq(Legal(c))
         /\ SubCalls(c) \in Seq(Legal(c)) /\ StaCalls(c) \in Seq(Legal(c))
         /\ LoopOver("age", Key) \in Seq(Legal(c)) /\ LoopOver("send", {}) \in Seq(Legal(c))
<1>1. \A t : KeysOf(t) \subseteq Key
  BY DEF KeysOf
<1>2. \A S \in SUBSET Key, op \in {"intf", "sub", "clean", "age", "send"} : LoopOver(op, S) \in Seq(Legal(c))
  BY DEF LoopOver, Legal, Call
<1>3. ConCalls(c) \in Seq(Legal(c))
  <2>1. CASE c.con = 0
    BY <2>1 DEF ConCalls
  <2>2. CASE c.con # 0
    <3>1. c.con > 0
      BY <2>2 DEF CfgType
    <3>2. [op |-> "con", S |-> KeysOf("con")] \in Legal(c)
      BY <1>1, <3>1 DEF Legal, Call
    <3> QED BY <2>2, <3>2 DEF ConCalls, LoopOver
  <2> QED BY <2>1, <2>2
<1>4. StaCalls(c) \in Seq(Legal(c))
  <2>1. CASE c.sta = 0
    BY <1>1, <1>2, <2>1 DEF StaCalls, CleanCall
  <2>2. CASE c.sta # 0
    <3>1. c.sta > 0
      BY <2>2 DEF CfgType
    <3>2. [op |-> "sta", S |-> KeysOf("sta")] \in Legal(c)
      BY <1>1, <3>1 DEF Legal, Call
    <3> QED BY <2>2, <3>2 DEF StaCalls, LoopOver
  <2> QED BY <2>1, <2>2
<1> QED BY <1>1, <1>2, <1>3, <1>4 DEF CleanCall, IntfCalls, SubCalls

(* ------------------------------ the loops ------------------------------- *)
(* One element of a deletion loop: prefixes not yet visited stay pending. *)
LEMMA CleanStep ==
  ASSUME DbInv, Clean
  PROVE  DbInv' /\ (NoSharedHop /\ KernelInv => KernelInv')
<1>1. PICK k \in Key : InOrder(Rest, k) /\ clean_route(k) /\ Visit(k)
  BY DEF Clean
<1>2. db[k].metric > 0 /\ ~Idle /\ At("clean") /\ UNCHANGED env /\ k.p \in Prefix
  BY <1>1, KeyFacts DEF InOrder, Clean, At
<1>3. cfg \in CfgType /\ Sound /\ trig \in BOOLEAN /\ todo \in Seq(Legal(cfg))
  BY DEF DbInv, EnvType
<1>4. todo' \in Seq(Legal(cfg))
  BY <1>1, <1>2, <1>3, VisitLegal
<1>5. Sound' /\ trig' \in BOOLEAN
  BY <1>1, <1>2, <1>3, CleanRouteCall
<1>6. DbInv'
  BY <1>2, <1>4, <1>5 DEF DbInv, EnvType, env
<1>7. ASSUME NoSharedHop, KernelInv PROVE KernelInv'
  <2>1. todo' # <<>> /\ Head(todo').op = "clean" /\ Head(todo').S = Rest \ {k}
    <3>1. todo # <<>> /\ Head(todo) \in Call /\ Tail(todo) \in Seq(Legal(cfg)) /\ Head(todo).op = "clean"
      BY <1>2, <1>3 DEF Idle, At, Legal
    <3>2. todo' = <<[Head(todo) EXCEPT !.S = @ \ {k}]>> \o Tail(todo)
      BY <1>1 DEF Visit
    <3>3. [Head(todo) EXCEPT !.S = @ \ {k}].op = "clean" /\ [Head(todo) EXCEPT !.S = @ \ {k}].S = Rest \ {k}
      BY <3>1 DEF Call, Rest
    <3> DEFINE h == [Head(todo) EXCEPT !.S = @ \ {k}]
    <3> HIDE DEF h
    <3>4. todo' # <<>> /\ Head(todo') = h
      BY <3>1, <3>2 DEF h
    <3> QED BY <3>3, <3>4 DEF h
  <2>2. ASSUME NEW q \in Prefix, Pending(q), RipOf(kern', q) = RipOf(kern, q) PROVE Pending(q)'
    <3>1. Ecmp(db', q) \subseteq Rest \ {k}
      BY <1>1, <1>2, <1>3, <2>2, CleanRouteCall DEF Pending
    <3> QED BY <2>1, <2>2, <3>1 DEF Pending, At, Rest, Idle
  <2>3. ASSUME NEW q \in Prefix \ {k.p} PROVE Settled(q)' \/ Pending(q)'
    <3>1. RipOf(kern', q) = RipOf(kern, q) /\ Routes(db', q) = Routes(db, q)
      BY <1>1, <1>2, <1>3, CleanRouteCall
    <3> QED BY <1>7, <2>2, <3>1 DEF KernelInv, Settled
  <2>4. (Settled(k.p)' \/ Pending(k.p)') /\ StaticExact(kern')
    <3>1. CASE k.t = "rip"
      BY <1>1, <1>2, <1>3, <1>7, <3>1, CleanRouteCall DEF KernelInv, Pending
    <3>2. CASE k.t # "rip"
      <4>1. RipOf(kern', k.p) = RipOf(kern, k.p) /\ Routes(db', k.p) = Routes(db, k.p) /\ kern' = kern
        BY <1>1, <1>2, <1>3, <3>2, CleanRouteCall
      <4> QED BY <1>2, <1>7, <2>2, <4>1 DEF KernelInv, Settled
    <3> QED BY <3>1, <3>2
  <2> QED BY <2>3, <2>4 DEF KernelInv
<1> QED BY <1>6, <1>7

(* the invariants after a step that is not part of a deletion *)
LEMMA PlainStep ==
  ASSUME DbInv, ~At("clean"), Sound', trig' \in BOOLEAN, EnvType', todo' \in Seq(Legal(cfg')),
         NoSharedHop /\ AllSettled => AllSettled'
  PROVE  DbInv' /\ (NoSharedHop /\ KernelInv => KernelInv')
  BY SettledUnlessCleaning DEF DbInv, KernelInv, AllSettled

(* the same for a step of a loop *)
LEMMA LoopStep ==
  ASSUME DbInv, ~Idle, ~At("clean"), NEW x, Visit(x) \/ Pop,
         Sound', trig' \in BOOLEAN, EnvType', cfg' = cfg,
         NoSharedHop /\ AllSettled => AllSettled'
  PROVE  DbInv' /\ (NoSharedHop /\ KernelInv => KernelInv')
<1>1. todo' \in Seq(Legal(cfg))
  BY VisitLegal DEF DbInv, EnvType
<1> QED BY <1>1, PlainStep

(* One element of list_timeout. *)
LEMMA AgeStep ==
  ASSUME DbInv, Age
  PROVE  DbInv' /\ (NoSharedHop /\ KernelInv => KernelInv')
<1>1. PICK k \in Key : /\ InOrder(Rest, k)
                       /\ AgeNot(k) \/ AgeRun(k) \/ AgeExpire(k) \/ AgeDead(k) \/ AgeFree(k)
                       /\ Visit(k)
  BY DEF Age
<1>2. db[k].metric > 0 /\ ~Idle /\ ~At("clean") /\ UNCHANGED env /\ k.p \in Prefix
  BY <1>1, KeyFacts DEF InOrder, Age, At
<1>3. cfg \in CfgType /\ Sound /\ trig \in BOOLEAN /\ GoodDb(db) /\ db[k] \in Elem
  BY DEF DbInv, EnvType, Sound, GoodDb
<1>4. EnvType' /\ cfg' = cfg
  BY <1>2 DEF DbInv, EnvType, env
<1>5. IF Dead(db, k) THEN db[k].timeout = 0 /\ db[k].gc > 0 ELSE db[k].timeout > 0 /\ db[k].gc = 0
  BY <1>2, <1>3 DEF GoodDb, Timed
<1>6. Sound' /\ trig' \in BOOLEAN /\ (NoSharedHop /\ AllSettled => AllSettled')
  <2>1. CASE AgeNot(k)
    BY <1>3, <2>1 DEF AgeNot, Sound, AllSettled, Settled
  <2>2. CASE AgeExpire(k)
    BY <1>2, <1>3, <2>2, CleanRouteCall DEF AgeExpire
  <2>3. CASE AgeFree(k)
    <3>1. db[k].metric = Infinity
      BY <1>5, <2>3 DEF AgeFree, Dead
    <3> QED BY <1>3, <2>3, <3>1, FreeGood, QuietCall DEF AgeFree, Sound
  <2>4. ASSUME NEW e \in Elem, e.metric = db[k].metric, e.pos = db[k].pos, db' = [db EXCEPT ![k] = e],
               UNCHANGED <<upd, kern, ext, trig>>,
               IF e.metric = Infinity THEN e.timeout = 0 /\ e.gc > 0 ELSE e.timeout > 0 /\ e.gc = 0
        PROVE  Sound' /\ trig' \in BOOLEAN /\ (NoSharedHop /\ AllSettled => AllSettled')
    <3> DEFINE d == [db EXCEPT ![k] = e]
    <3>1. GoodDb(d) /\ Routes(d, k.p) = Routes(db, k.p) /\ SameElsewhere(db, d, k.p)
      BY <1>2, <1>3, <2>4, UpdateGood
    <3> HIDE DEF d
    <3>2. \A q \in Prefix : Routes(d, q) = Routes(db, q)
      BY <3>1 DEF SameElsewhere
    <3> QED BY <1>3, <2>4, <3>1, <3>2, QuietCall DEF Sound, d
  <2>5. CASE AgeRun(k)
    <3> DEFINE e == [db[k] EXCEPT !.timeout = @ - 1]
    <3>1. db[k].timeout > 1 /\ db' = [db EXCEPT ![k] = e] /\ UNCHANGED <<upd, kern, ext, trig>>
      BY <1>3, <2>5 DEF AgeRun, GoodDb
    <3>2. db[k].metric # Infinity
      BY <1>3, <1>5, <3>1 DEF Dead, Elem
    <3>3. /\ e \in Elem /\ e.metric = db[k].metric /\ e.pos = db[k].pos
          /\ e.timeout > 0 /\ e.gc = db[k].gc
      BY <1>3, <3>1 DEF Elem
    <3> HIDE DEF e
    <3> QED BY <1>5, <2>4, <3>1, <3>2, <3>3 DEF Dead
  <2>6. CASE AgeDead(k)
    <3> DEFINE e == [db[k] EXCEPT !.gc = @ - 1]
    <3>1. db[k].timeout = 0 /\ db[k].gc > 1 /\ db' = [db EXCEPT ![k] = e] /\ UNCHANGED <<upd, kern, ext, trig>>
      BY <1>3, <2>6 DEF AgeDead, GoodDb
    <3>2. db[k].metric = Infinity
      BY <1>5, <3>1 DEF Dead
    <3>3. /\ e \in Elem /\ e.metric = db[k].metric /\ e.pos = db[k].pos
          /\ e.timeout = 0 /\ e.gc > 0
      BY <1>3, <3>1 DEF Elem
    <3> HIDE DEF e
    <3> QED BY <2>4, <3>1, <3>2, <3>3
  <2> QED BY <1>1, <2>1, <2>2, <2>3, <2>5, <2>6
<1> QED BY <1>1, <1>2, <1>4, <1>6, LoopStep

(* An update takes back the mark of an element and changes nothing else. *)
LEMMA Announced ==
  ASSUME NEW e \in Elem
  PROVE  LET f == [e EXCEPT !.updated = FALSE]
         IN  f \in Elem /\ f.metric = e.metric /\ f.pos = e.pos /\ f.timeout = e.timeout /\ f.gc = e.gc
<1> DEFINE f == [e EXCEPT !.updated = FALSE]
<1>1. f \in Elem
  BY ZenonT(30) DEF Elem
<1>2. f.metric = e.metric /\ f.pos = e.pos
  BY DEF Elem
<1>3. f.timeout = e.timeout /\ f.gc = e.gc
  BY DEF Elem
<1> HIDE DEF f
<1> QED BY <1>1, <1>2, <1>3 DEF f

(* The delta and periodic updates. *)
LEMMA SendStep ==
  ASSUME DbInv, Send
  PROVE  DbInv' /\ (NoSharedHop /\ KernelInv => KernelInv')
<1>1. ~Idle /\ ~At("clean") /\ Pop /\ UNCHANGED <<kern, ext, link, joined, cfg, trig, mux>> /\ upd' = FALSE
  BY DEF Send, At
<1>2. GoodDb(db) /\ Sound /\ EnvType /\ trig \in BOOLEAN
  BY DEF DbInv, Sound
<1>3. told' \in [Intf -> [Prefix -> SUBSET (1..16)]]
  <2>1. ASSUME NEW i \in Intf, NEW p \in Prefix, NEW S \in SUBSET Used(db, p)
        PROVE  Announce(i, p, S) \in SUBSET (1..16)
    <3>1. \A k \in Used(db, p) : Ann(db, i, k) \in 1..16
      BY <1>2 DEF Used, Ann, GoodDb, Elem, Infinity
    <3> QED BY <3>1 DEF Announce, LastOf
  <2> DEFINE new(p) == {k \in Used(db, p) : db[k].updated}
             ann(i, p, full) ==
               IF i \in full /\ Used(db, p) # {} THEN Announce(i, p, Used(db, p))
               ELSE IF joined[i] /\ link[i] /\ cfg.net[i] /\ upd /\ new(p) # {}
                    THEN Announce(i, p, new(p)) ELSE told[i][p]
  <2>2. PICK full : told' = [i \in Intf |-> [p \in Prefix |-> ann(i, p, full)]]
    BY DEF Send
  <2>3. \A i \in Intf, p \in Prefix : ann(i, p, full) \in SUBSET (1..16)
    <3>1. \A i \in Intf, p \in Prefix : told[i][p] \in SUBSET (1..16)
      BY <1>2 DEF EnvType
    <3>2. \A p \in Prefix : new(p) \in SUBSET Used(db, p) /\ Used(db, p) \in SUBSET Used(db, p)
      OBVIOUS
    <3> HIDE DEF new
    <3> QED BY <2>1, <3>1, <3>2
  <2> HIDE DEF ann
  <2> QED BY <2>2, <2>3
<1>4. GoodDb(db') /\ \A q \in Prefix : Routes(db', q) = Routes(db, q)
  <2>1. db' = [k \in Key |-> [db[k] EXCEPT !.updated = FALSE]]
    BY DEF Send
  <2>2. db' \in [Key -> Elem] /\ \A k \in Key : /\ db'[k].metric = db[k].metric /\ db'[k].pos = db[k].pos
                                               /\ db'[k].timeout = db[k].timeout /\ db'[k].gc = db[k].gc
    <3>1. \A k \in Key : db[k] \in Elem
      BY <1>2 DEF GoodDb
    <3>2. \A e \in Elem : LET f == [e EXCEPT !.updated = FALSE]
                          IN  f \in Elem /\ f.metric = e.metric /\ f.pos = e.pos /\ f.timeout = e.timeout /\ f.gc = e.gc
      BY Announced, Zenon
    <3> QED BY <2>1, <3>1, <3>2
  <2>3. ASSUME NEW q \in Prefix PROVE Even(db', q) /\ Routes(db', q) = Routes(db, q)
    <3>1. Even(db, q)
      BY <1>2 DEF GoodDb
    <3>2. \A k \in Key : db'[k].metric = db[k].metric /\ db'[k].pos = db[k].pos
      BY <2>2
    <3>3. Routes(db', q) = Routes(db, q) /\ (Even(db, q) => Even(db', q))
      BY <3>2, Untouched
    <3> QED BY <3>1, <3>3
  <2>4. Listed(db') /\ Timed(db')
    BY <1>2, <2>2 DEF GoodDb, Listed, Timed, Dead
  <2> QED BY <2>2, <2>3, <2>4 DEF GoodDb
<1>5. Sound' /\ (NoSharedHop /\ AllSettled => AllSettled')
  BY <1>1, <1>2, <1>4, QuietCall DEF Sound
<1>6. EnvType' /\ trig' \in BOOLEAN
  BY <1>1, <1>2, <1>3 DEF EnvType
<1> QED BY <1>1, <1>5, <1>6, LoopStep

(* One interface of rip_update_interfaces. *)
LEMMA UpdateInterfacesStep ==
  ASSUME DbInv, UpdateInterfaces
  PROVE  DbInv' /\ (NoSharedHop /\ KernelInv => KernelInv')
<1>1. PICK i \in Intf : NextOf(Rest, i, "net") /\ (Join(i) \/ Leave(i) \/ Stay(i))
  BY DEF UpdateInterfaces
<1>2. ~Idle /\ ~At("clean") /\ UNCHANGED <<told, link, cfg, mux>>
  BY DEF UpdateInterfaces, At
<1>3. Sound /\ EnvType /\ cfg \in CfgType /\ trig \in BOOLEAN /\ todo \in Seq(Legal(cfg))
  BY DEF DbInv, EnvType
<1>4. CASE Join(i)
  <2>1. Sound' /\ (NoSharedHop /\ AllSettled => AllSettled')
    <3>1. ripdb_add(IntfKey("net", i), 1, i) /\ 1 \in 1..15 /\ IntfKey("net", i) \in Key
      BY <1>4, KeyFacts DEF Join
    <3> QED BY <1>3, <3>1, AddCall
  <2>2. EnvType' /\ trig' \in BOOLEAN /\ Visit(IntfKey("net", i))
    BY <1>2, <1>3, <1>4 DEF EnvType, Join
  <2> QED BY <1>2, <2>1, <2>2, LoopStep
<1>5. CASE Stay(i)
  <2>1. Sound' /\ (NoSharedHop /\ AllSettled => AllSettled')
    BY <1>3, <1>5 DEF Stay, Sound, AllSettled, Settled
  <2>2. EnvType' /\ trig' \in BOOLEAN /\ Visit(IntfKey("net", i))
    BY <1>2, <1>3, <1>5 DEF EnvType, Stay
  <2> QED BY <1>2, <2>1, <2>2, LoopStep
<1>6. CASE Leave(i)
  <2>1. Sound' /\ (NoSharedHop /\ AllSettled => AllSettled')
    BY <1>3, <1>6 DEF Leave, Sound, AllSettled, Settled
  <2>2. EnvType' /\ trig' \in BOOLEAN
    BY <1>2, <1>3, <1>6 DEF EnvType, Leave
  <2>3. todo' \in Seq(Legal(cfg'))
    <3> DEFINE L == Legal(cfg)
               h == [Head(todo) EXCEPT !.S = @ \ {IntfKey("net", i)}]
               c == [op |-> "clean", S |-> {k \in Key : db[k].intf = i}]
    <3>1. todo # <<>> /\ Head(todo) \in L
      BY <1>2, <1>3 DEF Idle
    <3>2. h \in L /\ c \in L
      BY <3>1 DEF Legal, Call
    <3>3. todo' = <<c, h>> \o Tail(todo) /\ cfg' = cfg
      BY <1>2, <1>6 DEF Leave
    <3> HIDE DEF L, h, c
    <3>4. Tail(todo) \in Seq(L)
      BY <1>3, <3>1 DEF L
    <3>5. <<c, h>> \in Seq(L)
      BY <3>2
    <3> QED BY <3>3, <3>4, <3>5 DEF L
  <2> QED BY <1>2, <2>1, <2>2, <2>3, PlainStep
<1> QED BY <1>1, <1>4, <1>5, <1>6

(* One route of rip_update_connected, rip_update_connected_subnets, rip_update_static. *)
LEMMA RedistStep ==
  ASSUME DbInv, UpdateConnected \/ UpdateSubnets \/ UpdateStatic
  PROVE  DbInv' /\ (NoSharedHop /\ KernelInv => KernelInv')
<1>1. Sound /\ EnvType /\ cfg \in CfgType /\ trig \in BOOLEAN /\ todo \in Seq(Legal(cfg))
  BY DEF DbInv, EnvType
<1>2. ~Idle /\ ~At("clean") /\ UNCHANGED env
  BY DEF UpdateConnected, UpdateSubnets, UpdateStatic, At
<1>3. Head(todo) \in Legal(cfg)
  BY <1>1, <1>2 DEF Idle
<1>4. EnvType' /\ cfg' = cfg
  BY <1>1, <1>2 DEF EnvType, env
<1>5. CASE UpdateConnected
  <2>1. PICK i \in Intf : /\ Visit(IntfKey("con", i))
                          /\ IF link[i] THEN ripdb_add(IntfKey("con", i), cfg.con, i)
                             ELSE UNCHANGED <<db, upd, kern, ext>>
    BY <1>5 DEF UpdateConnected
  <2>2. IntfKey("con", i) \in Key /\ cfg.con \in 1..15 /\ trig' = trig
    BY <1>1, <1>3, <1>5, KeyFacts DEF UpdateConnected, At, Legal, CfgType
  <2>3. Sound' /\ (NoSharedHop /\ AllSettled => AllSettled')
    <3>1. CASE link[i]
      BY <1>1, <2>1, <2>2, <3>1, AddCall
    <3>2. CASE ~link[i]
      BY <1>1, <2>1, <3>2 DEF Sound, AllSettled, Settled
    <3> QED BY <3>1, <3>2
  <2> QED BY <1>1, <1>2, <1>4, <2>1, <2>2, <2>3, LoopStep
<1>6. CASE UpdateSubnets
  <2>1. PICK i \in Loop : Visit(IntfKey("sub", i)) /\ ripdb_add(IntfKey("sub", i), 1, i)
    BY <1>6 DEF UpdateSubnets
  <2>2. IntfKey("sub", i) \in Key /\ 1 \in 1..15 /\ trig' = trig
    BY <1>6, KeyFacts DEF UpdateSubnets
  <2>3. Sound' /\ (NoSharedHop /\ AllSettled => AllSettled')
    BY <1>1, <2>1, <2>2, AddCall
  <2> QED BY <1>1, <1>2, <1>4, <2>1, <2>2, <2>3, LoopStep
<1>7. CASE UpdateStatic
  <2>1. PICK k \in Rest :
          /\ Visit(k)
          /\ IF link[On[k.gw]] THEN ripdb_add(k, cfg.sta, On[k.gw]) /\ UNCHANGED trig
             ELSE IF db[k].metric > 0 THEN clean_route(k)
             ELSE UNCHANGED <<db, upd, kern, ext, trig>>
    BY <1>7 DEF UpdateStatic
  <2>2. k \in Key /\ k.t = "sta" /\ cfg.sta \in 1..15
    BY <1>1, <1>3, <1>7 DEF UpdateStatic, At, Rest, Legal, KeysOf, CfgType
  <2>3. On[k.gw] \in Intf
    BY <2>2, OnFacts
  <2>4. Sound' /\ trig' \in BOOLEAN /\ (NoSharedHop /\ AllSettled => AllSettled')
    <3>1. CASE link[On[k.gw]]
      BY <1>1, <2>1, <2>2, <2>3, <3>1, AddCall
    <3>2. CASE ~link[On[k.gw]] /\ db[k].metric > 0
      BY <1>1, <2>1, <2>2, <3>2, CleanRouteCall
    <3>3. CASE ~link[On[k.gw]] /\ ~(db[k].metric > 0)
      BY <1>1, <2>1, <3>3 DEF Sound, AllSettled, Settled
    <3> QED BY <3>1, <3>2, <3>3
  <2> QED BY <1>1, <1>2, <1>4, <2>1, <2>4, LoopStep
<1> QED BY <1>5, <1>6, <1>7

(* At the end of a deletion loop no prefix is pending. *)
LEMMA ReturnStep ==
  ASSUME DbInv, Return
  PROVE  DbInv' /\ (NoSharedHop /\ KernelInv => KernelInv')
<1>1. ~Idle /\ Pop /\ UNCHANGED <<db, upd, kern, ext, trig>> /\ UNCHANGED env
  BY DEF Return
<1>2. Sound' /\ EnvType' /\ trig' \in BOOLEAN /\ cfg' = cfg
  BY <1>1 DEF DbInv, Sound, EnvType, env
<1>3. todo' \in Seq(Legal(cfg'))
  BY <1>1, <1>2, VisitLegal DEF DbInv, EnvType
<1>4. DbInv'
  BY <1>2, <1>3 DEF DbInv
<1>5. ASSUME KernelInv PROVE AllSettled
  <2>1. ASSUME NEW p \in Prefix, Pending(p) PROVE Settled(p)
    <3>1. \A k \in Rest : db[k].metric = 0
      BY <2>1 DEF Return, Pending, At
    <3>2. Ecmp(db, p) = {}
      BY <2>1, <3>1 DEF Pending, Ecmp, Used
    <3>3. Routes(db, p) = {}
      BY <3>2 DEF Routes, LastOf
    <3> QED BY <2>1, <3>3 DEF Pending, Settled
  <2> QED BY <1>5, <2>1 DEF KernelInv, AllSettled
<1>6. AllSettled => KernelInv'
  BY <1>1 DEF AllSettled, Settled, KernelInv
<1> QED BY <1>4, <1>5, <1>6

(* ----------------------- handlers and commands -------------------------- *)
(* a handler that only starts loops *)
LEMMA StartStep ==
  ASSUME DbInv, Idle, UNCHANGED <<db, upd, kern, ext>>, trig' \in BOOLEAN, EnvType', todo' \in Seq(Legal(cfg'))
  PROVE  DbInv' /\ (NoSharedHop /\ KernelInv => KernelInv')
<1>1. ~At("clean")
  BY DEF At
<1>2. Sound' /\ (AllSettled => AllSettled')
  BY DEF DbInv, Sound, AllSettled, Settled
<1> QED BY <1>1, <1>2, PlainStep

(* The timer branch of the select loop. *)
LEMMA TickStep ==
  ASSUME DbInv, Tick
  PROVE  DbInv' /\ (NoSharedHop /\ KernelInv => KernelInv')
<1>1. Idle /\ UNCHANGED <<db, upd, kern, ext>> /\ UNCHANGED env /\ trig' \in BOOLEAN
  BY DEF Tick, DbInv
<1>2. EnvType' /\ cfg' = cfg /\ cfg \in CfgType
  BY <1>1 DEF DbInv, EnvType, env
<1> DEFINE L == Seq(Legal(cfg))
<1>3. /\ IntfCalls \in L /\ LoopOver("age", Key) \in L /\ LoopOver("send", {}) \in L
      /\ ConCalls(cfg) \in L /\ SubCalls(cfg) \in L /\ StaCalls(cfg) \in L /\ <<>> \in L
  BY <1>2, CallsLegal
<1>4. \A s \in L, t \in L : s \o t \in L
  OBVIOUS
<1>5. PICK a \in BOOLEAN, b \in BOOLEAN :
        todo' = IntfCalls \o LoopOver("age", Key) \o LoopOver("send", {})
                \o (IF a THEN StaCalls(cfg) ELSE <<>>)
                \o (IF b THEN ConCalls(cfg) \o SubCalls(cfg) \o StaCalls(cfg) ELSE <<>>)
  BY DEF Tick
<1> HIDE DEF L
<1>6. (IF a THEN StaCalls(cfg) ELSE <<>>) \in L
  BY <1>3
<1>7. (IF b THEN ConCalls(cfg) \o SubCalls(cfg) \o StaCalls(cfg) ELSE <<>>) \in L
  BY <1>3, <1>4
<1>8. todo' \in L
  <2> DEFINE x == IF a THEN StaCalls(cfg) ELSE <<>>
             y == IF b THEN ConCalls(cfg) \o SubCalls(cfg) \o StaCalls(cfg) ELSE <<>>
  <2>1. x \in L /\ y \in L /\ todo' = IntfCalls \o LoopOver("age", Key) \o LoopOver("send", {}) \o x \o y
    BY <1>5, <1>6, <1>7
  <2> HIDE DEF x, y
  <2>2. IntfCalls \o LoopOver("age", Key) \o LoopOver("send", {}) \in L
    BY <1>3, <1>4
  <2> QED BY <1>4, <2>1, <2>2
<1> QED BY <1>1, <1>2, <1>8, StartStep DEF L

(* One route of a received response. *)
LEMMA RxResponseStep ==
  ASSUME DbInv, RxResponse
  PROVE  DbInv' /\ (NoSharedHop /\ KernelInv => KernelInv')
<1>1. Sound /\ EnvType /\ cfg \in CfgType /\ trig \in BOOLEAN
  BY DEF DbInv, EnvType
<1>2. ~At("clean") /\ UNCHANGED todo /\ UNCHANGED env
  BY DEF RxResponse, Does, At
<1>3. EnvType' /\ todo' \in Seq(Legal(cfg'))
  BY <1>1, <1>2 DEF EnvType, env, DbInv
<1>4. PICK p \in RxPrefix, h \in Hops, m \in RxMetric :
        IF Reachable(m)
        THEN ripdb_add(KeyOf("rip", p, h[1], h[2]), m + 1, On[h[2]]) /\ UNCHANGED trig
        ELSE IF db[KeyOf("rip", p, h[1], h[2])].metric > 0 THEN clean_route(KeyOf("rip", p, h[1], h[2]))
        ELSE UNCHANGED <<db, upd, kern, ext, trig>>
  BY DEF RxResponse
<1> DEFINE k == KeyOf("rip", p, h[1], h[2])
<1>5. k \in Key /\ On[h[2]] \in Intf
  BY KeyFacts, OnFacts
<1> HIDE DEF k
<1>6. Sound' /\ trig' \in BOOLEAN /\ (NoSharedHop /\ AllSettled => AllSettled')
  <2>1. CASE Reachable(m)
    <3>1. m + 1 \in 1..15
      BY <2>1, NumberAssumption DEF Reachable, Infinity
    <3> QED BY <1>1, <1>4, <1>5, <2>1, <3>1, AddCall DEF k
  <2>2. CASE ~Reachable(m) /\ db[k].metric > 0
    BY <1>1, <1>4, <1>5, <2>2, CleanRouteCall DEF k
  <2>3. CASE ~Reachable(m) /\ ~(db[k].metric > 0)
    BY <1>1, <1>4, <2>3 DEF Sound, AllSettled, Settled, k
  <2> QED BY <2>1, <2>2, <2>3
<1> QED BY <1>2, <1>3, <1>6, PlainStep

(* A route redistributed by OSPF. *)
LEMMA RxAddRouteStep ==
  ASSUME DbInv, RxAddRoute
  PROVE  DbInv' /\ (NoSharedHop /\ KernelInv => KernelInv')
<1>1. Sound /\ EnvType /\ cfg \in CfgType /\ trig \in BOOLEAN
  BY DEF DbInv, EnvType
<1>2. ~At("clean") /\ UNCHANGED todo /\ UNCHANGED env /\ trig' = trig /\ cfg.osp \in 1..15
  BY <1>1 DEF RxAddRoute, Does, At, CfgType
<1>3. EnvType' /\ todo' \in Seq(Legal(cfg'))
  BY <1>1, <1>2 DEF EnvType, env, DbInv
<1>4. PICK s \in OspfRt : ripdb_add(KeyOf("osp", s[1], s[2], NoGw), cfg.osp, On[s[2]])
  BY DEF RxAddRoute
<1>5. KeyOf("osp", s[1], s[2], NoGw) \in Key /\ On[s[2]] \in Intf
  BY KeyFacts, OnFacts
<1>6. Sound' /\ (NoSharedHop /\ AllSettled => AllSettled')
  BY <1>1, <1>2, <1>4, <1>5, AddCall
<1> QED BY <1>1, <1>2, <1>3, <1>6, PlainStep

(* OSPF asks for the RIP routes again. *)
LEMMA RxRouteRequestStep ==
  ASSUME DbInv, RxRouteRequest
  PROVE  DbInv' /\ (NoSharedHop /\ KernelInv => KernelInv')
<1>1. ~At("clean") /\ UNCHANGED <<db, upd, kern, trig, todo>> /\ UNCHANGED env
  BY DEF RxRouteRequest, Does, At
<1>2. ext' \in ExtType
  <2>1. \A p \in Prefix : GwsOf(LastOf(db, {k \in Used(db, p) : k.t = "rip" /\ HopUp(k)})) \in SUBSET (Nbr \union Gw)
    BY KeyFacts DEF GwsOf, LastOf, Used
  <2> QED BY <2>1 DEF RxRouteRequest, ExtType
<1>3. Sound' /\ (AllSettled => AllSettled')
  BY <1>1, <1>2 DEF DbInv, Sound, AllSettled, Settled
<1>4. EnvType' /\ trig' \in BOOLEAN /\ todo' \in Seq(Legal(cfg'))
  BY <1>1 DEF DbInv, EnvType, env
<1> QED BY <1>1, <1>3, <1>4, PlainStep

(* the messages that only start loops *)
LEMMA RxStartStep ==
  ASSUME DbInv, RxInterface \/ RxLoopback \/ RxDelRoute
  PROVE  DbInv' /\ (NoSharedHop /\ KernelInv => KernelInv')
<1>1. /\ Idle /\ UNCHANGED <<db, upd, kern, ext>> /\ UNCHANGED <<told, link, joined, cfg, trig>>
  BY DEF RxInterface, RxLoopback, RxDelRoute, Does, env
<1>2. cfg \in CfgType /\ EnvType /\ trig \in BOOLEAN
  BY DEF DbInv, EnvType
<1>3. mux' \in Seq([intf : Intf, up : BOOLEAN])
  <2>1. CASE RxInterface
    BY <1>2, <2>1 DEF RxInterface, EnvType
  <2>2. CASE RxLoopback \/ RxDelRoute
    BY <1>2, <2>2 DEF RxLoopback, RxDelRoute, env, EnvType
  <2> QED BY <2>1, <2>2
<1>4. EnvType' /\ trig' \in BOOLEAN
  BY <1>1, <1>2, <1>3 DEF EnvType
<1> DEFINE L == Seq(Legal(cfg))
<1>5. /\ IntfCalls \in L /\ ConCalls(cfg) \in L /\ SubCalls(cfg) \in L /\ StaCalls(cfg) \in L /\ <<>> \in L
      /\ \A S \in SUBSET Key : CleanCall(S) \in L
  BY <1>2, CallsLegal
<1>6. \A s \in L, t \in L : s \o t \in L
  OBVIOUS
<1> HIDE DEF L
<1>7. todo' \in L
  <2>1. CASE RxInterface
    <3> DEFINE x == IF Head(mux).up THEN <<>> ELSE CleanCall({k \in Key : db[k].intf = Head(mux).intf})
    <3>1. x \in L
      BY <1>5
    <3>2. todo' = x \o IntfCalls \o ConCalls(cfg) \o SubCalls(cfg) \o StaCalls(cfg)
      BY <2>1 DEF RxInterface
    <3> HIDE DEF x
    <3> QED BY <1>5, <1>6, <3>1, <3>2
  <2>2. CASE RxLoopback
    BY <1>5, <2>2, KeyFacts DEF RxLoopback
  <2>3. CASE RxDelRoute
    BY <1>5, <2>3, KeyFacts DEF RxDelRoute
  <2> QED BY <2>1, <2>2, <2>3
<1> QED BY <1>1, <1>4, <1>7, StartStep DEF L

(* the commands that leave database and kernel to the loops they start *)
LEMMA CommandStep ==
  ASSUME DbInv, Command, ~cliClearIpRipCmd
  PROVE  DbInv' /\ (NoSharedHop /\ KernelInv => KernelInv')
<1>1. Idle /\ UNCHANGED <<db, upd, kern, ext>> /\ UNCHANGED <<link, joined, trig, mux>>
  BY DEF Command, cliNetworkCidrCmd, cliRedistStaticCmd, cliRedistConnectedCmd, cliRedistConnectedSubnetsCmd,
         cliRedistOspfCmd, cliUpdateTimerCmd, cliNoRouterRipCmd, Does
<1>2. EnvType /\ trig \in BOOLEAN /\ cfg \in CfgType
  BY DEF DbInv, EnvType
<1>3. told' \in [Intf -> [Prefix -> SUBSET (1..16)]]
  BY <1>2 DEF Command, cliNetworkCidrCmd, cliRedistStaticCmd, cliRedistConnectedCmd, cliRedistConnectedSubnetsCmd,
              cliRedistOspfCmd, cliUpdateTimerCmd, cliNoRouterRipCmd, EnvType, Forget
<1>4. ASSUME cfg' \in CfgType, todo' \in Seq(Legal(cfg')) PROVE DbInv' /\ (NoSharedHop /\ KernelInv => KernelInv')
  <2>1. EnvType' /\ trig' \in BOOLEAN
    BY <1>1, <1>2, <1>3, <1>4 DEF EnvType
  <2> QED BY <1>1, <1>4, <2>1, StartStep
<1>5. \A c \in CfgType : \A s \in Seq(Legal(c)), t \in Seq(Legal(c)) : s \o t \in Seq(Legal(c))
  OBVIOUS
<1>6. \A c \in CfgType : \A t, old, m : TypeCalls(t, old, m) \in Seq(Legal(c))
  BY CallsLegal DEF TypeCalls, KeysOf
<1>7. Metrics \union {0} \subseteq 0..15
  BY NumberAssumption
<1>8. CASE cliNetworkCidrCmd
  <2>1. cfg' \in CfgType
    <3>1. PICK i \in Intf : cfg' = [cfg EXCEPT !.net[i] = ~@]
      BY <1>8 DEF cliNetworkCidrCmd
    <3> DEFINE b == ~cfg.net[i]
               n == [cfg.net EXCEPT ![i] = b]
    <3>2. b \in BOOLEAN /\ cfg.net \in [Intf -> BOOLEAN]
      BY <1>2 DEF CfgType
    <3>3. cfg' = [cfg EXCEPT !.net = n]
      BY <1>2, <3>1 DEF CfgType
    <3> HIDE DEF b
    <3>4. n \in [Intf -> BOOLEAN]
      BY <3>2
    <3> HIDE DEF n
    <3> QED BY <1>2, <3>3, <3>4 DEF CfgType
  <2>2. todo' = <<>>
    BY <1>1, <1>8 DEF cliNetworkCidrCmd, Idle
  <2> QED BY <1>4, <2>1, <2>2
<1>9. CASE cliRedistStaticCmd
  <2>1. PICK m \in Metrics \union {0} :
          cfg' = [cfg EXCEPT !.sta = m] /\ todo' = TypeCalls("sta", cfg.sta, m) \o StaCalls([cfg EXCEPT !.sta = m])
    BY <1>9 DEF cliRedistStaticCmd
  <2>2. cfg' \in CfgType
    BY <1>2, <1>7, <2>1 DEF CfgType
  <2> QED BY <1>4, <1>5, <1>6, <2>1, <2>2, CallsLegal
<1>10. CASE cliRedistConnectedCmd
  <2>1. PICK m \in Metrics \union {0} :
          cfg' = [cfg EXCEPT !.con = m] /\ todo' = TypeCalls("con", cfg.con, m) \o ConCalls([cfg EXCEPT !.con = m])
    BY <1>10 DEF cliRedistConnectedCmd
  <2>2. cfg' \in CfgType
    BY <1>2, <1>7, <2>1 DEF CfgType
  <2> QED BY <1>4, <1>5, <1>6, <2>1, <2>2, CallsLegal
<1>11. CASE cliRedistConnectedSubnetsCmd
  <2>1. PICK on \in BOOLEAN : cfg' = [cfg EXCEPT !.sub = on] /\ todo' = SubCalls([cfg EXCEPT !.sub = on])
    BY <1>11 DEF cliRedistConnectedSubnetsCmd
  <2>2. cfg' \in CfgType
    BY <1>2, <2>1 DEF CfgType
  <2> QED BY <1>4, <2>1, <2>2, CallsLegal
<1>12. CASE cliRedistOspfCmd
  <2>1. PICK m \in Metrics \union {0} : cfg' = [cfg EXCEPT !.osp = m] /\ todo' = TypeCalls("osp", cfg.osp, m)
    BY <1>12 DEF cliRedistOspfCmd
  <2>2. cfg' \in CfgType
    BY <1>2, <1>7, <2>1 DEF CfgType
  <2> QED BY <1>4, <1>6, <2>1, <2>2
<1>13. CASE cliUpdateTimerCmd
  <2>1. cfg' \in CfgType
    BY <1>2, <1>13 DEF cliUpdateTimerCmd, CfgType
  <2>2. todo' = <<>>
    BY <1>1, <1>13 DEF cliUpdateTimerCmd, Idle
  <2> QED BY <1>4, <2>1, <2>2
<1>14. CASE cliNoRouterRipCmd
  <2>1. cfg' = [cfg EXCEPT !.net = [i \in Intf |-> FALSE], !.con = 0, !.sta = 0, !.timer = DefaultTimer]
        /\ todo' = CleanCall(Key)
    BY <1>14 DEF cliNoRouterRipCmd
  <2>2. cfg' \in CfgType
    <3> DEFINE n == [i \in Intf |-> FALSE]
    <3>1. n \in [Intf -> BOOLEAN] /\ DefaultTimer \in Timers
      BY NumberAssumption
    <3>2. cfg' = [cfg EXCEPT !.net = n, !.con = 0, !.sta = 0, !.timer = DefaultTimer]
      BY <2>1
    <3> HIDE DEF n
    <3>3. cfg' = [net |-> n, con |-> 0, sub |-> cfg.sub, sta |-> 0, osp |-> cfg.osp, timer |-> DefaultTimer]
      BY <1>2, <3>2 DEF CfgType
    <3> QED BY <1>2, <3>1, <3>3 DEF CfgType
  <2> QED BY <1>4, <2>1, <2>2, CallsLegal
<1> QED BY <1>8, <1>9, <1>10, <1>11, <1>12, <1>13, <1>14 DEF Command

(* restart(): rtclean empties the kernel before the deletion loop runs. *)
LEMMA ClearStep ==
  ASSUME DbInv, cliClearIpRipCmd
  PROVE  DbInv' /\ (NoSharedHop /\ KernelInv => KernelInv')
<1>1. /\ kern' = {r \in kern : ~r.rip} /\ joined' = [i \in Intf |-> FALSE]
      /\ todo' = CleanCall(Key) \o ConCalls(cfg) \o StaCalls(cfg)
      /\ UNCHANGED <<db, upd, ext, told, link, cfg, trig, mux>>
  BY DEF cliClearIpRipCmd
<1>2. cfg \in CfgType
  BY DEF DbInv, EnvType
<1> DEFINE L == Legal(cfg)
<1>3. ConCalls(cfg) \in Seq(L) /\ StaCalls(cfg) \in Seq(L) /\ CleanCall(Key) \in Seq(L)
  BY <1>2, CallsLegal
<1> DEFINE c == [op |-> "clean", S |-> Key]
<1>4. CleanCall(Key) = <<c>>
  BY DEF CleanCall, LoopOver
<1> HIDE DEF L, c
<1>5. todo' \in Seq(L) /\ todo' # <<>> /\ Head(todo') = c
  BY <1>1, <1>3, <1>4
<1>6. DbInv'
  BY <1>1, <1>5 DEF DbInv, Sound, EnvType, L
<1>7. ASSUME KernelInv PROVE KernelInv'
  <2>1. StaticExact(kern')
    BY <1>1, <1>7 DEF KernelInv, StaticExact
  <2>2. \A p \in Prefix : RipOf(kern', p) = {} /\ Ecmp(db', p) \subseteq Key
    BY <1>1 DEF RipOf, Ecmp, Used
  <2>3. At("clean")' /\ Rest' = Key
    BY <1>5 DEF At, Idle, Rest, c
  <2> QED BY <2>1, <2>2, <2>3 DEF KernelInv, Pending
<1> QED BY <1>6, <1>7

(* The empty database asks for nothing. *)
LEMMA EmptyGood ==
  LET d == [k \in Key |-> NoElem] IN GoodDb(d) /\ \A p \in Prefix : Routes(d, p) = {}
<1> DEFINE d == [k \in Key |-> NoElem]
<1>1. d \in [Key -> Elem] /\ \A k \in Key : d[k].metric = 0
  BY DEF NoElem, Elem
<1> HIDE DEF d
<1>2. \A p \in Prefix : Ecmp(d, p) = {}
  BY <1>1 DEF Ecmp, Used
<1>3. Listed(d) /\ Timed(d) /\ \A p \in Prefix : Even(d, p)
  BY <1>1, <1>2 DEF Listed, Timed, Even
<1>4. \A p \in Prefix : Routes(d, p) = {}
  BY <1>2 DEF Routes, LastOf
<1> QED BY <1>1, <1>3, <1>4 DEF GoodDb, d

(* The daemon is started again with an empty database. *)
LEMMA CrashStep ==
  ASSUME DbInv, Crash
  PROVE  DbInv' /\ (NoSharedHop /\ KernelInv => KernelInv')
<1>1. /\ db' = [k \in Key |-> NoElem] /\ upd' = FALSE /\ trig' = FALSE
      /\ kern' = {r \in kern : ~r.rip} /\ joined' = [i \in Intf |-> FALSE] /\ mux' = <<>>
      /\ todo' = ConCalls(cfg) \o StaCalls(cfg)
      /\ UNCHANGED <<ext, told, link, cfg>>
  BY DEF Crash
<1>2. GoodDb(db') /\ \A p \in Prefix : Routes(db', p) = {}
  BY <1>1, EmptyGood
<1>3. cfg \in CfgType
  BY DEF DbInv, EnvType
<1> DEFINE L == Legal(cfg)
<1>4. ConCalls(cfg) \in Seq(L) /\ StaCalls(cfg) \in Seq(L)
  BY <1>3, CallsLegal
<1> HIDE DEF L
<1>5. todo' \in Seq(L)
  BY <1>1, <1>4
<1>6. EnvType'
  BY <1>1 DEF DbInv, EnvType
<1>7. DbInv'
  BY <1>1, <1>2, <1>5, <1>6 DEF DbInv, Sound, L
<1>8. ASSUME KernelInv PROVE KernelInv'
  <2>1. StaticExact(kern') /\ \A p \in Prefix : RipOf(kern', p) = {}
    BY <1>1, <1>8 DEF KernelInv, StaticExact, RipOf
  <2> QED BY <1>2, <2>1 DEF KernelInv, Settled
<1> QED BY <1>7, <1>8

(* A link changes while anything else goes on. *)
LEMMA LinkChangeStep ==
  ASSUME DbInv, LinkChange
  PROVE  DbInv' /\ (NoSharedHop /\ KernelInv => KernelInv')
<1>1. UNCHANGED <<db, upd, kern, ext, joined, cfg, trig, todo>>
  BY DEF LinkChange
<1>2. PICK i \in Intf : /\ link' = [link EXCEPT ![i] = ~@]
                        /\ mux' = Append(mux, [intf |-> i, up |-> ~link[i]])
                        /\ told' = Forget(i)
  BY DEF LinkChange
<1>3. /\ link \in [Intf -> BOOLEAN] /\ mux \in Seq([intf : Intf, up : BOOLEAN])
      /\ told \in [Intf -> [Prefix -> SUBSET (1..16)]]
  BY DEF DbInv, EnvType
<1> DEFINE b == ~link[i]
<1>4. b \in BOOLEAN /\ link' = [link EXCEPT ![i] = b] /\ mux' = Append(mux, [intf |-> i, up |-> b])
  BY <1>2
<1> HIDE DEF b
<1>5. link' \in [Intf -> BOOLEAN]
  BY <1>3, <1>4
<1>6. mux' \in Seq([intf : Intf, up : BOOLEAN])
  <2> DEFINE c == [intf |-> i, up |-> b]
             M == [intf : Intf, up : BOOLEAN]
  <2>1. c \in M /\ mux \in Seq(M)
    BY <1>3, <1>4
  <2> HIDE DEF c, M
  <2>2. Append(mux, c) \in Seq(M)
    BY <2>1
  <2> QED BY <1>4, <2>2 DEF c, M
<1>7. told' \in [Intf -> [Prefix -> SUBSET (1..16)]]
  BY <1>2, <1>3 DEF Forget
<1>8. DbInv'
  BY <1>1, <1>5, <1>6, <1>7 DEF DbInv, Sound, EnvType
<1>9. KernelInv => KernelInv'
  BY <1>1 DEF KernelInv, Settled, Pending, At, Rest, Idle
<1> QED BY <1>8, <1>9

(* ------------------------------ theorems -------------------------------- *)
(* The initial states satisfy both invariants. *)
LEMMA InitInv ==
  ASSUME Init
  PROVE  DbInv /\ KernelInv
<1>1. GoodDb(db) /\ \A p \in Prefix : Routes(db, p) = {}
  BY EmptyGood DEF Init
<1>2. kern \subseteq Route /\ StaticExact(kern) /\ \A p \in Prefix : RipOf(kern, p) = {}
  <2>1. kern = StaticRoutes
    BY DEF Init
  <2>2. ASSUME NEW s \in StaticRt
        PROVE  LET r == [p |-> s[1], rip |-> FALSE, metric |-> 0, multi |-> FALSE, gws |-> {s[2]}]
               IN  r \in Route /\ ~r.rip
    <3>1. s[1] \in Prefix /\ {s[2]} \in SUBSET (Nbr \union Gw)
      BY ShapeAssumption
    <3> QED BY <3>1 DEF Route
  <2>3. \A r \in StaticRoutes : r \in Route /\ ~r.rip
    BY <2>2 DEF StaticRoutes
  <2> QED BY <2>1, <2>3 DEF StaticExact, RipOf
<1>3. cfg \in CfgType
  BY NumberAssumption DEF Init, CfgType
<1>4. EnvType /\ trig \in BOOLEAN /\ todo \in Seq(Legal(cfg)) /\ upd \in BOOLEAN /\ ext \in ExtType
  <2>1. told \in [Intf -> [Prefix -> SUBSET (1..16)]] /\ ext \in ExtType
    BY DEF Init, ExtType
  <2>2. link \in [Intf -> BOOLEAN] /\ joined \in [Intf -> BOOLEAN] /\ upd \in BOOLEAN /\ trig \in BOOLEAN
    BY DEF Init
  <2>3. mux = <<>> /\ todo = <<>>
    BY DEF Init
  <2> QED BY <1>3, <2>1, <2>2, <2>3 DEF EnvType
<1> QED BY <1>1, <1>2, <1>4 DEF DbInv, Sound, KernelInv, Settled

(* Every step preserves both invariants. *)
LEMMA NextInv ==
  ASSUME DbInv, [Next]_vars
  PROVE  DbInv' /\ (NoSharedHop /\ KernelInv => KernelInv')
<1>1. CASE Loops
  BY <1>1, CleanStep, AgeStep, SendStep, UpdateInterfacesStep, RedistStep, ReturnStep DEF Loops
<1>2. CASE Handler
  BY <1>2, TickStep, RxResponseStep, RxAddRouteStep, RxRouteRequestStep, RxStartStep DEF Handler
<1>3. CASE Command
  BY <1>3, CommandStep, ClearStep
<1>4. CASE UNCHANGED vars
  BY <1>4 DEF vars, DbInv, Sound, EnvType, KernelInv, Settled, Pending, At, Rest, Idle
<1> QED BY <1>1, <1>2, <1>3, <1>4, CrashStep, LinkChangeStep DEF Next

(* What the invariant says of the properties the runs check. *)
LEMMA InvImplies ==
  ASSUME DbInv
  PROVE  TypeOK /\ TimersRun /\ OneMetric
<1>1. todo \in Seq(Call)
  BY DEF DbInv, Legal
<1>2. TypeOK
  BY <1>1 DEF DbInv, Sound, GoodDb, EnvType, TypeOK, Route, ExtType, CfgType
<1>3. TimersRun /\ OneMetric
  BY DEF DbInv, Sound, GoodDb, Timed, Even, TimersRun, OneMetric
<1> QED BY <1>2, <1>3

(* The database invariant always holds. *)
LEMMA DbInvHolds ==
  Spec => []DbInv
<1>1. Init => DbInv
  BY InitInv
<1>2. DbInv /\ [Next]_vars => DbInv'
  BY NextInv
<1> QED BY <1>1, <1>2, PTL DEF Spec

(* The RIP database is well typed: no metric exceeds 16, no timer its uint8_t. *)
THEOREM RipTypeCorrect == Spec => []TypeOK
<1>1. DbInv => TypeOK
  BY InvImplies
<1> QED BY <1>1, DbInvHolds, PTL

(* Every element of ripdb_index has exactly one timer running: list_timeout's  *)
(* assertion never fails and every dead element is on its way to be freed.     *)
THEOREM RipTimersRun == Spec => []TimersRun
<1>1. DbInv => TimersRun
  BY InvImplies
<1> QED BY <1>1, DbInvHolds, PTL

(* The usable RIP routes of a prefix always have the same metric. *)
THEOREM RipEqualCost == Spec => []OneMetric
<1>1. DbInv => OneMetric
  BY InvImplies
<1> QED BY <1>1, DbInvHolds, PTL

(* If no neighbour announces a prefix through the next hop of a static route   *)
(* to it, the kernel has exactly the RIP routes the database asks for whenever *)
(* no handler is running.                                                      *)
THEOREM RipKernelFollows == NoSharedHop => (Spec => []KernelMatches)
<1> SUFFICES ASSUME NoSharedHop PROVE Spec => []KernelMatches
  OBVIOUS
<1>1. Init => DbInv /\ KernelInv
  BY InitInv
<1>2. DbInv /\ KernelInv /\ [Next]_vars => (DbInv /\ KernelInv)'
  BY NextInv
<1>3. DbInv /\ KernelInv => KernelMatches
  BY SettledUnlessCleaning DEF KernelMatches, AllSettled, Settled, RipOf, At
<1> QED BY <1>1, <1>2, <1>3, PTL DEF Spec

(* --------------------- what OSPF redistributes for RIP ------------------ *)
(* RedistHasRoute also inside a handler: every call keeps it *)
HasRoute == \A p \in Prefix : ext[p] # {} => Ecmp(db, p) # {}

(* the metrics of the elements of other prefixes are the same in d and e *)
SameMetrics(d, e, p) == \A j \in Key : j.p # p => e[j].metric = d[j].metric

(* Between ecmp_del and ecmp_add OSPF has no copy of the prefix; ecmp_add gives *)
(* it one only for a usable route.                                              *)
LEMMA ReinstallHasRoute ==
  ASSUME ext \in ExtType, HasRoute, NEW d, NEW p \in Prefix, SameMetrics(db, d, p), Reinstall(d, p)
  PROVE  HasRoute'
<1> SUFFICES ASSUME NEW q \in Prefix, ext'[q] # {} PROVE Ecmp(db', q) # {}
  BY DEF HasRoute
<1> DEFINE x == ExtDel(ext, db, p)
<1>1. db' = d /\ ext' = ExtAdd(x, d, p)
  BY DEF Reinstall
<1>2. /\ x \in ExtType /\ \A r \in Prefix \ {p} : x[r] = ext[r]
      /\ x[p] = {}
  BY DEF ExtDel, ExtType, HasRoute
<1> HIDE DEF x
<1>3. CASE q = p
  BY <1>1, <1>2, <1>3 DEF ExtAdd
<1>4. CASE q # p
  <2>1. \E y : ext' = x \/ ext' = [x EXCEPT ![p] = y]
    BY <1>1 DEF ExtAdd
  <2>2. ext'[q] = ext[q]
    BY <1>2, <1>4, <2>1 DEF ExtType
  <2>3. Ecmp(d, q) = Ecmp(db, q)
    BY <1>4 DEF Ecmp, Used, Dead, SameMetrics
  <2> QED BY <1>1, <2>2, <2>3 DEF HasRoute
<1> QED BY <1>3, <1>4

(* A call that tells OSPF nothing keeps the usable RIP elements. *)
LEMMA QuietHasRoute ==
  ASSUME HasRoute, ext' = ext, \A j \in Key : j.t = "rip" /\ ~Dead(db, j) => db'[j].metric = db[j].metric
  PROVE  HasRoute'
<1>1. \A p \in Prefix : Ecmp(db, p) \subseteq Ecmp(db', p)
  BY DEF Ecmp, Used, Dead
<1> QED BY <1>1 DEF HasRoute

(* clean_route withdraws OSPF's copy of a RIP route with the last usable element. *)
LEMMA CleanRouteHasRoute ==
  ASSUME Sound, HasRoute, NEW k \in Key, clean_route(k)
  PROVE  HasRoute'
<1> DEFINE d == [db EXCEPT ![k] = Kill(@)]
<1>1. \A j \in Key : j # k => d[j] = db[j]
  BY DEF Sound, GoodDb
<1>2. SameMetrics(db, d, k.p) /\ k.p \in Prefix /\ ext \in ExtType
  BY <1>1, KeyFacts DEF SameMetrics, Sound
<1> HIDE DEF d
<1>3. CASE k.t = "rip"
  BY <1>2, <1>3, ReinstallHasRoute DEF clean_route, d
<1>4. CASE k.t # "rip"
  <2>1. db' = d /\ ext' = ext
    BY <1>4 DEF clean_route, d
  <2> QED BY <1>1, <1>4, <2>1, QuietHasRoute
<1> QED BY <1>3, <1>4

(* clean_metric touches elements of one prefix only. *)
LEMMA CleanMetricSame ==
  ASSUME NEW d, NEW p
  PROVE  SameMetrics(d, clean_metric(d, p), p)
  BY DEF SameMetrics, clean_metric, Used

(* ripdb_add gives OSPF a copy only of a prefix with a usable RIP element. *)
LEMMA AddHasRoute ==
  ASSUME Sound, HasRoute, NEW k \in Key, NEW m, NEW i, ripdb_add(k, m, i)
  PROVE  HasRoute'
<1>1. db \in [Key -> Elem] /\ k.p \in Prefix /\ ext \in ExtType
  BY KeyFacts DEF Sound, GoodDb
<1>2. CASE AddRefresh(k, m, i)
  <2> DEFINE e == db[k]
             update == e.metric # m \/ e.gc # 0 \/ e.intf # i
             f == [Fresh(m, i, e.pos) EXCEPT !.updated = e.updated \/ update]
             d == [db EXCEPT ![k] = f]
  <2>1. IF k.t = "rip" /\ update THEN Reinstall(clean_metric(d, k.p), k.p)
        ELSE db' = d /\ UNCHANGED <<kern, ext>>
    BY <1>2, Zenon DEF AddRefresh
  <2>2. f.metric = m /\ d[k] = f /\ \A j \in Key : j # k => d[j] = db[j]
    BY <1>1 DEF Fresh
  <2>3. CASE k.t = "rip" /\ update
    <3> HIDE DEF d, update
    <3>1. SameMetrics(db, clean_metric(d, k.p), k.p)
      BY <2>2, CleanMetricSame DEF SameMetrics
    <3> QED BY <1>1, <2>1, <2>3, <3>1, ReinstallHasRoute
  <2>4. CASE ~(k.t = "rip" /\ update)
    <3>1. k.t = "rip" => db[k].metric = m
      BY <2>4
    <3> HIDE DEF d, update, f
    <3>2. db' = d /\ ext' = ext
      BY <2>1, <2>4
    <3> QED BY <2>2, <3>1, <3>2, QuietHasRoute
  <2> QED BY <2>3, <2>4
<1>3. CASE AddWorse(k, m)
  BY <1>3 DEF AddWorse, HasRoute
<1>4. CASE AddBetter(k, m, i)
  <2>1. PICK f \in First(db, k.p) :
          Reinstall(clean_metric([db EXCEPT ![f] = NoElem, ![k] = Fresh(m, i, db[f].pos)], k.p), k.p)
    BY <1>4 DEF AddBetter
  <2> DEFINE d == [db EXCEPT ![f] = NoElem, ![k] = Fresh(m, i, db[f].pos)]
  <2>2. f.p = k.p
    BY DEF First, Used
  <2>3. SameMetrics(db, d, k.p)
    BY <1>1, <2>2 DEF SameMetrics
  <2> HIDE DEF d
  <2>4. SameMetrics(db, clean_metric(d, k.p), k.p)
    BY <2>3, CleanMetricSame DEF SameMetrics
  <2> QED BY <1>1, <2>1, <2>4, ReinstallHasRoute DEF d
<1>5. CASE AddNew(k, m, i)
  <2> DEFINE d == Insert(db, k, Fresh(m, i, 1))
  <2>1. \A j \in Key : j # k => d[j].metric = db[j].metric
    BY <1>1 DEF Insert, Elem
  <2>2. IF k.t = "rip" THEN Reinstall(d, k.p) ELSE db' = d /\ UNCHANGED <<kern, ext>>
    BY <1>5 DEF AddNew
  <2> HIDE DEF d
  <2>3. CASE k.t = "rip"
    BY <1>1, <2>1, <2>2, <2>3, ReinstallHasRoute DEF SameMetrics
  <2>4. CASE k.t # "rip"
    BY <2>1, <2>2, <2>4, QuietHasRoute
  <2> QED BY <2>3, <2>4
<1> QED BY <1>2, <1>3, <1>4, <1>5 DEF ripdb_add

(* list_timeout frees dead elements only. *)
LEMMA AgeHasRoute ==
  ASSUME Sound, HasRoute, Age
  PROVE  HasRoute'
<1>1. PICK k \in Key : /\ db[k].metric > 0
                       /\ AgeNot(k) \/ AgeRun(k) \/ AgeExpire(k) \/ AgeDead(k) \/ AgeFree(k)
  BY DEF Age, InOrder
<1>2. db \in [Key -> Elem] /\ Timed(db)
  BY DEF Sound, GoodDb
<1>3. CASE AgeExpire(k)
  BY <1>3, CleanRouteHasRoute DEF AgeExpire
<1>4. CASE AgeFree(k)
  <2>1. Dead(db, k)
    BY <1>1, <1>2, <1>4 DEF AgeFree, Timed
  <2>2. ext' = ext /\ \A j \in Key : j # k => db'[j].metric = db[j].metric
    BY <1>2, <1>4 DEF AgeFree, Free, Elem
  <2> QED BY <2>1, <2>2, QuietHasRoute
<1>5. CASE AgeNot(k) \/ AgeRun(k) \/ AgeDead(k)
  <2>1. ext' = ext /\ \A j \in Key : db'[j].metric = db[j].metric
    BY <1>2, <1>5 DEF AgeNot, AgeRun, AgeDead, Elem
  <2> QED BY <2>1, QuietHasRoute
<1> QED BY <1>1, <1>3, <1>4, <1>5

(* Every step but a crash and an answer to ROUTE_RQ keeps it. *)
LEMMA NextHasRoute ==
  ASSUME DbInv, HasRoute, [Next]_vars, ~Crash, ~RxRouteRequest
  PROVE  HasRoute'
<1>0. Sound /\ todo \in Seq(Legal(cfg))
  BY DEF DbInv
<1>1. CASE UNCHANGED <<db, ext>>
  BY <1>1 DEF HasRoute
<1>2. CASE Clean
  BY <1>0, <1>2, CleanRouteHasRoute DEF Clean
<1>3. CASE Send
  <2>1. ext' = ext /\ db' = [k \in Key |-> [db[k] EXCEPT !.updated = FALSE]]
    BY <1>3 DEF Send
  <2>2. \A k \in Key : db'[k].metric = db[k].metric
    BY <1>0, <2>1 DEF Sound, GoodDb, Elem
  <2> QED BY <2>1, <2>2, QuietHasRoute
<1>4. CASE UpdateInterfaces
  <2>1. PICK i \in Intf : Join(i) \/ Leave(i) \/ Stay(i)
    BY <1>4 DEF UpdateInterfaces
  <2>2. CASE Join(i)
    BY <1>0, <2>2, AddHasRoute, KeyFacts DEF Join
  <2> QED BY <1>1, <2>1, <2>2 DEF Leave, Stay
<1>5. CASE UpdateConnected
  <2>1. PICK i \in Intf : ripdb_add(IntfKey("con", i), cfg.con, i) \/ UNCHANGED <<db, ext>>
    BY <1>5 DEF UpdateConnected
  <2> QED BY <1>0, <1>1, <2>1, AddHasRoute, KeyFacts
<1>6. CASE UpdateSubnets
  <2>1. PICK i \in Loop : ripdb_add(IntfKey("sub", i), 1, i)
    BY <1>6 DEF UpdateSubnets
  <2> QED BY <1>0, <2>1, AddHasRoute, KeyFacts
<1>7. CASE RxResponse
  <2>1. PICK p \in RxPrefix, h \in Hops, m \in RxMetric :
          \/ ripdb_add(KeyOf("rip", p, h[1], h[2]), m + 1, On[h[2]])
          \/ clean_route(KeyOf("rip", p, h[1], h[2]))
          \/ UNCHANGED <<db, ext>>
    BY <1>7 DEF RxResponse
  <2>2. KeyOf("rip", p, h[1], h[2]) \in Key
    BY KeyFacts
  <2> QED BY <1>0, <1>1, <2>1, <2>2, AddHasRoute, CleanRouteHasRoute
<1>8. CASE RxAddRoute
  <2>1. PICK s \in OspfRt : ripdb_add(KeyOf("osp", s[1], s[2], NoGw), cfg.osp, On[s[2]])
    BY <1>8 DEF RxAddRoute
  <2>2. KeyOf("osp", s[1], s[2], NoGw) \in Key
    BY KeyFacts
  <2> QED BY <1>0, <2>1, <2>2, AddHasRoute
<1>9. CASE Return \/ Tick \/ RxInterface \/ RxLoopback \/ RxDelRoute \/ Command \/ LinkChange \/ UNCHANGED vars
  BY <1>1, <1>9
     DEF Return, Tick, RxInterface, RxLoopback, RxDelRoute, LinkChange, vars, Command, cliNetworkCidrCmd,
         cliRedistStaticCmd, cliRedistConnectedCmd, cliRedistConnectedSubnetsCmd, cliRedistOspfCmd,
         cliUpdateTimerCmd, cliNoRouterRipCmd, cliClearIpRipCmd
<1>10. CASE UpdateStatic
  <2>1. PICK k \in Rest : \/ ripdb_add(k, cfg.sta, On[k.gw])
                          \/ clean_route(k)
                          \/ UNCHANGED <<db, ext>>
    BY <1>10 DEF UpdateStatic
  <2>2. k \in Key
    BY <1>0, <1>10 DEF UpdateStatic, At, Idle, Rest, Legal, Call
  <2> QED BY <1>0, <1>1, <2>1, <2>2, AddHasRoute, CleanRouteHasRoute
<1> QED BY <1>0, <1>2, <1>3, <1>4, <1>5, <1>6, <1>7, <1>8, <1>9, <1>10, AgeHasRoute DEF Next, Loops, Handler

(* Without a crash of the RIP daemon and without OSPF asking for the routes    *)
(* again, OSPF redistributes a prefix for RIP only while RIP has a usable      *)
(* route to it.                                                                *)
THEOREM RipRedistHasRoute == Ops \intersect {"crash", "request"} = {} => (Spec => []RedistHasRoute)
<1> SUFFICES ASSUME Ops \intersect {"crash", "request"} = {} PROVE Spec => []RedistHasRoute
  OBVIOUS
<1>1. ~Crash /\ ~RxRouteRequest
  BY DEF Crash, RxRouteRequest, Does
<1>2. Init => DbInv /\ HasRoute
  BY InitInv DEF Init, HasRoute
<1>3. DbInv /\ HasRoute /\ [Next]_vars => (DbInv /\ HasRoute)'
  BY <1>1, NextInv, NextHasRoute
<1>4. HasRoute => RedistHasRoute
  BY DEF HasRoute, RedistHasRoute
<1> QED BY <1>2, <1>3, <1>4, PTL DEF Spec

(* ------------------- what the neighbours were told ---------------------- *)
(* the metric announced last on i for p is infinity or still an element's *)
Current(i, p) == told[i][p] \subseteq {Infinity} \union {Ann(db, i, k) : k \in Used(db, p)}

(* an element of p waits to be announced *)
News(p) == \E k \in Used(db, p) : db[k].updated

(* the timer branch has still to send, and the elements or interfaces its      *)
(* loops have still to visit                                                   *)
Sending == \E n \in DOMAIN todo : todo[n].op = "send"
Left(op) == UNION {todo[n].S : n \in {m \in DOMAIN todo : todo[m].op = op}}
Aged(k) == Sending /\ k \notin Left("age")

(* The invariant behind ToldCurrent.  A dead element that has not been         *)
(* announced keeps at least three seconds of garbage collection, and only one  *)
(* is taken off before the next update is sent; by then the interface loop has *)
(* joined every interface on which something was announced.                    *)
CurrentOrNews == \A i \in Intf, p \in Prefix : Current(i, p) \/ News(p)
ToldWhileUp == \A i \in Intf, p \in Prefix : told[i][p] # {} => link[i] /\ cfg.net[i]
NewsFlagged == \A k \in Key : db[k].metric > 0 /\ db[k].updated => upd
NewsLast == \A k \in Key : Dead(db, k) /\ db[k].updated => db[k].gc >= 3 /\ (db[k].gc >= 4 \/ Aged(k))
JoinedFirst ==
  \A i \in Intf : Sending /\ IntfKey("net", i) \notin Left("intf") => joined[i] \/ \A p \in Prefix : told[i][p] = {}
TickOrder ==
  /\ \A m \in DOMAIN todo, n \in DOMAIN todo :
       m < n => /\ todo[m].op = "age" => todo[n].op # "age"
                /\ todo[m].op = "send" => todo[n].op # "intf"
  /\ \A m \in DOMAIN todo : todo[m].op = "age" => \E n \in DOMAIN todo : m < n /\ todo[n].op = "send"

ToldInv ==
  /\ CurrentOrNews /\ ToldWhileUp /\ NewsFlagged
  /\ NewsLast /\ JoinedFirst /\ TickOrder

(* RIP_ROUTE_CLEANUP is four update intervals: at least four seconds. *)
LEMMA CleanupLasts ==
  ASSUME cfg.timer \in Timers
  PROVE  RouteCleanup \in Nat /\ RouteCleanup >= 4
<1> DEFINE t == cfg.timer
<1>1. t \in 1..60
  BY NumberAssumption
<1> HIDE DEF t
<1>2. (t * 4) % 256 \in Nat /\ (t * 4) % 256 >= 4
  BY <1>1
<1> QED BY <1>2 DEF RouteCleanup, t

(* Without loopback interfaces a dead element is announced as unreachable on   *)
(* every interface.                                                            *)
LEMMA DeadAnnounced ==
  ASSUME Loop = {}, NEW i \in Intf, NEW k \in Key, Dead(db, k)
  PROVE  Ann(db, i, k) = Infinity
<1>1. k.t # "sub"
  BY DEF Key, KeyOf, IntfKey
<1> QED BY <1>1 DEF Ann, Dead

(* ------------------------- changes of elements -------------------------- *)
SameElem(a, b) == b.metric = a.metric /\ b.updated = a.updated /\ b.gc = a.gc
Marked(b) == b.metric > 0 /\ b.updated /\ (b.metric = Infinity => b.gc >= 4)

(* x, with the flag u, is the database after a call that announces its changes *)
Flagged(x, u) ==
  /\ upd => u
  /\ \A j \in Key : \/ SameElem(db[j], x[j])
                    \/ u /\ Marked(x[j])
                    \/ u /\ x[j].metric = 0 /\ \E h \in Key : h.p = j.p /\ Marked(x[h])

(* clean_route and clean_metric flag an element unless it was dead before. *)
LEMMA KillMarks ==
  ASSUME cfg.timer \in Timers, NEW e \in Elem, e.metric # Infinity => e.gc = 0
  PROVE  /\ e.gc = 0 => Marked(Kill(e))
         /\ e.gc # 0 => SameElem(e, Kill(e))
         /\ Marked(e) => Marked(Kill(e))
<1> DEFINE u == e.updated \/ e.gc = 0
           c == IF e.gc = 0 THEN RouteCleanup ELSE e.gc
<1>1. Kill(e) = [e EXCEPT !.metric = Infinity, !.timeout = 0, !.gc = c, !.updated = u]
  BY Zenon DEF Kill
<1>2. e.gc = 0 => u = TRUE /\ c = RouteCleanup /\ c >= 4
  BY CleanupLasts
<1>3. e.gc # 0 => u = e.updated /\ c = e.gc
  BY DEF Elem
<1> HIDE DEF u, c
<1>4. Kill(e).metric = Infinity /\ Kill(e).gc = c /\ Kill(e).updated = u
  BY <1>1 DEF Elem
<1>5. e.gc = 0 => Marked(Kill(e))
  BY <1>2, <1>4 DEF Marked, Infinity
<1>6. e.gc # 0 => SameElem(e, Kill(e))
  BY <1>3, <1>4 DEF SameElem
<1>7. e.gc # 0 /\ Marked(e) => Marked(Kill(e))
  BY <1>6 DEF SameElem, Marked
<1> QED BY <1>5, <1>6, <1>7

(* In a sound database a usable element has no garbage collection running. *)
LEMMA UsableNoGc ==
  ASSUME Sound
  PROVE  db \in [Key -> Elem] /\ \A k \in Key : db[k].metric > 0 /\ db[k].metric # Infinity => db[k].gc = 0
  BY DEF Sound, GoodDb, Timed, Dead

(* clean_route announces the end of a route. *)
LEMMA CleanRouteFlags ==
  ASSUME Sound, cfg \in CfgType, NEW k \in Key, db[k].metric > 0, clean_route(k)
  PROVE  Flagged(db', upd')
<1>1. cfg.timer \in Timers /\ db[k] \in Elem /\ (db[k].metric # Infinity => db[k].gc = 0)
  BY UsableNoGc DEF CfgType
<1>2. db' = [db EXCEPT ![k] = Kill(@)] /\ upd' = (upd \/ db[k].gc = 0)
  BY DEF clean_route, Reinstall
<1>3. db'[k] = Kill(db[k]) /\ \A j \in Key \ {k} : db'[j] = db[j]
  BY <1>2 DEF Sound, GoodDb
<1>4. SameElem(db[k], db'[k]) \/ (upd' /\ Marked(db'[k]))
  BY <1>1, <1>2, <1>3, KillMarks
<1> QED BY <1>2, <1>3, <1>4 DEF Flagged, SameElem

(* clean_metric after elements of p were changed or replaced. *)
LEMMA CleanMetricFlags ==
  ASSUME cfg.timer \in Timers, NEW x \in [Key -> Elem], NEW p, Flagged(x, TRUE),
         \A j \in Key : x[j].metric > 0 /\ x[j].metric # Infinity => x[j].gc = 0
  PROVE  Flagged(clean_metric(x, p), TRUE)
<1> DEFINE y == clean_metric(x, p)
<1>1. \A j \in Key : y[j] = x[j] \/ (x[j].metric > 0 /\ y[j] = Kill(x[j]))
  BY DEF clean_metric, Used
<1> HIDE DEF y
<1>2. \A j \in Key : Marked(x[j]) => Marked(y[j])
  BY <1>1, KillMarks
<1>3. \A j \in Key : y[j] = x[j] \/ SameElem(x[j], y[j]) \/ Marked(y[j])
  BY <1>1, KillMarks
<1>4. ASSUME NEW j \in Key
      PROVE  \/ SameElem(db[j], y[j])
             \/ Marked(y[j])
             \/ y[j].metric = 0 /\ \E h \in Key : h.p = j.p /\ Marked(y[h])
  <2>1. CASE SameElem(db[j], x[j])
    BY <1>3, <2>1 DEF SameElem
  <2>2. CASE Marked(x[j])
    BY <1>2, <2>2
  <2>3. CASE x[j].metric = 0 /\ \E h \in Key : h.p = j.p /\ Marked(x[h])
    <3>1. y[j] = x[j]
      BY <1>1, <2>3
    <3> QED BY <1>2, <2>3, <3>1
  <2> QED BY <2>1, <2>2, <2>3 DEF Flagged
<1> QED BY <1>4 DEF Flagged, y

(* ripdb_add announces every change it makes. *)
LEMMA AddFlags ==
  ASSUME Sound, cfg \in CfgType, NEW k \in Key, NEW m \in 1..15, NEW i \in Intf \union Loop, ripdb_add(k, m, i)
  PROVE  Flagged(db', upd')
<1>1. cfg.timer \in Timers /\ db \in [Key -> Elem] /\ upd \in BOOLEAN
  BY UsableNoGc DEF CfgType, Sound
<1>2. CASE AddRefresh(k, m, i)
  <2> DEFINE e == db[k]
             update == e.metric # m \/ e.gc # 0 \/ e.intf # i
             u == e.updated \/ update
             f == [Fresh(m, i, e.pos) EXCEPT !.updated = u]
             d == [db EXCEPT ![k] = f]
  <2>1. /\ IF k.t = "rip" /\ update THEN Reinstall(clean_metric(d, k.p), k.p)
           ELSE db' = d /\ UNCHANGED <<kern, ext>>
        /\ upd' = (upd \/ update)
    BY <1>2, Zenon DEF AddRefresh
  <2>2. e \in Elem /\ u \in BOOLEAN /\ e.pos \in Nat
    BY <1>1 DEF Elem
  <2>3. f \in Elem /\ f.metric = m /\ f.gc = 0
    <3> HIDE DEF u, e
    <3> QED BY <1>1, <2>2, FreshElem
  <2>4. f.updated = u
    <3> HIDE DEF u, e
    <3> QED BY DEF Fresh
  <2>5. update => u = TRUE
    BY <2>2
  <2>6. ~update => u = e.updated /\ e.metric = m /\ e.gc = 0
    BY <2>2 DEF Elem
  <2> HIDE DEF f
  <2>7. d \in [Key -> Elem] /\ d[k] = f /\ \A j \in Key \ {k} : d[j] = db[j]
    BY <1>1, <2>3
  <2> HIDE DEF d, update, u, e
  <2>8. update => Marked(f)
    BY <2>3, <2>4, <2>5 DEF Marked, Infinity
  <2>9. ~update => SameElem(e, f)
    BY <2>3, <2>4, <2>6 DEF SameElem
  <2>10. Flagged(d, upd \/ update)
    BY <2>7, <2>8, <2>9 DEF Flagged, SameElem, e
  <2>11. CASE k.t = "rip" /\ update
    <3>1. \A j \in Key : d[j].metric > 0 /\ d[j].metric # Infinity => d[j].gc = 0
      BY <2>3, <2>7, UsableNoGc
    <3>2. Flagged(d, TRUE)
      BY <2>10, <2>11 DEF Flagged
    <3>3. Flagged(clean_metric(d, k.p), TRUE)
      BY <1>1, <2>7, <3>1, <3>2, CleanMetricFlags
    <3>4. db' = clean_metric(d, k.p) /\ upd' = TRUE
      BY <2>1, <2>11 DEF Reinstall
    <3> QED BY <3>3, <3>4
  <2>12. CASE ~(k.t = "rip" /\ update)
    BY <2>1, <2>10, <2>12
  <2> QED BY <2>11, <2>12
<1>3. CASE AddWorse(k, m)
  BY <1>3 DEF AddWorse, Flagged, SameElem
<1>4. CASE AddBetter(k, m, i)
  <2>1. PICK f \in First(db, k.p) :
          Reinstall(clean_metric([db EXCEPT ![f] = NoElem, ![k] = Fresh(m, i, db[f].pos)], k.p), k.p)
    BY <1>4 DEF AddBetter
  <2> DEFINE e == Fresh(m, i, db[f].pos)
             d == [db EXCEPT ![f] = NoElem, ![k] = e]
  <2>2. f \in Key /\ f.p = k.p /\ f # k /\ db[f].pos \in Nat
    BY <1>1, <1>4 DEF First, Used, AddBetter, Elem
  <2>3. e \in Elem /\ e.metric = m /\ e.gc = 0 /\ e.updated
    BY <1>1, <2>2, TimerFacts DEF Fresh, Elem
  <2> HIDE DEF e
  <2>4. NoElem \in Elem /\ NoElem.metric = 0
    BY DEF NoElem, Elem
  <2>5. d \in [Key -> Elem] /\ d[k] = e /\ d[f] = NoElem /\ \A j \in Key \ {k, f} : d[j] = db[j]
    BY <1>1, <2>2, <2>3, <2>4
  <2>6. Marked(e)
    BY <2>3 DEF Marked, Infinity
  <2> HIDE DEF d
  <2>7. Flagged(d, TRUE)
    BY <2>2, <2>4, <2>5, <2>6 DEF Flagged, SameElem
  <2>8. \A j \in Key : d[j].metric > 0 /\ d[j].metric # Infinity => d[j].gc = 0
    BY <2>3, <2>4, <2>5, UsableNoGc
  <2>9. Flagged(clean_metric(d, k.p), TRUE)
    BY <1>1, <2>5, <2>7, <2>8, CleanMetricFlags
  <2>10. db' = clean_metric(d, k.p) /\ upd' = TRUE
    BY <1>4, <2>1 DEF Reinstall, AddBetter, d, e
  <2> QED BY <2>9, <2>10
<1>5. CASE AddNew(k, m, i)
  <2> DEFINE e == Fresh(m, i, 1)
             d == Insert(db, k, e)
  <2>1. e \in Elem /\ e.metric = m /\ e.gc = 0 /\ e.updated
    BY <1>1, TimerFacts DEF Fresh, Elem
  <2> HIDE DEF e
  <2>2. Marked([e EXCEPT !.pos = 1])
    BY <2>1 DEF Marked, Infinity, Elem
  <2>3. d[k] = [e EXCEPT !.pos = 1]
    BY DEF Insert
  <2>4. \A j \in Key \ {k} : SameElem(db[j], d[j])
    BY <1>1 DEF Insert, SameElem, Elem
  <2>5. db' = d /\ upd' = TRUE
    BY <1>5 DEF AddNew, Reinstall, e
  <2> HIDE DEF d
  <2> QED BY <2>2, <2>3, <2>4, <2>5 DEF Flagged
<1> QED BY <1>2, <1>3, <1>4, <1>5 DEF ripdb_add

(* ------------------------------- the queue ------------------------------ *)
(* what the steps of a running handler keep of the work that is left *)
QueueKept ==
  /\ Sending' <=> Sending
  /\ Left("age")' \subseteq Left("age") /\ Left("intf") \subseteq Left("intf")'
  /\ TickOrder'

(* The calls left after one element of a loop. *)
LEMMA VisitQueue ==
  ASSUME todo \in Seq(Call), ~Idle, TickOrder, NEW x, Visit(x)
  PROVE  /\ Sending' <=> Sending
         /\ Left("age")' \subseteq Left("age") /\ Left("intf") \subseteq Left("intf")' \union {x}
         /\ ~At("intf") => Left("intf") \subseteq Left("intf")'
         /\ At("age") => x \notin Left("age")'
         /\ TickOrder'
<1> DEFINE h == [Head(todo) EXCEPT !.S = @ \ {x}]
<1>1. todo # <<>> /\ Head(todo) = todo[1] /\ todo[1] \in Call /\ 1 \in DOMAIN todo
  BY DEF Idle
<1>2. h.op = todo[1].op /\ h.S = todo[1].S \ {x}
  BY <1>1 DEF Call
<1> HIDE DEF h
<1>3. todo' = <<h>> \o Tail(todo)
  BY DEF Visit, h
<1>4. DOMAIN todo' = DOMAIN todo /\ todo'[1] = h /\ \A n \in DOMAIN todo : n # 1 => todo'[n] = todo[n]
  BY <1>1, <1>3
<1>5. \A n \in DOMAIN todo : todo'[n].op = todo[n].op /\ todo'[n].S \subseteq todo[n].S
  BY <1>2, <1>4
<1>6. Sending' <=> Sending
  BY <1>4, <1>5 DEF Sending
<1>7. Left("age")' \subseteq Left("age")
  BY <1>4, <1>5 DEF Left
<1>8. Left("intf") \subseteq Left("intf")' \union {x} /\ (~At("intf") => Left("intf") \subseteq Left("intf")')
  <2> SUFFICES ASSUME NEW y, NEW n \in DOMAIN todo, todo[n].op = "intf", y \in todo[n].S
               PROVE  (y = x /\ At("intf")) \/ y \in todo'[n].S
    BY <1>4, <1>5 DEF Left
  <2> QED BY <1>1, <1>2, <1>4 DEF At
<1>9. TickOrder'
  BY <1>4, <1>5 DEF TickOrder
<1>10. ASSUME At("age") PROVE x \notin Left("age")'
  <2>1. \A n \in DOMAIN todo : n # 1 => todo'[n].op # "age"
    <3>1. \A n \in DOMAIN todo : n # 1 => 1 < n
      BY <1>1
    <3> QED BY <1>1, <1>4, <1>10, <3>1 DEF TickOrder, At
  <2> QED BY <1>2, <1>4, <2>1 DEF Left
<1> QED BY <1>6, <1>7, <1>8, <1>9, <1>10

(* The calls left after the end of a loop. *)
LEMMA PopQueue ==
  ASSUME todo \in Seq(Call), ~Idle, TickOrder, Pop
  PROVE  /\ ~At("send") => (Sending' <=> Sending)
         /\ Left("age")' \subseteq Left("age")
         /\ (At("intf") => Rest = {}) => Left("intf") \subseteq Left("intf")'
         /\ TickOrder'
<1>1. todo # <<>> /\ Head(todo) = todo[1] /\ 1 \in DOMAIN todo /\ todo' = Tail(todo)
  BY DEF Idle, Pop
<1>2. \A n \in DOMAIN todo' : n + 1 \in DOMAIN todo /\ todo'[n] = todo[n + 1]
  BY <1>1
<1>3. \A n \in DOMAIN todo : n # 1 => /\ n - 1 \in DOMAIN todo' /\ todo'[n - 1] = todo[n]
                                      /\ n \in Nat /\ n > 1
  BY <1>1
<1>4. ASSUME ~At("send") PROVE Sending' <=> Sending
  <2>1. ASSUME Sending' PROVE Sending
    <3>1. PICK n \in DOMAIN todo' : todo'[n].op = "send"
      BY <2>1 DEF Sending
    <3> QED BY <1>2, <3>1 DEF Sending
  <2>2. ASSUME Sending PROVE Sending'
    <3>1. PICK n \in DOMAIN todo : todo[n].op = "send"
      BY <2>2 DEF Sending
    <3>2. n # 1
      BY <1>1, <1>4, <3>1 DEF At
    <3> QED BY <1>3, <3>1, <3>2 DEF Sending
  <2> QED BY <2>1, <2>2
<1>5. Left("age")' \subseteq Left("age")
  BY <1>2 DEF Left
<1>6. (At("intf") => Rest = {}) => Left("intf") \subseteq Left("intf")'
  <2> SUFFICES ASSUME At("intf") => Rest = {},
                      NEW y, NEW n \in DOMAIN todo, todo[n].op = "intf", y \in todo[n].S
               PROVE  y \in Left("intf")'
    BY DEF Left
  <2>1. n # 1
    BY <1>1 DEF At, Rest
  <2>2. n - 1 \in DOMAIN todo' /\ todo'[n - 1] = todo[n]
    BY <1>3, <2>1
  <2> QED BY <2>2 DEF Left
<1>7. TickOrder'
  <2>1. \A m \in DOMAIN todo', n \in DOMAIN todo' : m \in Nat /\ n \in Nat
    BY <1>1
  <2>2. ASSUME NEW m \in DOMAIN todo', NEW n \in DOMAIN todo', m < n
        PROVE  /\ todo'[m].op = "age" => todo'[n].op # "age"
               /\ todo'[m].op = "send" => todo'[n].op # "intf"
    <3>1. m + 1 < n + 1 /\ m + 1 \in DOMAIN todo /\ n + 1 \in DOMAIN todo
      BY <1>2, <2>1, <2>2
    <3> QED BY <1>2, <3>1 DEF TickOrder
  <2>3. ASSUME NEW m \in DOMAIN todo', todo'[m].op = "age"
        PROVE  \E n \in DOMAIN todo' : m < n /\ todo'[n].op = "send"
    <3>1. PICK n \in DOMAIN todo : m + 1 < n /\ todo[n].op = "send"
      BY <1>2, <2>3 DEF TickOrder
    <3>2. n # 1 /\ n \in Nat /\ m < n - 1
      BY <1>1, <2>1, <3>1
    <3> QED BY <1>3, <3>1, <3>2
  <2> QED BY <2>2, <2>3 DEF TickOrder
<1> QED BY <1>4, <1>5, <1>6, <1>7

(* A deletion loop put in front of the interface loop. *)
LEMMA LeaveQueue ==
  ASSUME todo \in Seq(Call), At("intf"), TickOrder, NEW i \in Intf, Leave(i)
  PROVE  /\ Sending' <=> Sending
         /\ Left("age")' \subseteq Left("age") /\ Left("intf") \subseteq Left("intf")' \union {IntfKey("net", i)}
         /\ TickOrder'
<1> DEFINE x == IntfKey("net", i)
           h == [Head(todo) EXCEPT !.S = @ \ {x}]
           c == [op |-> "clean", S |-> {k \in Key : db[k].intf = i}]
<1>1. todo # <<>> /\ Head(todo) = todo[1] /\ todo[1] \in Call /\ 1 \in DOMAIN todo
  BY DEF Idle, At
<1>2. h.op = todo[1].op /\ h.S = todo[1].S \ {x} /\ c.op = "clean"
  BY <1>1 DEF Call
<1>3. todo' = <<c, h>> \o Tail(todo)
  BY DEF Leave
<1> HIDE DEF h, c, x
<1>4. /\ Tail(todo) \in Seq(Call) /\ Len(Tail(todo)) = Len(todo) - 1 /\ Len(todo) \in Nat
      /\ \A n \in 1..Len(Tail(todo)) : Tail(todo)[n] = todo[n + 1]
  BY <1>1
<1>5. /\ DOMAIN todo' = 1..(Len(todo) + 1) /\ todo'[1] = c /\ todo'[2] = h
      /\ \A n \in 3..(Len(todo) + 1) : todo'[n] = todo[n - 1]
  <2> DEFINE t == Tail(todo)
  <2>1. todo' = <<c, h>> \o t /\ t \in Seq(Call) /\ Len(t) = Len(todo) - 1
    BY <1>3, <1>4
  <2> HIDE DEF t
  <2>2. /\ DOMAIN todo' = 1..(2 + Len(t)) /\ todo'[1] = c /\ todo'[2] = h
        /\ \A n \in 3..(2 + Len(t)) : todo'[n] = t[n - 2]
    BY <2>1
  <2>3. \A n \in 3..(2 + Len(t)) : n - 2 \in 1..Len(t) /\ t[n - 2] = todo[n - 1]
    BY <1>4, <2>1 DEF t
  <2> QED BY <1>4, <2>1, <2>2, <2>3
<1>6. DOMAIN todo = 1..Len(todo)
  BY <1>1
<1>7. \A n \in DOMAIN todo' : n # 1 => /\ n - 1 \in DOMAIN todo /\ todo'[n].op = todo[n - 1].op
                                       /\ todo'[n].S \subseteq todo[n - 1].S
                                       /\ todo[n - 1].S \subseteq todo'[n].S \union {x}
  <2> SUFFICES ASSUME NEW n \in DOMAIN todo', n # 1
               PROVE  /\ n - 1 \in DOMAIN todo /\ todo'[n].op = todo[n - 1].op
                      /\ todo'[n].S \subseteq todo[n - 1].S
                      /\ todo[n - 1].S \subseteq todo'[n].S \union {x}
    OBVIOUS
  <2>1. CASE n = 2
    <3>1. /\ todo'[2].op = todo[1].op /\ todo'[2].S = todo[1].S \ {x} /\ n - 1 = 1
      BY <1>2, <1>5, <2>1
    <3> QED BY <1>1, <2>1, <3>1
  <2>2. CASE n # 2
    <3>1. n \in 3..(Len(todo) + 1)
      BY <1>4, <1>5, <2>2
    <3> QED BY <1>4, <1>5, <1>6, <3>1
  <2> QED BY <2>1, <2>2
<1>8. \A n \in DOMAIN todo : n + 1 \in DOMAIN todo' /\ n + 1 # 1 /\ (n + 1) - 1 = n /\ n \in Nat
  BY <1>4, <1>5, <1>6
<1>9. Sending' <=> Sending
  <2>1. ASSUME NEW n \in DOMAIN todo, todo[n].op = "send" PROVE todo'[n + 1].op = "send" /\ n + 1 \in DOMAIN todo'
    BY <1>7, <1>8, <2>1
  <2>2. ASSUME NEW n \in DOMAIN todo', todo'[n].op = "send" PROVE todo[n - 1].op = "send" /\ n - 1 \in DOMAIN todo
    BY <1>2, <1>5, <1>7, <2>2
  <2> QED BY <2>1, <2>2 DEF Sending
<1>10. Left("age")' \subseteq Left("age")
  BY <1>2, <1>5, <1>7 DEF Left
<1>11. Left("intf") \subseteq Left("intf")' \union {x}
  <2> SUFFICES ASSUME NEW y, NEW n \in DOMAIN todo, todo[n].op = "intf", y \in todo[n].S
               PROVE  y = x \/ (todo'[n + 1].op = "intf" /\ y \in todo'[n + 1].S)
    BY <1>8 DEF Left
  <2> QED BY <1>7, <1>8
<1>12. TickOrder'
  <2>1. \A n \in DOMAIN todo' : n \in Nat /\ n >= 1
    BY <1>4, <1>5
  <2>2. ASSUME NEW m \in DOMAIN todo', NEW n \in DOMAIN todo', m < n
        PROVE  /\ todo'[m].op = "age" => todo'[n].op # "age"
               /\ todo'[m].op = "send" => todo'[n].op # "intf"
    <3>1. CASE m = 1
      BY <1>2, <1>5, <3>1
    <3>2. CASE m # 1
      <4>1. m - 1 < n - 1 /\ n # 1
        BY <2>1, <2>2, <3>2
      <4> QED BY <1>7, <3>2, <4>1 DEF TickOrder
    <3> QED BY <3>1, <3>2
  <2>3. ASSUME NEW m \in DOMAIN todo', todo'[m].op = "age"
        PROVE  \E n \in DOMAIN todo' : m < n /\ todo'[n].op = "send"
    <3>1. m # 1
      BY <1>2, <1>5, <2>3
    <3>2. PICK n \in DOMAIN todo : m - 1 < n /\ todo[n].op = "send"
      BY <1>7, <2>3, <3>1 DEF TickOrder
    <3>3. m < n + 1
      BY <1>8, <2>1, <3>2
    <3> QED BY <1>7, <1>8, <3>2, <3>3
  <2> QED BY <2>2, <2>3 DEF TickOrder
<1> QED BY <1>9, <1>10, <1>11, <1>12 DEF x

(* the calls of handlers other than the timer branch *)
Untimed == {c \in Call : c.op \notin {"age", "send"}}

(* Without an age and a send call no update is under way. *)
LEMMA UntimedQueue ==
  ASSUME todo' \in Seq(Untimed)
  PROVE  ~Sending' /\ TickOrder'
<1>1. \A n \in DOMAIN todo' : todo'[n].op \notin {"age", "send"}
  BY DEF Untimed
<1> QED BY <1>1 DEF Sending, TickOrder

(* The loops the messages and commands start neither age nor send. *)
LEMMA CallsUntimed ==
  ASSUME NEW c
  PROVE  /\ \A S \in SUBSET Key : CleanCall(S) \in Seq(Untimed)
         /\ IntfCalls \in Seq(Untimed) /\ ConCalls(c) \in Seq(Untimed)
         /\ SubCalls(c) \in Seq(Untimed) /\ StaCalls(c) \in Seq(Untimed)
<1>1. \A t : KeysOf(t) \subseteq Key
  BY DEF KeysOf
<1>2. \A S \in SUBSET Key, op \in {"intf", "sub", "clean", "con", "sta"} : LoopOver(op, S) \in Seq(Untimed)
  BY DEF LoopOver, Untimed, Call
<1> QED BY <1>1, <1>2 DEF CleanCall, IntfCalls, SubCalls, ConCalls, StaCalls

(* ------------------------------- the steps ------------------------------ *)
(* A call that announces its changes, whatever the loops around it. *)
LEMMA FlaggedTold ==
  ASSUME DbInv', ToldInv, Flagged(db', upd'), told' = told, cfg' = cfg, link' = link,
         \A k \in Key : Aged(k) => Aged(k)'
  PROVE  CurrentOrNews' /\ ToldWhileUp' /\ NewsFlagged' /\ NewsLast'
<1>1. ToldWhileUp'
  BY DEF ToldInv, ToldWhileUp
<1>2. NewsFlagged'
  BY DEF ToldInv, NewsFlagged, Flagged, SameElem
<1>3. ASSUME NEW k \in Key, Dead(db', k), db'[k].updated PROVE db'[k].gc >= 3 /\ (db'[k].gc >= 4 \/ Aged(k)')
  <2>1. SameElem(db[k], db'[k]) \/ Marked(db'[k])
    BY <1>3 DEF Flagged, Dead, Infinity
  <2>2. CASE SameElem(db[k], db'[k])
    BY <1>3, <2>2 DEF SameElem, ToldInv, NewsLast, Dead
  <2>3. CASE Marked(db'[k])
    <3>1. db'[k].gc >= 4
      BY <1>3, <2>3 DEF Marked, Dead
    <3>2. db'[k].gc \in Nat
      <4>1. db'[k] \in Elem
        BY DEF DbInv, Sound, GoodDb
      <4> QED BY <4>1 DEF Elem
    <3> QED BY <3>1, <3>2
  <2> QED BY <2>1, <2>2, <2>3
<1>4. NewsLast'
  BY <1>3 DEF NewsLast, Dead
<1>5. ASSUME NEW i \in Intf, NEW p \in Prefix, ~News(p)' PROVE Current(i, p)'
  <2>1. \A k \in Key : Marked(db'[k]) => k.p # p
    BY <1>5 DEF News, Used, Marked
  <2>2. ASSUME NEW k \in Key, k.p = p PROVE SameElem(db[k], db'[k])
    BY <2>1, <2>2 DEF Flagged
  <2>3. Used(db', p) = Used(db, p) /\ \A k \in Used(db, p) : db'[k].metric = db[k].metric /\ ~db[k].updated
    BY <1>5, <2>2 DEF Used, SameElem, News
  <2>4. ~News(p)
    BY <2>3 DEF News
  <2>5. \A k \in Used(db, p) : Ann(db', i, k) = Ann(db, i, k)
    BY <2>3 DEF Ann
  <2> QED BY <2>3, <2>4, <2>5 DEF Current, ToldInv, CurrentOrNews
<1>6. CurrentOrNews'
  BY <1>5 DEF CurrentOrNews
<1> QED BY <1>1, <1>2, <1>4, <1>6

(* The same for a step of a handler that leaves the interfaces alone. *)
LEMMA FlaggedStep ==
  ASSUME ToldInv, DbInv', Flagged(db', upd'), UNCHANGED env, QueueKept
  PROVE  ToldInv'
<1>1. told' = told /\ cfg' = cfg /\ link' = link /\ joined' = joined
  BY DEF env
<1>2. \A k \in Key : Aged(k) => Aged(k)'
  BY DEF QueueKept, Aged
<1>3. CurrentOrNews' /\ ToldWhileUp' /\ NewsFlagged' /\ NewsLast'
  BY <1>1, <1>2, FlaggedTold
<1>4. JoinedFirst'
  BY <1>1 DEF ToldInv, JoinedFirst, QueueKept
<1> QED BY <1>3, <1>4 DEF ToldInv, QueueKept

(* One element of a loop over the database or over routes. *)
LEMMA FlaggedVisit ==
  ASSUME DbInv, ToldInv, DbInv', Flagged(db', upd'), UNCHANGED env, ~Idle, ~At("intf"), NEW x, Visit(x)
  PROVE  ToldInv'
<1>1. todo \in Seq(Call) /\ TickOrder
  BY DEF DbInv, Legal, ToldInv
<1>2. QueueKept
  BY <1>1, VisitQueue DEF QueueKept
<1> QED BY <1>2, FlaggedStep

(* A step that leaves the database alone. *)
LEMMA SameFlagged ==
  ASSUME UNCHANGED <<db, upd>>
  PROVE  Flagged(db', upd')
  BY DEF Flagged, SameElem

(* list_timeout frees an element only after it was announced as unreachable. *)
LEMMA AgeTold ==
  ASSUME Loop = {}, DbInv, ToldInv, DbInv', Age
  PROVE  ToldInv'
<1>1. PICK k \in Key : /\ k \in Rest /\ db[k].metric > 0
                       /\ AgeNot(k) \/ AgeRun(k) \/ AgeExpire(k) \/ AgeDead(k) \/ AgeFree(k)
                       /\ Visit(k)
  BY DEF Age, InOrder
<1>2. ~Idle /\ At("age") /\ ~At("intf") /\ UNCHANGED env /\ k.p \in Prefix
  BY KeyFacts DEF Age, At
<1>3. told' = told /\ cfg' = cfg /\ link' = link /\ joined' = joined
  BY <1>2 DEF env
<1>4. Sound /\ cfg \in CfgType /\ db \in [Key -> Elem] /\ Timed(db) /\ todo \in Seq(Call) /\ TickOrder
  BY DEF DbInv, Sound, GoodDb, EnvType, Legal, ToldInv
<1>5. CASE AgeNot(k)
  BY <1>1, <1>2, <1>5, SameFlagged, FlaggedVisit DEF AgeNot
<1>6. CASE AgeRun(k)
  <2>1. Flagged(db', upd')
    BY <1>4, <1>6 DEF AgeRun, Flagged, SameElem, Elem
  <2> QED BY <1>1, <1>2, <2>1, FlaggedVisit
<1>7. CASE AgeExpire(k)
  BY <1>1, <1>2, <1>4, <1>7, CleanRouteFlags, FlaggedVisit DEF AgeExpire
<1>8. /\ Sending /\ k \in Left("age") /\ Sending' /\ k \notin Left("age")'
      /\ \A j \in Key : Aged(j) => Aged(j)'
      /\ JoinedFirst' /\ TickOrder'
  <2>1. Sending' <=> Sending
    BY <1>1, <1>2, <1>4, VisitQueue
  <2>2. Left("age")' \subseteq Left("age") /\ Left("intf") \subseteq Left("intf")' /\ k \notin Left("age")' /\ TickOrder'
    BY <1>1, <1>2, <1>4, VisitQueue
  <2>3. todo # <<>> /\ 1 \in DOMAIN todo /\ Head(todo) = todo[1] /\ todo[1].op = "age" /\ k \in todo[1].S
    BY <1>1, <1>2, <1>4 DEF Idle, At, Rest
  <2>4. Sending /\ k \in Left("age")
    BY <1>4, <2>3 DEF TickOrder, Sending, Left
  <2>5. JoinedFirst'
    BY <1>3, <2>1, <2>2 DEF ToldInv, JoinedFirst
  <2> QED BY <2>1, <2>2, <2>4, <2>5 DEF Aged
<1>9. db[k].updated /\ Dead(db, k) => db[k].gc >= 4 /\ db[k].gc \in Nat
  <2>0. db[k] \in Elem
    BY <1>4
  <2>1. db[k].gc \in Nat
    BY <2>0 DEF Elem
  <2>2. ~Aged(k)
    BY <1>8 DEF Aged
  <2> QED BY <2>1, <2>2 DEF ToldInv, NewsLast
<1>10. CASE AgeDead(k)
  <2>1. /\ upd' = upd /\ db'[k].gc = db[k].gc - 1 /\ db[k].gc > 1
        /\ \A j \in Key : db'[j].metric = db[j].metric /\ db'[j].updated = db[j].updated
        /\ \A j \in Key \ {k} : db'[j] = db[j]
    BY <1>4, <1>10 DEF AgeDead, Elem
  <2>2. \A p : Used(db', p) = Used(db, p) /\ (News(p)' <=> News(p))
    BY <2>1 DEF Used, News
  <2>3. \A i \in Intf, p \in Prefix : Current(i, p) => Current(i, p)'
    BY <1>3, <2>1, <2>2 DEF Current, Ann, Used
  <2>4. CurrentOrNews' /\ ToldWhileUp' /\ NewsFlagged'
    BY <1>3, <2>1, <2>2, <2>3 DEF ToldInv, CurrentOrNews, ToldWhileUp, NewsFlagged
  <2>5. NewsLast'
    <3> SUFFICES ASSUME NEW j \in Key, Dead(db', j), db'[j].updated
                 PROVE  db'[j].gc >= 3 /\ (db'[j].gc >= 4 \/ Aged(j)')
      BY DEF NewsLast, Dead
    <3>1. Dead(db, j) /\ db[j].updated
      BY <2>1 DEF Dead
    <3>2. CASE j = k
      BY <1>8, <1>9, <2>1, <3>1, <3>2 DEF Aged
    <3>3. CASE j # k
      BY <1>8, <2>1, <3>1, <3>3 DEF ToldInv, NewsLast
    <3> QED BY <3>2, <3>3
  <2> QED BY <1>8, <2>4, <2>5 DEF ToldInv
<1>11. CASE AgeFree(k)
  <2>1. Dead(db, k) /\ ~db[k].updated
    BY <1>1, <1>4, <1>9, <1>11 DEF AgeFree, Timed
  <2>2. /\ upd' = upd /\ db'[k].metric = 0
        /\ \A j \in Key \ {k} : SameElem(db[j], db'[j])
    BY <1>4, <1>11 DEF AgeFree, Free, SameElem, NoElem, Elem
  <2>3. \A p \in Prefix : Used(db', p) = Used(db, p) \ {k} /\ (News(p) => News(p)')
    BY <2>1, <2>2 DEF Used, News, SameElem
  <2>4. ASSUME NEW i \in Intf, NEW p \in Prefix, Current(i, p) PROVE Current(i, p)'
    <3>1. \A j \in Used(db, p) : j # k => Ann(db', i, j) = Ann(db, i, j)
      BY <2>2 DEF Used, Ann, SameElem
    <3>2. Ann(db, i, k) = Infinity
      BY <2>1, DeadAnnounced
    <3> QED BY <1>3, <2>3, <2>4, <3>1, <3>2 DEF Current
  <2>5. CurrentOrNews' /\ ToldWhileUp'
    BY <1>3, <2>3, <2>4 DEF ToldInv, CurrentOrNews, ToldWhileUp
  <2>6. NewsFlagged' /\ NewsLast'
    BY <1>8, <2>2 DEF ToldInv, NewsFlagged, NewsLast, SameElem, Dead, Infinity
  <2> QED BY <1>8, <2>5, <2>6 DEF ToldInv
<1> QED BY <1>1, <1>5, <1>6, <1>7, <1>10, <1>11

(* One interface of rip_update_interfaces: it has been joined, or nothing was *)
(* announced on it since link and network were there.                         *)
LEMMA InterfacesTold ==
  ASSUME DbInv, ToldInv, DbInv', UpdateInterfaces
  PROVE  ToldInv'
<1>1. PICK i \in Intf : Join(i) \/ Leave(i) \/ Stay(i)
  BY DEF UpdateInterfaces
<1>2. ~Idle /\ At("intf") /\ told' = told /\ link' = link /\ cfg' = cfg
  BY DEF UpdateInterfaces, At
<1>3. Sound /\ cfg \in CfgType /\ todo \in Seq(Call) /\ TickOrder /\ ToldWhileUp /\ joined \in [Intf -> BOOLEAN]
  BY DEF DbInv, EnvType, Legal, ToldInv
<1>4. Flagged(db', upd')
  <2>1. CASE Join(i)
    <3>1. ripdb_add(IntfKey("net", i), 1, i) /\ 1 \in 1..15 /\ IntfKey("net", i) \in Key
      BY <2>1, KeyFacts DEF Join
    <3> QED BY <1>3, <3>1, AddFlags
  <2>2. CASE Leave(i) \/ Stay(i)
    BY <2>2, SameFlagged DEF Leave, Stay
  <2> QED BY <1>1, <2>1, <2>2
<1>5. /\ Sending' <=> Sending
      /\ Left("age")' \subseteq Left("age") /\ Left("intf") \subseteq Left("intf")' \union {IntfKey("net", i)}
      /\ TickOrder'
  <2>1. CASE Join(i) \/ Stay(i)
    BY <1>2, <1>3, <2>1, VisitQueue DEF Join, Stay
  <2>2. CASE Leave(i)
    BY <1>2, <1>3, <2>2, LeaveQueue
  <2> QED BY <1>1, <2>1, <2>2
<1>6. CurrentOrNews' /\ ToldWhileUp' /\ NewsFlagged' /\ NewsLast'
  <2>1. \A k \in Key : Aged(k) => Aged(k)'
    BY <1>5 DEF Aged
  <2> QED BY <1>2, <1>4, <2>1, FlaggedTold
<1>7. JoinedFirst'
  <2> SUFFICES ASSUME NEW j \in Intf, Sending', IntfKey("net", j) \notin Left("intf")'
               PROVE  joined'[j] \/ \A p \in Prefix : told'[j][p] = {}
    BY DEF JoinedFirst
  <2>1. CASE j = i
    BY <1>1, <1>2, <1>3, <2>1 DEF Join, Leave, Stay, ToldWhileUp
  <2>2. CASE j # i
    <3>1. IntfKey("net", j) # IntfKey("net", i)
      BY <2>2 DEF IntfKey, KeyOf, NetOf
    <3>2. joined'[j] = joined[j]
      BY <1>1, <1>3, <2>2 DEF Join, Leave, Stay
    <3> QED BY <1>2, <1>5, <3>1, <3>2 DEF ToldInv, JoinedFirst
  <2> QED BY <2>1, <2>2
<1> QED BY <1>5, <1>6, <1>7 DEF ToldInv

(* The updates go out on every interface on which something was announced. *)
LEMMA SendTold ==
  ASSUME DbInv, ToldInv, Send
  PROVE  ToldInv'
<1>1. ~Idle /\ At("send") /\ Pop /\ UNCHANGED <<link, joined, cfg>> /\ upd' = FALSE
  BY DEF Send, At
<1>2. db \in [Key -> Elem] /\ upd \in BOOLEAN /\ todo \in Seq(Call) /\ TickOrder
  BY DEF DbInv, Sound, GoodDb, Legal, ToldInv
<1>3. \A k \in Key : db'[k].metric = db[k].metric /\ db'[k].updated = FALSE
  <2>1. db' = [k \in Key |-> [db[k] EXCEPT !.updated = FALSE]]
    BY DEF Send
  <2>2. \A e \in Elem : [e EXCEPT !.updated = FALSE].metric = e.metric /\ [e EXCEPT !.updated = FALSE].updated = FALSE
    BY DEF Elem
  <2> QED BY <1>2, <2>1, <2>2
<1>4. NewsFlagged' /\ NewsLast'
  BY <1>3 DEF NewsFlagged, NewsLast, Dead
<1>5. TickOrder' /\ Left("intf") \subseteq Left("intf")'
  <2>1. ~At("intf")
    BY <1>1 DEF At
  <2> QED BY <1>1, <1>2, <2>1, PopQueue
<1>6. Sending /\ Left("intf") = {}
  <2>1. todo # <<>> /\ 1 \in DOMAIN todo /\ Head(todo) = todo[1] /\ todo[1].op = "send"
    BY <1>1, <1>2 DEF Idle, At
  <2>2. \A n \in DOMAIN todo : n # 1 => 1 < n
    BY <1>2
  <2>3. \A n \in DOMAIN todo : todo[n].op # "intf"
    BY <1>2, <2>1, <2>2 DEF TickOrder
  <2> QED BY <2>1, <2>3 DEF Sending, Left
<1>7. \A i \in Intf : joined[i] \/ \A p \in Prefix : told[i][p] = {}
  BY <1>6 DEF ToldInv, JoinedFirst
<1> DEFINE new(p) == {k \in Used(db, p) : db[k].updated}
           open(i) == joined[i] /\ link[i] /\ cfg.net[i]
<1>8. ASSUME NEW i \in Intf, NEW p \in Prefix
      PROVE  \/ open(i) /\ \E S \in SUBSET Used(db, p) : told'[i][p] = Announce(i, p, S)
             \/ told'[i][p] = told[i][p] /\ ~(open(i) /\ upd /\ new(p) # {})
  <2> DEFINE ann(j, q, full) ==
               IF j \in full /\ Used(db, q) # {} THEN Announce(j, q, Used(db, q))
               ELSE IF joined[j] /\ link[j] /\ cfg.net[j] /\ upd /\ new(q) # {}
                    THEN Announce(j, q, new(q)) ELSE told[j][q]
  <2>1. PICK full \in SUBSET {j \in Intf : joined[j] /\ link[j] /\ cfg.net[j]} :
          told' = [j \in Intf |-> [q \in Prefix |-> ann(j, q, full)]]
    BY DEF Send
  <2>2. told'[i][p] = ann(i, p, full)
    <3> HIDE DEF ann
    <3> QED BY <2>1
  <2>3. new(p) \in SUBSET Used(db, p) /\ Used(db, p) \in SUBSET Used(db, p) /\ (i \in full => open(i))
    OBVIOUS
  <2> HIDE DEF new
  <2>4. CASE i \in full /\ Used(db, p) # {}
    BY <2>2, <2>3, <2>4
  <2>5. CASE ~(i \in full /\ Used(db, p) # {}) /\ open(i) /\ upd /\ new(p) # {}
    BY <2>2, <2>3, <2>5
  <2>6. CASE ~(i \in full /\ Used(db, p) # {}) /\ ~(open(i) /\ upd /\ new(p) # {})
    BY <2>2, <2>6
  <2> QED BY <2>4, <2>5, <2>6
<1>9. ASSUME NEW i \in Intf, NEW p \in Prefix PROVE Current(i, p)'
  <2>1. Used(db', p) = Used(db, p) /\ \A k \in Used(db, p) : Ann(db', i, k) = Ann(db, i, k)
    BY <1>3 DEF Used, Ann
  <2>2. ASSUME NEW S \in SUBSET Used(db, p), told'[i][p] = Announce(i, p, S) PROVE Current(i, p)'
    BY <2>1, <2>2 DEF Current, Announce, LastOf
  <2>3. ASSUME told'[i][p] = told[i][p], ~(open(i) /\ upd /\ new(p) # {}) PROVE Current(i, p)'
    <3>1. CASE Current(i, p)
      BY <2>1, <2>3, <3>1 DEF Current
    <3>2. CASE ~Current(i, p)
      <4>1. told[i][p] # {} /\ News(p)
        BY <3>2 DEF Current, ToldInv, CurrentOrNews
      <4>2. open(i)
        BY <1>7, <4>1 DEF ToldInv, ToldWhileUp
      <4>3. upd /\ new(p) # {}
        BY <4>1 DEF News, Used, ToldInv, NewsFlagged
      <4> QED BY <2>3, <4>2, <4>3
    <3> QED BY <3>1, <3>2
  <2> QED BY <1>8, <2>2, <2>3
<1> HIDE DEF open, new
<1>10. CurrentOrNews'
  BY <1>9 DEF CurrentOrNews
<1>11. \A i \in Intf, p \in Prefix : told'[i][p] # {} => joined[i] /\ link[i] /\ cfg.net[i]
  <2> SUFFICES ASSUME NEW i \in Intf, NEW p \in Prefix, told'[i][p] # {} PROVE joined[i] /\ link[i] /\ cfg.net[i]
    OBVIOUS
  <2>1. open(i) \/ told'[i][p] = told[i][p]
    BY <1>8
  <2> QED BY <1>7, <2>1 DEF open, ToldInv, ToldWhileUp
<1>12. ToldWhileUp' /\ JoinedFirst'
  BY <1>1, <1>11 DEF ToldWhileUp, JoinedFirst
<1> QED BY <1>4, <1>5, <1>10, <1>12 DEF ToldInv

(* Between handlers nothing has been aged ahead of an update. *)
LEMMA IdleNews ==
  ASSUME ToldInv, Idle
  PROVE  ~Sending /\ \A k \in Key : Dead(db, k) /\ db[k].updated => db[k].gc >= 3 /\ db[k].gc >= 4
<1>1. ~Sending
  BY DEF Idle, Sending
<1> QED BY <1>1 DEF ToldInv, NewsLast, Aged

(* A handler or command that only starts loops and forgets what was announced  *)
(* on interfaces.                                                              *)
LEMMA StartTold ==
  ASSUME ToldInv, Idle, UNCHANGED <<db, upd>>, ToldWhileUp',
         \A i \in Intf, p \in Prefix : told'[i][p] = told[i][p] \/ told'[i][p] = {},
         todo' \in Seq(Untimed)
  PROVE  ToldInv'
<1>1. ~Sending' /\ TickOrder'
  BY UntimedQueue
<1>2. CurrentOrNews' /\ NewsFlagged'
  BY DEF ToldInv, CurrentOrNews, NewsFlagged, Current, News
<1>3. NewsLast'
  BY IdleNews DEF NewsLast
<1>4. JoinedFirst'
  BY <1>1 DEF JoinedFirst
<1> QED BY <1>1, <1>2, <1>3, <1>4 DEF ToldInv

(* the calls of a tick after its update *)
Later == {c \in Call : c.op \notin {"age", "send", "intf"}}

(* What two handfuls of calls, one after the other, consist of. *)
LEMMA Joined ==
  ASSUME NEW C, NEW s \in Seq(C), NEW t \in Seq(C)
  PROVE  /\ s \o t \in Seq(C) /\ Len(s \o t) = Len(s) + Len(t) /\ DOMAIN (s \o t) = 1..(Len(s) + Len(t))
         /\ Len(s) \in Nat /\ Len(t) \in Nat
         /\ \A n \in 1..Len(s) : (s \o t)[n] = s[n]
         /\ \A n \in (Len(s) + 1)..(Len(s) + Len(t)) : n - Len(s) \in 1..Len(t) /\ (s \o t)[n] = t[n - Len(s)]
  OBVIOUS

(* The timer branch of the select loop: interfaces, ages, updates. *)
LEMMA TickTold ==
  ASSUME DbInv, ToldInv, Tick
  PROVE  ToldInv'
<1>1. Idle /\ UNCHANGED <<db, upd>> /\ told' = told /\ link' = link /\ joined' = joined /\ cfg' = cfg
  BY DEF Tick, env
<1> DEFINE u == [op |-> "intf", S |-> KeysOf("net")]
           v == [op |-> "age", S |-> Key]
           w == [op |-> "send", S |-> {}]
<1>2. PICK a \in BOOLEAN, b \in BOOLEAN :
        todo' = IntfCalls \o LoopOver("age", Key) \o LoopOver("send", {})
                \o (IF a THEN StaCalls(cfg) ELSE <<>>)
                \o (IF b THEN ConCalls(cfg) \o SubCalls(cfg) \o StaCalls(cfg) ELSE <<>>)
  BY DEF Tick
<1> DEFINE x == IF a THEN StaCalls(cfg) ELSE <<>>
           y == IF b THEN ConCalls(cfg) \o SubCalls(cfg) \o StaCalls(cfg) ELSE <<>>
<1>3. x \in Seq(Later) /\ y \in Seq(Later)
  <2>1. \A S \in SUBSET Key, op \in {"sub", "clean", "con", "sta"} : LoopOver(op, S) \in Seq(Later)
    BY DEF LoopOver, Later, Call
  <2>2. \A t : KeysOf(t) \in SUBSET Key
    BY DEF KeysOf
  <2>3. ConCalls(cfg) \in Seq(Later) /\ SubCalls(cfg) \in Seq(Later) /\ StaCalls(cfg) \in Seq(Later)
    BY <2>1, <2>2 DEF CleanCall, SubCalls, ConCalls, StaCalls
  <2> QED BY <2>3, Concatenated
<1> DEFINE r == IntfCalls \o LoopOver("age", Key) \o LoopOver("send", {})
<1>4. r \in Seq({u, v, w}) /\ Len(r) = 3 /\ r[1] = u /\ r[2] = v /\ r[3] = w
  <2>1. IntfCalls = <<u>> /\ LoopOver("age", Key) = <<v>> /\ LoopOver("send", {}) = <<w>>
    BY DEF IntfCalls, LoopOver
  <2> DEFINE C == {u, v, w}
             q == <<u>> \o <<v>>
             z == <<w>>
  <2> HIDE DEF u, v, w
  <2>2. q \in Seq(C) /\ Len(q) = 2 /\ q[1] = u /\ q[2] = v
    OBVIOUS
  <2>3. z \in Seq(C) /\ Len(z) = 1 /\ z[1] = w
    OBVIOUS
  <2>4. r = q \o z
    BY <2>1, Zenon
  <2> HIDE DEF q, z, C, r
  <2>5. /\ q \o z \in Seq(C) /\ Len(q \o z) = Len(q) + Len(z)
        /\ \A n \in 1..Len(q) : (q \o z)[n] = q[n]
        /\ \A n \in (Len(q) + 1)..(Len(q) + Len(z)) : (q \o z)[n] = z[n - Len(q)]
    BY <2>2, <2>3, Joined
  <2>6. Len(r) = 3 /\ r[1] = q[1] /\ r[2] = q[2] /\ r[3] = z[3 - 2] /\ r \in Seq(C)
    BY <2>2, <2>3, <2>4, <2>5
  <2>7. r[3] = w
    BY <2>3, <2>6
  <2> QED BY <2>2, <2>6, <2>7 DEF C
<1>5. todo' = (r \o x) \o y
  BY <1>2
<1>6. u.op = "intf" /\ u.S = KeysOf("net") /\ v.op = "age" /\ w.op = "send"
  OBVIOUS
<1> HIDE DEF u, v, w, x, y, r
<1>7. /\ DOMAIN todo' = 1..(3 + Len(x) + Len(y)) /\ Len(x) \in Nat /\ Len(y) \in Nat
      /\ todo'[1] = u /\ todo'[2] = v /\ todo'[3] = w
      /\ \A n \in DOMAIN todo' : n > 3 => todo'[n] \in Later
  <2> DEFINE s == r \o x
  <2>1. /\ DOMAIN s = 1..(3 + Len(x)) /\ Len(s) = 3 + Len(x) /\ Len(x) \in Nat
        /\ s[1] = u /\ s[2] = v /\ s[3] = w
        /\ \A n \in 4..(3 + Len(x)) : s[n] = x[n - 3] /\ n - 3 \in 1..Len(x)
    <3> DEFINE C == {u, v, w} \union Later
    <3>1. r \in Seq(C) /\ x \in Seq(C)
      BY <1>3, <1>4
    <3> HIDE DEF C
    <3>2. /\ Len(s) = Len(r) + Len(x) /\ DOMAIN s = 1..(Len(r) + Len(x)) /\ Len(x) \in Nat
          /\ \A n \in 1..Len(r) : s[n] = r[n]
          /\ \A n \in (Len(r) + 1)..(Len(r) + Len(x)) : n - Len(r) \in 1..Len(x) /\ s[n] = x[n - Len(r)]
      BY <3>1, Joined
    <3> HIDE DEF s
    <3> QED BY <1>4, <3>2
  <2>2. \A n \in 4..(3 + Len(x)) : s[n] \in Later
    BY <1>3, <2>1
  <2>3. s \in Seq({u, v, w} \union Later)
    <3>1. r \in Seq({u, v, w} \union Later) /\ x \in Seq({u, v, w} \union Later)
      BY <1>3, <1>4
    <3> QED BY <3>1, Concatenated
  <2>4. todo' = s \o y
    BY <1>5
  <2> HIDE DEF s
  <2>5. /\ DOMAIN todo' = 1..(Len(s) + Len(y)) /\ Len(y) \in Nat
        /\ \A n \in 1..Len(s) : todo'[n] = s[n]
        /\ \A n \in (Len(s) + 1)..(Len(s) + Len(y)) : todo'[n] = y[n - Len(s)] /\ n - Len(s) \in 1..Len(y)
    BY <1>3, <2>3, <2>4
  <2>6. \A n \in (Len(s) + 1)..(Len(s) + Len(y)) : todo'[n] \in Later
    BY <1>3, <2>5
  <2>7. \A n \in DOMAIN todo' : n > 3 => todo'[n] \in Later
    <3> SUFFICES ASSUME NEW n \in DOMAIN todo', n > 3 PROVE todo'[n] \in Later
      OBVIOUS
    <3>1. n \in 4..(3 + Len(x)) \/ n \in (Len(s) + 1)..(Len(s) + Len(y))
      BY <2>1, <2>5
    <3> QED BY <2>1, <2>2, <2>5, <2>6, <3>1
  <2> QED BY <2>1, <2>5, <2>7
<1>8. /\ 1 \in DOMAIN todo' /\ 2 \in DOMAIN todo' /\ 3 \in DOMAIN todo'
      /\ \A n \in DOMAIN todo' : n \in Nat /\ (n = 1 \/ n = 2 \/ n = 3 \/ n > 3)
      /\ \A n \in DOMAIN todo' : n > 3 => todo'[n].op \notin {"age", "send", "intf"}
  BY <1>7 DEF Later
<1>9. TickOrder'
  <2>1. \A n \in DOMAIN todo' : (todo'[n].op = "age" <=> n = 2) /\ (todo'[n].op = "send" <=> n = 3)
                                /\ (todo'[n].op = "intf" <=> n = 1)
    BY <1>6, <1>7, <1>8
  <2> QED BY <1>8, <2>1 DEF TickOrder
<1>10. JoinedFirst'
  <2>1. \A i \in Intf : IntfKey("net", i) \in KeysOf("net")
    BY KeyFacts DEF KeysOf, IntfKey, KeyOf
  <2>2. \A i \in Intf : IntfKey("net", i) \in Left("intf")'
    BY <1>6, <1>7, <1>8, <2>1 DEF Left
  <2> QED BY <2>2 DEF JoinedFirst
<1>11. NewsLast'
  BY <1>1, IdleNews DEF NewsLast
<1>12. CurrentOrNews' /\ NewsFlagged' /\ ToldWhileUp'
  BY <1>1 DEF ToldInv, CurrentOrNews, NewsFlagged, Current, News, ToldWhileUp
<1> QED BY <1>9, <1>10, <1>11, <1>12 DEF ToldInv

(* The messages that change elements while no loop runs. *)
LEMMA RxTold ==
  ASSUME DbInv, ToldInv, DbInv', RxResponse \/ RxAddRoute \/ RxRouteRequest
  PROVE  ToldInv'
<1>1. UNCHANGED env /\ todo' = todo
  BY DEF RxResponse, RxAddRoute, RxRouteRequest
<1>2. QueueKept
  BY <1>1 DEF QueueKept, Sending, Left, TickOrder, ToldInv
<1>3. Sound /\ cfg \in CfgType
  BY DEF DbInv, EnvType
<1>4. CASE RxResponse
  <2>1. PICK p \in RxPrefix, h \in Hops, m \in RxMetric :
          IF Reachable(m)
          THEN ripdb_add(KeyOf("rip", p, h[1], h[2]), m + 1, On[h[2]])
          ELSE IF db[KeyOf("rip", p, h[1], h[2])].metric > 0 THEN clean_route(KeyOf("rip", p, h[1], h[2]))
          ELSE UNCHANGED <<db, upd>>
    BY <1>4 DEF RxResponse
  <2> DEFINE k == KeyOf("rip", p, h[1], h[2])
  <2>2. k \in Key /\ On[h[2]] \in Intf
    BY KeyFacts, OnFacts
  <2>3. Reachable(m) => m + 1 \in 1..15
    BY NumberAssumption DEF Reachable, Infinity
  <2> HIDE DEF k
  <2>4. Flagged(db', upd')
    BY <1>3, <2>1, <2>2, <2>3, AddFlags, CleanRouteFlags, SameFlagged DEF k
  <2> QED BY <1>1, <1>2, <2>4, FlaggedStep
<1>5. CASE RxAddRoute
  <2>1. PICK s \in OspfRt : ripdb_add(KeyOf("osp", s[1], s[2], NoGw), cfg.osp, On[s[2]])
    BY <1>5 DEF RxAddRoute
  <2>2. KeyOf("osp", s[1], s[2], NoGw) \in Key /\ On[s[2]] \in Intf /\ cfg.osp \in 1..15
    BY <1>3, <1>5, KeyFacts, OnFacts DEF RxAddRoute, CfgType
  <2> QED BY <1>1, <1>2, <1>3, <2>1, <2>2, AddFlags, FlaggedStep
<1>6. CASE RxRouteRequest
  BY <1>1, <1>2, <1>6, SameFlagged, FlaggedStep DEF RxRouteRequest
<1> QED BY <1>4, <1>5, <1>6

(* The loops over the database and over configured routes. *)
LEMMA LoopsTold ==
  ASSUME DbInv, ToldInv, DbInv', Clean \/ UpdateConnected \/ UpdateSubnets \/ UpdateStatic \/ Return
  PROVE  ToldInv'
<1>1. Sound /\ EnvType /\ cfg \in CfgType /\ todo \in Seq(Legal(cfg)) /\ todo \in Seq(Call)
  BY DEF DbInv, EnvType, Legal
<1>2. ~Idle /\ UNCHANGED env
  BY DEF Clean, UpdateConnected, UpdateSubnets, UpdateStatic, Return, At
<1>3. Head(todo) \in Legal(cfg)
  BY <1>1, <1>2 DEF Idle
<1>4. CASE Clean
  <2>1. PICK k \in Key : db[k].metric > 0 /\ clean_route(k) /\ Visit(k)
    BY <1>4 DEF Clean, InOrder
  <2>2. ~At("intf")
    BY <1>4 DEF Clean, At
  <2> QED BY <1>1, <1>2, <2>1, <2>2, CleanRouteFlags, FlaggedVisit
<1>5. CASE UpdateConnected
  <2>1. PICK i \in Intf : /\ Visit(IntfKey("con", i))
                          /\ IF link[i] THEN ripdb_add(IntfKey("con", i), cfg.con, i)
                             ELSE UNCHANGED <<db, upd, kern, ext>>
    BY <1>5 DEF UpdateConnected
  <2>2. IntfKey("con", i) \in Key /\ cfg.con \in 1..15 /\ ~At("intf")
    BY <1>1, <1>3, <1>5, KeyFacts DEF UpdateConnected, At, Legal, CfgType
  <2>3. Flagged(db', upd')
    BY <1>1, <2>1, <2>2, AddFlags, SameFlagged
  <2> QED BY <1>2, <2>1, <2>2, <2>3, FlaggedVisit
<1>6. CASE UpdateSubnets
  <2>1. PICK i \in Loop : Visit(IntfKey("sub", i)) /\ ripdb_add(IntfKey("sub", i), 1, i)
    BY <1>6 DEF UpdateSubnets
  <2>2. IntfKey("sub", i) \in Key /\ 1 \in 1..15 /\ ~At("intf")
    BY <1>6, KeyFacts DEF UpdateSubnets, At
  <2>3. Flagged(db', upd')
    BY <1>1, <2>1, <2>2, AddFlags
  <2> QED BY <1>2, <2>1, <2>2, <2>3, FlaggedVisit
<1>7. CASE UpdateStatic
  <2>1. PICK k \in Rest :
          /\ Visit(k)
          /\ IF link[On[k.gw]] THEN ripdb_add(k, cfg.sta, On[k.gw])
             ELSE IF db[k].metric > 0 THEN clean_route(k)
             ELSE UNCHANGED <<db, upd>>
    BY <1>7 DEF UpdateStatic
  <2>2. k \in Key /\ k.t = "sta" /\ cfg.sta \in 1..15 /\ ~At("intf")
    BY <1>1, <1>3, <1>7 DEF UpdateStatic, At, Rest, Legal, KeysOf, CfgType
  <2>3. On[k.gw] \in Intf
    BY <2>2, OnFacts
  <2>4. Flagged(db', upd')
    BY <1>1, <2>1, <2>2, <2>3, AddFlags, CleanRouteFlags, SameFlagged
  <2> QED BY <1>2, <2>1, <2>2, <2>4, FlaggedVisit
<1>8. CASE Return
  <2>1. UNCHANGED <<db, upd>> /\ Pop /\ ~At("send") /\ (At("intf") => Rest = {})
    BY <1>8 DEF Return, At
  <2>2. QueueKept
    BY <1>1, <1>2, <2>1, PopQueue DEF QueueKept, ToldInv
  <2> QED BY <1>2, <2>1, <2>2, SameFlagged, FlaggedStep
<1> QED BY <1>4, <1>5, <1>6, <1>7, <1>8

(* The other messages and the commands. *)
LEMMA HandlersTold ==
  ASSUME DbInv, ToldInv, RxInterface \/ RxLoopback \/ RxDelRoute \/ Command
  PROVE  ToldInv'
<1>1. Idle /\ UNCHANGED <<db, upd>> /\ link' = link
  BY DEF RxInterface, RxLoopback, RxDelRoute, Does, env, Command, cliNetworkCidrCmd,
         cliRedistStaticCmd, cliRedistConnectedCmd, cliRedistConnectedSubnetsCmd, cliRedistOspfCmd,
         cliUpdateTimerCmd, cliNoRouterRipCmd, cliClearIpRipCmd
<1>2. told \in [Intf -> [Prefix -> SUBSET (1..16)]] /\ cfg \in CfgType /\ ToldWhileUp
  BY DEF DbInv, EnvType, ToldInv
<1>3. \A s \in Seq(Untimed), t \in Seq(Untimed) : s \o t \in Seq(Untimed)
  BY Concatenated
<1>4. <<>> \in Seq(Untimed) /\ \A t, old, m : TypeCalls(t, old, m) \in Seq(Untimed)
  BY CallsUntimed DEF TypeCalls, KeysOf
<1>5. ASSUME told' = told, cfg'.net = cfg.net PROVE ToldWhileUp'
  BY <1>1, <1>2, <1>5 DEF ToldWhileUp
<1>6. todo' \in Seq(Untimed)
  <2>1. CASE RxInterface
    <3> DEFINE x == IF Head(mux).up THEN <<>> ELSE CleanCall({k \in Key : db[k].intf = Head(mux).intf})
    <3>1. x \in Seq(Untimed)
      BY <1>4, CallsUntimed
    <3>2. todo' = x \o IntfCalls \o ConCalls(cfg) \o SubCalls(cfg) \o StaCalls(cfg)
      BY <2>1 DEF RxInterface
    <3> HIDE DEF x
    <3> QED BY <1>3, <3>1, <3>2, CallsUntimed
  <2>2. CASE RxLoopback
    BY <2>2, CallsUntimed, KeyFacts DEF RxLoopback
  <2>3. CASE RxDelRoute
    BY <2>3, CallsUntimed, KeyFacts DEF RxDelRoute
  <2>4. CASE cliNetworkCidrCmd \/ cliUpdateTimerCmd
    BY <1>1, <1>4, <2>4 DEF cliNetworkCidrCmd, cliUpdateTimerCmd, Idle
  <2>5. CASE cliRedistStaticCmd
    BY <1>3, <1>4, <2>5, CallsUntimed DEF cliRedistStaticCmd
  <2>6. CASE cliRedistConnectedCmd
    BY <1>3, <1>4, <2>6, CallsUntimed DEF cliRedistConnectedCmd
  <2>7. CASE cliRedistConnectedSubnetsCmd
    BY <2>7, CallsUntimed DEF cliRedistConnectedSubnetsCmd
  <2>8. CASE cliRedistOspfCmd
    BY <1>4, <2>8 DEF cliRedistOspfCmd
  <2>9. CASE cliNoRouterRipCmd
    BY <2>9, CallsUntimed DEF cliNoRouterRipCmd
  <2>10. CASE cliClearIpRipCmd
    BY <1>3, <2>10, CallsUntimed DEF cliClearIpRipCmd
  <2> QED BY <2>1, <2>2, <2>3, <2>4, <2>5, <2>6, <2>7, <2>8, <2>9, <2>10 DEF Command
<1>7. CASE cliNetworkCidrCmd
  <2>1. PICK i \in Intf : cfg' = [cfg EXCEPT !.net[i] = ~@] /\ told' = Forget(i)
    BY <1>7 DEF cliNetworkCidrCmd
  <2>2. \A j \in Intf \ {i} : cfg'.net[j] = cfg.net[j] /\ told'[j] = told[j]
    BY <1>2, <2>1 DEF CfgType, Forget
  <2>3. \A p \in Prefix : told'[i][p] = {}
    BY <1>2, <2>1 DEF Forget
  <2>4. ToldWhileUp'
    BY <1>1, <1>2, <2>2, <2>3 DEF ToldWhileUp
  <2>5. \A j \in Intf, p \in Prefix : told'[j][p] = told[j][p] \/ told'[j][p] = {}
    BY <2>2, <2>3
  <2> QED BY <1>1, <1>6, <2>4, <2>5, StartTold
<1>8. CASE cliNoRouterRipCmd
  <2>1. \A j \in Intf, p \in Prefix : told'[j][p] = {}
    BY <1>8 DEF cliNoRouterRipCmd
  <2> QED BY <1>1, <1>6, <2>1, StartTold DEF ToldWhileUp
<1>9. CASE ~cliNetworkCidrCmd /\ ~cliNoRouterRipCmd
  <2>1. told' = told
    BY <1>9 DEF RxInterface, RxLoopback, RxDelRoute, env, Command,
         cliRedistStaticCmd, cliRedistConnectedCmd, cliRedistConnectedSubnetsCmd, cliRedistOspfCmd,
         cliUpdateTimerCmd, cliClearIpRipCmd
  <2>2. cfg'.net = cfg.net
    BY <1>2, <1>9 DEF RxInterface, RxLoopback, RxDelRoute, env, Command, CfgType,
         cliRedistStaticCmd, cliRedistConnectedCmd, cliRedistConnectedSubnetsCmd, cliRedistOspfCmd,
         cliUpdateTimerCmd, cliClearIpRipCmd
  <2> QED BY <1>1, <1>5, <1>6, <2>1, <2>2, StartTold
<1> QED BY <1>7, <1>8, <1>9

(* A link changes: what was announced on the interface does not count any more. *)
LEMMA LinkTold ==
  ASSUME DbInv, ToldInv, LinkChange
  PROVE  ToldInv'
<1>1. db' = db /\ upd' = upd /\ joined' = joined /\ cfg' = cfg /\ todo' = todo
  BY DEF LinkChange
<1>2. PICK i \in Intf : link' = [link EXCEPT ![i] = ~@] /\ told' = Forget(i)
  BY DEF LinkChange
<1>3. told \in [Intf -> [Prefix -> SUBSET (1..16)]] /\ link \in [Intf -> BOOLEAN]
  BY DEF DbInv, EnvType
<1>4. /\ \A j \in Intf \ {i} : link'[j] = link[j] /\ told'[j] = told[j]
      /\ \A p \in Prefix : told'[i][p] = {}
  BY <1>2, <1>3 DEF Forget
<1>5. CurrentOrNews' /\ NewsFlagged'
  BY <1>1, <1>4 DEF ToldInv, CurrentOrNews, NewsFlagged, Current, News
<1>6. NewsLast' /\ TickOrder'
  BY <1>1 DEF ToldInv, NewsLast, TickOrder, Aged, Sending, Left
<1>7. ToldWhileUp'
  BY <1>1, <1>4 DEF ToldInv, ToldWhileUp
<1>8. JoinedFirst'
  BY <1>1, <1>4 DEF ToldInv, JoinedFirst, Sending, Left
<1> QED BY <1>5, <1>6, <1>7, <1>8 DEF ToldInv

(* Without loopback interfaces and without a crash of the daemon, what the     *)
(* neighbours were told last on an interface is, once no update is pending,    *)
(* infinity or what an element still says.                                     *)
THEOREM RipToldCurrent == Loop = {} /\ "crash" \notin Ops => (Spec => []ToldCurrent)
<1> SUFFICES ASSUME Loop = {}, "crash" \notin Ops PROVE Spec => []ToldCurrent
  OBVIOUS
<1>1. Init => DbInv /\ ToldInv
  <2> SUFFICES ASSUME Init PROVE ToldInv
    BY InitInv
  <2>1. \A i \in Intf, p \in Prefix : told[i][p] = {}
    BY DEF Init
  <2>2. \A k \in Key : db[k].metric = 0
    BY DEF Init, NoElem
  <2>3. todo = <<>>
    BY DEF Init
  <2>4. ~Sending /\ TickOrder
    BY <2>3 DEF Sending, TickOrder
  <2> QED BY <2>1, <2>2, <2>4 DEF ToldInv, CurrentOrNews, Current, ToldWhileUp, NewsFlagged,
             NewsLast, Dead, Infinity, JoinedFirst
<1>2. DbInv /\ ToldInv /\ [Next]_vars => (DbInv /\ ToldInv)'
  <2> SUFFICES ASSUME DbInv, ToldInv, [Next]_vars PROVE (DbInv /\ ToldInv)'
    OBVIOUS
  <2>1. DbInv'
    BY NextInv
  <2>2. ~Crash
    BY DEF Crash
  <2>3. CASE Loops
    BY <2>1, <2>3, LoopsTold, AgeTold, SendTold, InterfacesTold DEF Loops
  <2>4. CASE Handler
    BY <2>1, <2>4, TickTold, RxTold, HandlersTold DEF Handler
  <2>5. CASE Command \/ LinkChange
    BY <2>1, <2>5, HandlersTold, LinkTold
  <2>6. CASE UNCHANGED vars
    BY <2>1, <2>6 DEF vars, ToldInv, CurrentOrNews, Current, News, ToldWhileUp, NewsFlagged, NewsLast, Aged,
                JoinedFirst, TickOrder, Sending, Left
  <2> QED BY <2>1, <2>2, <2>3, <2>4, <2>5, <2>6 DEF Next
<1>3. ToldInv => ToldCurrent
  BY DEF ToldInv, CurrentOrNews, NewsFlagged, Current, News, Used, ToldCurrent
<1> QED BY <1>1, <1>2, <1>3, PTL DEF Spec

==============================================================================
