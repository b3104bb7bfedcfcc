------------------------ MODULE OspfAdjacencyProofs ------------------------
(* Proofs about OspfAdjacency, for any two router ids, any set of external    *)
(* LSAs, any packet sizes and any bounds of the environment.                  *)
EXTENDS OspfAdjacency, FiniteSetTheorems, TLAPS

(* what a handler works on: the neighbour, the database, the packets sent *)
XType == [n : NbType, d : LsType, out : Seq(Pkt)]

(* -------------------------------- types --------------------------------- *)
(* Peer maps a router to the other one *)
LEMMA PeerType == \A r \in Router : Peer(r) \in Router /\ Peer(r) # r
BY IdAssumption DEF Peer, Router

(* identities and database keys are well formed (lsa.h) *)
LEMMA KeyType ==
  /\ \A r \in Router : Rtr(r) \in Lsa /\ Net(r) \in Lsa
  /\ \A l \in Lsa, self \in BOOLEAN : <<l, self>> \in Key
  /\ \A k \in Key : k[1] \in Lsa /\ k[2] \in BOOLEAN /\ k = <<k[1], k[2]>>
BY DEF Lsa, Key

(* a handler starts from a well-formed record *)
LEMMA SelfType == ASSUME TypeOK, NEW r \in Router PROVE Self(r) \in XType
BY DEF TypeOK, Self, XType

(* sending changes only the packets sent (txpacket) *)
LEMMA SendType == ASSUME NEW x \in XType, NEW p \in Pkt PROVE
  /\ Send(x, p) \in XType /\ Send(x, p).n = x.n /\ Send(x, p).d = x.d
BY DEF Send, XType

(* the packets built are packets (packet.h) *)
LEMMA PktType ==
  /\ \A i, m, ms \in BOOLEAN, seq \in Nat, hs \in SUBSET Inst : Dd(i, m, ms, seq, hs) \in DdPkt
  /\ \A ids \in SUBSET Lsa : LsReq(ids) \in ReqPkt
  /\ \A hs \in SUBSET Inst : LsUpd(hs) \in Pkt /\ LsAck(hs) \in Pkt
  /\ DdPkt \subseteq Pkt /\ ReqPkt \subseteq Pkt
BY DEF Dd, LsReq, LsUpd, LsAck, DdPkt, ReqPkt, Pkt

(* dbdescBuildPkt keeps the types *)
LEMMA BuildDdType ==
  ASSUME NEW x \in XType, NEW more \in BOOLEAN, NEW ms \in BOOLEAN, NEW c \in SUBSET Inst
  PROVE  BuildDd(x, more, ms, c) \in XType
<1> DEFINE ex == x.n.state = EXSTART
           p == IF ex THEN Dd(TRUE, TRUE, TRUE, x.n.ddseq, {})
                      ELSE Dd(FALSE, more, ms, x.n.ddseq, c)
           y == [x EXCEPT !.n.lastdd = p, !.n.sent = IF ex THEN @ ELSE c]
<1>1. p \in DdPkt
  BY PktType DEF XType, NbType
<1> HIDE DEF p
<1>2. y \in XType
  BY <1>1 DEF XType, NbType
<1>3. Send(y, p) \in XType
  <2> HIDE DEF y
  <2> QED BY <1>1, <1>2, PktType, SendType
<1> QED BY <1>3 DEF BuildDd, p

(* time(NULL) is a number *)
LEMMA TimeType == ASSUME TypeOK, NEW r \in Router PROVE Time(r) \in Nat
<1>1. env["boot"] + env["dead"] \in Nat /\ Era \in Nat /\ Epoch[r] \in Nat
  BY SizeAssumption DEF TypeOK, Budget
<1>2. \A a, b, c \in Nat : a + b * c \in Nat
  OBVIOUS
<1> QED BY <1>1, <1>2 DEF Time

(* start_adj keeps the types *)
LEMMA StartAdjType ==
  ASSUME TypeOK, NEW r \in Router, NEW x \in XType
  PROVE  StartAdj(r, x) \in XType
<1> DEFINE t == (IF x.n.ddseq = 0 THEN Time(r) ELSE x.n.ddseq) + 1
           y == [x EXCEPT !.n.state = EXSTART, !.n.ddseq = t, !.n.master = TRUE]
<1>1. t \in Nat
  BY TimeType DEF XType, NbType
<1> HIDE DEF t
<1>2. y \in XType
  BY <1>1 DEF XType, NbType
<1>3. BuildDd(y, TRUE, TRUE, {}) \in XType
  <2> HIDE DEF y
  <2> QED BY <1>2, BuildDdType
<1> QED BY <1>3 DEF StartAdj, t

(* emptying the lists keeps the types *)
LEMMA ClearListsType == ASSUME NEW x \in XType PROVE ClearLists(x) \in XType
BY DEF ClearLists, XType, NbType

(* lsadbRemove keeps the types of the database *)
LEMMA RemoveType ==
  ASSUME NEW d \in LsType, NEW ks \in SUBSET Key
  PROVE  lsadbRemove(d, ks) \in LsType
BY DEF lsadbRemove, LsType, NoInst, Inst, Key

(* clear_lsa keeps the types *)
LEMMA ClearLsaType ==
  ASSUME NEW r \in Router, NEW x \in XType
  PROVE  ClearLsa(r, x) \in XType
<1> DEFINE y == ClearLists(x)
           ks == {<<Rtr(Peer(r)), FALSE>>, <<Net(Peer(r)), FALSE>>}
<1>1. y \in XType
  BY ClearListsType
<1>2. ks \in SUBSET Key
  BY PeerType, KeyType
<1>3. lsadbRemove(y.d, ks) \in LsType
  <2> HIDE DEF y, ks
  <2> QED BY <1>1, <1>2, RemoveType DEF XType
<1> HIDE DEF y, ks
<1> QED BY <1>1, <1>3 DEF ClearLsa, XType, y, ks

(* nfsm2WayReceived keeps the types *)
LEMMA TwoWayType ==
  ASSUME TypeOK, NEW r \in Router, NEW x \in XType
  PROVE  TwoWayReceived(r, x) \in XType
<1>1. [x EXCEPT !.n.state = TWOWAY] \in XType
  BY DEF XType, NbType
<1> QED BY <1>1, StartAdjType DEF TwoWayReceived

(* nfsm1Way keeps the types *)
LEMMA OneWayType ==
  ASSUME NEW r \in Router, NEW x \in XType
  PROVE  OneWay(r, x) \in XType
<1>1. [x EXCEPT !.n.state = INIT] \in XType
  BY DEF XType, NbType
<1> QED BY <1>1, ClearLsaType DEF OneWay

(* nfsmSeqNumberMismatch keeps the types *)
LEMMA MismatchType ==
  ASSUME TypeOK, NEW r \in Router, NEW x \in XType
  PROVE  SeqNumberMismatch(r, x) \in XType
<1> DEFINE y == [x EXCEPT !.n.ddseq = @ + 1, !.n.lastdd = NoPkt, !.n.lastreq = NoPkt]
<1>0. x.n.ddseq + 1 \in Nat
  BY DEF XType, NbType
<1>1. y \in XType
  BY <1>0 DEF XType, NbType
<1> HIDE DEF y
<1>2. ClearLists(y) \in XType
  BY <1>1, ClearListsType
<1> QED BY <1>2, StartAdjType DEF SeqNumberMismatch, y

(* the database summary is a set of instances *)
LEMMA SnapshotType == ASSUME NEW d \in LsType PROVE Snapshot(d) \in SUBSET Inst
BY DEF Snapshot, LsType, Key

(* nfsmNegotiationDone keeps the types *)
LEMMA NegotiationType == ASSUME NEW x \in XType PROVE NegotiationDone(x) \in XType
<1>1. Snapshot(x.d) \in SUBSET Inst
  BY SnapshotType DEF XType
<1> QED BY <1>1 DEF NegotiationDone, XType, NbType

(* lsrequestBuildPkt keeps the types *)
LEMMA BuildReqType ==
  ASSUME NEW x \in XType, NEW c \in SUBSET Lsa
  PROVE  BuildReq(x, c) \in XType
<1>1. LsReq(c) \in ReqPkt
  BY PktType
<1>2. [x EXCEPT !.n.lastreq = LsReq(c)] \in XType
  BY <1>1 DEF XType, NbType
<1> QED BY <1>1, <1>2, SendType, PktType DEF BuildReq

(* originating an LSA keeps the types of the database *)
LEMMA OriginateType ==
  ASSUME NEW d \in LsType, NEW l \in Lsa, NEW val \in Nat, NEW changed \in BOOLEAN
  PROVE  Originate(d, l, val, changed) \in LsType
<1> DEFINE k == <<l, TRUE>>
           i == [l |-> l, seq |-> d.next, val |-> val, max |-> FALSE]
<1>a. k \in Key
  BY KeyType
<1>b. d.next \in Nat /\ d.next + 1 \in Nat \ {0}
  BY DEF LsType
<1>c. i \in Inst
  BY <1>b DEF Inst
<1>1. k \in Key /\ i \in Inst /\ d.next + 1 \in Nat \ {0}
  BY <1>a, <1>b, <1>c
<1>2. [d EXCEPT !.next = @ + 1] \in LsType
  BY <1>1 DEF LsType
<1>3. [d EXCEPT !.next = @ + 1, !.db[k] = i, !.flood = @ \union {k}, !.old[l] = 0] \in LsType
  <2> HIDE DEF k, i
  <2> QED BY <1>1 DEF LsType
<1> QED BY <1>2, <1>3 DEF Originate

(* the transition to Full keeps the types *)
LEMMA GoFullType ==
  ASSUME TypeOK, NEW r \in Router, NEW x \in XType
  PROVE  GoFull(r, x) \in XType
<1>1. Originate(x.d, Net(r), boot[r], FALSE) \in LsType
  BY OriginateType, KeyType DEF TypeOK, XType
<1> QED BY <1>1 DEF GoFull, XType, NbType

(* nfsmExchangeDone keeps the types *)
LEMMA ExchangeDoneType ==
  ASSUME TypeOK, NEW r \in Router, NEW x \in XType, NEW c \in SUBSET Lsa
  PROVE  ExchangeDone(r, x, c) \in XType
<1> DEFINE y == [x EXCEPT !.n.lastdd = NoPkt]
           z == [y EXCEPT !.n.state = LOADING]
<1>1. y \in XType
  BY DEF XType, NbType
<1>2. z \in XType
  <2> HIDE DEF y
  <2> QED BY <1>1 DEF XType, NbType
<1> HIDE DEF y, z
<1>3. GoFull(r, y) \in XType /\ BuildReq(z, c) \in XType
  BY <1>1, <1>2, GoFullType, BuildReqType
<1> QED BY <1>3 DEF ExchangeDone, y, z

(* flooding one LSA keeps the types (lsa_tx_network) *)
LEMMA FloodType ==
  ASSUME NEW x \in XType, NEW k \in Key, NEW i \in Inst, NEW isdr \in BOOLEAN
  PROVE  Flood(x, k, i, isdr) \in XType
<1> DEFINE y == [x EXCEPT !.n.rxmt = {j \in @ : j.l # i.l} \union {i}]
<1>1. y \in XType
  BY DEF XType, NbType
<1>2. Send(y, LsUpd({i})) \in XType
  <2> HIDE DEF y
  <2> QED BY <1>1, PktType, SendType
<1> QED BY <1>2 DEF Flood

(* an instance whose age is set to MaxAge *)
LEMMA MaxAgeInst == ASSUME NEW i \in Inst PROVE [i EXCEPT !.max = TRUE] \in Inst
BY DEF Inst

(* flushing one LSA keeps the types *)
LEMMA FlushType ==
  ASSUME NEW x \in XType, NEW k \in Key, NEW isdr \in BOOLEAN
  PROVE  FlushLsa(x, k, isdr) \in XType
<1> DEFINE i == [x.d.db[k] EXCEPT !.max = TRUE]
           y == IF Present(x.d, k) THEN Flood(x, k, i, isdr) ELSE x
<1>1. i \in Inst
  <2>1. x.d.db[k] \in Inst
    BY DEF XType, LsType
  <2> QED BY <2>1, MaxAgeInst
<1>2. y \in XType
  <2> HIDE DEF i
  <2> QED BY <1>1, FloodType
<1> HIDE DEF y
<1>3. lsadbRemove(y.d, {k}) \in LsType
  BY <1>2, RemoveType DEF XType
<1> QED BY <1>2, <1>3 DEF FlushLsa, y, XType

(* lsa_originate_net_update keeps the types *)
LEMMA NetUpdateType ==
  ASSUME TypeOK, NEW r \in Router, NEW x \in XType, NEW isdr \in BOOLEAN
  PROVE  NetUpdate(r, x, isdr) \in XType
<1>1. Originate(x.d, Net(r), boot[r], FALSE) \in LsType
  BY OriginateType, KeyType DEF TypeOK, XType
<1>2. <<Net(r), TRUE>> \in Key
  BY KeyType
<1>3. FlushLsa(x, <<Net(r), TRUE>>, isdr) \in XType
  BY <1>2, FlushType
<1> QED BY <1>1, <1>3 DEF NetUpdate, XType

(* a lookup in the database returns an instance *)
LEMMA FoundType == ASSUME NEW d \in LsType, NEW l \in Lsa PROVE Found(d, l) \in Inst
BY KeyType DEF Found, LsType

(* lsa_renew keeps the types of the database *)
LEMMA RenewType == ASSUME NEW d \in LsType, NEW l \in Lsa PROVE Renew(d, l) \in LsType
<1> DEFINE k == <<l, TRUE>>
           i == [d.db[k] EXCEPT !.seq = d.next, !.max = FALSE]
<1>1. k \in Key
  BY KeyType
<1>2. d.next \in Nat /\ d.next + 1 \in Nat \ {0} /\ d.db[k] \in Inst
  BY <1>1 DEF LsType
<1>3. i \in Inst
  BY <1>2 DEF Inst
<1>4. [d EXCEPT !.next = @ + 1, !.db[k] = i] \in LsType
  <2> HIDE DEF k, i
  <2> QED BY <1>1, <1>2, <1>3 DEF LsType
<1> QED BY <1>4 DEF Renew

(* overtaking an old instance keeps the types of the database *)
LEMMA OvertakeType == ASSUME NEW d \in LsType, NEW l \in Lsa PROVE Overtake(d, l) \in LsType
<1> DEFINE e == [d EXCEPT !.old[l] = 0, !.next = IF d.old[l] > @ THEN d.old[l] + 1 ELSE @]
<1>1. d.old[l] \in Nat /\ d.old[l] + 1 \in Nat \ {0}
  BY DEF LsType
<1>2. e \in LsType
  BY <1>1 DEF LsType
<1> HIDE DEF e
<1> QED BY <1>2, RenewType DEF Overtake, e

(* storing a received update keeps the types of the database *)
LEMMA StoreType ==
  ASSUME NEW d \in LsType, NEW hs \in SUBSET Inst
  PROVE  Store(d, hs) \in LsType
<1> DEFINE new == {h \in hs : Installs(d, h)}
           newKeys == {<<h.l, FALSE>> : h \in new}
           aged == {<<h.l, Present(d, <<h.l, TRUE>>)>> : h \in {g \in hs : Ages(d, g)}}
           old == {h \in hs : IsOldSelf(d, h)}
           db == [k \in Key |->
                    IF k \in newKeys THEN CHOOSE h \in new : h.l = k[1]
                    ELSE IF k \in aged THEN [d.db[k] EXCEPT !.max = TRUE] ELSE d.db[k]]
           o == [l \in Lsa |-> IF \E h \in old : h.l = l
                               THEN (CHOOSE h \in old : h.l = l).seq ELSE d.old[l]]
<1>1. \A h \in Inst : h.l \in Lsa /\ h.seq \in Nat
  BY DEF Inst
<1>2. newKeys \subseteq Key
  BY <1>1, KeyType
<1>3. ASSUME NEW k \in Key, k \in newKeys PROVE (CHOOSE h \in new : h.l = k[1]) \in Inst
  <2>0. PICK h \in new : k = <<h.l, FALSE>>
    BY <1>3
  <2>1. \E g \in new : g.l = k[1]
    BY <2>0
  <2> QED BY <2>1
<1>4. \A k \in Key : [d.db[k] EXCEPT !.max = TRUE] \in Inst /\ d.db[k] \in Inst
  BY DEF LsType, Inst
<1>5. db \in [Key -> Inst]
  <2> HIDE DEF new, newKeys, aged
  <2> QED BY <1>3, <1>4
<1>6. ASSUME NEW l \in Lsa, \E h \in old : h.l = l PROVE (CHOOSE h \in old : h.l = l).seq \in Nat
  BY <1>1, <1>6
<1>7. o \in [Lsa -> Nat]
  <2> HIDE DEF old
  <2> QED BY <1>6 DEF LsType
<1> HIDE DEF db, newKeys, o
<1>8. [d EXCEPT !.db = db, !.flood = @ \union newKeys, !.here = @ \union newKeys, !.old = o] \in LsType
  BY <1>2, <1>5, <1>7 DEF LsType
<1> QED BY <1>8 DEF Store, db, newKeys, o

(* an election keeps the types *)
LEMMA ElectType ==
  ASSUME TypeOK, NEW r \in Router, NEW x \in XType, NEW isdr \in BOOLEAN, NEW changed \in BOOLEAN
  PROVE  Elect(r, x, isdr, changed) \in XType
<1> DEFINE x1 == IF isdr /\ x.n.state = FULL
                 THEN [x EXCEPT !.d = Originate(@, Net(r), boot[r], FALSE)] ELSE x
           x2 == IF x1.n.state = TWOWAY THEN StartAdj(r, x1) ELSE x1
           d3 == Originate(x2.d, Rtr(r), boot[r], changed)
           x3 == [x2 EXCEPT !.d = IF isdr THEN [d3 EXCEPT !.upd = TRUE] ELSE d3]
<1>0. boot[r] \in Nat /\ Rtr(r) \in Lsa /\ Net(r) \in Lsa
  BY KeyType DEF TypeOK
<1>1. x1 \in XType
  BY <1>0, OriginateType DEF XType
<1> HIDE DEF x1
<1>2. x2 \in XType
  BY <1>1, StartAdjType
<1> HIDE DEF x2
<1>3. d3 \in LsType
  BY <1>0, <1>2, OriginateType DEF XType
<1> HIDE DEF d3
<1>4. [d3 EXCEPT !.upd = TRUE] \in LsType
  BY <1>3 DEF LsType
<1>5. x3 \in XType
  BY <1>2, <1>3, <1>4 DEF XType
<1> HIDE DEF x3
<1>6. NetUpdate(r, x3, isdr) \in XType
  BY <1>5, NetUpdateType
<1> QED BY <1>5, <1>6 DEF Elect, x1, x2, d3, x3

(* an election in a timer branch keeps the types *)
LEMMA TimerElectType ==
  ASSUME TypeOK, NEW r \in Router, NEW x \in XType, NEW isdr \in BOOLEAN, NEW changed \in BOOLEAN
  PROVE  TimerElect(r, x, isdr, changed) \in XType
<1> DEFINE y == Elect(r, x, isdr, changed)
<1>1. y \in XType
  BY ElectType
<1> HIDE DEF y
<1>2. [y EXCEPT !.d.upd = FALSE] \in XType
  BY <1>1 DEF XType, LsType
<1>3. NetUpdate(r, [y EXCEPT !.d.upd = FALSE], isdr) \in XType
  BY <1>2, NetUpdateType
<1> QED BY <1>1, <1>3 DEF TimerElect, y

(* a received hello keeps the types *)
LEMMA HelloType == ASSUME TypeOK, NEW r \in Router PROVE HelloReceived(r) \in XType
<1> DEFINE x == Self(r)
           y == IF x.n.state = DOWN THEN [x EXCEPT !.n.state = INIT] ELSE x
<1>1. x \in XType
  BY SelfType
<1> HIDE DEF x
<1>2. y \in XType
  BY <1>1 DEF XType, NbType
<1> HIDE DEF y
<1> QED BY <1>2, TwoWayType, OneWayType DEF HelloReceived, x, y

(* ---------------------------- the type invariant ------------------------ *)
LEMMA TickType ==
  ASSUME TypeOK, NEW r \in Router, NEW x \in XType, Tick(r, x)
  PROVE  nb' \in [Router -> NbType] /\ ls' \in [Router -> LsType] /\ chan' \in [Router -> Seq(Pkt)]
<1>1. x.n \in NbType /\ x.d \in LsType /\ x.out \in Seq(Pkt) /\ Peer(r) \in Router
  BY PeerType DEF XType
<1> QED BY <1>1 DEF Tick, TypeOK

(* a receive step keeps the types of neighbour, database and wire *)
LEMMA RxType ==
  ASSUME TypeOK, NEW r \in Router, NEW x \in XType, chan[r] # <<>>, Rx(r, x)
  PROVE  nb' \in [Router -> NbType] /\ ls' \in [Router -> LsType] /\ chan' \in [Router -> Seq(Pkt)]
<1>1. x.n \in NbType /\ x.d \in LsType /\ x.out \in Seq(Pkt) /\ Peer(r) \in Router /\ Peer(r) # r
  BY PeerType DEF XType
<1>2. Tail(chan[r]) \in Seq(Pkt) /\ chan[Peer(r)] \o x.out \in Seq(Pkt)
  BY <1>1 DEF TypeOK
<1> QED BY <1>1, <1>2 DEF Rx, TypeOK

(* a received packet has the fields of its kind *)
LEMMA HeadType ==
  ASSUME TypeOK, NEW r \in Router, chan[r] # <<>>
  PROVE  /\ Head(chan[r]) \in Pkt
         /\ Head(chan[r]).t = "dd" => Head(chan[r]) \in DdPkt
         /\ Head(chan[r]).t = "req" => Head(chan[r]).ids \in SUBSET Lsa
         /\ Head(chan[r]).t \in {"upd", "ack"} => Head(chan[r]).hs \in SUBSET Inst
<1>1. Head(chan[r]) \in Pkt
  BY DEF TypeOK
<1> QED BY <1>1 DEF Pkt, DdPkt, ReqPkt

(* the counters of the environment stay numbers *)
LEMMA EnvType ==
  ASSUME TypeOK, UNCHANGED env \/ TimerDue \/ \E w \in Budget : Spend(w)
  PROVE  env' \in [Budget -> Nat]
<1>1. \A w \in Budget : Spend(w) => env' \in [Budget -> Nat]
  BY DEF TypeOK, Spend
<1>2. "early" \in Budget
  BY DEF Budget
<1> QED BY <1>1, <1>2 DEF TypeOK, TimerDue

(* what goes into one packet is part of what is waiting *)
LEMMA ChunkSubset == \A S, max : \A c \in Chunk(S, max) : c \in SUBSET S
BY DEF Chunk

(* a chunk of a set of LSAs is part of it, and not empty unless the set is *)
LEMMA ChunkNotEmpty ==
  ASSUME NEW S \in SUBSET Lsa, NEW max \in Nat \ {0}, NEW c \in Chunk(S, max)
  PROVE  c \in SUBSET S /\ (S # {} => c # {})
<1>1. IsFiniteSet(Lsa)
  <2> DEFINE rtrs == {Rtr(R1)} \union {Rtr(R2)}
             nets == {Net(R1)} \union {Net(R2)}
             exts == {<<"ext", e>> : e \in Ext}
  <2>1. IsFiniteSet(rtrs) /\ IsFiniteSet(nets)
    <3>1. \A a : IsFiniteSet({a})
      BY FS_Singleton
    <3>2. \A a, b : IsFiniteSet({a} \union {b})
      BY <3>1, FS_Union
    <3> QED BY <3>2
  <2>2. IsFiniteSet(exts)
    <3> DEFINE f == [e \in Ext |-> <<"ext", e>>]
    <3>1. f \in Surjection(Ext, exts)
      BY DEF Surjection
    <3>2. IsFiniteSet(Ext)
      BY SizeAssumption
    <3> HIDE DEF f, exts
    <3> QED BY <3>1, <3>2, FS_Surjection
  <2>3. IsFiniteSet(rtrs \union nets)
    BY <2>1, FS_Union
  <2>4. IsFiniteSet((rtrs \union nets) \union exts)
    BY <2>2, <2>3, FS_Union
  <2>5. Lsa = (rtrs \union nets) \union exts
    BY DEF Lsa, Router
  <2> QED BY <2>4, <2>5
<1>2. IsFiniteSet(S)
  BY <1>1, FS_Subset
<1>3. S # {} => Cardinality(S) \in Nat \ {0}
  BY <1>2, FS_CardinalityType, FS_EmptySet
<1>4. Cardinality({}) = 0
  BY FS_EmptySet
<1> QED BY <1>3, <1>4 DEF Chunk

(* ----------------------- the neighbour structure ------------------------ *)
(* the invariants are about one neighbour structure at a time *)
NbInv(r, n) == ListsOf(n) /\ ArmedOf(n) /\ LeaderOf(r, n)

Good(r, x) == x \in XType /\ NbInv(r, x.n)

IInv == TypeOK /\ ListsFollowState /\ RetransmissionArmed /\ HigherIdIsMaster

Idling(n) == n.ddsum = {} /\ n.sent = {} /\ n.lsreq = {} /\ n.rxmt = {}

(* the invariant gives a good record to start a handler from *)
LEMMA SelfGood == ASSUME IInv, NEW r \in Router PROVE Good(r, Self(r)) /\ Self(r).n = nb[r]
BY SelfType DEF IInv, Good, NbInv, ListsFollowState, RetransmissionArmed, HigherIdIsMaster, Self

(* emptying the lists leaves the state alone *)
LEMMA ClearListsIdles == ASSUME NEW x \in XType PROVE Idling(ClearLists(x).n) /\ ClearLists(x).n.state = x.n.state
BY DEF ClearLists, XType, NbType, Idling

(* dbdescBuildPkt, field by field: the packet is kept for retransmission *)
LEMMA BuildDdFields ==
  ASSUME NEW x \in XType, NEW more, NEW ms, NEW c
  PROVE  /\ BuildDd(x, more, ms, c).d = x.d
         /\ BuildDd(x, more, ms, c).n.state = x.n.state
         /\ BuildDd(x, more, ms, c).n.master = x.n.master
         /\ BuildDd(x, more, ms, c).n.more0 = x.n.more0
         /\ BuildDd(x, more, ms, c).n.ddsum = x.n.ddsum
         /\ BuildDd(x, more, ms, c).n.lsreq = x.n.lsreq
         /\ BuildDd(x, more, ms, c).n.rxmt = x.n.rxmt
         /\ BuildDd(x, more, ms, c).n.sent = IF x.n.state = EXSTART THEN x.n.sent ELSE c
         /\ BuildDd(x, more, ms, c).n.lastdd # NoPkt
         /\ BuildDd(x, more, ms, c).n.lastdd.seq = BuildDd(x, more, ms, c).n.ddseq
<1> DEFINE ex == x.n.state = EXSTART
           p == IF ex THEN Dd(TRUE, TRUE, TRUE, x.n.ddseq, {})
                      ELSE Dd(FALSE, more, ms, x.n.ddseq, c)
           y == [x EXCEPT !.n.lastdd = p, !.n.sent = IF ex THEN @ ELSE c]
<1>1. p.seq = x.n.ddseq /\ p # NoPkt
  BY DEF Dd, NoPkt
<1> HIDE DEF p
<1>2. /\ y.d = x.d
      /\ y.n.state = x.n.state /\ y.n.master = x.n.master /\ y.n.more0 = x.n.more0
      /\ y.n.ddsum = x.n.ddsum /\ y.n.lsreq = x.n.lsreq /\ y.n.rxmt = x.n.rxmt
      /\ y.n.ddseq = x.n.ddseq /\ y.n.lastdd = p
      /\ y.n.sent = IF x.n.state = EXSTART THEN x.n.sent ELSE c
  BY DEF XType, NbType
<1>3. Send(y, p).n = y.n /\ Send(y, p).d = y.d
  BY DEF Send, XType
<1>4. BuildDd(x, more, ms, c) = Send(y, p)
  BY DEF BuildDd, p
<1> HIDE DEF y
<1> QED BY <1>1, <1>2, <1>3, <1>4

(* start_adj on empty lists arms the retransmission timer of ExStart *)
LEMMA StartAdjGood ==
  ASSUME TypeOK, NEW r \in Router, NEW x \in XType, Idling(x.n)
  PROVE  Good(r, StartAdj(r, x)) /\ StartAdj(r, x).n.state = EXSTART
<1> DEFINE t == (IF x.n.ddseq = 0 THEN Time(r) ELSE x.n.ddseq) + 1
           y == [x EXCEPT !.n.state = EXSTART, !.n.ddseq = t, !.n.master = TRUE]
           yes == TRUE
           z == BuildDd(y, yes, yes, {})
<1>1. t \in Nat
  BY TimeType DEF XType, NbType
<1> HIDE DEF t
<1>2. y \in XType /\ y.n.state = EXSTART /\ Idling(y.n)
  BY <1>1 DEF XType, NbType, Idling
<1>3. z = StartAdj(r, x)
  BY DEF StartAdj, t
<1> HIDE DEF y, yes
<1>3a. z = BuildDd(y, yes, yes, {})
  OBVIOUS
<1> HIDE DEF z
<1>4. /\ z.n.state = EXSTART /\ z.n.lastdd # NoPkt /\ z.n.lastdd.seq = z.n.ddseq
      /\ z.n.ddsum = {} /\ z.n.sent = {} /\ z.n.lsreq = {} /\ z.n.rxmt = {}
  <2>1. /\ z.n.state = y.n.state /\ z.n.ddsum = y.n.ddsum /\ z.n.lsreq = y.n.lsreq /\ z.n.rxmt = y.n.rxmt
        /\ z.n.sent = IF y.n.state = EXSTART THEN y.n.sent ELSE {}
        /\ z.n.lastdd # NoPkt /\ z.n.lastdd.seq = z.n.ddseq
    BY <1>2, <1>3a, BuildDdFields
  <2> QED BY <1>2, <2>1 DEF Idling
<1>5. z \in XType
  BY <1>3, StartAdjType
<1>6. NbInv(r, z.n)
  BY <1>4 DEF NbInv, ListsOf, ArmedOf, LeaderOf, EXSTART, EXCHANGE, LOADING, FULL
<1> QED BY <1>3, <1>4, <1>5, <1>6 DEF Good

(* nfsm2WayReceived preserves the neighbour invariant *)
LEMMA TwoWayGood ==
  ASSUME TypeOK, NEW r \in Router, NEW x, Good(r, x)
  PROVE  Good(r, TwoWayReceived(r, x))
<1> DEFINE y == [x EXCEPT !.n.state = TWOWAY]
<1>0. x \in XType
  BY DEF Good
<1>1. CASE x.n.state = INIT
  <2>1. Idling(x.n)
    BY <1>1 DEF Good, NbInv, ListsOf, Idling, INIT, EXCHANGE, FULL
  <2>2. Good(r, StartAdj(r, x))
    BY <1>0, <2>1, StartAdjGood
  <2>3. y \in XType /\ y.n.state = TWOWAY /\ Idling(y.n)
    BY <1>0, <2>1 DEF XType, NbType, Idling
  <2> HIDE DEF y
  <2>4. Good(r, y)
    BY <2>3 DEF Good, NbInv, ListsOf, ArmedOf, LeaderOf, Idling, TWOWAY, EXSTART, EXCHANGE, LOADING, FULL
  <2> QED BY <1>1, <2>2, <2>4 DEF TwoWayReceived, y
<1> QED BY <1>1 DEF TwoWayReceived

(* clear_lsa below ExStart establishes the neighbour invariant *)
LEMMA ClearLsaGood ==
  ASSUME NEW r \in Router, NEW x \in XType, x.n.state < EXSTART
  PROVE  Good(r, ClearLsa(r, x)) /\ Idling(ClearLsa(r, x).n)
<1> DEFINE y == ClearLists(x)
           z == ClearLsa(r, x)
<1>1. y \in XType /\ Idling(y.n) /\ y.n.state = x.n.state
  BY ClearListsType, ClearListsIdles
<1>2. z.n = y.n
  <2> HIDE DEF y
  <2> QED BY <1>1 DEF ClearLsa, XType, y
<1>3. z \in XType
  BY ClearLsaType
<1> HIDE DEF y, z
<1>4. NbInv(r, z.n)
  BY <1>1, <1>2 DEF NbInv, ListsOf, ArmedOf, LeaderOf, Idling, DOWN, INIT, TWOWAY, EXSTART, EXCHANGE, LOADING, FULL, XType, NbType
<1> QED BY <1>1, <1>2, <1>3, <1>4 DEF Good, z

(* nfsm1Way preserves the neighbour invariant *)
LEMMA OneWayGood ==
  ASSUME NEW r \in Router, NEW x, Good(r, x)
  PROVE  Good(r, OneWay(r, x))
<1> DEFINE y == [x EXCEPT !.n.state = INIT]
<1>1. y \in XType /\ y.n.state = INIT
  BY DEF Good, XType, NbType
<1> HIDE DEF y
<1>2. Good(r, ClearLsa(r, y))
  BY <1>1, ClearLsaGood DEF INIT, EXSTART
<1> QED BY <1>2 DEF OneWay, y

(* nfsmSeqNumberMismatch establishes the neighbour invariant from any lists *)
LEMMA MismatchGood ==
  ASSUME TypeOK, NEW r \in Router, NEW x, Good(r, x)
  PROVE  Good(r, SeqNumberMismatch(r, x))
<1> DEFINE y == [x EXCEPT !.n.ddseq = @ + 1, !.n.lastdd = NoPkt, !.n.lastreq = NoPkt]
<1>0. x \in XType /\ x.n.ddseq + 1 \in Nat
  BY DEF Good, XType, NbType
<1>1. y \in XType
  BY <1>0 DEF XType, NbType
<1> HIDE DEF y
<1>2. ClearLists(y) \in XType /\ Idling(ClearLists(y).n)
  BY <1>1, ClearListsType, ClearListsIdles
<1> QED BY <1>2, StartAdjGood DEF SeqNumberMismatch, y

(* a change of the database alone *)
LEMMA DbGood ==
  ASSUME NEW r \in Router, NEW x, Good(r, x), NEW d \in LsType
  PROVE  Good(r, [x EXCEPT !.d = d]) /\ [x EXCEPT !.d = d].n = x.n
BY DEF Good, XType

(* sending alone *)
LEMMA SendGood ==
  ASSUME NEW r \in Router, NEW x, Good(r, x), NEW p \in Pkt
  PROVE  Good(r, Send(x, p)) /\ Send(x, p).n = x.n
BY SendType DEF Good

(* only the retransmission list changes, and only to a subset, or in Full *)
LEMMA RxmtGood ==
  ASSUME NEW r \in Router, NEW x, Good(r, x), NEW q \in SUBSET Inst,
         q \subseteq x.n.rxmt \/ x.n.state = FULL
  PROVE  Good(r, [x EXCEPT !.n.rxmt = q]) /\ [x EXCEPT !.n.rxmt = q].n.state = x.n.state
<1> DEFINE y == [x EXCEPT !.n.rxmt = q]
<1>1. y \in XType
  BY DEF Good, XType, NbType
<1>2. /\ y.n.state = x.n.state /\ y.n.master = x.n.master /\ y.n.more0 = x.n.more0
      /\ y.n.ddsum = x.n.ddsum /\ y.n.lsreq = x.n.lsreq /\ y.n.rxmt = q
      /\ y.n.ddseq = x.n.ddseq /\ y.n.lastdd = x.n.lastdd /\ y.n.lastreq = x.n.lastreq
      /\ y.n.sent = x.n.sent
  BY DEF Good, XType, NbType
<1> HIDE DEF y
<1>3. ListsOf(y.n)
  BY <1>2 DEF Good, NbInv, ListsOf
<1>4. ArmedOf(y.n)
  BY <1>2 DEF Good, NbInv, ArmedOf
<1>5. LeaderOf(r, y.n)
  BY <1>2 DEF Good, NbInv, LeaderOf
<1> QED BY <1>1, <1>2, <1>3, <1>4, <1>5 DEF Good, NbInv, y

(* flooding preserves the neighbour invariant *)
LEMMA FloodGood ==
  ASSUME NEW r \in Router, NEW x, Good(r, x), NEW k \in Key, NEW i \in Inst, NEW isdr \in BOOLEAN
  PROVE  Good(r, Flood(x, k, i, isdr)) /\ Flood(x, k, i, isdr).n.state = x.n.state
<1> DEFINE q == {j \in x.n.rxmt : j.l # i.l} \union {i}
           y == [x EXCEPT !.n.rxmt = q]
<1>1. q \in SUBSET Inst
  BY DEF Good, XType, NbType
<1>2. CASE x.n.state = FULL
  <2>1. Good(r, y) /\ y.n.state = x.n.state
    <3> HIDE DEF q
    <3> QED BY <1>1, <1>2, RxmtGood
  <2>2. LsUpd({i}) \in Pkt
    BY PktType
  <2>3. Good(r, Send(y, LsUpd({i}))) /\ Send(y, LsUpd({i})).n = y.n
    <3> HIDE DEF y
    <3> QED BY <2>1, <2>2, SendGood
  <2> QED BY <2>1, <2>3 DEF Flood
<1> QED BY <1>2 DEF Flood

(* flushing preserves the neighbour invariant *)
LEMMA FlushGood ==
  ASSUME NEW r \in Router, NEW x, Good(r, x), NEW k \in Key, NEW isdr \in BOOLEAN
  PROVE  Good(r, FlushLsa(x, k, isdr)) /\ FlushLsa(x, k, isdr).n.state = x.n.state
<1> DEFINE i == [x.d.db[k] EXCEPT !.max = TRUE]
           y == IF Present(x.d, k) THEN Flood(x, k, i, isdr) ELSE x
           d == lsadbRemove(y.d, {k})
<1>1. i \in Inst
  <2>1. x.d.db[k] \in Inst
    BY DEF Good, XType, LsType
  <2> QED BY <2>1, MaxAgeInst
<1>2. Good(r, y) /\ y.n.state = x.n.state
  <2> HIDE DEF i
  <2> QED BY <1>1, FloodGood
<1> HIDE DEF y
<1>3. d \in LsType
  BY <1>2, RemoveType DEF Good, XType
<1>4. FlushLsa(x, k, isdr) = [y EXCEPT !.d = d]
  BY DEF FlushLsa, y
<1> HIDE DEF d
<1> QED BY <1>2, <1>3, <1>4, DbGood

(* lsa_originate_net_update preserves the neighbour invariant *)
LEMMA NetUpdateGood ==
  ASSUME TypeOK, NEW r \in Router, NEW x, Good(r, x), NEW isdr \in BOOLEAN
  PROVE  Good(r, NetUpdate(r, x, isdr))
<1> DEFINE d == Originate(x.d, Net(r), boot[r], FALSE)
<1>1. d \in LsType
  BY OriginateType, KeyType DEF TypeOK, Good, XType
<1>2. <<Net(r), TRUE>> \in Key
  BY KeyType
<1>3. Good(r, FlushLsa(x, <<Net(r), TRUE>>, isdr))
  BY <1>2, FlushGood
<1>4. Good(r, [x EXCEPT !.d = d])
  <2> HIDE DEF d
  <2> QED BY <1>1, DbGood
<1> QED BY <1>3, <1>4 DEF NetUpdate

(* an election preserves the neighbour invariant *)
LEMMA ElectGood ==
  ASSUME TypeOK, NEW r \in Router, NEW x, Good(r, x), NEW isdr \in BOOLEAN, NEW changed \in BOOLEAN
  PROVE  Good(r, Elect(r, x, isdr, changed))
<1> DEFINE d1 == Originate(x.d, Net(r), boot[r], FALSE)
           x1 == IF isdr /\ x.n.state = FULL THEN [x EXCEPT !.d = d1] ELSE x
           x2 == IF x1.n.state = TWOWAY THEN StartAdj(r, x1) ELSE x1
           d3 == Originate(x2.d, Rtr(r), boot[r], changed)
           d4 == IF isdr THEN [d3 EXCEPT !.upd = TRUE] ELSE d3
           x3 == [x2 EXCEPT !.d = d4]
<1>0. boot[r] \in Nat /\ Rtr(r) \in Lsa /\ Net(r) \in Lsa /\ x.d \in LsType
  BY KeyType DEF TypeOK, Good, XType
<1>1. d1 \in LsType
  BY <1>0, OriginateType
<1>2. Good(r, x1)
  <2> HIDE DEF d1
  <2> QED BY <1>1, DbGood
<1> HIDE DEF x1
<1>3. x1.n.state = TWOWAY => Idling(x1.n)
  BY <1>2 DEF Good, NbInv, ListsOf, Idling, TWOWAY, EXCHANGE, FULL
<1>4. Good(r, x2)
  BY <1>2, <1>3, StartAdjGood DEF Good
<1> HIDE DEF x2
<1>5. d3 \in LsType
  BY <1>0, <1>4, OriginateType DEF Good, XType
<1> HIDE DEF d3
<1>6. d4 \in LsType
  BY <1>5 DEF LsType
<1> HIDE DEF d4
<1>7. Good(r, x3)
  BY <1>4, <1>6, DbGood
<1> HIDE DEF x3
<1>8. Good(r, NetUpdate(r, x3, isdr))
  BY <1>7, NetUpdateGood
<1> QED BY <1>7, <1>8 DEF Elect, d1, x1, x2, d3, d4, x3

(* an election in a timer branch preserves the neighbour invariant *)
LEMMA TimerElectGood ==
  ASSUME TypeOK, NEW r \in Router, NEW x, Good(r, x), NEW isdr \in BOOLEAN, NEW changed \in BOOLEAN
  PROVE  Good(r, TimerElect(r, x, isdr, changed))
<1> DEFINE y == Elect(r, x, isdr, changed)
           z == [y EXCEPT !.d.upd = FALSE]
<1>1. Good(r, y)
  BY ElectGood
<1> HIDE DEF y
<1>2. z \in XType /\ z.n = y.n
  BY <1>1 DEF Good, XType, LsType
<1> HIDE DEF z
<1>3. Good(r, z)
  BY <1>1, <1>2 DEF Good
<1>4. Good(r, NetUpdate(r, z, isdr))
  BY <1>3, NetUpdateGood
<1> QED BY <1>1, <1>4 DEF TimerElect, y, z

(* a received hello preserves the neighbour invariant *)
LEMMA HelloGood == ASSUME IInv, NEW r \in Router PROVE Good(r, HelloReceived(r))
<1> DEFINE x == Self(r)
           y == IF x.n.state = DOWN THEN [x EXCEPT !.n.state = INIT] ELSE x
<1>0. TypeOK /\ Good(r, x)
  BY SelfGood DEF IInv
<1> HIDE DEF x
<1>1. ASSUME x.n.state = DOWN PROVE Good(r, y)
  <2> DEFINE w == [x EXCEPT !.n.state = INIT]
  <2>1. Idling(x.n)
    BY <1>0, <1>1 DEF Good, NbInv, ListsOf, Idling, DOWN, EXCHANGE, FULL
  <2>2. w \in XType /\ w.n.state = INIT /\ Idling(w.n)
    BY <1>0, <2>1 DEF Good, XType, NbType, Idling
  <2> HIDE DEF w
  <2>3. Good(r, w)
    BY <2>2 DEF Good, NbInv, ListsOf, ArmedOf, LeaderOf, Idling, INIT, EXSTART, EXCHANGE, LOADING, FULL
  <2> QED BY <1>1, <2>3 DEF w
<1>2. Good(r, y)
  BY <1>0, <1>1
<1> HIDE DEF y
<1> QED BY <1>0, <1>2, TwoWayGood, OneWayGood DEF HelloReceived, x, y

(* a neighbour in Exchange that has nothing unacknowledged in flight, before  *)
(* the next DD packet is built                                                *)
Between(r, x) ==
  /\ x \in XType /\ x.n.state = EXCHANGE
  /\ x.n.sent = {} /\ x.n.rxmt = {} /\ LeaderOf(r, x.n)
  /\ x.n.more0 => x.n.ddsum = {}

(* after the negotiation the leader is fixed and nothing is in flight *)
LEMMA NegotiationBetween ==
  ASSUME NEW r \in Router, NEW x \in XType, Idling(x.n), x.n.master <=> r > Peer(r)
  PROVE  Between(r, NegotiationDone(x))
<1> DEFINE y == NegotiationDone(x)
<1>1. y \in XType
  BY NegotiationType
<1>2. /\ y.n.state = EXCHANGE /\ y.n.more0 = FALSE /\ y.n.master = x.n.master
      /\ y.n.sent = x.n.sent /\ y.n.rxmt = x.n.rxmt
  BY DEF NegotiationDone, XType, NbType
<1> HIDE DEF y
<1> QED BY <1>1, <1>2 DEF Between, LeaderOf, Idling, y

(* what is requested are LSA identities *)
LEMMA WantedType ==
  ASSUME NEW d \in LsType, NEW hs \in SUBSET Inst
  PROVE  Wanted(d, hs) \in SUBSET Lsa
BY DEF Wanted, Inst

(* an accepted DD packet leaves nothing unacknowledged in flight *)
LEMMA AcceptedBetween ==
  ASSUME NEW r \in Router, NEW x, Good(r, x), NEW p \in DdPkt, Accepts(r, x.n, p)
  PROVE  Between(r, Accepted(r, x, p))
<1> DEFINE s == [x EXCEPT !.n.master = FALSE, !.n.ddseq = p.seq]
           t == [x EXCEPT !.n.master = TRUE]
           u == [x EXCEPT !.n.ddsum = @ \ x.n.sent, !.n.sent = {}]
           y == IF NegotiatesSlave(r, x.n, p) THEN NegotiationDone(s)
                ELSE IF NegotiatesMaster(r, x.n, p) THEN NegotiationDone(t) ELSE u
           w == Wanted(x.d, p.hs)
           z == [y EXCEPT !.n.lsreq = @ \union w]
<1>0. x \in XType /\ x.d \in LsType /\ p.hs \in SUBSET Inst /\ p.seq \in Nat /\ Peer(r) \in Nat /\ r \in Nat
  BY PeerType, IdAssumption DEF Good, XType, DdPkt, Router
<1>1. x.n.state = EXSTART => Idling(x.n)
  BY DEF Good, NbInv, ListsOf, Idling, EXSTART, EXCHANGE, FULL
<1>2. ASSUME NegotiatesSlave(r, x.n, p) PROVE Between(r, y)
  <2>1. Peer(r) > r /\ x.n.state = EXSTART
    BY <1>2 DEF NegotiatesSlave
  <2>2. s \in XType /\ s.n.master = FALSE /\ Idling(s.n)
    BY <1>0, <1>1, <2>1 DEF XType, NbType, Idling
  <2> HIDE DEF s
  <2>3. Between(r, NegotiationDone(s))
    BY <1>0, <2>1, <2>2, NegotiationBetween
  <2> QED BY <1>2, <2>3
<1>3. ASSUME ~NegotiatesSlave(r, x.n, p), NegotiatesMaster(r, x.n, p) PROVE Between(r, y)
  <2>1. Peer(r) < r /\ x.n.state = EXSTART
    BY <1>3 DEF NegotiatesMaster
  <2>2. t \in XType /\ t.n.master = TRUE /\ Idling(t.n)
    BY <1>0, <1>1, <2>1 DEF XType, NbType, Idling
  <2> HIDE DEF t
  <2>3. Between(r, NegotiationDone(t))
    BY <1>0, <2>1, <2>2, NegotiationBetween
  <2> QED BY <1>3, <2>3
<1>4. ASSUME ~NegotiatesSlave(r, x.n, p), ~NegotiatesMaster(r, x.n, p) PROVE Between(r, y)
  <2>1. x.n.state = EXCHANGE
    BY <1>4 DEF Accepts, NextInSequence
  <2>2. x.n.rxmt = {} /\ LeaderOf(r, x.n) /\ (x.n.more0 => x.n.ddsum = {})
    BY <2>1 DEF Good, NbInv, ListsOf, EXCHANGE, FULL
  <2>3. /\ u \in XType /\ u.n.state = EXCHANGE /\ u.n.sent = {} /\ u.n.rxmt = x.n.rxmt
        /\ u.n.master = x.n.master /\ u.n.more0 = x.n.more0 /\ u.n.ddsum \subseteq x.n.ddsum
    BY <1>0, <2>1 DEF XType, NbType
  <2> HIDE DEF u
  <2>4. Between(r, u)
    BY <2>1, <2>2, <2>3 DEF Between, LeaderOf
  <2> QED BY <1>4, <2>4
<1>5. Between(r, y)
  BY <1>2, <1>3, <1>4
<1>6. w \in SUBSET Lsa
  BY <1>0, WantedType
<1>7. z = Accepted(r, x, p)
  BY DEF Accepted
<1> HIDE DEF y, w
<1>8. /\ z \in XType /\ z.n.state = y.n.state /\ z.n.sent = y.n.sent /\ z.n.rxmt = y.n.rxmt
      /\ z.n.master = y.n.master /\ z.n.more0 = y.n.more0 /\ z.n.ddsum = y.n.ddsum
  BY <1>5, <1>6 DEF Between, XType, NbType
<1> HIDE DEF z
<1> QED BY <1>5, <1>7, <1>8 DEF Between, LeaderOf

(* the next DD packet is built *)
LEMMA NextDdGood ==
  ASSUME NEW r \in Router, NEW x, Between(r, x), NEW more \in BOOLEAN, NEW ms \in BOOLEAN,
         NEW c \in SUBSET x.n.ddsum
  PROVE  /\ Good(r, BuildDd(x, more, ms, c))
         /\ BuildDd(x, more, ms, c).n.state = EXCHANGE
         /\ BuildDd(x, more, ms, c).n.ddsum = x.n.ddsum
         /\ BuildDd(x, more, ms, c).n.lsreq = x.n.lsreq
<1> DEFINE z == BuildDd(x, more, ms, c)
<1>0. x \in XType /\ c \in SUBSET Inst /\ x.n.state = EXCHANGE /\ x.n.state # EXSTART
  BY DEF Between, XType, NbType, EXCHANGE, EXSTART
<1>1. z \in XType
  BY <1>0, BuildDdType
<1>2. /\ z.n.state = EXCHANGE /\ z.n.master = x.n.master /\ z.n.more0 = x.n.more0
      /\ z.n.ddsum = x.n.ddsum /\ z.n.lsreq = x.n.lsreq /\ z.n.rxmt = x.n.rxmt
      /\ z.n.sent = c /\ z.n.lastdd # NoPkt /\ z.n.lastdd.seq = z.n.ddseq
  BY <1>0, BuildDdFields
<1> HIDE DEF z
<1>3. ListsOf(z.n) /\ ArmedOf(z.n) /\ LeaderOf(r, z.n)
  BY <1>2 DEF Between, ListsOf, ArmedOf, LeaderOf, EXSTART, EXCHANGE, LOADING, FULL
<1> QED BY <1>1, <1>2, <1>3 DEF Good, NbInv, z

(* Full with nothing left to summarise or request satisfies the neighbour invariant *)
LEMMA GoFullGood ==
  ASSUME TypeOK, NEW r \in Router, NEW x \in XType, x.n.state \in {EXCHANGE, LOADING},
         x.n.ddsum = {}, x.n.sent = {}, x.n.lsreq = {}, LeaderOf(r, x.n)
  PROVE  Good(r, GoFull(r, x))
<1> DEFINE z == GoFull(r, x)
<1>1. z \in XType
  BY GoFullType
<1>2. /\ z.n.state = FULL /\ z.n.master = x.n.master /\ z.n.ddsum = x.n.ddsum
      /\ z.n.lsreq = x.n.lsreq /\ z.n.sent = x.n.sent
  BY DEF GoFull, XType, NbType
<1> HIDE DEF z
<1>3. ListsOf(z.n) /\ ArmedOf(z.n) /\ LeaderOf(r, z.n)
  BY <1>2 DEF ListsOf, ArmedOf, LeaderOf, EXSTART, EXCHANGE, LOADING, FULL
<1> QED BY <1>1, <1>3 DEF Good, NbInv, z

(* in Loading, with a request for part of what is wanted *)
LEMMA BuildReqGood ==
  ASSUME NEW r \in Router, NEW x \in XType, x.n.state = LOADING, x.n.ddsum = {}, x.n.sent = {},
         x.n.rxmt = {}, x.n.lsreq # {}, LeaderOf(r, x.n), NEW c \in Chunk(x.n.lsreq, LsReqMax)
  PROVE  Good(r, BuildReq(x, c))
<1> DEFINE y == [x EXCEPT !.n.lastreq = LsReq(c)]
           z == BuildReq(x, c)
<1>1. x.n.lsreq \in SUBSET Lsa /\ LsReqMax \in Nat \ {0}
  BY SizeAssumption DEF XType, NbType
<1>2. c \in SUBSET x.n.lsreq /\ c # {}
  BY <1>1, ChunkNotEmpty
<1>3. LsReq(c) \in ReqPkt /\ LsReq(c) \in Pkt /\ LsReq(c).ids = c /\ LsReq(c) # NoPkt
  BY <1>1, <1>2, PktType DEF LsReq, NoPkt
<1>4. /\ y \in XType /\ y.n.state = LOADING /\ y.n.ddsum = {} /\ y.n.sent = {} /\ y.n.rxmt = {}
      /\ y.n.lsreq = x.n.lsreq /\ y.n.master = x.n.master /\ y.n.lastreq = LsReq(c)
  BY <1>3 DEF XType, NbType
<1>5. z = Send(y, LsReq(c))
  BY DEF BuildReq
<1> HIDE DEF y, z
<1>6. ListsOf(y.n) /\ ArmedOf(y.n) /\ LeaderOf(r, y.n)
  BY <1>2, <1>3, <1>4 DEF ListsOf, ArmedOf, LeaderOf, EXSTART, EXCHANGE, LOADING, FULL
<1>7. Good(r, y)
  BY <1>4, <1>6 DEF Good, NbInv
<1> QED BY <1>3, <1>5, <1>7, SendGood DEF z

(* nfsmExchangeDone preserves the neighbour invariant *)
LEMMA ExchangeDoneGood ==
  ASSUME TypeOK, NEW r \in Router, NEW x \in XType, x.n.state = EXCHANGE,
         x.n.ddsum = {}, x.n.sent = {}, x.n.rxmt = {}, LeaderOf(r, x.n),
         NEW c \in Chunk(x.n.lsreq, LsReqMax)
  PROVE  Good(r, ExchangeDone(r, x, c))
<1> DEFINE y == [x EXCEPT !.n.lastdd = NoPkt]
           z == [y EXCEPT !.n.state = LOADING]
<1>1. /\ y \in XType /\ y.n.state = EXCHANGE /\ y.n.ddsum = {} /\ y.n.sent = {} /\ y.n.rxmt = {}
      /\ y.n.lsreq = x.n.lsreq /\ y.n.master = x.n.master
  BY DEF XType, NbType
<1> HIDE DEF y
<1>2. /\ z \in XType /\ z.n.state = LOADING /\ z.n.ddsum = {} /\ z.n.sent = {} /\ z.n.rxmt = {}
      /\ z.n.lsreq = x.n.lsreq /\ z.n.master = x.n.master
  BY <1>1 DEF XType, NbType
<1> HIDE DEF z
<1>3. LeaderOf(r, y.n) /\ LeaderOf(r, z.n)
  BY <1>1, <1>2 DEF LeaderOf, EXCHANGE, LOADING
<1>4. CASE x.n.lsreq = {}
  <2>1. Good(r, GoFull(r, y))
    BY <1>1, <1>3, <1>4, GoFullGood
  <2> QED BY <1>4, <2>1 DEF ExchangeDone, y
<1>5. CASE x.n.lsreq # {}
  <2>1. Good(r, BuildReq(z, c))
    BY <1>2, <1>3, <1>5, BuildReqGood
  <2> QED BY <1>5, <2>1 DEF ExchangeDone, y, z
<1> QED BY <1>4, <1>5

(* -------------------------------- steps --------------------------------- *)
OtherType ==
  /\ adj \in [Router -> BOOLEAN] /\ dr \in [Router -> BOOLEAN]
  /\ boot \in [Router -> Nat] /\ env \in [Budget -> Nat]

(* a step that changes one neighbour structure preserves the three invariants *)
LEMMA NbStep ==
  ASSUME IInv, NEW r \in Router, NEW n \in NbType, NbInv(r, n), nb' = [nb EXCEPT ![r] = n]
  PROVE  ListsFollowState' /\ RetransmissionArmed' /\ HigherIdIsMaster'
<1>1. \A s \in Router : nb'[s] = IF s = r THEN n ELSE nb[s]
  BY DEF IInv, TypeOK
<1>2. \A s \in Router : ListsOf(nb'[s]) /\ ArmedOf(nb'[s]) /\ LeaderOf(s, nb'[s])
  BY <1>1 DEF IInv, NbInv, ListsFollowState, RetransmissionArmed, HigherIdIsMaster
<1> QED BY <1>2 DEF ListsFollowState, RetransmissionArmed, HigherIdIsMaster, ListsOf, ArmedOf, LeaderOf

(* a timer branch that leaves a good record preserves the invariant *)
LEMMA TickInv ==
  ASSUME IInv, NEW r \in Router, NEW x, Good(r, x), Tick(r, x), OtherType'
  PROVE  IInv'
<1>1. x \in XType /\ x.n \in NbType /\ NbInv(r, x.n) /\ TypeOK
  BY DEF Good, XType, IInv
<1>2. nb' \in [Router -> NbType] /\ ls' \in [Router -> LsType] /\ chan' \in [Router -> Seq(Pkt)]
  BY <1>1, TickType
<1>3. ListsFollowState' /\ RetransmissionArmed' /\ HigherIdIsMaster'
  BY <1>1, NbStep DEF Tick
<1> QED BY <1>2, <1>3 DEF IInv, TypeOK, OtherType

(* a receive step that leaves a good record preserves the invariant *)
LEMMA RxInv ==
  ASSUME IInv, NEW r \in Router, NEW x, Good(r, x), chan[r] # <<>>, Rx(r, x),
         UNCHANGED <<adj, dr, boot, env>>
  PROVE  IInv'
<1>1. x \in XType /\ x.n \in NbType /\ NbInv(r, x.n) /\ TypeOK
  BY DEF Good, XType, IInv
<1>2. nb' \in [Router -> NbType] /\ ls' \in [Router -> LsType] /\ chan' \in [Router -> Seq(Pkt)]
  BY <1>1, RxType
<1>3. ListsFollowState' /\ RetransmissionArmed' /\ HigherIdIsMaster'
  BY <1>1, NbStep DEF Rx
<1> QED BY <1>1, <1>2, <1>3 DEF IInv, TypeOK

(* a timer of r ran, and changed neither the election nor the incarnation *)
LEMMA TimerInv ==
  ASSUME IInv, NEW r \in Router, NEW x, Good(r, x), Tick(r, x), UNCHANGED <<adj, dr, boot>>,
         TimerDue \/ \E w \in Budget : Spend(w)
  PROVE  IInv'
<1>1. OtherType'
  BY EnvType DEF IInv, TypeOK, OtherType
<1> QED BY <1>1, TickInv

(* HelloRx preserves the invariant *)
LEMMA HelloInv ==
  ASSUME IInv, NEW r \in Router, HelloRx(r)
  PROVE  IInv'
<1>1. OtherType'
  BY DEF HelloRx, IInv, TypeOK, OtherType
<1> QED BY <1>1, HelloGood, TickInv DEF HelloRx

(* HelloRxElect preserves the invariant *)
LEMMA HelloElectInv ==
  ASSUME IInv, NEW r \in Router, NEW isdr \in BOOLEAN, NEW changed \in BOOLEAN,
         HelloRxElect(r, isdr, changed)
  PROVE  IInv'
<1>1. env' \in [Budget -> Nat]
  BY EnvType DEF HelloRxElect, IInv, Budget
<1>2. OtherType'
  BY <1>1 DEF HelloRxElect, IInv, TypeOK, OtherType
<1>3. Good(r, Elect(r, HelloReceived(r), isdr, changed))
  BY HelloGood, ElectGood DEF IInv
<1> QED BY <1>2, <1>3, TickInv DEF HelloRxElect

(* WaitTimer preserves the invariant *)
LEMMA WaitInv ==
  ASSUME IInv, NEW r \in Router, NEW isdr \in BOOLEAN, NEW changed \in BOOLEAN,
         WaitTimer(r, isdr, changed)
  PROVE  IInv'
<1>1. OtherType'
  BY DEF WaitTimer, IInv, TypeOK, OtherType
<1>2. Good(r, TimerElect(r, Self(r), isdr, changed))
  BY SelfGood, TimerElectGood DEF IInv
<1> QED BY <1>1, <1>2, TickInv DEF WaitTimer

(* an ignored DD packet preserves the invariant *)
LEMMA IgnoredInv == ASSUME IInv, NEW r \in Router, DdRxIgnored(r) PROVE IInv'
<1>1. Good(r, DdReceiver(r))
  BY SelfGood, TwoWayGood DEF DdReceiver, IInv
<1> QED BY <1>1, RxInv DEF DdRxIgnored, Arrived

(* a sequence number mismatch or a bad request preserves the invariant *)
LEMMA MismatchInv == ASSUME IInv, NEW r \in Router, DdRxMismatch(r) \/ BadLsReqRx(r) PROVE IInv'
<1>1. Good(r, SeqNumberMismatch(r, Self(r)))
  BY SelfGood, MismatchGood DEF IInv
<1> QED BY <1>1, RxInv DEF DdRxMismatch, BadLsReqRx, Arrived

(* the master's handling of a DD packet preserves the invariant *)
LEMMA MasterInv == ASSUME IInv, NEW r \in Router, DdRxMaster(r) PROVE IInv'
<1> DEFINE p == Head(chan[r])
           x == Accepted(r, DdReceiver(r), p)
<1>0. TypeOK /\ chan[r] # <<>> /\ p.t = "dd" /\ UNCHANGED <<adj, dr, boot, env>>
  BY DEF IInv, DdRxMaster, Arrived
<1>1. p \in DdPkt
  BY <1>0, HeadType
<1>2. Good(r, DdReceiver(r))
  BY SelfGood, TwoWayGood DEF DdReceiver, IInv
<1>3. Accepts(r, DdReceiver(r).n, p)
  BY DEF DdRxMaster
<1> HIDE DEF p
<1>4. Between(r, x)
  BY <1>1, <1>2, <1>3, AcceptedBetween
<1>5. CASE x.n.more0 /\ ~p.more
  <2> DEFINE y == [x EXCEPT !.n.more0 = FALSE]
  <2>1. PICK c \in Chunk(x.n.lsreq, LsReqMax) : Rx(r, ExchangeDone(r, y, c))
    BY <1>5 DEF DdRxMaster, p
  <2> HIDE DEF x
  <2>2. /\ y \in XType /\ y.n.state = EXCHANGE /\ y.n.ddsum = {} /\ y.n.sent = {} /\ y.n.rxmt = {}
        /\ y.n.lsreq = x.n.lsreq /\ y.n.master = x.n.master /\ y.n.state = x.n.state
    BY <1>4, <1>5 DEF Between, XType, NbType
  <2> HIDE DEF y
  <2>3. LeaderOf(r, y.n)
    BY <1>4, <2>2 DEF Between, LeaderOf
  <2>4. Good(r, ExchangeDone(r, y, c))
    BY <1>0, <2>2, <2>3, ExchangeDoneGood
  <2> QED BY <1>0, <2>1, <2>4, RxInv
<1>6. CASE ~(x.n.more0 /\ ~p.more)
  <2> DEFINE y == [x EXCEPT !.n.ddseq = @ + 1, !.n.more0 = @ \/ x.n.ddsum = {}]
             more == x.n.ddsum # {}
             yes == TRUE
  <2>1. PICK c \in Chunk(x.n.ddsum, DdMax) : Rx(r, BuildDd(y, more, yes, c))
    BY <1>6 DEF DdRxMaster, p
  <2> HIDE DEF x
  <2>2. more \in BOOLEAN /\ yes \in BOOLEAN /\ c \in SUBSET x.n.ddsum /\ x.n.ddseq + 1 \in Nat
    BY <1>4, ChunkSubset DEF Between, XType, NbType
  <2>3. (x.n.more0 \/ x.n.ddsum = {}) \in BOOLEAN
    OBVIOUS
  <2>4. /\ y \in XType /\ y.n.state = x.n.state /\ y.n.ddsum = x.n.ddsum /\ y.n.sent = x.n.sent
        /\ y.n.rxmt = x.n.rxmt /\ y.n.master = x.n.master
        /\ y.n.more0 = (x.n.more0 \/ x.n.ddsum = {})
    BY <1>4, <2>2, <2>3 DEF Between, XType, NbType
  <2> HIDE DEF y, more, yes
  <2>5. Between(r, y)
    BY <1>4, <2>4 DEF Between, LeaderOf
  <2>6. Good(r, BuildDd(y, more, yes, c))
    BY <2>2, <2>4, <2>5, NextDdGood
  <2> QED BY <1>0, <2>1, <2>6, RxInv
<1> QED BY <1>5, <1>6

(* the slave's handling of a DD packet preserves the invariant *)
LEMMA SlaveInv == ASSUME IInv, NEW r \in Router, DdRxSlave(r) PROVE IInv'
<1> DEFINE p == Head(chan[r])
           x == Accepted(r, DdReceiver(r), p)
           y == [x EXCEPT !.n.ddseq = p.seq]
           more == x.n.ddsum # {} \/ p.more
           no == FALSE
<1>0. TypeOK /\ chan[r] # <<>> /\ p.t = "dd" /\ UNCHANGED <<adj, dr, boot, env>>
  BY DEF IInv, DdRxSlave, Arrived
<1>1. p \in DdPkt
  BY <1>0, HeadType
<1>2. Good(r, DdReceiver(r))
  BY SelfGood, TwoWayGood DEF DdReceiver, IInv
<1>3. Accepts(r, DdReceiver(r).n, p)
  BY DEF DdRxSlave
<1>4. PICK c \in Chunk(x.n.ddsum, DdMax) :
        IF ~p.more /\ x.n.ddsum = {}
        THEN \E q \in Chunk(x.n.lsreq, LsReqMax) : Rx(r, ExchangeDone(r, BuildDd(y, more, no, c), q))
        ELSE Rx(r, BuildDd(y, more, no, c))
  BY DEF DdRxSlave
<1> HIDE DEF p
<1>5. Between(r, x)
  BY <1>1, <1>2, <1>3, AcceptedBetween
<1> HIDE DEF x
<1>6. more \in BOOLEAN /\ no \in BOOLEAN /\ c \in SUBSET x.n.ddsum /\ p.seq \in Nat
  BY <1>1, ChunkSubset DEF DdPkt
<1>7. /\ y \in XType /\ y.n.state = x.n.state /\ y.n.ddsum = x.n.ddsum /\ y.n.sent = x.n.sent
      /\ y.n.rxmt = x.n.rxmt /\ y.n.master = x.n.master /\ y.n.more0 = x.n.more0
      /\ y.n.lsreq = x.n.lsreq
  BY <1>5, <1>6 DEF Between, XType, NbType
<1> DEFINE z == BuildDd(y, more, no, c)
<1> HIDE DEF y, more, no
<1>8. Between(r, y)
  BY <1>5, <1>7 DEF Between, LeaderOf
<1>9. Good(r, z) /\ z.n.state = EXCHANGE /\ z.n.ddsum = x.n.ddsum /\ z.n.lsreq = x.n.lsreq
  BY <1>6, <1>7, <1>8, NextDdGood
<1> HIDE DEF z
<1>10. CASE ~p.more /\ x.n.ddsum = {}
  <2>1. PICK q \in Chunk(z.n.lsreq, LsReqMax) : Rx(r, ExchangeDone(r, z, q))
    BY <1>4, <1>9, <1>10 DEF z
  <2>2. /\ z \in XType /\ z.n.ddsum = {} /\ z.n.sent = {} /\ z.n.rxmt = {} /\ LeaderOf(r, z.n)
    BY <1>9, <1>10 DEF Good, NbInv, ListsOf, EXCHANGE, FULL
  <2>3. Good(r, ExchangeDone(r, z, q))
    BY <1>0, <1>9, <2>2, ExchangeDoneGood
  <2> QED BY <1>0, <2>1, <2>3, RxInv
<1>11. CASE ~(~p.more /\ x.n.ddsum = {})
  BY <1>0, <1>4, <1>9, <1>11, RxInv DEF z
<1> QED BY <1>10, <1>11

(* a received request preserves the invariant *)
LEMMA LsReqInv == ASSUME IInv, NEW r \in Router, LsReqRx(r) PROVE IInv'
<1> DEFINE ids == Head(chan[r]).ids
           x == Self(r)
<1>0. TypeOK /\ chan[r] # <<>> /\ Head(chan[r]).t = "req" /\ UNCHANGED <<adj, dr, boot, env>>
  BY DEF IInv, LsReqRx, Arrived
<1>1. ids \in SUBSET Lsa
  BY <1>0, HeadType
<1>2. Good(r, x)
  BY SelfGood
<1>3. CASE Rx(r, x)
  BY <1>0, <1>2, <1>3, RxInv
<1>4. CASE \E c \in Chunk(ids, UpdMax) : Rx(r, Send(x, LsUpd({Found(x.d, l) : l \in c})))
  <2>1. PICK c \in Chunk(ids, UpdMax) : Rx(r, Send(x, LsUpd({Found(x.d, l) : l \in c})))
    BY <1>4
  <2> HIDE DEF x
  <2>2. {Found(x.d, l) : l \in c} \in SUBSET Inst
    BY <1>1, <1>2, ChunkSubset, FoundType DEF Good, XType
  <2>3. LsUpd({Found(x.d, l) : l \in c}) \in Pkt
    BY <2>2, PktType
  <2>4. Good(r, Send(x, LsUpd({Found(x.d, l) : l \in c})))
    BY <1>2, <2>3, SendGood
  <2> QED BY <1>0, <2>1, <2>4, RxInv
<1> QED BY <1>3, <1>4 DEF LsReqRx

(* a received update preserves the invariant: a request is repeated or the neighbour is Full *)
LEMMA LsUpdInv == ASSUME IInv, NEW r \in Router, LsUpdRx(r) PROVE IInv'
<1> DEFINE x == Self(r)
           hs == Head(chan[r]).hs
           ids == {h.l : h \in hs}
           d == Store(x.d, hs)
           q == {j \in x.n.rxmt : j.l \notin ids}
           w == [x EXCEPT !.d = d, !.n.lsreq = @ \ ids, !.n.rxmt = q]
           y == Send(w, LsAck(hs))
<1>0. TypeOK /\ chan[r] # <<>> /\ Head(chan[r]).t = "upd" /\ UNCHANGED <<adj, dr, boot, env>>
  BY DEF IInv, LsUpdRx, Arrived
<1>1. hs \in SUBSET Inst
  BY <1>0, HeadType
<1>2. Good(r, x)
  BY SelfGood
<1>3. \/ x.n.state < EXCHANGE /\ Rx(r, x)
      \/ x.n.state \in {EXCHANGE, FULL} /\ Rx(r, y)
      \/ x.n.state = LOADING /\ y.n.lsreq = {} /\ Rx(r, GoFull(r, y))
      \/ /\ x.n.state = LOADING /\ y.n.lsreq # {}
         /\ \E c \in Chunk(y.n.lsreq, LsReqMax) : Rx(r, BuildReq(y, c))
  BY DEF LsUpdRx
<1> HIDE DEF x, hs, ids
<1>4. d \in LsType /\ LsAck(hs) \in Pkt
  BY <1>1, <1>2, StoreType, PktType DEF Good, XType
<1>5. q \in SUBSET Inst /\ q \subseteq x.n.rxmt
  BY <1>2 DEF Good, XType, NbType
<1> HIDE DEF d, q
<1>6. /\ w \in XType /\ w.n.state = x.n.state /\ w.n.master = x.n.master /\ w.n.more0 = x.n.more0
      /\ w.n.ddseq = x.n.ddseq /\ w.n.ddsum = x.n.ddsum /\ w.n.sent = x.n.sent
      /\ w.n.lastdd = x.n.lastdd /\ w.n.lsreq \subseteq x.n.lsreq /\ w.n.rxmt = q
  BY <1>2, <1>4, <1>5 DEF Good, XType, NbType
<1> HIDE DEF w
<1>7. y \in XType /\ y.n = w.n
  BY <1>4, <1>6, SendType
<1> HIDE DEF y
<1>8. CASE x.n.state < EXCHANGE /\ Rx(r, x)
  BY <1>0, <1>2, <1>8, RxInv
<1>9. CASE x.n.state \in {EXCHANGE, FULL} /\ Rx(r, y)
  <2>1. ListsOf(y.n) /\ ArmedOf(y.n) /\ LeaderOf(r, y.n)
    BY <1>2, <1>5, <1>6, <1>7, <1>9 DEF Good, NbInv, ListsOf, ArmedOf, LeaderOf, EXSTART, EXCHANGE, LOADING, FULL
  <2>2. Good(r, y)
    BY <1>7, <2>1 DEF Good, NbInv
  <2> QED BY <1>0, <1>9, <2>2, RxInv
<1>10. ASSUME x.n.state = LOADING
       PROVE  y.n.state = LOADING /\ y.n.ddsum = {} /\ y.n.sent = {} /\ y.n.rxmt = {} /\ LeaderOf(r, y.n)
  BY <1>2, <1>5, <1>6, <1>7, <1>10 DEF Good, NbInv, ListsOf, LeaderOf, EXCHANGE, LOADING, FULL
<1>11. CASE x.n.state = LOADING /\ y.n.lsreq = {} /\ Rx(r, GoFull(r, y))
  <2>1. Good(r, GoFull(r, y))
    BY <1>0, <1>7, <1>10, <1>11, GoFullGood
  <2> QED BY <1>0, <1>11, <2>1, RxInv
<1>12. CASE /\ x.n.state = LOADING /\ y.n.lsreq # {}
            /\ \E c \in Chunk(y.n.lsreq, LsReqMax) : Rx(r, BuildReq(y, c))
  <2>1. PICK c \in Chunk(y.n.lsreq, LsReqMax) : Rx(r, BuildReq(y, c))
    BY <1>12
  <2>2. Good(r, BuildReq(y, c))
    BY <1>7, <1>10, <1>12, BuildReqGood
  <2> QED BY <1>0, <2>1, <2>2, RxInv
<1> QED BY <1>3, <1>8, <1>9, <1>11, <1>12

(* a received acknowledgement preserves the invariant *)
LEMMA LsAckInv == ASSUME IInv, NEW r \in Router, LsAckRx(r) PROVE IInv'
<1> DEFINE x == Self(r)
           ids == {h.l : h \in Head(chan[r]).hs}
           q == {j \in x.n.rxmt : j.l \notin ids}
           y == [x EXCEPT !.n.rxmt = q]
<1>0. chan[r] # <<>> /\ UNCHANGED <<adj, dr, boot, env>>
  BY DEF LsAckRx, Arrived
<1>1. Good(r, x)
  BY SelfGood
<1>2. Rx(r, x) \/ Rx(r, y)
  BY DEF LsAckRx
<1> HIDE DEF x, ids
<1>3. q \in SUBSET Inst /\ q \subseteq x.n.rxmt
  BY <1>1 DEF Good, XType, NbType
<1> HIDE DEF q
<1>4. Good(r, y)
  BY <1>1, <1>3, RxmtGood
<1> HIDE DEF y
<1> QED BY <1>0, <1>1, <1>2, <1>4, RxInv

(* a retransmission preserves the invariant *)
LEMMA RxmtInv == ASSUME IInv, NEW r \in Router, DdRxmt(r) \/ LsReqRxmt(r) \/ LsUpdRxmt(r) PROVE IInv'
<1>1. Good(r, Self(r)) /\ nb[r] \in NbType
  BY SelfGood DEF IInv, TypeOK
<1>2. ASSUME NEW p \in Pkt, Tick(r, Send(Self(r), p)), TimerDue, UNCHANGED <<adj, dr, boot>> PROVE IInv'
  <2>1. Good(r, Send(Self(r), p))
    BY <1>1, SendGood
  <2> QED BY <1>2, <2>1, TimerInv
<1>3. CASE DdRxmt(r)
  <2>1. nb[r].lastdd \in Pkt
    BY <1>1, <1>3, PktType DEF DdRxmt, NbType
  <2> QED BY <1>2, <1>3, <2>1 DEF DdRxmt
<1>4. CASE LsReqRxmt(r)
  <2>1. nb[r].lastreq \in Pkt
    BY <1>1, <1>4, PktType DEF LsReqRxmt, NbType
  <2> QED BY <1>2, <1>4, <2>1 DEF LsReqRxmt
<1>5. CASE LsUpdRxmt(r)
  <2>1. LsUpd(nb[r].rxmt) \in Pkt
    BY <1>1, PktType DEF NbType
  <2> QED BY <1>2, <1>5, <2>1 DEF LsUpdRxmt
<1> QED BY <1>3, <1>4, <1>5

(* freeing the last packets in Full preserves the invariant *)
LEMMA FreeLastInv == ASSUME IInv, NEW r \in Router, FreeLast(r) PROVE IInv'
<1> DEFINE x == Self(r)
           y == [x EXCEPT !.n.lastdd = NoPkt, !.n.lastreq = NoPkt]
<1>0. Good(r, x) /\ x.n.state = FULL
  BY SelfGood DEF FreeLast
<1>1. Tick(r, y) /\ TimerDue /\ UNCHANGED <<adj, dr, boot>>
  BY DEF FreeLast
<1> HIDE DEF x
<1>2. /\ y \in XType /\ y.n.state = FULL /\ y.n.master = x.n.master
      /\ y.n.ddsum = x.n.ddsum /\ y.n.sent = x.n.sent /\ y.n.lsreq = x.n.lsreq
  BY <1>0 DEF Good, XType, NbType
<1> HIDE DEF y
<1>3. Good(r, y)
  BY <1>0, <1>2 DEF Good, NbInv, ListsOf, ArmedOf, LeaderOf, EXSTART, EXCHANGE, LOADING, FULL
<1> QED BY <1>1, <1>3, TimerInv

(* the update of the network-LSA preserves the invariant *)
LEMMA NetLsaUpdateInv == ASSUME IInv, NEW r \in Router, NetLsaUpdate(r) PROVE IInv'
<1> DEFINE x == [Self(r) EXCEPT !.d.upd = FALSE]
<1>1. TypeOK /\ dr[r] \in BOOLEAN
  BY DEF IInv, TypeOK
<1>2. x \in XType /\ x.n = Self(r).n /\ Good(r, Self(r))
  BY SelfGood DEF Good, XType, LsType
<1> HIDE DEF x
<1>3. Good(r, x)
  BY <1>2 DEF Good
<1>4. Good(r, NetUpdate(r, x, dr[r]))
  BY <1>1, <1>3, NetUpdateGood
<1> QED BY <1>4, TimerInv DEF NetLsaUpdate, x

(* a new instance of a self-originated LSA, flooded at once *)
LEMMA RenewedGood ==
  ASSUME IInv, NEW r \in Router, NEW l \in Lsa, NEW d \in LsType
  PROVE  LET y == [Self(r) EXCEPT !.d = d]
         IN  Good(r, Flood(y, <<l, TRUE>>, y.d.db[<<l, TRUE>>], dr[r]))
<1> DEFINE y == [Self(r) EXCEPT !.d = d]
           k == <<l, TRUE>>
<1>1. Good(r, Self(r)) /\ dr[r] \in BOOLEAN /\ k \in Key
  BY SelfGood, KeyType DEF IInv, TypeOK
<1>2. Good(r, y)
  BY <1>1, DbGood
<1> HIDE DEF y, k
<1>3. y.d.db[k] \in Inst
  BY <1>1, <1>2 DEF Good, XType, LsType
<1>4. Good(r, Flood(y, k, y.d.db[k], dr[r]))
  BY <1>1, <1>2, <1>3, FloodGood
<1> QED BY <1>4 DEF y, k

(* a MaxAge entry that is renewed or flushed preserves the invariant *)
LEMMA AgeOutInv == ASSUME IInv, NEW r \in Router, NEW k \in Key, AgeOut(r, k) PROVE IInv'
<1> DEFINE x == Self(r)
           d == Renew(x.d, k[1])
           y == [x EXCEPT !.d = d]
<1>0. Good(r, x) /\ k[1] \in Lsa /\ k[2] \in BOOLEAN /\ k = <<k[1], k[2]>> /\ dr[r] \in BOOLEAN
  BY SelfGood, KeyType DEF IInv, TypeOK
<1>1. /\ TimerDue /\ UNCHANGED <<adj, dr, boot>>
      /\ IF k[2] THEN Tick(r, Flood(y, k, y.d.db[k], dr[r])) ELSE Tick(r, FlushLsa(x, k, dr[r]))
  BY DEF AgeOut
<1>2. d \in LsType
  BY <1>0, RenewType DEF Good, XType
<1>3. CASE k[2]
  <2>1. k = <<k[1], TRUE>>
    BY <1>0, <1>3
  <2> HIDE DEF d
  <2>2. Good(r, Flood(y, <<k[1], TRUE>>, y.d.db[<<k[1], TRUE>>], dr[r]))
    BY <1>0, <1>2, RenewedGood
  <2> HIDE DEF y
  <2>3. Good(r, Flood(y, k, y.d.db[k], dr[r]))
    BY <2>1, <2>2
  <2> QED BY <1>1, <1>3, <2>3, TimerInv
<1>4. CASE ~k[2]
  <2>1. Good(r, FlushLsa(x, k, dr[r]))
    BY <1>0, FlushGood
  <2> QED BY <1>1, <1>4, <2>1, TimerInv
<1> QED BY <1>3, <1>4

(* the three second timer and a refresh preserve the invariant *)
LEMMA OldTimerInv == ASSUME IInv, NEW r \in Router, NEW l \in Lsa, OldTimer(r, l) \/ Refresh(r, l) PROVE IInv'
<1> DEFINE x == Self(r)
           d == Overtake(x.d, l)
           e == Renew(x.d, l)
           y == [x EXCEPT !.d = d]
           z == [x EXCEPT !.d = e]
           k == <<l, TRUE>>
<1>0. x.d \in LsType /\ "change" \in Budget
  BY SelfGood DEF Good, XType, Budget
<1>1. /\ TimerDue \/ Spend("change")
      /\ UNCHANGED <<adj, dr, boot>>
      /\ Tick(r, Flood(y, k, y.d.db[k], dr[r])) \/ Tick(r, Flood(z, k, z.d.db[k], dr[r]))
  BY DEF OldTimer, Refresh
<1>2. d \in LsType /\ e \in LsType
  BY <1>0, OvertakeType, RenewType
<1> HIDE DEF d, e
<1>3. Good(r, Flood(y, k, y.d.db[k], dr[r])) /\ Good(r, Flood(z, k, z.d.db[k], dr[r]))
  BY <1>2, RenewedGood
<1> HIDE DEF y, z, k
<1> QED BY <1>0, <1>1, <1>3, TimerInv

(* flooding by the main loop preserves the invariant *)
LEMMA FloodTimerInv == ASSUME IInv, NEW r \in Router, NEW k \in Key, FloodTimer(r, k) PROVE IInv'
<1> DEFINE x == Self(r)
           y == [x EXCEPT !.d.flood = @ \ {k}]
<1>0. Good(r, x) /\ dr[r] \in BOOLEAN
  BY SelfGood DEF IInv, TypeOK
<1>1. TimerDue /\ UNCHANGED <<adj, dr, boot>> /\ Tick(r, Flood(y, k, x.d.db[k], dr[r]))
  BY DEF FloodTimer
<1> HIDE DEF x
<1>2. y \in XType /\ y.n = x.n /\ x.d.db[k] \in Inst
  BY <1>0 DEF Good, XType, LsType
<1> HIDE DEF y
<1>3. Good(r, y)
  BY <1>0, <1>2 DEF Good
<1>4. Good(r, Flood(y, k, x.d.db[k], dr[r]))
  BY <1>0, <1>2, <1>3, FloodGood
<1> QED BY <1>1, <1>4, TimerInv

(* flushing an LSA of an earlier incarnation preserves the invariant *)
LEMMA ForeignFlushInv == ASSUME IInv, NEW r \in Router, NEW l \in Lsa, ForeignFlush(r, l) PROVE IInv'
<1> DEFINE k == <<l, FALSE>>
<1>0. Good(r, Self(r)) /\ dr[r] \in BOOLEAN /\ k \in Key
  BY SelfGood, KeyType DEF IInv, TypeOK
<1>1. TimerDue /\ UNCHANGED <<adj, dr, boot>> /\ Tick(r, FlushLsa(Self(r), k, dr[r]))
  BY DEF ForeignFlush
<1> HIDE DEF k
<1>2. Good(r, FlushLsa(Self(r), k, dr[r]))
  BY <1>0, FlushGood
<1> QED BY <1>1, <1>2, TimerInv

(* the database of a booting router is well formed *)
LEMMA BootType == \A r \in Router : BootLs(r) \in LsType
<1> SUFFICES ASSUME NEW r \in Router PROVE BootLs(r) \in LsType
  OBVIOUS
<1>1. ASSUME NEW k \in Key
      PROVE (IF k[1][1] = "ext" /\ ~k[2] THEN [NoInst(k[1]) EXCEPT !.seq = ExtSeq[r][k[1][2]]] ELSE NoInst(k[1])) \in Inst
  <2>1. NoInst(k[1]) \in Inst
    BY KeyType DEF NoInst, Inst
  <2>2. CASE k[1][1] = "ext"
    <3>1. k[1][2] \in Ext
      BY <2>2, KeyType DEF Lsa, Rtr, Net
    <3>2. ExtSeq[r][k[1][2]] \in Nat
      BY <3>1, SizeAssumption
    <3> QED BY <2>1, <3>2 DEF Inst
  <2> QED BY <2>1, <2>2
<1>2. (BootLs(r)).db \in [Key -> Inst]
  BY <1>1 DEF BootLs
<1> QED BY <1>2 DEF BootLs, LsType

(* an LSA learned on another interface preserves the invariant *)
LEMMA LearnInv == ASSUME IInv, NEW r \in Router, NEW e \in Ext, Learn(r, e) PROVE IInv'
<1> DEFINE l == <<"ext", e>>
           k == <<l, FALSE>>
           i == [NoInst(l) EXCEPT !.seq = ls[r].db[k].seq + 1]
           d == [ls[r] EXCEPT !.db[k] = i, !.flood = @ \union {k}, !.here = @ \ {k}]
<1>0. TypeOK /\ ls[r] \in LsType /\ "change" \in Budget
  BY DEF IInv, TypeOK, Budget
<1>1. l \in Lsa /\ k \in Key
  BY KeyType DEF Lsa
<1>2. /\ Spend("change") /\ UNCHANGED <<nb, adj, dr, chan, boot>>
      /\ ls' = [ls EXCEPT ![r] = d]
  BY <1>0 DEF Learn, TypeOK
<1>3. ls[r].db[k].seq + 1 \in Nat
  BY <1>0, <1>1 DEF LsType, Inst
<1>4. i \in Inst
  BY <1>1, <1>3 DEF NoInst, Inst
<1> HIDE DEF i, k
<1>5. d \in LsType
  BY <1>0, <1>1, <1>4 DEF LsType
<1> HIDE DEF d
<1>6. TypeOK'
  BY <1>0, <1>2, <1>5, EnvType DEF TypeOK
<1>7. ListsFollowState' /\ RetransmissionArmed' /\ HigherIdIsMaster'
  BY <1>2 DEF IInv, ListsFollowState, RetransmissionArmed, HigherIdIsMaster, ListsOf, ArmedOf, LeaderOf
<1> QED BY <1>6, <1>7 DEF IInv

(* a neighbour structure that does not exist satisfies the neighbour invariant *)
LEMMA NoNbInv == NoNb \in NbType /\ NoNb.state = DOWN /\ Idling(NoNb) /\ \A r \in Router : NbInv(r, NoNb)
BY DEF NoNb, NbType, Idling, NbInv, ListsOf, ArmedOf, LeaderOf, DOWN, EXSTART, EXCHANGE, LOADING, FULL

(* the inactivity timer preserves the invariant *)
LEMMA InactivityInv ==
  ASSUME IInv, NEW r \in Router, NEW changed \in BOOLEAN, InactivityTimer(r, changed)
  PROVE  IInv'
<1> DEFINE w == ClearLsa(r, Self(r))
           x == [w EXCEPT !.n = NoNb]
           d == Originate(x.d, Rtr(r), boot[r], changed)
           y == [x EXCEPT !.d = d]
           yes == TRUE
           z == IF adj[r] THEN TimerElect(r, y, yes, changed) ELSE y
<1>0. TypeOK /\ boot[r] \in Nat /\ adj[r] \in BOOLEAN /\ Rtr(r) \in Lsa /\ "dead" \in Budget
  BY KeyType DEF IInv, TypeOK, Budget
<1>1. Spend("dead") /\ Tick(r, z) /\ dr' = [dr EXCEPT ![r] = adj[r]] /\ UNCHANGED <<adj, boot>>
  BY DEF InactivityTimer
<1>2. w \in XType
  BY SelfType, <1>0, ClearLsaType
<1> HIDE DEF w
<1>3. x \in XType /\ x.n = NoNb
  BY <1>2, NoNbInv DEF XType
<1> HIDE DEF x
<1>4. Good(r, x)
  BY <1>3, NoNbInv DEF Good
<1>5. d \in LsType
  BY <1>0, <1>3, OriginateType DEF XType
<1> HIDE DEF d
<1>6. Good(r, y)
  BY <1>4, <1>5, DbGood
<1>7. yes \in BOOLEAN
  OBVIOUS
<1> HIDE DEF y, yes
<1>8. Good(r, z)
  BY <1>0, <1>6, <1>7, TimerElectGood
<1> HIDE DEF z
<1>9. env' \in [Budget -> Nat]
  BY <1>0, <1>1, EnvType
<1>10. OtherType'
  BY <1>0, <1>1, <1>9 DEF OtherType, TypeOK
<1> QED BY <1>1, <1>8, <1>10, TickInv

(* a restart preserves the invariant *)
LEMMA RestartInv == ASSUME IInv, NEW r \in Router, Restart(r) PROVE IInv'
<1>0. TypeOK /\ "boot" \in Budget /\ Spend("boot") /\ BootLs(r) \in LsType
  BY BootType DEF IInv, Budget, Restart
<1>1. env' \in [Budget -> Nat]
  BY <1>0, EnvType
<1>2. TypeOK'
  BY <1>0, <1>1, NoNbInv DEF Restart, TypeOK
<1>3. ListsFollowState' /\ RetransmissionArmed' /\ HigherIdIsMaster'
  BY NoNbInv, NbStep DEF Restart
<1> QED BY <1>2, <1>3 DEF IInv

(* a lost packet preserves the invariant *)
LEMMA LoseInv == ASSUME IInv, NEW r \in Router, Lose(r) PROVE IInv'
<1>0. TypeOK /\ "loss" \in Budget /\ Spend("loss")
  BY DEF IInv, Budget, Lose
<1>1. env' \in [Budget -> Nat]
  BY <1>0, EnvType
<1>2. Tail(chan[r]) \in Seq(Pkt)
  BY <1>0 DEF TypeOK, Lose
<1>3. TypeOK'
  BY <1>0, <1>1, <1>2 DEF Lose, TypeOK
<1>4. ListsFollowState' /\ RetransmissionArmed' /\ HigherIdIsMaster'
  BY DEF Lose, IInv, ListsFollowState, RetransmissionArmed, HigherIdIsMaster, ListsOf, ArmedOf, LeaderOf
<1> QED BY <1>3, <1>4 DEF IInv

(* the invariant holds initially *)
LEMMA InitInv == Init => IInv
<1> SUFFICES ASSUME Init PROVE IInv
  OBVIOUS
<1>1. TypeOK
  BY NoNbInv, BootType DEF Init, TypeOK
<1>2. \A r \in Router : nb[r] = NoNb
  BY DEF Init
<1>3. ListsFollowState /\ RetransmissionArmed /\ HigherIdIsMaster
  BY <1>2, NoNbInv DEF NbInv, ListsFollowState, RetransmissionArmed, HigherIdIsMaster
<1> QED BY <1>1, <1>3 DEF IInv

(* every step keeps the inductive invariant *)
LEMMA NextInv == IInv /\ [Next]_vars => IInv'
<1> SUFFICES ASSUME IInv, [Next]_vars PROVE IInv'
  OBVIOUS
<1>1. CASE UNCHANGED vars
  BY <1>1 DEF vars, IInv, TypeOK, ListsFollowState, RetransmissionArmed, HigherIdIsMaster, ListsOf, ArmedOf, LeaderOf
<1>2. ASSUME NEW r \in Router,
             HelloRx(r) \/ Receive(r) \/ Timer(r) \/ Election(r) \/ Environment(r)
      PROVE  IInv'
  <2>0. Role[r] \subseteq BOOLEAN
    BY SizeAssumption
  <2>1. CASE HelloRx(r)
    BY <2>1, HelloInv
  <2>2. CASE Receive(r)
    BY <2>2, IgnoredInv, MismatchInv, MasterInv, SlaveInv, LsReqInv, LsUpdInv, LsAckInv DEF Receive
  <2>3. CASE Timer(r)
    BY <2>3, RxmtInv, FreeLastInv, NetLsaUpdateInv, AgeOutInv, FloodTimerInv, OldTimerInv, ForeignFlushInv
    DEF Timer, Rxmt, LsaTimers
  <2>4. CASE Election(r)
    BY <2>0, <2>4, WaitInv DEF Election
  <2>5. CASE Environment(r)
    BY <2>0, <2>5, HelloElectInv, InactivityInv, OldTimerInv, LearnInv, RestartInv, LoseInv DEF Environment
  <2> QED BY <1>2, <2>1, <2>2, <2>3, <2>4, <2>5
<1> QED BY <1>1, <1>2 DEF Next

(* Type correctness: the neighbour structure, the database, the packets and   *)
(* the bookkeeping of the model keep their kinds in every behaviour of the    *)
(* two daemons.                                                               *)
THEOREM TypeCorrect == Spec => []TypeOK
<1>1. IInv => TypeOK
  BY DEF IInv
<1> QED BY <1>1, InitInv, NextInv, PTL DEF Spec

(* The lists of the neighbour structure always belong to its state.           *)
THEOREM ListsSafe == Spec => []ListsFollowState
<1>1. IInv => ListsFollowState
  BY DEF IInv
<1> QED BY <1>1, InitInv, NextInv, PTL DEF Spec

(* networkTimeout always has a packet to repeat while an adjacency is being   *)
(* built.                                                                     *)
THEOREM AlwaysArmed == Spec => []RetransmissionArmed
<1>1. IInv => RetransmissionArmed
  BY DEF IInv
<1> QED BY <1>1, InitInv, NextInv, PTL DEF Spec

(* The router with the higher id leads every exchange that dbdescRx accepts.  *)
THEOREM LeaderAgreed == Spec => []HigherIdIsMaster
<1>1. IInv => HigherIdIsMaster
  BY DEF IInv
<1> QED BY <1>1, InitInv, NextInv, PTL DEF Spec

(* ----------------------- instances only get newer ----------------------- *)
(* what the router originated has numbers below seq_number (lsa_originate_rtr) *)
Young(d) == \A l \in Lsa : d.db[<<l, TRUE>>].seq < d.next

NumbersSpent == \A r \in Router : Young(ls[r])

(* what any handler but lsupdateRx does to the database, through any number   *)
(* of removals and originations: an originated entry stays, goes, or gets a   *)
(* number that had not been used before; a learned entry stays or goes        *)
Kept(d, e, k) == e.db[k].seq = 0 \/ e.db[k].seq = d.db[k].seq

Evolves(d, e) ==
  /\ d.next <= e.next
  /\ \A l \in Lsa : \/ Kept(d, e, <<l, TRUE>>)
                    \/ (d.next <= e.db[<<l, TRUE>>].seq /\ e.db[<<l, TRUE>>].seq < e.next)
  /\ \A l \in Lsa : Kept(d, e, <<l, FALSE>>)

(* what a step may do to the database of one router *)
Newer(d, e) ==
  /\ Young(e)
  /\ \A k \in Key : Present(d, k) /\ e.db[k].seq > 0 => e.db[k].seq >= d.db[k].seq

(* the numbers in a database are numbers *)
LEMMA SeqType ==
  ASSUME NEW d \in LsType
  PROVE  /\ d.next \in Nat \ {0}
         /\ \A k \in Key : d.db[k] \in Inst /\ d.db[k].seq \in Nat
         /\ \A l \in Lsa, self \in BOOLEAN : d.db[<<l, self>>].seq \in Nat
<1>1. \A k \in Key : d.db[k] \in Inst /\ d.db[k].seq \in Nat
  BY DEF LsType, Inst
<1> QED BY <1>1, KeyType DEF LsType

(* a database that is left alone *)
LEMMA EvolvesSelf == ASSUME NEW d \in LsType PROVE Evolves(d, d)
BY SeqType DEF Evolves, Kept

(* one handler calls several operations on the database *)
LEMMA EvolvesTrans ==
  ASSUME NEW a \in LsType, NEW b \in LsType, NEW c \in LsType, Evolves(a, b), Evolves(b, c)
  PROVE  Evolves(a, c)
<1>1. a.next \in Nat /\ b.next \in Nat /\ c.next \in Nat /\ a.next <= b.next /\ b.next <= c.next
  BY SeqType DEF Evolves
<1>2. ASSUME NEW l \in Lsa
      PROVE  \/ Kept(a, c, <<l, TRUE>>)
             \/ a.next <= c.db[<<l, TRUE>>].seq /\ c.db[<<l, TRUE>>].seq < c.next
  <2> DEFINE k == <<l, TRUE>>
  <2>1. b.db[k].seq \in Nat /\ c.db[k].seq \in Nat
    BY SeqType
  <2>2. /\ Kept(a, b, k) \/ (a.next <= b.db[k].seq /\ b.db[k].seq < b.next)
        /\ Kept(b, c, k) \/ (b.next <= c.db[k].seq /\ c.db[k].seq < c.next)
    BY DEF Evolves
  <2> HIDE DEF k
  <2>3. Kept(a, c, k) \/ (a.next <= c.db[k].seq /\ c.db[k].seq < c.next)
    BY <1>1, <2>1, <2>2 DEF Kept
  <2> QED BY <2>3 DEF k
<1>3. ASSUME NEW l \in Lsa PROVE Kept(a, c, <<l, FALSE>>)
  <2>1. Kept(a, b, <<l, FALSE>>) /\ Kept(b, c, <<l, FALSE>>)
    BY DEF Evolves
  <2> QED BY <2>1 DEF Kept
<1>4. a.next <= c.next
  BY <1>1
<1> QED BY <1>2, <1>3, <1>4 DEF Evolves

(* a database that evolves never goes back *)
LEMMA EvolvesNewer ==
  ASSUME NEW d \in LsType, NEW e \in LsType, Young(d), Evolves(d, e)
  PROVE  Newer(d, e)
<1>1. d.next \in Nat \ {0} /\ e.next \in Nat \ {0} /\ d.next <= e.next
  BY SeqType DEF Evolves
<1>2. ASSUME NEW l \in Lsa PROVE e.db[<<l, TRUE>>].seq < e.next
  <2> DEFINE k == <<l, TRUE>>
  <2>1. d.db[k].seq \in Nat /\ e.db[k].seq \in Nat /\ d.db[k].seq < d.next
    BY SeqType DEF Young
  <2>2. Kept(d, e, k) \/ e.db[k].seq < e.next
    BY DEF Evolves
  <2> HIDE DEF k
  <2>3. e.db[k].seq < e.next
    BY <1>1, <2>1, <2>2 DEF Kept
  <2> QED BY <2>3 DEF k
<1>3. ASSUME NEW k \in Key, d.db[k].seq > 0, e.db[k].seq > 0 PROVE e.db[k].seq >= d.db[k].seq
  <2>1. k[1] \in Lsa /\ (k = <<k[1], TRUE>> \/ k = <<k[1], FALSE>>)
    BY KeyType
  <2>2. d.db[k].seq \in Nat /\ e.db[k].seq \in Nat
    BY SeqType
  <2>3. CASE k = <<k[1], FALSE>>
    <3>1. Kept(d, e, k)
      BY <2>1, <2>3 DEF Evolves
    <3> QED BY <1>3, <2>2, <3>1 DEF Kept
  <2>4. CASE k = <<k[1], TRUE>>
    <3>1. Kept(d, e, k) \/ d.next <= e.db[k].seq
      BY <2>1, <2>4 DEF Evolves
    <3>2. d.db[k].seq < d.next
      BY <2>1, <2>4 DEF Young
    <3> QED BY <1>1, <1>3, <2>2, <3>1, <3>2 DEF Kept
  <2> QED BY <2>1, <2>3, <2>4
<1> QED BY <1>2, <1>3 DEF Newer, Young, Present

(* lsadbRemove *)
LEMMA RemoveEvolves ==
  ASSUME NEW d \in LsType, NEW ks \in SUBSET Key
  PROVE  Evolves(d, lsadbRemove(d, ks))
<1> DEFINE e == lsadbRemove(d, ks)
<1>1. e.next = d.next
  BY DEF lsadbRemove, LsType
<1>2. \A k \in Key : e.db[k] = IF k \in ks THEN NoInst(k[1]) ELSE d.db[k]
  BY DEF lsadbRemove, LsType
<1>3. \A l : NoInst(l).seq = 0
  BY DEF NoInst
<1> HIDE DEF e
<1>4. \A l \in Lsa, self \in BOOLEAN : Kept(d, e, <<l, self>>)
  BY <1>2, <1>3, KeyType DEF Kept
<1>5. d.next <= e.next
  BY <1>1, SeqType
<1> QED BY <1>4, <1>5 DEF Evolves, e

(* an entry that gets the next number *)
LEMMA NextNumber ==
  ASSUME NEW d \in LsType, NEW e \in LsType, NEW l \in Lsa, e.next = d.next + 1,
         e.db[<<l, TRUE>>].seq \in {d.next, d.db[<<l, TRUE>>].seq},
         \A k \in Key : k # <<l, TRUE>> => e.db[k] = d.db[k]
  PROVE  Evolves(d, e)
<1>1. d.next \in Nat /\ e.next \in Nat
  BY SeqType
<1>2. ASSUME NEW m \in Lsa
      PROVE  \/ Kept(d, e, <<m, TRUE>>)
             \/ d.next <= e.db[<<m, TRUE>>].seq /\ e.db[<<m, TRUE>>].seq < e.next
  <2>1. CASE m = l
    <3>1. d.next <= d.next /\ d.next < e.next
      BY <1>1
    <3> QED BY <2>1, <3>1 DEF Kept
  <2>2. CASE m # l
    <3>1. <<m, TRUE>> \in Key /\ <<m, TRUE>> # <<l, TRUE>>
      BY <2>2, KeyType
    <3> QED BY <3>1 DEF Kept
  <2> QED BY <2>1, <2>2
<1>3. ASSUME NEW m \in Lsa PROVE Kept(d, e, <<m, FALSE>>)
  <2>1. <<m, FALSE>> \in Key /\ <<m, FALSE>> # <<l, TRUE>>
    BY KeyType
  <2> QED BY <2>1 DEF Kept
<1>4. d.next <= e.next
  BY <1>1
<1> QED BY <1>2, <1>3, <1>4 DEF Evolves

(* originating an LSA; what was learned stays as it is *)
LEMMA OriginateEvolves ==
  ASSUME NEW d \in LsType, NEW l \in Lsa, NEW val \in Nat, NEW changed \in BOOLEAN
  PROVE  /\ Evolves(d, Originate(d, l, val, changed))
         /\ \A m \in Lsa : Originate(d, l, val, changed).db[<<m, FALSE>>] = d.db[<<m, FALSE>>]
<1> DEFINE e == Originate(d, l, val, changed)
           k == <<l, TRUE>>
           i == [l |-> l, seq |-> d.next, val |-> val, max |-> FALSE]
<1>1. e \in LsType /\ k \in Key
  BY OriginateType, KeyType
<1>2. i.seq = d.next
  OBVIOUS
<1>3. e.next = d.next + 1 /\ e.db[k] \in {i, d.db[k]} /\ \A j \in Key : j # k => e.db[j] = d.db[j]
  <2>1. CASE Present(d, k) /\ ~changed
    BY <1>1, <2>1 DEF Originate, LsType
  <2>2. CASE ~(Present(d, k) /\ ~changed)
    <3>1. e = [d EXCEPT !.next = @ + 1, !.db[k] = i, !.flood = @ \union {k}, !.old[l] = 0]
      BY <2>2 DEF Originate
    <3> HIDE DEF e, i, k
    <3> QED BY <1>1, <3>1 DEF LsType
  <2> QED BY <2>1, <2>2
<1>4. \A m \in Lsa : <<m, FALSE>> \in Key /\ <<m, FALSE>> # k
  BY KeyType
<1> HIDE DEF e, i
<1>5. e.db[k].seq \in {d.next, d.db[k].seq}
  BY <1>2, <1>3
<1>6. Evolves(d, e)
  BY <1>1, <1>3, <1>5, NextNumber
<1> QED BY <1>3, <1>4, <1>6 DEF e

(* lsa_renew *)
LEMMA RenewEvolves ==
  ASSUME NEW d \in LsType, NEW l \in Lsa
  PROVE  Evolves(d, Renew(d, l))
<1> DEFINE e == Renew(d, l)
           k == <<l, TRUE>>
           i == [d.db[k] EXCEPT !.seq = d.next, !.max = FALSE]
<1>1. e \in LsType /\ k \in Key /\ d.db[k] \in Inst
  BY RenewType, KeyType, SeqType
<1>2. i.seq = d.next
  BY <1>1 DEF Inst
<1>3. e = [d EXCEPT !.next = @ + 1, !.db[k] = i]
  BY DEF Renew
<1> HIDE DEF e, i, k
<1>4. e.next = d.next + 1 /\ e.db[k] = i /\ \A j \in Key : j # k => e.db[j] = d.db[j]
  BY <1>1, <1>3 DEF LsType
<1> QED BY <1>1, <1>2, <1>4, NextNumber DEF e, k

(* a number above the one that came back: seq_number is raised first *)
LEMMA OvertakeEvolves ==
  ASSUME NEW d \in LsType, NEW l \in Lsa
  PROVE  Evolves(d, Overtake(d, l))
<1> DEFINE n == IF d.old[l] > d.next THEN d.old[l] + 1 ELSE d.next
           e == [d EXCEPT !.old[l] = 0, !.next = n]
<1>1. d.old[l] \in Nat /\ d.next \in Nat \ {0}
  BY DEF LsType
<1>2. n \in Nat \ {0} /\ d.next <= n
  BY <1>1
<1> HIDE DEF n
<1>3. e \in LsType /\ e.db = d.db /\ e.next = n
  BY <1>2 DEF LsType
<1> HIDE DEF e
<1>4. Evolves(d, e)
  BY <1>2, <1>3 DEF Evolves, Kept
<1>5. Evolves(e, Renew(e, l)) /\ Renew(e, l) \in LsType
  BY <1>3, RenewEvolves, RenewType
<1>6. Overtake(d, l) = Renew(e, l)
  BY DEF Overtake, e, n
<1> QED BY <1>3, <1>4, <1>5, <1>6, EvolvesTrans

(* what lsupdateRx installs is newer than the learned entry it replaces, and  *)
(* nothing the router originated is replaced                                  *)
LEMMA StoreSeq ==
  ASSUME NEW d \in LsType, NEW hs \in SUBSET Inst
  PROVE  /\ Store(d, hs).next = d.next
         /\ \A l \in Lsa : Store(d, hs).db[<<l, TRUE>>].seq = d.db[<<l, TRUE>>].seq
         /\ \A l \in Lsa : Store(d, hs).db[<<l, FALSE>>].seq >= d.db[<<l, FALSE>>].seq
<1> DEFINE new == {h \in hs : Installs(d, h)}
           newKeys == {<<h.l, FALSE>> : h \in new}
           aged == {<<h.l, Present(d, <<h.l, TRUE>>)>> : h \in {g \in hs : Ages(d, g)}}
           db == [k \in Key |->
                    IF k \in newKeys THEN CHOOSE h \in new : h.l = k[1]
                    ELSE IF k \in aged THEN [d.db[k] EXCEPT !.max = TRUE] ELSE d.db[k]]
           e == Store(d, hs)
<1>1. e.next = d.next /\ e.db = db
  BY DEF Store, LsType
<1>2. \A k \in Key : d.db[k] \in Inst /\ d.db[k].seq \in Nat /\ [d.db[k] EXCEPT !.max = TRUE].seq = d.db[k].seq
  BY SeqType DEF Inst
<1>3. \A k \in Key : k \notin newKeys => db[k].seq = d.db[k].seq
  <2> HIDE DEF newKeys, aged
  <2> QED BY <1>2
<1>4. ASSUME NEW l \in Lsa PROVE <<l, TRUE>> \in Key /\ <<l, TRUE>> \notin newKeys
  BY KeyType
<1>5. ASSUME NEW l \in Lsa, <<l, FALSE>> \in newKeys PROVE db[<<l, FALSE>>].seq >= d.db[<<l, FALSE>>].seq
  <2> DEFINE k == <<l, FALSE>>
             h == CHOOSE g \in new : g.l = l
  <2>1. k \in Key /\ k[1] = l
    BY KeyType
  <2>2. \E g \in new : g.l = l
    BY <1>5
  <2>3. h \in hs /\ Installs(d, h) /\ h.l = l
    BY <2>2
  <2>4. db[k] = h
    <3> HIDE DEF new, newKeys, aged
    <3> QED BY <1>5, <2>1
  <2> HIDE DEF h, db
  <2>5. h.seq \in Nat /\ d.db[k].seq \in Nat /\ d.db[<<l, TRUE>>].seq \in Nat
    BY <2>1, <2>3, <1>2, SeqType DEF Inst
  <2>6. IF d.db[<<l, TRUE>>].seq > 0 THEN FALSE ELSE d.db[k].seq = 0 \/ d.db[k].seq < h.seq
    <3>1. CASE d.db[<<l, TRUE>>].seq > 0
      <4>1. Found(d, h.l).seq # 0 /\ Present(d, <<h.l, TRUE>>)
        BY <2>3, <2>5, <3>1 DEF Found, Present
      <4> QED BY <2>3, <4>1 DEF Installs
    <3>2. CASE ~(d.db[<<l, TRUE>>].seq > 0)
      <4>1. Found(d, h.l) = d.db[k] /\ ~Present(d, <<h.l, TRUE>>)
        BY <2>3, <3>2 DEF Found, Present
      <4> QED BY <2>3, <3>2, <4>1 DEF Installs
    <3> QED BY <3>1, <3>2
  <2>7. h.seq >= d.db[k].seq
    BY <2>5, <2>6
  <2> QED BY <2>4, <2>7
<1> HIDE DEF db, newKeys
<1>6. \A l \in Lsa : db[<<l, TRUE>>].seq = d.db[<<l, TRUE>>].seq
  BY <1>3, <1>4
<1>7. ASSUME NEW l \in Lsa PROVE db[<<l, FALSE>>].seq >= d.db[<<l, FALSE>>].seq
  <2>1. <<l, FALSE>> \in Key /\ d.db[<<l, FALSE>>].seq \in Nat
    BY KeyType, SeqType
  <2>2. CASE <<l, FALSE>> \in newKeys
    BY <1>5, <2>2
  <2>3. CASE <<l, FALSE>> \notin newKeys
    <3>1. db[<<l, FALSE>>].seq = d.db[<<l, FALSE>>].seq
      BY <1>3, <2>1, <2>3
    <3> QED BY <2>1, <3>1
  <2> QED BY <2>2, <2>3
<1> QED BY <1>1, <1>6, <1>7 DEF e

(* an update is stored, and an origination may follow *)
LEMMA StoreNewer ==
  ASSUME NEW d \in LsType, NEW hs \in SUBSET Inst, Young(d), NEW e \in LsType,
         Evolves(Store(d, hs), e),
         \A l \in Lsa : e.db[<<l, FALSE>>].seq = Store(d, hs).db[<<l, FALSE>>].seq
  PROVE  Newer(d, e)
<1> DEFINE s == Store(d, hs)
<1>1. s \in LsType
  BY StoreType
<1>2. /\ s.next = d.next
      /\ \A l \in Lsa : s.db[<<l, TRUE>>].seq = d.db[<<l, TRUE>>].seq
      /\ \A l \in Lsa : s.db[<<l, FALSE>>].seq >= d.db[<<l, FALSE>>].seq
  BY StoreSeq
<1>3. Evolves(s, e) /\ \A l \in Lsa : e.db[<<l, FALSE>>].seq = s.db[<<l, FALSE>>].seq
  OBVIOUS
<1> HIDE DEF s
<1>4. Young(s)
  BY <1>2 DEF Young
<1>5. Newer(s, e)
  BY <1>1, <1>3, <1>4, EvolvesNewer
<1>6. ASSUME NEW k \in Key, d.db[k].seq > 0, e.db[k].seq > 0 PROVE e.db[k].seq >= d.db[k].seq
  <2>1. k[1] \in Lsa /\ (k = <<k[1], TRUE>> \/ k = <<k[1], FALSE>>)
    BY KeyType
  <2>2. CASE k = <<k[1], FALSE>>
    <3>1. s.db[k].seq >= d.db[k].seq /\ e.db[k].seq = s.db[k].seq
      BY <1>2, <1>3, <2>1, <2>2
    <3> QED BY <3>1
  <2>3. CASE k = <<k[1], TRUE>>
    <3>1. s.db[k].seq = d.db[k].seq
      BY <1>2, <2>1, <2>3
    <3> QED BY <1>5, <1>6, <3>1 DEF Newer, Present
  <2> QED BY <2>1, <2>2, <2>3
<1> QED BY <1>5, <1>6 DEF Newer, Present

(* a learned instance gets the next number of its originator *)
LEMMA LearnNewer ==
  ASSUME NEW d \in LsType, NEW e \in LsType, NEW l \in Lsa, Young(d), e.next = d.next,
         e.db[<<l, FALSE>>].seq = d.db[<<l, FALSE>>].seq + 1,
         \A k \in Key : k # <<l, FALSE>> => e.db[k] = d.db[k]
  PROVE  Newer(d, e)
<1>1. \A k \in Key : d.db[k].seq \in Nat
  BY SeqType
<1>2. ASSUME NEW m \in Lsa PROVE e.db[<<m, TRUE>>].seq < e.next
  <2>1. <<m, TRUE>> \in Key /\ <<m, TRUE>> # <<l, FALSE>>
    BY KeyType
  <2> QED BY <2>1 DEF Young
<1>3. ASSUME NEW k \in Key PROVE e.db[k].seq >= d.db[k].seq
  <2>1. CASE k = <<l, FALSE>>
    BY <1>1, <2>1
  <2>2. CASE k # <<l, FALSE>>
    <3>1. e.db[k] = d.db[k] /\ d.db[k].seq \in Nat
      BY <1>1, <2>2
    <3> QED BY <3>1
  <2> QED BY <2>1, <2>2
<1> QED BY <1>2, <1>3 DEF Newer, Young

(* -- the handlers that leave the database alone -- *)
(* start_adj and the events built on it *)
LEMMA StartAdjDb ==
  ASSUME TypeOK, NEW r \in Router, NEW x \in XType
  PROVE  StartAdj(r, x).d = x.d /\ TwoWayReceived(r, x).d = x.d /\ SeqNumberMismatch(r, x).d = x.d
<1>1. ASSUME NEW z \in XType PROVE StartAdj(r, z).d = z.d
  <2> DEFINE t == (IF z.n.ddseq = 0 THEN Time(r) ELSE z.n.ddseq) + 1
             y == [z EXCEPT !.n.state = EXSTART, !.n.ddseq = t, !.n.master = TRUE]
  <2>1. t \in Nat
    BY TimeType DEF XType, NbType
  <2> HIDE DEF t
  <2>2. y \in XType /\ y.d = z.d
    BY <2>1 DEF XType, NbType
  <2> HIDE DEF y
  <2> DEFINE yes == TRUE
  <2>3. StartAdj(r, z) = BuildDd(y, yes, yes, {})
    BY DEF StartAdj, t, y
  <2> HIDE DEF yes
  <2>4. BuildDd(y, yes, yes, {}).d = y.d
    BY <2>2, BuildDdFields
  <2> QED BY <2>2, <2>3, <2>4
<1>2. TwoWayReceived(r, x).d = x.d
  <2>1. [x EXCEPT !.n.state = TWOWAY].d = x.d
    BY DEF XType
  <2> QED BY <1>1, <2>1 DEF TwoWayReceived
<1>3. SeqNumberMismatch(r, x).d = x.d
  <2> DEFINE y == [x EXCEPT !.n.ddseq = @ + 1, !.n.lastdd = NoPkt, !.n.lastreq = NoPkt]
  <2>0. x.n.ddseq + 1 \in Nat
    BY DEF XType, NbType
  <2>1. y \in XType /\ y.d = x.d
    BY <2>0 DEF XType, NbType
  <2> HIDE DEF y
  <2>2. ClearLists(y) \in XType /\ ClearLists(y).d = y.d
    BY <2>1, ClearListsType DEF ClearLists, XType
  <2>3. SeqNumberMismatch(r, x) = StartAdj(r, ClearLists(y))
    BY DEF SeqNumberMismatch, y
  <2> QED BY <1>1, <2>1, <2>2, <2>3
<1> QED BY <1>1, <1>2, <1>3

(* accepting a DD packet *)
LEMMA AcceptedDb ==
  ASSUME NEW r \in Router, NEW x \in XType, NEW p \in DdPkt
  PROVE  Accepted(r, x, p).d = x.d /\ Accepted(r, x, p) \in XType
<1> DEFINE s == [x EXCEPT !.n.master = FALSE, !.n.ddseq = p.seq]
           t == [x EXCEPT !.n.master = TRUE]
           u == [x EXCEPT !.n.ddsum = @ \ x.n.sent, !.n.sent = {}]
           y == IF NegotiatesSlave(r, x.n, p) THEN NegotiationDone(s)
                ELSE IF NegotiatesMaster(r, x.n, p) THEN NegotiationDone(t) ELSE u
           w == Wanted(x.d, p.hs)
           z == [y EXCEPT !.n.lsreq = @ \union w]
<1>0. p.seq \in Nat
  BY DEF DdPkt
<1>1. s \in XType /\ s.d = x.d
  BY <1>0 DEF XType, NbType
<1>2. t \in XType /\ t.d = x.d
  BY DEF XType, NbType
<1>3. u \in XType /\ u.d = x.d
  BY DEF XType, NbType
<1>4. \A v \in XType : NegotiationDone(v) \in XType /\ NegotiationDone(v).d = v.d
  BY NegotiationType DEF NegotiationDone, XType
<1>5. z = Accepted(r, x, p)
  BY DEF Accepted
<1> HIDE DEF s, t, u, w
<1>6. y \in XType /\ y.d = x.d
  BY <1>1, <1>2, <1>3, <1>4
<1> HIDE DEF y
<1>7. w \in SUBSET Lsa
  BY WantedType DEF XType, DdPkt, w
<1>8. z.d = y.d /\ z \in XType
  BY <1>6, <1>7 DEF XType, NbType
<1> QED BY <1>5, <1>6, <1>8

(* flooding *)
LEMMA FloodDb ==
  ASSUME NEW x \in XType, NEW k \in Key, NEW i \in Inst, NEW isdr \in BOOLEAN
  PROVE  Flood(x, k, i, isdr).d = x.d
<1> DEFINE y == [x EXCEPT !.n.rxmt = {j \in @ : j.l # i.l} \union {i}]
<1>1. y \in XType /\ y.d = x.d
  BY DEF XType, NbType
<1>2. Send(y, LsUpd({i})).d = x.d
  <2> HIDE DEF y
  <2> QED BY <1>1, PktType, SendType
<1> QED BY <1>2 DEF Flood

(* -- the handlers that remove or originate -- *)
LEMMA FlushEvolves ==
  ASSUME NEW x \in XType, NEW k \in Key, NEW isdr \in BOOLEAN
  PROVE  Evolves(x.d, FlushLsa(x, k, isdr).d)
<1> DEFINE i == [x.d.db[k] EXCEPT !.max = TRUE]
           y == IF Present(x.d, k) THEN Flood(x, k, i, isdr) ELSE x
           z == FlushLsa(x, k, isdr)
<1>1. i \in Inst
  <2>1. x.d.db[k] \in Inst
    BY DEF XType, LsType
  <2> QED BY <2>1, MaxAgeInst
<1>2. y \in XType /\ y.d = x.d
  <2> HIDE DEF i
  <2> QED BY <1>1, FloodType, FloodDb
<1>3. z = [y EXCEPT !.d = lsadbRemove(@, {k})]
  BY DEF FlushLsa
<1> HIDE DEF y, z
<1>4. z.d = lsadbRemove(x.d, {k})
  BY <1>2, <1>3 DEF XType
<1>5. Evolves(x.d, lsadbRemove(x.d, {k}))
  BY RemoveEvolves DEF XType
<1> QED BY <1>4, <1>5 DEF z

(* clear_lsa and nfsm1Way remove what the peer originated *)
LEMMA ClearLsaEvolves ==
  ASSUME NEW r \in Router, NEW x \in XType
  PROVE  Evolves(x.d, ClearLsa(r, x).d) /\ Evolves(x.d, OneWay(r, x).d)
<1> DEFINE ks == {<<Rtr(Peer(r)), FALSE>>, <<Net(Peer(r)), FALSE>>}
<1>1. ks \in SUBSET Key
  BY PeerType, KeyType
<1>2. ASSUME NEW z \in XType PROVE Evolves(z.d, ClearLsa(r, z).d)
  <2>1. ClearLists(z) \in XType /\ ClearLists(z).d = z.d
    BY ClearListsType DEF ClearLists, XType
  <2>2. ClearLsa(r, z).d = lsadbRemove(z.d, ks)
    <3> HIDE DEF ks
    <3> QED BY <2>1 DEF ClearLsa, XType, ks
  <2> HIDE DEF ks
  <2> QED BY <1>1, <2>2, RemoveEvolves DEF XType
<1>3. [x EXCEPT !.n.state = INIT] \in XType /\ [x EXCEPT !.n.state = INIT].d = x.d
  BY DEF XType, NbType
<1>4. Evolves(x.d, x.d)
  BY EvolvesSelf DEF XType
<1> QED BY <1>2, <1>3, <1>4 DEF OneWay

(* lsa_originate_net_update and the transition to Full *)
LEMMA NetUpdateEvolves ==
  ASSUME TypeOK, NEW r \in Router, NEW x \in XType, NEW isdr \in BOOLEAN
  PROVE  Evolves(x.d, NetUpdate(r, x, isdr).d)
<1> DEFINE d == Originate(x.d, Net(r), boot[r], FALSE)
<1>1. Evolves(x.d, d)
  BY OriginateEvolves, KeyType DEF TypeOK, XType
<1>2. [x EXCEPT !.d = d].d = d
  BY DEF XType
<1>3. Evolves(x.d, FlushLsa(x, <<Net(r), TRUE>>, isdr).d)
  BY FlushEvolves, KeyType
<1> QED BY <1>1, <1>2, <1>3 DEF NetUpdate

(* going Full originates at most; what was learned stays *)
LEMMA GoFullEvolves ==
  ASSUME TypeOK, NEW r \in Router, NEW x \in XType
  PROVE  /\ GoFull(r, x).d \in LsType
         /\ Evolves(x.d, GoFull(r, x).d)
         /\ \A l \in Lsa : GoFull(r, x).d.db[<<l, FALSE>>] = x.d.db[<<l, FALSE>>]
<1> DEFINE d == Originate(x.d, Net(r), boot[r], FALSE)
<1>0. Net(r) \in Lsa /\ boot[r] \in Nat /\ x.d \in LsType
  BY KeyType DEF TypeOK, XType
<1>1. d \in LsType /\ Evolves(x.d, d) /\ \A l \in Lsa : d.db[<<l, FALSE>>] = x.d.db[<<l, FALSE>>]
  BY <1>0, OriginateEvolves, OriginateType
<1>2. x.d \in LsType /\ Evolves(x.d, x.d)
  BY EvolvesSelf DEF XType
<1> HIDE DEF d
<1>3. GoFull(r, x).d = IF dr[r] THEN d ELSE x.d
  BY DEF GoFull, XType, d
<1> QED BY <1>1, <1>2, <1>3

(* nfsmExchangeDone *)
LEMMA ExchangeDoneEvolves ==
  ASSUME TypeOK, NEW r \in Router, NEW x \in XType, NEW c \in SUBSET Lsa
  PROVE  Evolves(x.d, ExchangeDone(r, x, c).d)
<1> DEFINE y == [x EXCEPT !.n.lastdd = NoPkt]
           z == [y EXCEPT !.n.state = LOADING]
           w == [z EXCEPT !.n.lastreq = LsReq(c)]
<1>1. y \in XType /\ y.d = x.d
  BY DEF XType, NbType
<1> HIDE DEF y
<1>2. z \in XType /\ z.d = y.d
  BY <1>1 DEF XType, NbType
<1> HIDE DEF z
<1>3. LsReq(c) \in ReqPkt
  BY PktType
<1>4. w \in XType /\ w.d = z.d
  BY <1>2, <1>3 DEF XType, NbType
<1>5. BuildReq(z, c) = Send(w, LsReq(c))
  BY DEF BuildReq
<1> HIDE DEF w
<1>6. Send(w, LsReq(c)).d = w.d
  BY <1>3, <1>4, SendType, PktType
<1>7. Evolves(y.d, GoFull(r, y).d)
  BY <1>1, GoFullEvolves
<1>8. Evolves(x.d, x.d)
  BY EvolvesSelf DEF XType
<1> QED BY <1>1, <1>2, <1>4, <1>5, <1>6, <1>7, <1>8 DEF ExchangeDone, y, z

(* an election, in a handler or in a timer branch *)
LEMMA ElectEvolves ==
  ASSUME TypeOK, NEW r \in Router, NEW x \in XType, NEW isdr \in BOOLEAN, NEW changed \in BOOLEAN
  PROVE  Evolves(x.d, Elect(r, x, isdr, changed).d)
<1> DEFINE x1 == IF isdr /\ x.n.state = FULL
                 THEN [x EXCEPT !.d = Originate(@, Net(r), boot[r], FALSE)] ELSE x
           x2 == IF x1.n.state = TWOWAY THEN StartAdj(r, x1) ELSE x1
           d3 == Originate(x2.d, Rtr(r), boot[r], changed)
           d4 == IF isdr THEN [d3 EXCEPT !.upd = TRUE] ELSE d3
           x3 == [x2 EXCEPT !.d = d4]
           y == Elect(r, x, isdr, changed)
<1>0. boot[r] \in Nat /\ Rtr(r) \in Lsa /\ Net(r) \in Lsa /\ x.d \in LsType
  BY KeyType DEF TypeOK, XType
<1>1. x1 \in XType /\ Evolves(x.d, x1.d)
  <2> DEFINE d1 == Originate(x.d, Net(r), boot[r], FALSE)
  <2>1. d1 \in LsType /\ Evolves(x.d, d1) /\ Evolves(x.d, x.d)
    BY <1>0, OriginateType, OriginateEvolves, EvolvesSelf
  <2> HIDE DEF d1
  <2>2. [x EXCEPT !.d = d1] \in XType /\ [x EXCEPT !.d = d1].d = d1
    BY <2>1 DEF XType
  <2> QED BY <2>1, <2>2 DEF d1
<1>5. y = IF ~adj[r] \/ isdr # dr[r] THEN NetUpdate(r, x3, isdr) ELSE x3
  BY DEF Elect
<1> HIDE DEF x1, y
<1>2. x2 \in XType /\ x2.d = x1.d
  BY <1>1, StartAdjType, StartAdjDb
<1> HIDE DEF x2
<1>3. d3 \in LsType /\ Evolves(x2.d, d3)
  BY <1>0, <1>2, OriginateType, OriginateEvolves DEF XType
<1> HIDE DEF d3
<1>4. d4 \in LsType /\ Evolves(x2.d, d4)
  <2>1. [d3 EXCEPT !.upd = TRUE] \in LsType /\ [d3 EXCEPT !.upd = TRUE].db = d3.db /\ [d3 EXCEPT !.upd = TRUE].next = d3.next
    BY <1>3 DEF LsType
  <2>2. Evolves(x2.d, [d3 EXCEPT !.upd = TRUE])
    BY <1>3, <2>1 DEF Evolves, Kept
  <2> QED BY <1>3, <2>1, <2>2
<1> HIDE DEF d4
<1>6. x3 \in XType /\ x3.d = d4
  BY <1>2, <1>4 DEF XType
<1> HIDE DEF x3
<1>7. x1.d \in LsType /\ Evolves(x.d, x3.d)
  BY <1>0, <1>1, <1>2, <1>4, <1>6, EvolvesTrans DEF XType
<1>8. NetUpdate(r, x3, isdr).d \in LsType /\ Evolves(x3.d, NetUpdate(r, x3, isdr).d)
  BY <1>6, NetUpdateEvolves, NetUpdateType DEF XType
<1>9. Evolves(x.d, NetUpdate(r, x3, isdr).d)
  BY <1>0, <1>4, <1>6, <1>7, <1>8, EvolvesTrans
<1> QED BY <1>5, <1>7, <1>9 DEF y

(* ... and the network-LSA update that a timer branch adds *)
LEMMA TimerElectEvolves ==
  ASSUME TypeOK, NEW r \in Router, NEW x \in XType, NEW isdr \in BOOLEAN, NEW changed \in BOOLEAN
  PROVE  Evolves(x.d, TimerElect(r, x, isdr, changed).d)
<1> DEFINE y == Elect(r, x, isdr, changed)
           z == [y EXCEPT !.d.upd = FALSE]
<1>1. y \in XType /\ Evolves(x.d, y.d)
  BY ElectType, ElectEvolves
<1>5. TimerElect(r, x, isdr, changed) = IF y.d.upd THEN NetUpdate(r, z, isdr) ELSE y
  BY DEF TimerElect
<1> HIDE DEF y
<1>2. z \in XType /\ z.d.db = y.d.db /\ z.d.next = y.d.next
  BY <1>1 DEF XType, LsType
<1> HIDE DEF z
<1>3. Evolves(x.d, z.d)
  BY <1>1, <1>2 DEF Evolves, Kept
<1>4. NetUpdate(r, z, isdr).d \in LsType /\ Evolves(z.d, NetUpdate(r, z, isdr).d)
  BY <1>2, NetUpdateEvolves, NetUpdateType DEF XType
<1>6. x.d \in LsType /\ z.d \in LsType
  BY <1>2 DEF XType
<1>7. Evolves(x.d, NetUpdate(r, z, isdr).d)
  BY <1>3, <1>4, <1>6, EvolvesTrans
<1> QED BY <1>1, <1>5, <1>7

(* a received hello *)
LEMMA HelloEvolves ==
  ASSUME TypeOK, NEW r \in Router
  PROVE  Evolves(ls[r], HelloReceived(r).d)
<1> DEFINE x == Self(r)
           y == IF x.n.state = DOWN THEN [x EXCEPT !.n.state = INIT] ELSE x
<1>1. x \in XType /\ x.d = ls[r]
  BY SelfType DEF Self
<1>2. HelloReceived(r) = IF HelloSeen(r) THEN TwoWayReceived(r, y) ELSE OneWay(r, y)
  BY DEF HelloReceived
<1> HIDE DEF x
<1>3. y \in XType /\ y.d = ls[r]
  BY <1>1 DEF XType, NbType
<1> HIDE DEF y
<1>4. TwoWayReceived(r, y).d = y.d /\ Evolves(y.d, OneWay(r, y).d) /\ Evolves(y.d, y.d)
  BY <1>3, StartAdjDb, ClearLsaEvolves, EvolvesSelf DEF XType
<1> QED BY <1>2, <1>3, <1>4

(* what NeverOlder says of one step *)
NotOlder ==
  \A r \in Router, k \in Key :
    Present(ls[r], k) /\ ls'[r].db[k].seq > 0 => ls'[r].db[k].seq >= ls[r].db[k].seq

(* one router's database changes *)
LEMMA DbStep ==
  ASSUME TypeOK, NumbersSpent, NEW r \in Router, NEW e, Newer(ls[r], e), ls' = [ls EXCEPT ![r] = e]
  PROVE  NumbersSpent' /\ NotOlder
<1>1. \A q \in Router : ls'[q] = IF q = r THEN e ELSE ls[q]
  BY DEF TypeOK
<1>2. ASSUME NEW q \in Router PROVE Young(ls'[q])
  BY <1>1 DEF NumbersSpent, Newer
<1>3. ASSUME NEW q \in Router, NEW k \in Key, Present(ls[q], k), ls'[q].db[k].seq > 0
      PROVE  ls'[q].db[k].seq >= ls[q].db[k].seq
  <2>1. CASE q = r
    BY <1>1, <1>3, <2>1 DEF Newer
  <2>2. CASE q # r
    <3>1. ls[q].db[k].seq \in Nat /\ ls'[q] = ls[q]
      BY <1>1, <2>2, SeqType DEF TypeOK
    <3> QED BY <3>1
  <2> QED BY <2>1, <2>2
<1>4. NumbersSpent'
  BY <1>2 DEF NumbersSpent, Young
<1> QED BY <1>3, <1>4 DEF NotOlder

(* a handler or a timer branch whose database evolves *)
LEMMA EvolveStep ==
  ASSUME TypeOK, NumbersSpent, NEW r \in Router, NEW x, x.d \in LsType, Evolves(ls[r], x.d),
         Tick(r, x) \/ Rx(r, x)
  PROVE  NumbersSpent' /\ NotOlder
<1>1. Newer(ls[r], x.d)
  BY EvolvesNewer DEF TypeOK, NumbersSpent
<1>2. ls' = [ls EXCEPT ![r] = x.d]
  BY DEF Tick, Rx
<1> QED BY <1>1, <1>2, DbStep

(* a handler or a timer branch that leaves the database alone *)
LEMMA SameStep ==
  ASSUME TypeOK, NumbersSpent, NEW r \in Router, NEW x, x.d = ls[r], Tick(r, x) \/ Rx(r, x)
  PROVE  NumbersSpent' /\ NotOlder
<1>1. ls[r] \in LsType
  BY DEF TypeOK
<1> QED BY <1>1, EvolvesSelf, EvolveStep

(* the databases are left alone *)
LEMMA IdleStep == ASSUME TypeOK, NumbersSpent, ls' = ls PROVE NumbersSpent' /\ NotOlder
<1>1. \A r \in Router, k \in Key : ls[r].db[k].seq \in Nat
  BY SeqType DEF TypeOK
<1>2. NumbersSpent'
  BY DEF NumbersSpent, Young
<1> QED BY <1>1, <1>2 DEF NotOlder

(* elections and hellos *)
LEMMA ElectionNewer ==
  ASSUME TypeOK, NumbersSpent, NEW r \in Router, NEW isdr \in BOOLEAN, NEW changed \in BOOLEAN,
         HelloRx(r) \/ HelloRxElect(r, isdr, changed) \/ WaitTimer(r, isdr, changed)
  PROVE  NumbersSpent' /\ NotOlder
<1> DEFINE h == HelloReceived(r)
           e == Elect(r, h, isdr, changed)
           t == TimerElect(r, Self(r), isdr, changed)
<1>1. Self(r) \in XType /\ Self(r).d = ls[r]
  BY SelfType DEF Self
<1>2. h \in XType /\ Evolves(ls[r], h.d)
  BY HelloType, HelloEvolves
<1>3. Tick(r, h) \/ Tick(r, e) \/ Tick(r, t)
  BY DEF HelloRx, HelloRxElect, WaitTimer
<1> HIDE DEF h
<1>4. e \in XType /\ Evolves(h.d, e.d)
  BY <1>2, ElectType, ElectEvolves
<1>5. t \in XType /\ Evolves(ls[r], t.d)
  BY <1>1, TimerElectType, TimerElectEvolves
<1> HIDE DEF e, t
<1>6. h.d \in LsType /\ e.d \in LsType /\ t.d \in LsType /\ ls[r] \in LsType
  BY <1>2, <1>4, <1>5 DEF XType, TypeOK
<1>7. Evolves(ls[r], e.d)
  BY <1>2, <1>4, <1>6, EvolvesTrans
<1> QED BY <1>2, <1>3, <1>5, <1>6, <1>7, EvolveStep

(* received DD packets and requests *)
LEMMA ExchangeNewer ==
  ASSUME TypeOK, NumbersSpent, NEW r \in Router,
         \/ DdRxIgnored(r) \/ DdRxMismatch(r) \/ DdRxMaster(r) \/ DdRxSlave(r)
         \/ LsReqRx(r) \/ BadLsReqRx(r) \/ LsAckRx(r)
  PROVE  NumbersSpent' /\ NotOlder
<1> DEFINE p == Head(chan[r])
           v == DdReceiver(r)
           x == Accepted(r, v, p)
<1>0. Self(r) \in XType /\ Self(r).d = ls[r]
  BY SelfType DEF Self
<1>1. v \in XType /\ v.d = ls[r]
  BY <1>0, TwoWayType, StartAdjDb DEF DdReceiver
<1>2. CASE DdRxIgnored(r)
  BY <1>1, <1>2, SameStep DEF DdRxIgnored
<1>3. CASE DdRxMismatch(r) \/ BadLsReqRx(r)
  <2>1. SeqNumberMismatch(r, Self(r)).d = ls[r]
    BY <1>0, StartAdjDb
  <2> QED BY <1>3, <2>1, SameStep DEF DdRxMismatch, BadLsReqRx
<1>4. ASSUME DdRxMaster(r) \/ DdRxSlave(r) PROVE p \in DdPkt /\ x.d = ls[r] /\ x \in XType /\ Accepts(r, v.n, p)
  <2>1. p \in DdPkt /\ Accepts(r, v.n, p)
    BY <1>4, HeadType DEF DdRxMaster, DdRxSlave, Arrived
  <2> HIDE DEF p, v
  <2>2. x.d = v.d /\ x \in XType
    BY <1>1, <2>1, AcceptedDb
  <2> QED BY <1>1, <2>1, <2>2
<1>5. ASSUME NEW y \in XType, y.d = ls[r], NEW c \in SUBSET Lsa, Rx(r, ExchangeDone(r, y, c))
      PROVE  NumbersSpent' /\ NotOlder
  <2>1. ExchangeDone(r, y, c).d \in LsType /\ Evolves(ls[r], ExchangeDone(r, y, c).d)
    BY <1>5, ExchangeDoneType, ExchangeDoneEvolves DEF XType
  <2> QED BY <1>5, <2>1, EvolveStep
<1>6. CASE DdRxMaster(r)
  <2>1. CASE x.n.more0 /\ ~p.more
    <3> DEFINE y == [x EXCEPT !.n.more0 = FALSE]
    <3>1. PICK c \in Chunk(x.n.lsreq, LsReqMax) : Rx(r, ExchangeDone(r, y, c))
      BY <1>6, <2>1 DEF DdRxMaster
    <3>2. x \in XType /\ x.d = ls[r]
      BY <1>4, <1>6
    <3> HIDE DEF x
    <3>3. y \in XType /\ y.d = ls[r] /\ x.n.lsreq \in SUBSET Lsa
      BY <3>2 DEF XType, NbType
    <3>4. c \in SUBSET Lsa
      BY <3>3, ChunkSubset
    <3> HIDE DEF y
    <3> QED BY <1>5, <3>1, <3>3, <3>4
  <2>2. CASE ~(x.n.more0 /\ ~p.more)
    <3> DEFINE y == [x EXCEPT !.n.ddseq = @ + 1, !.n.more0 = @ \/ x.n.ddsum = {}]
               more == x.n.ddsum # {}
               yes == TRUE
    <3>1. PICK c \in Chunk(x.n.ddsum, DdMax) : Rx(r, BuildDd(y, more, yes, c))
      BY <1>6, <2>2 DEF DdRxMaster
    <3> HIDE DEF x
    <3>2. x \in XType /\ x.d = ls[r] /\ x.n.ddseq + 1 \in Nat /\ (x.n.more0 \/ x.n.ddsum = {}) \in BOOLEAN
      BY <1>4, <1>6 DEF XType, NbType
    <3>3. y \in XType /\ y.d = ls[r]
      BY <3>2 DEF XType, NbType
    <3> HIDE DEF y, more, yes
    <3>4. BuildDd(y, more, yes, c).d = ls[r]
      BY <3>3, BuildDdFields
    <3> QED BY <3>1, <3>4, SameStep
  <2> QED BY <2>1, <2>2
<1>7. CASE DdRxSlave(r)
  <2> DEFINE z == [x EXCEPT !.n.ddseq = p.seq]
             more == x.n.ddsum # {} \/ p.more
             no == FALSE
  <2>1. PICK c \in Chunk(x.n.ddsum, DdMax) :
           \/ \E q \in Chunk(x.n.lsreq, LsReqMax) : Rx(r, ExchangeDone(r, BuildDd(z, more, no, c), q))
           \/ Rx(r, BuildDd(z, more, no, c))
    BY <1>7 DEF DdRxSlave
  <2>2. p.seq \in Nat /\ p.more \in BOOLEAN
    BY <1>4, <1>7 DEF DdPkt
  <2>3. more \in BOOLEAN /\ no \in BOOLEAN
    BY <2>2
  <2>4. x \in XType /\ x.d = ls[r]
    BY <1>4, <1>7
  <2> HIDE DEF x, p
  <2>5. z \in XType /\ z.d = ls[r] /\ x.n.ddsum \in SUBSET Inst /\ x.n.lsreq \in SUBSET Lsa
    BY <2>2, <2>4 DEF XType, NbType
  <2>6. z \in XType /\ z.d = ls[r] /\ c \in SUBSET Inst /\ \A q \in Chunk(x.n.lsreq, LsReqMax) : q \in SUBSET Lsa
    <3> HIDE DEF z
    <3> QED BY <2>5, ChunkSubset
  <2> HIDE DEF z, more, no
  <2>7. BuildDd(z, more, no, c).d = ls[r] /\ BuildDd(z, more, no, c) \in XType
    BY <2>3, <2>6, BuildDdFields, BuildDdType
  <2> QED BY <1>5, <2>1, <2>6, <2>7, SameStep
<1>8. CASE LsReqRx(r)
  <2>1. \/ Rx(r, Self(r))
        \/ \E c \in Chunk(p.ids, UpdMax) : Rx(r, Send(Self(r), LsUpd({Found(Self(r).d, l) : l \in c})))
    BY <1>8 DEF LsReqRx
  <2>2. \A q : Send(Self(r), q).d = ls[r]
    BY <1>0 DEF Send, XType
  <2> QED BY <1>0, <2>1, <2>2, SameStep
<1>9. CASE LsAckRx(r)
  <2> DEFINE q == {j \in Self(r).n.rxmt : j.l \notin {h.l : h \in Head(chan[r]).hs}}
  <2>1. Rx(r, Self(r)) \/ Rx(r, [Self(r) EXCEPT !.n.rxmt = q])
    BY <1>9 DEF LsAckRx
  <2>2. [Self(r) EXCEPT !.n.rxmt = q].d = ls[r]
    BY <1>0 DEF XType
  <2> QED BY <1>0, <2>1, <2>2, SameStep
<1> QED BY <1>2, <1>3, <1>6, <1>7, <1>8, <1>9

(* a received update *)
LEMMA LsUpdNewer ==
  ASSUME TypeOK, NumbersSpent, NEW r \in Router, LsUpdRx(r)
  PROVE  NumbersSpent' /\ NotOlder
<1> DEFINE x == Self(r)
           hs == Head(chan[r]).hs
           ids == {h.l : h \in hs}
           d == Store(x.d, hs)
           q == {j \in x.n.rxmt : j.l \notin ids}
           w == [x EXCEPT !.d = d, !.n.lsreq = @ \ ids, !.n.rxmt = q]
           y == Send(w, LsAck(hs))
<1>1. hs \in SUBSET Inst
  BY HeadType DEF LsUpdRx, Arrived
<1>2. x \in XType /\ x.d = ls[r] /\ Young(x.d)
  BY SelfType DEF Self, NumbersSpent
<1>3. \/ Rx(r, x) \/ Rx(r, y) \/ Rx(r, GoFull(r, y))
      \/ \E c \in Chunk(y.n.lsreq, LsReqMax) : Rx(r, BuildReq(y, c))
  BY DEF LsUpdRx
<1> HIDE DEF x, hs, ids
<1>4. d \in LsType /\ LsAck(hs) \in Pkt
  BY <1>1, <1>2, StoreType, PktType DEF XType
<1>5. q \in SUBSET Inst
  BY <1>2 DEF XType, NbType
<1> HIDE DEF q
<1>6. w \in XType /\ w.d = d
  <2> HIDE DEF d
  <2> QED BY <1>2, <1>4, <1>5 DEF XType, NbType
<1> HIDE DEF w
<1>7. y \in XType /\ y.d = d
  BY <1>4, <1>6, SendType
<1> HIDE DEF y
<1>8. ASSUME NEW e \in LsType, Evolves(d, e), \A l \in Lsa : e.db[<<l, FALSE>>] = d.db[<<l, FALSE>>],
             ls' = [ls EXCEPT ![r] = e]
      PROVE  NumbersSpent' /\ NotOlder
  <2>1. Newer(x.d, e)
    BY <1>1, <1>2, <1>8, StoreNewer DEF XType
  <2> QED BY <1>2, <1>8, <2>1, DbStep
<1>9. Evolves(d, d)
  BY <1>4, EvolvesSelf
<1>10. CASE Rx(r, x)
  BY <1>2, <1>10, SameStep
<1>11. CASE Rx(r, y)
  BY <1>4, <1>7, <1>8, <1>9, <1>11 DEF Rx
<1>12. CASE Rx(r, GoFull(r, y))
  <2>1. /\ GoFull(r, y).d \in LsType /\ Evolves(d, GoFull(r, y).d)
        /\ \A l \in Lsa : GoFull(r, y).d.db[<<l, FALSE>>] = d.db[<<l, FALSE>>]
    BY <1>7, GoFullEvolves
  <2> HIDE DEF d
  <2> QED BY <1>8, <1>12, <2>1 DEF Rx
<1>13. ASSUME NEW c \in Chunk(y.n.lsreq, LsReqMax), Rx(r, BuildReq(y, c)) PROVE NumbersSpent' /\ NotOlder
  <2>1. BuildReq(y, c).d = d
    BY <1>7 DEF BuildReq, Send, XType
  <2> HIDE DEF d
  <2> QED BY <1>4, <1>8, <1>9, <1>13, <2>1 DEF Rx
<1> QED BY <1>3, <1>10, <1>11, <1>12, <1>13

(* the timers *)
LEMMA TimerNewer ==
  ASSUME TypeOK, NumbersSpent, NEW r \in Router, Timer(r) \/ \E l \in Lsa : Refresh(r, l)
  PROVE  NumbersSpent' /\ NotOlder
<1> DEFINE x == Self(r)
<1>0. x \in XType /\ x.d = ls[r] /\ ls[r] \in LsType /\ dr[r] \in BOOLEAN
  BY SelfType DEF Self, TypeOK
<1>1. CASE Rxmt(r) \/ FreeLast(r)
  <2>1. \A p : Send(x, p).d = ls[r]
    BY <1>0 DEF Send, XType
  <2>2. [x EXCEPT !.n.lastdd = NoPkt, !.n.lastreq = NoPkt].d = ls[r]
    BY <1>0 DEF XType
  <2>3. (\E p : Tick(r, Send(x, p))) \/ Tick(r, [x EXCEPT !.n.lastdd = NoPkt, !.n.lastreq = NoPkt])
    BY <1>1 DEF Rxmt, DdRxmt, LsReqRxmt, LsUpdRxmt, FreeLast
  <2> HIDE DEF x
  <2> QED BY <2>1, <2>2, <2>3, SameStep
<1>2. CASE NetLsaUpdate(r)
  <2> DEFINE y == [x EXCEPT !.d.upd = FALSE]
             z == NetUpdate(r, y, dr[r])
  <2>1. Tick(r, z)
    BY <1>2 DEF NetLsaUpdate
  <2> HIDE DEF x
  <2>2. y \in XType /\ y.d.db = ls[r].db /\ y.d.next = ls[r].next
    BY <1>0 DEF XType, LsType
  <2> HIDE DEF y
  <2>3. z \in XType /\ Evolves(y.d, z.d)
    BY <1>0, <2>2, NetUpdateType, NetUpdateEvolves
  <2> HIDE DEF z
  <2>4. z.d \in LsType /\ Evolves(ls[r], z.d)
    BY <2>2, <2>3 DEF Evolves, Kept, XType
  <2> QED BY <2>1, <2>4, EvolveStep
<1>3. ASSUME NEW k \in Key, NEW d \in LsType, Evolves(ls[r], d),
             LET y == [x EXCEPT !.d = d] IN Tick(r, Flood(y, k, y.d.db[k], dr[r]))
      PROVE  NumbersSpent' /\ NotOlder
  <2> DEFINE y == [x EXCEPT !.d = d]
  <2>1. Tick(r, Flood(y, k, y.d.db[k], dr[r]))
    BY <1>3
  <2>2. y \in XType /\ y.d = d /\ y.d.db[k] \in Inst
    BY <1>0, <1>3, SeqType DEF XType
  <2> HIDE DEF y
  <2>3. Flood(y, k, y.d.db[k], dr[r]).d = d
    BY <1>0, <2>2, FloodDb
  <2> QED BY <1>3, <2>1, <2>3, EvolveStep
<1>4. ASSUME NEW k \in Key, Tick(r, FlushLsa(x, k, dr[r])) PROVE NumbersSpent' /\ NotOlder
  <2> DEFINE z == FlushLsa(x, k, dr[r])
  <2> HIDE DEF x
  <2>1. z \in XType /\ Evolves(ls[r], z.d)
    BY <1>0, FlushType, FlushEvolves
  <2>2. Tick(r, z)
    BY <1>4
  <2> HIDE DEF z
  <2> QED BY <2>1, <2>2, EvolveStep DEF XType
<1>5. ASSUME NEW k \in Key, AgeOut(r, k) PROVE NumbersSpent' /\ NotOlder
  <2>0. k[1] \in Lsa
    BY KeyType
  <2>1. CASE k[2]
    <3> DEFINE d == Renew(ls[r], k[1])
    <3>1. LET y == [x EXCEPT !.d = d] IN Tick(r, Flood(y, k, y.d.db[k], dr[r]))
      BY <1>0, <1>5, <2>1 DEF AgeOut
    <3>2. d \in LsType /\ Evolves(ls[r], d)
      BY <1>0, <2>0, RenewType, RenewEvolves
    <3> HIDE DEF d, x
    <3> QED BY <1>3, <3>1, <3>2
  <2>2. CASE ~k[2]
    BY <1>4, <1>5, <2>2 DEF AgeOut
  <2> QED BY <2>1, <2>2
<1>6. ASSUME NEW k \in Key, FloodTimer(r, k) PROVE NumbersSpent' /\ NotOlder
  <2> DEFINE y == [x EXCEPT !.d.flood = @ \ {k}]
  <2>1. Tick(r, Flood(y, k, x.d.db[k], dr[r]))
    BY <1>6 DEF FloodTimer
  <2> HIDE DEF x
  <2>2. y \in XType /\ y.d.db = ls[r].db /\ y.d.next = ls[r].next /\ x.d.db[k] \in Inst
    BY <1>0, SeqType DEF XType, LsType
  <2> HIDE DEF y
  <2>3. Flood(y, k, x.d.db[k], dr[r]).d = y.d /\ y.d \in LsType
    BY <1>0, <2>2, FloodDb DEF XType
  <2>4. Evolves(ls[r], y.d)
    <3>1. Evolves(ls[r], ls[r])
      BY <1>0, EvolvesSelf
    <3> QED BY <2>2, <3>1 DEF Evolves, Kept
  <2> QED BY <2>1, <2>3, <2>4, EvolveStep
<1>7. ASSUME NEW l \in Lsa, OldTimer(r, l) \/ Refresh(r, l) PROVE NumbersSpent' /\ NotOlder
  <2> DEFINE d == Overtake(ls[r], l)
             e == Renew(ls[r], l)
             k == <<l, TRUE>>
  <2>1. \/ LET y == [x EXCEPT !.d = d] IN Tick(r, Flood(y, k, y.d.db[k], dr[r]))
        \/ LET y == [x EXCEPT !.d = e] IN Tick(r, Flood(y, k, y.d.db[k], dr[r]))
    BY <1>0, <1>7 DEF OldTimer, Refresh
  <2>2. k \in Key /\ d \in LsType /\ Evolves(ls[r], d) /\ e \in LsType /\ Evolves(ls[r], e)
    BY <1>0, KeyType, OvertakeType, OvertakeEvolves, RenewType, RenewEvolves
  <2> HIDE DEF d, e, k, x
  <2> QED BY <1>3, <2>1, <2>2
<1>8. ASSUME NEW l \in Lsa, ForeignFlush(r, l) PROVE NumbersSpent' /\ NotOlder
  <2>1. <<l, FALSE>> \in Key
    BY KeyType
  <2> QED BY <1>4, <1>8, <2>1 DEF ForeignFlush
<1> QED BY <1>1, <1>2, <1>5, <1>6, <1>7, <1>8 DEF Timer, LsaTimers

(* an LSA learned on another interface *)
LEMMA LearnStep ==
  ASSUME TypeOK, NumbersSpent, NEW r \in Router, NEW e \in Ext, Learn(r, e)
  PROVE  NumbersSpent' /\ NotOlder
<1> DEFINE l == <<"ext", e>>
           k == <<l, FALSE>>
           i == [NoInst(l) EXCEPT !.seq = ls[r].db[k].seq + 1]
           d == [ls[r] EXCEPT !.db[k] = i, !.flood = @ \union {k}, !.here = @ \ {k}]
<1>0. ls[r] \in LsType /\ Young(ls[r])
  BY DEF TypeOK, NumbersSpent
<1>1. l \in Lsa /\ k \in Key
  BY KeyType DEF Lsa
<1>2. ls' = [ls EXCEPT ![r] = d]
  BY <1>0 DEF Learn, TypeOK
<1>3. ls[r].db[k].seq + 1 \in Nat
  BY <1>0, <1>1 DEF LsType, Inst
<1>4. i \in Inst /\ i.seq = ls[r].db[k].seq + 1
  BY <1>1, <1>3 DEF NoInst, Inst
<1> HIDE DEF i, k
<1>5. /\ d \in LsType /\ d.next = ls[r].next /\ d.db[k] = i
      /\ \A j \in Key : j # k => d.db[j] = ls[r].db[j]
  BY <1>0, <1>1, <1>4 DEF LsType
<1> HIDE DEF d, l
<1>6. Newer(ls[r], d)
  BY <1>0, <1>1, <1>4, <1>5, LearnNewer DEF k
<1> QED BY <1>2, <1>6, DbStep

(* a neighbour that is declared dead *)
LEMMA InactivityNewer ==
  ASSUME TypeOK, NumbersSpent, NEW r \in Router, NEW changed \in BOOLEAN, InactivityTimer(r, changed)
  PROVE  NumbersSpent' /\ NotOlder
<1> DEFINE w == ClearLsa(r, Self(r))
           x == [w EXCEPT !.n = NoNb]
           d == Originate(x.d, Rtr(r), boot[r], changed)
           y == [x EXCEPT !.d = d]
           yes == TRUE
           z == IF adj[r] THEN TimerElect(r, y, yes, changed) ELSE y
<1>0. /\ boot[r] \in Nat /\ Rtr(r) \in Lsa /\ ls[r] \in LsType
      /\ Self(r) \in XType /\ Self(r).d = ls[r]
  BY KeyType, SelfType DEF TypeOK, Self
<1>1. Tick(r, z)
  BY DEF InactivityTimer
<1>2. w \in XType /\ Evolves(ls[r], w.d)
  BY <1>0, ClearLsaType, ClearLsaEvolves
<1> HIDE DEF w
<1>3. x \in XType /\ x.d = w.d /\ x.d \in LsType
  BY <1>2, NoNbInv DEF XType
<1> HIDE DEF x
<1>5. d \in LsType /\ Evolves(x.d, d)
  BY <1>0, <1>3, OriginateType, OriginateEvolves
<1> HIDE DEF d
<1>6. y \in XType /\ y.d = d /\ Evolves(ls[r], y.d)
  BY <1>0, <1>2, <1>3, <1>5, EvolvesTrans DEF XType
<1>7. yes \in BOOLEAN
  OBVIOUS
<1> HIDE DEF y, yes
<1>8. TimerElect(r, y, yes, changed) \in XType /\ Evolves(y.d, TimerElect(r, y, yes, changed).d)
  BY <1>6, <1>7, TimerElectType, TimerElectEvolves
<1>9. z \in XType /\ Evolves(ls[r], z.d)
  BY <1>0, <1>5, <1>6, <1>8, EvolvesTrans DEF XType
<1> HIDE DEF z
<1> QED BY <1>1, <1>9, EvolveStep DEF XType

(* a booting router has originated nothing *)
LEMMA BootYoung == \A r \in Router : Young(BootLs(r))
<1> SUFFICES ASSUME NEW r \in Router, NEW l \in Lsa PROVE BootLs(r).db[<<l, TRUE>>].seq < BootLs(r).next
  BY DEF Young
<1>1. <<l, TRUE>> \in Key
  BY KeyType
<1>2. BootLs(r).db[<<l, TRUE>>] = NoInst(l) /\ BootLs(r).next = 1
  BY <1>1 DEF BootLs
<1>3. NoInst(l).seq = 0
  BY DEF NoInst
<1> QED BY <1>2, <1>3

(* every step: the numbers stay spent, and nothing gets older but in a restart *)
LEMMA NextNewer ==
  ASSUME TypeOK, NumbersSpent, [Next]_vars
  PROVE  NumbersSpent' /\ (boot' = boot => NotOlder)
<1>1. CASE UNCHANGED vars
  BY <1>1, IdleStep DEF vars
<1>2. ASSUME NEW r \in Router,
             HelloRx(r) \/ Receive(r) \/ Timer(r) \/ Election(r) \/ Environment(r)
      PROVE  NumbersSpent' /\ (boot' = boot => NotOlder)
  <2>0. Role[r] \subseteq BOOLEAN
    BY SizeAssumption
  <2>1. CASE HelloRx(r)
    BY <2>1, ElectionNewer
  <2>2. CASE Receive(r)
    BY <2>2, ExchangeNewer, LsUpdNewer DEF Receive
  <2>3. CASE Timer(r)
    BY <2>3, TimerNewer
  <2>4. CASE Election(r)
    BY <2>0, <2>4, ElectionNewer DEF Election
  <2>5. CASE Restart(r)
    <3>1. boot' # boot
      BY <2>5 DEF Restart, TypeOK
    <3>2. \A q \in Router : ls'[q] = IF q = r THEN BootLs(r) ELSE ls[q]
      BY <2>5 DEF Restart, TypeOK
    <3>3. \A q \in Router : Young(ls'[q])
      BY <3>2, BootYoung DEF NumbersSpent
    <3> QED BY <3>1, <3>3 DEF NumbersSpent, Young
  <2>6. CASE Lose(r)
    BY <2>6, IdleStep DEF Lose
  <2>7. CASE Environment(r) /\ ~Restart(r) /\ ~Lose(r)
    BY <2>0, <2>7, ElectionNewer, InactivityNewer, TimerNewer, LearnStep DEF Environment
  <2> QED BY <1>2, <2>1, <2>2, <2>3, <2>4, <2>5, <2>6, <2>7
<1> QED BY <1>1, <1>2 DEF Next

(* An LSA in the database of either daemon is never replaced by an older      *)
(* instance, for every interleaving of updates, timers, elections and         *)
(* timeouts (lsadbAdd, lsupdateRx, lsa_renew); only a restart forgets.        *)
THEOREM NewerOnly == Spec => NeverOlder
<1>1. Init => NumbersSpent
  BY BootYoung DEF Init, NumbersSpent
<1>2. IInv /\ NumbersSpent /\ [Next]_vars => NumbersSpent' /\ (boot' = boot => NotOlder)
  BY NextNewer DEF IInv
<1>3. IInv /\ NumbersSpent /\ [Next]_vars =>
        [boot' = boot =>
           \A r \in Router, k \in Key :
             Present(ls[r], k) /\ ls'[r].db[k].seq > 0 => ls'[r].db[k].seq >= ls[r].db[k].seq]_vars
  BY <1>2 DEF NotOlder
<1> QED BY <1>1, <1>2, <1>3, InitInv, NextInv, PTL DEF Spec, NeverOlder
=============================================================================
