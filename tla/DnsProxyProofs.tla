--------------------------- MODULE DnsProxyProofs ---------------------------
(***************************************************************************)
(* Proofs about the DNS proxy, for every number of clients, names, name    *)
(* servers and transaction numbers, and every size of the request pool.    *)
(*                                                                         *)
(* The invariants need each other.  That the length of the inactive list   *)
(* stays within the pool follows from the count of the active requests;    *)
(* the count survives rq_timer because transaction numbers are unique (two *)
(* requests that age do not become one); and no request is answered beyond *)
(* what its client waits for because the count is kept for each client and *)
(* query.                                                                  *)
(***************************************************************************)
EXTENDS DnsProxy, FiniteSetTheorems, TLAPS

\* The requests of a client for a name.
Waiting(S, c, q) == {r \in S : r.client = c /\ r.query = q}

UniqueTids(S) == \A r1, r2 \in S : r1.tid = r2.tid => r1 = r2

\* What rq_timer makes of a request that stays.
Older(r) == [r EXCEPT !.ttl = @ - 1]

DnsInv ==
    /\ TypeOK
    /\ IsFiniteSet(active)
    /\ RequestPool
    /\ AnswersOwed
    /\ StaticCurrent

(***************************************************************************)
(* The pool of requests.                                                   *)
(***************************************************************************)

\* Requests that age remain as many as they are.
LEMMA OlderCount ==
  ASSUME NEW S \in SUBSET Req, IsFiniteSet(S), UniqueTids(S)
  PROVE  /\ IsFiniteSet({Older(r) : r \in S})
         /\ Cardinality({Older(r) : r \in S}) = Cardinality(S)
<1> DEFINE T == {Older(r) : r \in S}
           f == [r \in S |-> Older(r)]
<1>1. f \in [S -> T]
  OBVIOUS
<1>2. \A r \in S : Older(r).tid = r.tid
  BY DEF Older, Req
<1>3. \A a, b \in S : f[a] = f[b] => a = b
  BY <1>2 DEF UniqueTids
<1>4. \A t \in T : \E r \in S : f[r] = t
  OBVIOUS
<1>5. f \in Bijection(S, T)
  BY <1>1, <1>3, <1>4 DEF Bijection, Injection, IsInjective, Surjection
<1>6. ExistsBijection(S, T)
  BY <1>5 DEF ExistsBijection
<1> QED
  BY <1>6, FS_Bijection

\* The fields of a request that has aged.
LEMMA OlderFields ==
  ASSUME NEW r \in Req, r.ttl # 1
  PROVE  /\ Older(r) \in Req
         /\ Older(r).tid = r.tid
         /\ Older(r).client = r.client
         /\ Older(r).query = r.query
<1>1. ReqTtl \in Nat
  BY DnsAssumption
<1> QED
  BY <1>1 DEF Older, Req

\* Aging takes no request from a client and gives none to it.
LEMMA OlderWaiting ==
  ASSUME NEW S \in SUBSET Req, IsFiniteSet(S), UniqueTids(S),
         \A r \in S : r.ttl # 1, NEW c, NEW q
  PROVE  Cardinality(Waiting({Older(r) : r \in S}, c, q))
            = Cardinality(Waiting(S, c, q))
<1> DEFINE W == Waiting(S, c, q)
<1>1. W \in SUBSET S /\ W \in SUBSET Req /\ UniqueTids(W)
  BY DEF Waiting, UniqueTids
<1>2. IsFiniteSet(W)
  BY <1>1, FS_Subset
<1>3. Waiting({Older(r) : r \in S}, c, q) = {Older(r) : r \in W}
  BY OlderFields DEF Waiting
<1>4. Cardinality({Older(r) : r \in W}) = Cardinality(W)
  <2> HIDE DEF W
  <2> QED
    BY <1>1, <1>2, OlderCount
<1> QED
  BY <1>3, <1>4

\* Taking requests out of a finite set, and out of what a client waits for.
LEMMA FewerWaiting ==
  ASSUME NEW S, NEW T \in SUBSET S, IsFiniteSet(S), NEW c, NEW q
  PROVE  /\ IsFiniteSet(Waiting(S, c, q)) /\ IsFiniteSet(Waiting(T, c, q))
         /\ Cardinality(Waiting(S, c, q)) \in Nat
         /\ Cardinality(Waiting(T, c, q)) \in Nat
         /\ Cardinality(Waiting(T, c, q)) <= Cardinality(Waiting(S, c, q))
<1>1. Waiting(S, c, q) \in SUBSET S /\ Waiting(T, c, q) \in SUBSET Waiting(S, c, q)
  BY DEF Waiting
<1>2. IsFiniteSet(Waiting(S, c, q))
  BY <1>1, FS_Subset
<1>3. IsFiniteSet(Waiting(T, c, q))
      /\ Cardinality(Waiting(T, c, q)) <= Cardinality(Waiting(S, c, q))
  BY <1>1, <1>2, FS_Subset
<1> QED
  BY <1>2, <1>3, FS_CardinalityType

\* Splitting a finite set.
LEMMA SplitCount ==
  ASSUME NEW S, IsFiniteSet(S), NEW L \in SUBSET S
  PROVE  /\ IsFiniteSet(L) /\ IsFiniteSet(S \ L)
         /\ Cardinality(L) \in Nat /\ Cardinality(S \ L) \in Nat
         /\ Cardinality(S \ L) + Cardinality(L) = Cardinality(S)
<1> DEFINE D == S \ L
<1>1. IsFiniteSet(L) /\ IsFiniteSet(D)
  BY FS_Subset
<1>2. D \cup L = S /\ D \cap L = {}
  OBVIOUS
<1> HIDE DEF D
<1>3. Cardinality(L) \in Nat /\ Cardinality(D) \in Nat
  BY <1>1, FS_CardinalityType
<1>4. Cardinality(S) = Cardinality(D) + Cardinality(L) - Cardinality({})
  BY <1>1, <1>2, FS_Union
<1>5. Cardinality({}) = 0
  BY FS_EmptySet
<1>6. Cardinality(D) + Cardinality(L) = Cardinality(S)
  BY <1>3, <1>4, <1>5
<1> QED
  BY <1>1, <1>3, <1>6 DEF D

\* What a step needs to know of the requests, and has to keep.
Requests ==
    /\ active \in SUBSET Req
    /\ IsFiniteSet(active)
    /\ inactive \in 0..MaxReq
    /\ owed \in [Client -> [Query -> Int]]
    /\ Cardinality(active) + inactive = MaxReq
    /\ UniqueTids(active)
    /\ \A c \in Client, q \in Query :
        owed[c][q] >= Cardinality(Waiting(active, c, q))

\* Requests is the part of the invariant that is about dns_rq.c.
LEMMA RequestsNow ==
  Requests <=> /\ active \in SUBSET Req
               /\ inactive \in 0..MaxReq
               /\ owed \in [Client -> [Query -> Int]]
               /\ IsFiniteSet(active)
               /\ RequestPool
               /\ AnswersOwed
BY DEF Requests, UniqueTids, Waiting, RequestPool, AnswersOwed

\* The requests can be counted, those of a client and query too.
LEMMA RequestsCount ==
  ASSUME Requests
  PROVE  /\ Cardinality(active) \in Nat
         /\ MaxReq \in Nat /\ inactive \in Nat
         /\ \A c, q : /\ IsFiniteSet(Waiting(active, c, q))
                      /\ Cardinality(Waiting(active, c, q)) \in Nat
<1>1. Cardinality(active) \in Nat
  BY FS_CardinalityType DEF Requests
<1>2. MaxReq \in Nat
  BY DnsAssumption
<1>3. \A c, q : /\ IsFiniteSet(Waiting(active, c, q))
                /\ Cardinality(Waiting(active, c, q)) \in Nat
  BY FewerWaiting DEF Requests
<1> QED
  BY <1>1, <1>2, <1>3 DEF Requests

\* One more answer is owed, one less.
LEMMA OwedTyped ==
  ASSUME NEW o \in [Client -> [Query -> Int]], NEW c \in Client, NEW q \in Query,
         NEW d \in Int
  PROVE  LET n == [o EXCEPT ![c][q] = @ + d] IN
         /\ n \in [Client -> [Query -> Int]]
         /\ \A c1 \in Client, q1 \in Query :
              n[c1][q1] = IF c1 = c /\ q1 = q THEN o[c][q] + d ELSE o[c1][q1]
OBVIOUS

\* process_client forwards a query: a request leaves the inactive list, under
\* a transaction number that no active request has.
LEMMA ForwardedRequests ==
  ASSUME Requests, NEW c \in Client, NEW q \in Query, NEW r \in Req,
         r.tid \notin UsedTid, r.client = c, r.query = q,
         inactive > 0,
         active' = active \cup {r},
         inactive' = inactive - 1,
         owed' = Asked(c, q)
  PROVE  Requests'
<1>1. r \notin active
  BY DEF UsedTid
<1>2. IsFiniteSet(active') /\ Cardinality(active') = Cardinality(active) + 1
  BY <1>1, FS_AddElement DEF Requests
<1>3. active' \in SUBSET Req /\ UniqueTids(active')
  BY DEF Requests, UniqueTids, UsedTid
<1>4. /\ inactive' \in 0..MaxReq
      /\ Cardinality(active') + inactive' = MaxReq
  BY <1>2, RequestsCount DEF Requests
<1>5. /\ owed' \in [Client -> [Query -> Int]]
      /\ \A c1 \in Client, q1 \in Query :
           owed'[c1][q1] = IF c1 = c /\ q1 = q THEN owed[c][q] + 1 ELSE owed[c1][q1]
  BY OwedTyped DEF Asked, Requests
<1>6. ASSUME NEW c1 \in Client, NEW q1 \in Query
      PROVE  owed'[c1][q1] >= Cardinality(Waiting(active', c1, q1))
  <2>1. owed[c1][q1] >= Cardinality(Waiting(active, c1, q1)) /\ owed[c1][q1] \in Int
    BY DEF Requests
  <2>2. /\ IsFiniteSet(Waiting(active, c1, q1))
        /\ Cardinality(Waiting(active, c1, q1)) \in Nat
    BY RequestsCount
  <2>3. CASE c1 = c /\ q1 = q
    <3>1. Waiting(active', c1, q1) = Waiting(active, c1, q1) \cup {r}
      BY <2>3 DEF Waiting
    <3>2. r \notin Waiting(active, c1, q1)
      BY <1>1 DEF Waiting
    <3>3. Cardinality(Waiting(active', c1, q1)) = Cardinality(Waiting(active, c1, q1)) + 1
      BY <2>2, <3>1, <3>2, FS_AddElement
    <3> QED
      BY <1>5, <2>1, <2>2, <2>3, <3>3
  <2>4. CASE ~(c1 = c /\ q1 = q)
    <3>1. Waiting(active', c1, q1) = Waiting(active, c1, q1)
      BY <2>4 DEF Waiting
    <3> QED
      BY <1>5, <2>1, <2>4, <3>1
  <2> QED
    BY <2>3, <2>4
<1> QED
  BY <1>2, <1>3, <1>4, <1>5, <1>6 DEF Requests

\* process_server answers a request: it returns to the inactive list, and its
\* client waits for one answer less.
LEMMA AnsweredRequests ==
  ASSUME Requests, NEW r \in active,
         active' = active \ {r},
         inactive' = inactive + 1,
         owed' = Answered(owed, r.client, r.query)
  PROVE  Requests'
<1>0. r \in Req /\ r.client \in Client /\ r.query \in Query
  BY DEF Requests, Req
<1>2. IsFiniteSet(active') /\ Cardinality(active') = Cardinality(active) - 1
  BY FS_RemoveElement DEF Requests
<1>3. active' \in SUBSET Req /\ UniqueTids(active')
  BY DEF Requests, UniqueTids
<1>4. Cardinality(active') \in Nat
  BY <1>2, FS_CardinalityType
<1>5. /\ inactive' \in 0..MaxReq
      /\ Cardinality(active') + inactive' = MaxReq
  BY <1>2, <1>4, RequestsCount DEF Requests
<1>6. owed' = [owed EXCEPT ![r.client][r.query] = @ + (-1)]
  BY <1>0 DEF Answered, Requests
<1>7. /\ owed' \in [Client -> [Query -> Int]]
      /\ \A c1 \in Client, q1 \in Query :
           owed'[c1][q1] = IF c1 = r.client /\ q1 = r.query
                           THEN owed[r.client][r.query] + (-1) ELSE owed[c1][q1]
  BY <1>0, <1>6, OwedTyped DEF Requests
<1>8. ASSUME NEW c1 \in Client, NEW q1 \in Query
      PROVE  owed'[c1][q1] >= Cardinality(Waiting(active', c1, q1))
  <2>1. owed[c1][q1] >= Cardinality(Waiting(active, c1, q1)) /\ owed[c1][q1] \in Int
    BY DEF Requests
  <2>2. /\ IsFiniteSet(Waiting(active, c1, q1))
        /\ Cardinality(Waiting(active, c1, q1)) \in Nat
    BY RequestsCount
  <2>3. CASE c1 = r.client /\ q1 = r.query
    <3>1. Waiting(active', c1, q1) = Waiting(active, c1, q1) \ {r}
      BY DEF Waiting
    <3>2. r \in Waiting(active, c1, q1)
      BY <2>3 DEF Waiting
    <3>3. Cardinality(Waiting(active', c1, q1)) = Cardinality(Waiting(active, c1, q1)) - 1
      BY <2>2, <3>1, <3>2, FS_RemoveElement
    <3> QED
      BY <1>7, <2>1, <2>2, <2>3, <3>3
  <2>4. CASE ~(c1 = r.client /\ q1 = r.query)
    <3>1. Waiting(active', c1, q1) = Waiting(active, c1, q1)
      BY <2>4 DEF Waiting
    <3> QED
      BY <1>7, <2>1, <2>4, <3>1
  <2> QED
    BY <2>3, <2>4
<1> QED
  BY <1>2, <1>3, <1>5, <1>7, <1>8 DEF Requests

\* rq_timer: what has waited long enough returns to the inactive list.
LEMMA TimerRequests ==
  ASSUME Requests, RqTimer, owed' = owed
  PROVE  Requests'
<1> DEFINE late == {r \in active : r.ttl = 1}
           rest == active \ late
<1>1. active' = {Older(r) : r \in rest} /\ inactive' = inactive + Cardinality(late)
  BY DEF RqTimer, Older
<1>2. late \in SUBSET active /\ rest \in SUBSET active /\ \A r \in rest : r.ttl # 1
  OBVIOUS
<1>3. /\ IsFiniteSet(rest) /\ Cardinality(late) \in Nat /\ Cardinality(rest) \in Nat
      /\ Cardinality(rest) + Cardinality(late) = Cardinality(active)
  BY SplitCount DEF Requests
<1> HIDE DEF late, rest
<1>4. rest \in SUBSET Req /\ UniqueTids(rest)
  BY <1>2 DEF Requests, UniqueTids
<1>5. IsFiniteSet(active') /\ Cardinality(active') = Cardinality(rest)
  BY <1>1, <1>3, <1>4, OlderCount
<1>6. active' \in SUBSET Req
  BY <1>1, <1>2, <1>4, OlderFields
<1>7. UniqueTids(active')
  BY <1>1, <1>2, <1>4, OlderFields DEF UniqueTids
<1>8. /\ inactive' \in 0..MaxReq
      /\ Cardinality(active') + inactive' = MaxReq
  BY <1>1, <1>3, <1>5, RequestsCount DEF Requests
<1>9. ASSUME NEW c \in Client, NEW q \in Query
      PROVE  owed'[c][q] >= Cardinality(Waiting(active', c, q))
  <2>1. Cardinality(Waiting(active', c, q)) = Cardinality(Waiting(rest, c, q))
    BY <1>1, <1>2, <1>3, <1>4, OlderWaiting
  <2>2. /\ Cardinality(Waiting(rest, c, q)) \in Nat
        /\ Cardinality(Waiting(active, c, q)) \in Nat
        /\ Cardinality(Waiting(rest, c, q)) <= Cardinality(Waiting(active, c, q))
    BY <1>2, FewerWaiting DEF Requests
  <2>3. owed[c][q] >= Cardinality(Waiting(active, c, q)) /\ owed[c][q] \in Int
    BY DEF Requests
  <2> QED
    BY <2>1, <2>2, <2>3
<1> QED
  BY <1>5, <1>6, <1>7, <1>8, <1>9 DEF Requests

\* A new process, or the closing of the sockets, leaves no active request.
LEMMA EmptiedRequests ==
  ASSUME Requests, active' = {}, inactive' = MaxReq, owed' = owed
  PROVE  Requests'
<1>1. IsFiniteSet({}) /\ Cardinality({}) = 0
  BY FS_EmptySet
<1>2. MaxReq \in Nat
  BY DnsAssumption
<1>3. ASSUME NEW c \in Client, NEW q \in Query
      PROVE  owed[c][q] >= Cardinality(Waiting({}, c, q))
  <2>1. Waiting({}, c, q) = {}
    BY DEF Waiting
  <2>2. owed[c][q] >= Cardinality(Waiting(active, c, q)) /\ owed[c][q] \in Int
    BY DEF Requests
  <2>3. Cardinality(Waiting(active, c, q)) \in Nat
    BY RequestsCount
  <2> QED
    BY <1>1, <2>1, <2>2, <2>3
<1>4. UniqueTids({}) /\ {} \in SUBSET Req
  BY DEF UniqueTids
<1> QED
  BY <1>1, <1>2, <1>3, <1>4 DEF Requests

\* A step that leaves the requests and the debts alone keeps Requests.
LEMMA KeptRequests ==
  ASSUME Requests, UNCHANGED <<active, inactive, owed>>
  PROVE  Requests'
BY DEF Requests

\* The slot the next query goes to is a slot, and what it holds a server.
LEMMA NextSlotTyped ==
  ASSUME TypeOK
  PROVE  NextSlot \in Slot /\ (ns[NextSlot] # NoServer => ns[NextSlot] \in Server)
<1>1. 3 - last_server \in Slot /\ last_server \in Slot
  BY DEF TypeOK, Slot
<1>2. NextSlot \in Slot
  BY <1>1 DEF NextSlot
<1> QED
  BY <1>2 DEF TypeOK

\* Every step keeps the requests: the pool does not leak, transaction numbers
\* stay unique, and no client is answered more than it asked.
LEMMA RequestsStep ==
  ASSUME TypeOK, Requests, [Next]_vars
  PROVE  Requests'
<1>1. ASSUME NEW c \in Client, NEW q \in Query, ClientDropped(c, q)
      PROVE  Requests'
  BY <1>1, KeptRequests DEF ClientDropped
<1>2. ASSUME NEW c \in Client, NEW q \in Query, ClientCached(c, q)
      PROVE  Requests'
  <2>1. owed' = owed
    BY <1>2 DEF ClientCached, Answered, Asked, TypeOK
  <2> QED
    BY <1>2, <2>1, KeptRequests DEF ClientCached
<1>3. ASSUME NEW c \in Client, NEW q \in Query, ClientForwarded(c, q)
      PROVE  Requests'
  <2>1. PICK t \in Tid \ UsedTid :
            active' = active \cup {[client |-> c, query |-> q, tid |-> t,
                                    server |-> ns[NextSlot], ttl |-> ReqTtl]}
    BY <1>3 DEF ClientForwarded
  <2> DEFINE r == [client |-> c, query |-> q, tid |-> t,
                   server |-> ns[NextSlot], ttl |-> ReqTtl]
  <2>2. ns[NextSlot] \in Server /\ ReqTtl \in 1..ReqTtl
    BY <1>3, NextSlotTyped, DnsAssumption DEF ClientForwarded
  <2>3. r \in Req /\ r.tid \notin UsedTid /\ r.client = c /\ r.query = q
    BY <2>2 DEF Req
  <2>4. inactive > 0 /\ inactive' = inactive - 1 /\ owed' = Asked(c, q)
    BY <1>3 DEF ClientForwarded
  <2> HIDE DEF r
  <2>5. active' = active \cup {r}
    BY <2>1 DEF r
  <2> QED
    BY <2>3, <2>4, <2>5, ForwardedRequests
<1>4. ASSUME NEW p \in net, NEW kind \in Kinds[p.query], ServerAnswer(p, kind)
      PROVE  Requests'
  <2>1. PICK r \in active : /\ Matches(r, p)
                            /\ active' = active \ {r}
                            /\ owed' = Answered(owed, r.client, p.query)
    BY <1>4 DEF ServerAnswer
  <2>2. r.query = p.query /\ inactive' = inactive + 1
    BY <1>4, <2>1 DEF Matches, ServerAnswer
  <2> QED
    BY <2>1, <2>2, AnsweredRequests
<1>5. CASE Timer
  <2>1. owed' = owed /\ (RqTimer \/ UNCHANGED <<active, inactive>>)
    BY <1>5 DEF Timer
  <2> QED
    BY <2>1, TimerRequests, KeptRequests
<1>6. ASSUME NEW on \in BOOLEAN, IpDnsServer(on)
      PROVE  Requests'
  <2>1. owed' = owed
    BY <1>6 DEF IpDnsServer
  <2>2. CASE ~on /\ CloseSockets
    <3>1. active' = {} /\ inactive' = inactive + Cardinality(active)
      BY <1>6, <2>2 DEF IpDnsServer
    <3>2. inactive' = MaxReq
      BY <3>1, RequestsCount DEF Requests
    <3> QED
      BY <2>1, <3>1, <3>2, EmptiedRequests
  <2>3. CASE ~(~on /\ CloseSockets)
    BY <1>6, <2>1, <2>3, KeptRequests DEF IpDnsServer
  <2> QED
    BY <2>2, <2>3
<1>7. CASE Restart
  BY <1>7, EmptiedRequests DEF Restart, Start
<1>8. ASSUME NEW q \in HostQuery, NEW a \in Addr \cup {NoAddr}, IpHost(q, a)
      PROVE  Requests'
  BY <1>8, KeptRequests DEF IpHost
<1>9. ASSUME NEW srv \in Server, IpNameServer(srv)
      PROVE  Requests'
  BY <1>9, KeptRequests DEF IpNameServer
<1>10. CASE NoIpHostAll \/ RxUpdate \/ ClearIpHost \/ MuxLost \/ RxEof \/ Exit
  BY <1>10, KeptRequests DEF NoIpHostAll, RxUpdate, ClearIpHost, MuxLost, RxEof, Exit
<1>11. CASE UNCHANGED vars
  BY <1>11, KeptRequests DEF vars
<1> QED
  BY <1>1, <1>2, <1>3, <1>4, <1>5, <1>6, <1>7, <1>8, <1>9, <1>10, <1>11 DEF Next

(***************************************************************************)
(* The cache.                                                              *)
(***************************************************************************)

CacheTyped(c) == DOMAIN c \subseteq Query /\ \A q \in DOMAIN c : c[q] \in Entry

\* cache_update_static leaves a well formed cache, in which the entries of
\* the host table are static, marked and current, and no other is marked.
LEMMA UpdateStaticCurrent ==
  ASSUME TypeOK, NEW c, CacheTyped(c)
  PROVE  /\ CacheTyped(UpdateStatic(c))
         /\ \A q \in HostQuery :
              LET e == UpdateStatic(c)[q] IN
              IF hosts[q] # NoAddr
              THEN /\ q \in DOMAIN UpdateStatic(c)
                   /\ e.dns_static /\ e.marker /\ e.addr = hosts[q]
              ELSE q \in DOMAIN UpdateStatic(c) => ~e.marker
<1> DEFINE u == UpdateStatic(c)
<1>1. CacheTtl \in Nat /\ HostQuery \subseteq Query
  BY DnsAssumption
<1>2. DOMAIN u = DOMAIN c \cup Hosts
  BY DEF UpdateStatic
<1>3. Hosts \subseteq HostQuery /\ \A q \in Hosts : hosts[q] \in Addr \cup {NoAddr}
  BY DEF Hosts, TypeOK
<1>4. ASSUME NEW q \in Hosts
      PROVE  /\ u[q] \in Entry
             /\ u[q].dns_static = TRUE /\ u[q].marker = TRUE /\ u[q].addr = hosts[q]
  <2>1. u[q] = AddStatic(c, q, hosts[q])
    BY <1>4 DEF UpdateStatic
  <2>2. \E n \in {"none", "kept", "freed"} :
            u[q] = [addr |-> hosts[q], ttl |-> CacheTtl, dns_static |-> TRUE,
                    marker |-> TRUE, cname |-> n]
    BY <2>1 DEF AddStatic, StaticEntry
  <2> QED
    BY <1>1, <1>3, <1>4, <2>2 DEF Entry
<1>5. ASSUME NEW q \in DOMAIN c, q \notin Hosts
      PROVE  u[q] \in Entry /\ u[q].marker = FALSE
  <2>1. u[q] = [c[q] EXCEPT !.marker = FALSE]
    BY <1>5 DEF UpdateStatic
  <2> QED
    BY <1>5, <2>1 DEF Entry, CacheTyped
<1> HIDE DEF u
<1>6. CacheTyped(u)
  BY <1>1, <1>2, <1>3, <1>4, <1>5 DEF CacheTyped
<1>7. ASSUME NEW q \in HostQuery
      PROVE  IF hosts[q] # NoAddr
             THEN q \in DOMAIN u /\ u[q].dns_static /\ u[q].marker /\ u[q].addr = hosts[q]
             ELSE q \in DOMAIN u => ~u[q].marker
  <2>1. q \in Hosts <=> hosts[q] # NoAddr
    BY DEF Hosts
  <2> QED
    BY <1>2, <1>4, <1>5, <2>1
<1> QED
  BY <1>6, <1>7 DEF u

\* The cache that a restarted proxy has is well formed.
LEMMA NoEntriesTyped == CacheTyped(NoEntries)
BY DEF CacheTyped, NoEntries

\* cache_timer keeps a static entry that is marked as it is, and makes none.
LEMMA CacheTimerKeeps ==
  ASSUME NEW c, CacheTyped(c)
  PROVE  /\ CacheTyped(CacheTimer(c))
         /\ \A q \in DOMAIN c :
              c[q].dns_static /\ c[q].marker =>
                 q \in DOMAIN CacheTimer(c) /\ CacheTimer(c)[q] = c[q]
         /\ \A q \in DOMAIN CacheTimer(c) :
              /\ q \in DOMAIN c
              /\ CacheTimer(c)[q].dns_static = c[q].dns_static
              /\ CacheTimer(c)[q].marker = c[q].marker
<1> DEFINE u == CacheTimer(c)
<1>1. CacheTtl \in Nat
  BY DnsAssumption
<1>2. DOMAIN u = {q \in DOMAIN c : ~Expires(c[q])}
  BY DEF CacheTimer
<1>3. \A q \in DOMAIN u : u[q] = Aged(c[q])
  BY DEF CacheTimer
<1> HIDE DEF u
<1>4. ASSUME NEW e \in Entry
      PROVE  /\ ~Expires(e) => Aged(e) \in Entry
             /\ Aged(e).dns_static = e.dns_static
             /\ Aged(e).marker = e.marker
             /\ e.dns_static /\ e.marker => ~Expires(e) /\ Aged(e) = e
  BY <1>1 DEF Entry, Expires, Aged
<1>5. \A q \in DOMAIN c : c[q] \in Entry
  BY DEF CacheTyped
<1> QED
  BY <1>2, <1>3, <1>4, <1>5 DEF CacheTyped, u

\* An answer adds an entry for a name the cache does not know, not static.
LEMMA LearnKeeps ==
  ASSUME TypeOK, NEW p, p.query \in Query, NEW kind
  PROVE  /\ CacheTyped(Learn(p, kind))
         /\ \A q \in DOMAIN cache :
              q \in DOMAIN Learn(p, kind) /\ Learn(p, kind)[q] = cache[q]
         /\ \A q \in DOMAIN Learn(p, kind) :
              q \in DOMAIN cache \/ ~Learn(p, kind)[q].dns_static
<1>1. CacheTtl \in Nat
  BY DnsAssumption
<1>2. CacheTyped(cache)
  BY DEF TypeOK, CacheTyped
<1>3. CASE kind = "uncached" \/ p.query \in DOMAIN cache
  BY <1>2, <1>3 DEF Learn
<1>4. CASE ~(kind = "uncached" \/ p.query \in DOMAIN cache)
  <2> DEFINE e == [addr |-> NoAddr, ttl |-> CacheTtl, dns_static |-> FALSE,
                   marker |-> FALSE,
                   cname |-> IF kind = "cname" THEN "kept" ELSE "none"]
             u == Learn(p, kind)
  <2>1. u = [q \in DOMAIN cache \cup {p.query} |-> IF q = p.query THEN e ELSE cache[q]]
    BY <1>4 DEF Learn
  <2>2. e \in Entry /\ ~e.dns_static
    BY <1>1 DEF Entry
  <2> HIDE DEF e, u
  <2> QED
    BY <1>2, <1>4, <2>1, <2>2 DEF CacheTyped, u
<1> QED
  BY <1>3, <1>4

(***************************************************************************)
(* Every step keeps the rest of the type invariant.                        *)
(***************************************************************************)
LEMMA TypeStep ==
  ASSUME TypeOK, Requests', [Next]_vars
  PROVE  TypeOK'
<1>0. /\ RateMod \in Nat \ {0} /\ Reconnect \in Nat \ {0} /\ MaxFaults \in Nat
      /\ HostQuery \subseteq Query
  BY DnsAssumption
<1>1. /\ active' \in SUBSET Req /\ inactive' \in 0..MaxReq
      /\ owed' \in [Client -> [Query -> Int]]
  BY DEF Requests
<1>2. Counted \in 0..(RateMod - 1)
  <2>1. rate_limit \in 0..(RateMod - 1)
    BY DEF TypeOK
  <2>2. (rate_limit + 1) % RateMod \in 0..(RateMod - 1)
    BY <1>0, <2>1
  <2> QED
    BY <2>1, <2>2 DEF Counted
<1>3. NextSlot \in Slot /\ (ns[NextSlot] # NoServer => ns[NextSlot] \in Server)
  BY NextSlotTyped
<1>4. ASSUME Disturb PROVE faults' \in 0..MaxFaults
  BY <1>0, <1>4 DEF Disturb, TypeOK
<1>5. CacheTyped(cache)
  BY DEF CacheTyped, TypeOK
<1>6. CacheTyped(UpdateStatic(NoEntries)) /\ CacheTyped(UpdateStatic(cache))
  BY <1>5, NoEntriesTyped, UpdateStaticCurrent
<1>7. ASSUME NEW c \in Client, NEW q \in Query, ClientDropped(c, q) \/ ClientCached(c, q)
      PROVE  TypeOK'
  BY <1>1, <1>2, <1>3, <1>7 DEF ClientDropped, ClientCached, conf, TypeOK
<1>8. ASSUME NEW c \in Client, NEW q \in Query, ClientForwarded(c, q)
      PROVE  TypeOK'
  <2>1. net' \in SUBSET [tid : Tid, server : Server, query : Query]
    <3>1. PICK t \in Tid \ UsedTid : \E kept \in SUBSET net :
              net' = kept \cup {[tid |-> t, server |-> ns[NextSlot], query |-> q]}
      BY <1>8 DEF ClientForwarded
    <3>2. PICK kept \in SUBSET net :
              net' = kept \cup {[tid |-> t, server |-> ns[NextSlot], query |-> q]}
      BY <3>1
    <3>3. ns[NextSlot] \in Server
      BY <1>3, <1>8 DEF ClientForwarded
    <3> QED
      BY <3>2, <3>3 DEF TypeOK
  <2> QED
    BY <1>1, <1>2, <1>3, <1>8, <2>1 DEF ClientForwarded, conf, TypeOK
<1>9. ASSUME NEW p \in net, NEW kind \in Kinds[p.query], ServerAnswer(p, kind)
      PROVE  TypeOK'
  <2>1. p.query \in Query
    BY DEF TypeOK
  <2>2. CacheTyped(cache')
    BY <1>9, <2>1, LearnKeeps DEF ServerAnswer
  <2> QED
    BY <1>1, <1>9, <2>2 DEF ServerAnswer, conf, CacheTyped, TypeOK
<1>10. ASSUME Timer PROVE TypeOK'
  <2>1. CacheTyped(cache')
    BY <1>5, <1>10, CacheTimerKeeps DEF Timer
  <2>2. reconnect' \in 0..Reconnect
    BY <1>0, <1>10 DEF Timer, TypeOK
  <2>3. rate_limit' \in 0..(RateMod - 1) /\ mode' \in {"up", "down"}
    BY <1>0, <1>10 DEF Timer, TypeOK
  <2> QED
    BY <1>1, <1>10, <2>1, <2>2, <2>3 DEF Timer, conf, CacheTyped, TypeOK
<1>11. ASSUME NEW q \in HostQuery, NEW a \in Addr \cup {NoAddr}, IpHost(q, a)
       PROVE  TypeOK'
  <2>1. hosts' \in [HostQuery -> Addr \cup {NoAddr}] /\ updates' \in Nat
    BY <1>11 DEF IpHost, TypeOK
  <2> QED
    BY <1>1, <1>4, <1>11, <2>1 DEF IpHost, TypeOK
<1>12. ASSUME RxUpdate PROVE TypeOK'
  <2>1. updates' \in Nat /\ mode' \in {"up", "down"} /\ CacheTyped(cache')
    BY <1>6, <1>12 DEF RxUpdate, TypeOK
  <2> QED
    BY <1>1, <1>12, <2>1 DEF RxUpdate, conf, CacheTyped, TypeOK
<1>13. ASSUME ClearIpHost PROVE TypeOK'
  <2>1. mode' \in {"up", "down"} /\ CacheTyped(cache')
    BY <1>6, <1>13 DEF ClearIpHost
  <2> QED
    BY <1>1, <1>4, <1>13, <2>1 DEF ClearIpHost, conf, CacheTyped, TypeOK
<1>14. ASSUME NEW srv \in Server, IpNameServer(srv) PROVE TypeOK'
  <2>1. ns' \in [Slot -> Server \cup {NoServer}]
    BY <1>14 DEF IpNameServer, AddServer, DropServer, Slot, TypeOK
  <2> QED
    BY <1>1, <1>4, <1>14, <2>1 DEF IpNameServer, TypeOK
<1>15. ASSUME NEW on \in BOOLEAN, IpDnsServer(on) PROVE TypeOK'
  <2>1. limit' \in {0, RateLimit} /\ mode' \in {"up", "down"} /\ client_sock' \in BOOLEAN
    BY <1>15 DEF IpDnsServer, TypeOK
  <2> QED
    BY <1>1, <1>4, <1>15, <2>1 DEF IpDnsServer, TypeOK
<1>16. ASSUME MuxLost PROVE TypeOK'
  BY <1>1, <1>4, <1>16 DEF MuxLost, conf, TypeOK
<1>17. ASSUME RxEof \/ Exit PROVE TypeOK'
  BY <1>0, <1>1, <1>17 DEF RxEof, Exit, conf, TypeOK
<1>18. ASSUME Restart PROVE TypeOK'
  BY <1>0, <1>1, <1>6, <1>18 DEF Restart, Start, Slot, conf, CacheTyped, TypeOK
<1>19. CASE UNCHANGED vars
  BY <1>1, <1>19 DEF vars, conf, TypeOK
<1>20. ASSUME NoIpHostAll PROVE TypeOK'
  <2>1. hosts' \in [HostQuery -> Addr \cup {NoAddr}] /\ untold' \in SUBSET HostQuery
    BY <1>20 DEF NoIpHostAll, Hosts, TypeOK
  <2> QED
    BY <1>1, <1>4, <1>20, <2>1 DEF NoIpHostAll, TypeOK
<1> QED
  BY <1>7, <1>8, <1>9, <1>10, <1>11, <1>12, <1>13, <1>14, <1>15, <1>16, <1>17, <1>18, <1>19,
     <1>20
  DEF Next

(***************************************************************************)
(* Every step keeps the host table in the cache.                           *)
(***************************************************************************)
LEMMA StaticStep ==
  ASSUME TypeOK, StaticCurrent, [Next]_vars
  PROVE  StaticCurrent'
<1>1. CacheTyped(cache)
  BY DEF CacheTyped, TypeOK
<1>2. ASSUME UNCHANGED <<cache, hosts, untold>>,
             mode' = "up" /\ mux' = "up" /\ updates' = 0
                => mode = "up" /\ mux = "up" /\ updates = 0
      PROVE  StaticCurrent'
  BY <1>2 DEF StaticCurrent, Serves
<1>3. ASSUME NEW c, CacheTyped(c), cache' = UpdateStatic(c), hosts' = hosts
      PROVE  StaticCurrent'
  <2> DEFINE u == UpdateStatic(c)
  <2>1. \A q \in HostQuery :
            IF hosts[q] # NoAddr
            THEN q \in DOMAIN u /\ u[q].dns_static /\ u[q].marker /\ u[q].addr = hosts[q]
            ELSE q \in DOMAIN u => ~u[q].marker
    BY <1>3, UpdateStaticCurrent
  <2> HIDE DEF u
  <2>2. cache' = u
    BY <1>3 DEF u
  <2> QED
    BY <1>3, <2>1, <2>2 DEF StaticCurrent, Serves
<1>4. ASSUME NEW c \in Client, NEW q \in Query,
             ClientDropped(c, q) \/ ClientCached(c, q) \/ ClientForwarded(c, q)
      PROVE  StaticCurrent'
  BY <1>2, <1>4 DEF ClientDropped, ClientCached, ClientForwarded, conf
<1>5. ASSUME NEW p \in net, NEW kind \in Kinds[p.query], ServerAnswer(p, kind)
      PROVE  StaticCurrent'
  <2>1. p.query \in Query
    BY DEF TypeOK
  <2>2. /\ \A q \in DOMAIN cache : q \in DOMAIN cache' /\ cache'[q] = cache[q]
        /\ \A q \in DOMAIN cache' : q \in DOMAIN cache \/ ~cache'[q].dns_static
    BY <1>5, <2>1, LearnKeeps DEF ServerAnswer
  <2>3. UNCHANGED <<mode, mux, updates, hosts, untold>>
    BY <1>5 DEF ServerAnswer, conf
  <2> QED
    BY <2>2, <2>3 DEF StaticCurrent, Serves
<1>6. ASSUME Timer PROVE StaticCurrent'
  <2>1. UNCHANGED <<mux, updates, hosts, untold>> /\ mode = "up"
    BY <1>6 DEF Timer, conf
  <2>2. CASE mode' = "up"
    <3>1. cache' = CacheTimer(cache)
      BY <1>6, <2>2 DEF Timer
    <3>2. /\ \A q \in DOMAIN cache :
              cache[q].dns_static /\ cache[q].marker =>
                 q \in DOMAIN cache' /\ cache'[q] = cache[q]
          /\ \A q \in DOMAIN cache' :
              /\ q \in DOMAIN cache
              /\ cache'[q].dns_static = cache[q].dns_static
              /\ cache'[q].marker = cache[q].marker
      BY <1>1, <3>1, CacheTimerKeeps
    <3> QED
      BY <2>1, <3>2 DEF StaticCurrent, Serves
  <2> QED
    BY <2>2 DEF StaticCurrent
<1>7. ASSUME NEW q \in HostQuery, NEW a \in Addr \cup {NoAddr}, IpHost(q, a)
      PROVE  StaticCurrent'
  <2>1. ~(mode' = "up" /\ mux' = "up" /\ updates' = 0)
    BY <1>7 DEF IpHost, TypeOK
  <2> QED
    BY <2>1 DEF StaticCurrent
<1>8. ASSUME RxUpdate PROVE StaticCurrent'
  BY <1>1, <1>3, <1>8 DEF RxUpdate, conf
<1>9. ASSUME ClearIpHost \/ Restart PROVE StaticCurrent'
  BY <1>3, <1>9, NoEntriesTyped DEF ClearIpHost, Restart, Start, conf
<1>10. ASSUME NEW srv \in Server, IpNameServer(srv) PROVE StaticCurrent'
  BY <1>2, <1>10 DEF IpNameServer
<1>11. ASSUME NEW on \in BOOLEAN, IpDnsServer(on) PROVE StaticCurrent'
  BY <1>2, <1>11 DEF IpDnsServer
<1>12. ASSUME MuxLost \/ RxEof \/ Exit PROVE StaticCurrent'
  BY <1>2, <1>12 DEF MuxLost, RxEof, Exit, conf
<1>13. CASE UNCHANGED vars
  BY <1>2, <1>13 DEF vars, conf
<1>14. ASSUME NoIpHostAll PROVE StaticCurrent'
  <2>1. UNCHANGED <<mode, mux, updates, cache>>
    BY <1>14 DEF NoIpHostAll
  <2>2. \A q \in HostQuery : /\ hosts'[q] = NoAddr
                             /\ q \in untold \/ hosts[q] # NoAddr => q \in untold'
    BY <1>14 DEF NoIpHostAll, Hosts
  <2> QED
    BY <2>1, <2>2 DEF StaticCurrent
<1> QED
  BY <1>4, <1>5, <1>6, <1>7, <1>8, <1>9, <1>10, <1>11, <1>12, <1>13,
     <1>14
  DEF Next

(***************************************************************************)
(* The invariant is inductive.                                             *)
(***************************************************************************)
LEMMA DnsInvInit == Init => DnsInv
<1> SUFFICES ASSUME Init PROVE DnsInv
  OBVIOUS
<1>0. /\ {MaxReq, RateMod, Reconnect} \subseteq Nat \ {0} /\ MaxFaults \in Nat
  BY DnsAssumption
<1>1. IsFiniteSet({}) /\ Cardinality({}) = 0
  BY FS_EmptySet
<1>2. DOMAIN cache = {}
  BY DEF Init, NoEntries
<1>3. TypeOK
  BY <1>0, <1>2 DEF Init, TypeOK, Slot
<1>4. RequestPool
  BY <1>0, <1>1 DEF Init, RequestPool
<1>5. AnswersOwed
  <2> SUFFICES ASSUME NEW c \in Client, NEW q \in Query
               PROVE  owed[c][q] >= Cardinality({r \in active : r.client = c /\ r.query = q})
    BY DEF AnswersOwed
  <2>1. {r \in active : r.client = c /\ r.query = q} = {} /\ owed[c][q] = 0
    BY DEF Init
  <2> QED
    BY <1>1, <2>1
<1>6. StaticCurrent
  BY <1>2 DEF Init, StaticCurrent
<1> QED
  BY <1>1, <1>3, <1>4, <1>5, <1>6 DEF Init, DnsInv

\* Every step keeps the invariant of the proxy.
LEMMA DnsInvStep == DnsInv /\ [Next]_vars => DnsInv'
<1> SUFFICES ASSUME DnsInv, [Next]_vars PROVE DnsInv'
  OBVIOUS
<1>1. TypeOK /\ StaticCurrent /\ Requests
  BY RequestsNow DEF DnsInv, TypeOK
<1>2. Requests'
  BY <1>1, RequestsStep
<1>3. TypeOK' /\ StaticCurrent'
  BY <1>1, <1>2, TypeStep, StaticStep
<1>4. IsFiniteSet(active') /\ RequestPool' /\ AnswersOwed'
  BY <1>2 DEF Requests, UniqueTids, Waiting, RequestPool, AnswersOwed
<1> QED
  BY <1>3, <1>4 DEF DnsInv

\* The invariant of the proxy holds in every state.
LEMMA DnsInvAlways == Spec => []DnsInv
BY DnsInvInit, DnsInvStep, PTL DEF Spec

-----------------------------------------------------------------------------
(***************************************************************************)
(* The variables of the proxy keep their types; in particular the length   *)
(* of the inactive list of dns_rq.c never leaves 0..DNS_MAX_REQ and the    *)
(* rate counter never leaves its width.                                    *)
(***************************************************************************)
THEOREM DnsTyped == Spec => []TypeOK
<1>1. DnsInv => TypeOK
  BY DEF DnsInv
<1> QED
  BY <1>1, DnsInvAlways, PTL

(***************************************************************************)
(* The request pool of dns_rq.c does not leak and a transaction number     *)
(* leads to one request, over timeouts (rq_timer), repeated answers        *)
(* (process_server) and the closing of the sockets (cliIpDnsServer).       *)
(***************************************************************************)
THEOREM PoolKept == Spec => []RequestPool
<1>1. DnsInv => RequestPool
  BY DEF DnsInv
<1> QED
  BY <1>1, DnsInvAlways, PTL

(***************************************************************************)
(* No query is answered twice, or with the answer of another query: every  *)
(* active request stands for an answer its client still waits for, however *)
(* packets are lost, delayed and repeated.                                 *)
(***************************************************************************)
THEOREM NoUnaskedAnswer == Spec => []AnswersOwed
<1>1. DnsInv => AnswersOwed
  BY DEF DnsInv
<1> QED
  BY <1>1, DnsInvAlways, PTL

(***************************************************************************)
(* The host table wins over what the name servers say: without an update   *)
(* on the way the cache of a connected proxy has every configured host     *)
(* with its address, and marks no other as static but the hosts that `no   *)
(* ip host` has removed without a message since the table was last read    *)
(* (cache_update_static, cache_timer, cache_add, cliNoIpHostNameAll).      *)
(***************************************************************************)
THEOREM HostTableWins == Spec => []StaticCurrent
<1>1. DnsInv => StaticCurrent
  BY DEF DnsInv
<1> QED
  BY <1>1, DnsInvAlways, PTL
=============================================================================
