-------------------------- MODULE DhcpLeaseProofs --------------------------
(***************************************************************************)
(* Proofs about the DHCP server, for any clients, addresses, networks and  *)
(* times, any number of crashes and a lease file of any length.            *)
(*                                                                         *)
(* That a serving process knows every promised lease says nothing while    *)
(* the process is down, so the invariant says where the promise is kept    *)
(* then: the last record of its address in the lease file is its own.  A   *)
(* later record of the same address would replace the lease when the file  *)
(* is read, and none is appended because no two leases share an address.   *)
(***************************************************************************)
EXTENDS DhcpLease, FiniteSetTheorems, TLAPS

\* hash tables by address and by client: a key leads to one lease.
UniqueKeys(T) == \A l1, l2 \in T : l1.mac = l2.mac \/ l1.ip = l2.ip => l1 = l2

PromisesRun == \A p \in promise : p.until > now

\* A lease, or a record, that keeps a promise.
Backs(l, p) == l.mac = p.mac /\ l.ip = p.ip /\ l.tstamp >= p.until

\* The last record of the promised address in a file.
LastRecord(f, i, p) ==
    /\ i \in DOMAIN f
    /\ Backs(f[i], p)
    /\ \A j \in DOMAIN f : f[j].ip = p.ip => j <= i

OnFile == \A p \in promise : \E i \in DOMAIN file : LastRecord(file, i, p)

\* lease_init has read the records before rd.
Loaded ==
    mode = "loading" =>
        /\ rd > 0
        /\ \A p \in promise, i \in DOMAIN file :
            LastRecord(file, i, p) /\ i < rd => \E l \in leases : Backs(l, p)

DhcpInv ==
    /\ TypeOK
    /\ IsFiniteSet(leases)
    /\ UniqueKeys(leases)
    /\ PromisesRun
    /\ OnFile
    /\ Loaded
    /\ PromiseKept

(***************************************************************************)
(* The operators of the model.                                             *)
(***************************************************************************)

\* A set of numbers that is not empty has a least element.
LEMMA MinIsLeast ==
  ASSUME NEW S \in SUBSET Nat, S # {}
  PROVE  Min(S) \in S /\ \A x \in S : Min(S) <= x
<1> DEFINE R == {ss \in Nat \X Nat : ss[1] < ss[2]}
<1>1. IsWellFoundedOn(R, Nat)
  BY NatLessThanWellFounded DEF OpToRel
<1> HIDE DEF R
<1>2. PICK x \in S : \A y \in S : ~(<<y, x>> \in R)
  BY <1>1, WFMin
<1>3. ASSUME NEW y \in S PROVE x <= y
  <2>1. x \in Nat /\ y \in Nat /\ <<y, x>> \notin R
    BY <1>2
  <2>2. y < x => <<y, x>> \in R
    BY <2>1 DEF R
  <2> QED
    BY <2>1, <2>2
<1> QED
  BY <1>3 DEF Min

\* The table written in any order: every lease is there once.
LEMMA StoredOrder ==
  ASSUME NEW T \in SUBSET Lease, IsFiniteSet(T),
         NEW s \in SetToSeqs({Stored(l) : l \in T})
  PROVE  /\ s \in Seq(Record)
         /\ \A i, j \in DOMAIN s : s[i] = s[j] => i = j
         /\ \A i \in DOMAIN s : \E l \in T : s[i] = Stored(l)
         /\ \A l \in T : \E i \in DOMAIN s : s[i] = Stored(l)
<1> DEFINE S == {Stored(l) : l \in T}
           n == Cardinality(S)
           f == [l \in T |-> Stored(l)]
<1>1. f \in Surjection(T, S)
  BY DEF Surjection
<1>2. IsFiniteSet(S)
  BY <1>1, FS_Surjection
<1>3. n \in Nat
  BY <1>2, FS_CardinalityType
<1>4. S \subseteq Record
  BY DEF Stored, Lease, Record
<1> HIDE DEF S
<1>5. s \in [1..n -> S] /\ \A i, j \in 1..n : i # j => s[i] # s[j]
  BY DEF SetToSeqs, S
<1>6. IsFiniteSet(1..n) /\ Cardinality(1..n) = n
  BY <1>3, FS_Interval
<1>7. s \in Injection(1..n, S)
  BY <1>5 DEF Injection, IsInjective
<1>8. s \in Surjection(1..n, S)
  BY <1>2, <1>6, <1>7, FS_Injection
<1>9. \A x \in S : \E i \in 1..n : s[i] = x
  BY <1>8 DEF Surjection
<1>10. s \in Seq(Record) /\ DOMAIN s = 1..n
  BY <1>3, <1>4, <1>5
<1>11. \A i, j \in DOMAIN s : s[i] = s[j] => i = j
  BY <1>5, <1>10
<1>12. \A i \in DOMAIN s : \E l \in T : s[i] = Stored(l)
  BY <1>5, <1>10 DEF S
<1>13. \A l \in T : \E i \in DOMAIN s : s[i] = Stored(l)
  BY <1>9, <1>10 DEF S
<1> QED
  BY <1>10, <1>11, <1>12, <1>13

\* What is written behind a file has the last word about its addresses.
LEMMA AppendedLast ==
  ASSUME NEW t \in Seq(Record), NEW T \in SUBSET Lease, IsFiniteSet(T), UniqueKeys(T),
         NEW s \in SetToSeqs({Stored(l) : l \in T}),
         NEW p \in Promise, NEW l \in T, Backs(l, p)
  PROVE  \E i \in DOMAIN (t \o s) : LastRecord(t \o s, i, p)
<1>1. /\ s \in Seq(Record)
      /\ \A i, j \in DOMAIN s : s[i] = s[j] => i = j
      /\ \A i \in DOMAIN s : \E k \in T : s[i] = Stored(k)
      /\ \E i \in DOMAIN s : s[i] = Stored(l)
  BY StoredOrder
<1>2. PICK i \in DOMAIN s : s[i] = Stored(l)
  BY <1>1
<1>3. Backs(s[i], p)
  BY <1>2 DEF Stored, Backs
<1>4. ASSUME NEW j \in DOMAIN s, s[j].ip = p.ip PROVE j = i
  <2>1. PICK k \in T : s[j] = Stored(k)
    BY <1>1
  <2>2. k.ip = l.ip
    BY <1>4, <2>1 DEF Stored, Backs
  <2>3. k = l
    BY <2>2 DEF UniqueKeys
  <2> QED
    BY <1>1, <1>2, <2>1, <2>3
<1>5. /\ Len(t) \in Nat /\ Len(s) \in Nat /\ DOMAIN s = 1..Len(s)
      /\ DOMAIN (t \o s) = 1..(Len(t) + Len(s))
      /\ \A j \in 1..(Len(t) + Len(s)) :
            (t \o s)[j] = IF j <= Len(t) THEN t[j] ELSE s[j - Len(t)]
  BY <1>1
<1> DEFINE w == Len(t) + i
<1>6. w \in DOMAIN (t \o s) /\ (t \o s)[w] = s[i]
  BY <1>5
<1>7. ASSUME NEW j \in DOMAIN (t \o s), (t \o s)[j].ip = p.ip PROVE j <= w
  <2>1. CASE j <= Len(t)
    BY <1>5, <2>1
  <2>2. CASE ~(j <= Len(t))
    <3>1. j - Len(t) \in DOMAIN s /\ s[j - Len(t)].ip = p.ip
      BY <1>5, <1>7, <2>2
    <3>2. j - Len(t) = i
      BY <1>4, <3>1
    <3> QED
      BY <1>5, <3>2
  <2> QED
    BY <2>1, <2>2
<1> HIDE DEF w
<1>8. LastRecord(t \o s, w, p)
  BY <1>3, <1>6, <1>7 DEF LastRecord
<1> QED
  BY <1>6, <1>8

\* A record of another address, or a newer one of the client, is appended.
LEMMA AppendKeeps ==
  ASSUME NEW f \in Seq(Record), NEW r \in Record, NEW p, NEW i \in DOMAIN f,
         LastRecord(f, i, p), r.ip # p.ip
  PROVE  LastRecord(Append(f, r), i, p)
BY DEF LastRecord, Backs

\* A record that backs a promise is, once appended, the last one of its address.
LEMMA AppendBacks ==
  ASSUME NEW f \in Seq(Record), NEW r \in Record, NEW p, Backs(r, p)
  PROVE  \E i \in DOMAIN Append(f, r) : LastRecord(Append(f, r), i, p)
<1> DEFINE g == Append(f, r)
           w == Len(f) + 1
<1>1. w \in DOMAIN g /\ g[w] = r /\ \A j \in DOMAIN g : j <= w
  OBVIOUS
<1> HIDE DEF g, w
<1>2. LastRecord(g, w, p)
  BY <1>1 DEF LastRecord
<1> QED
  BY <1>1, <1>2 DEF g

\* What process_request and process_release make of a lease.
Acknowledged(l, s) == [l EXCEPT !.tid = 0, !.tstamp = s]
Released(l, s) == [l EXCEPT !.tstamp = s, !.declined = TRUE]

\* process_request changes the transaction and the time of a lease, nothing else.
LEMMA AcknowledgedFields ==
  ASSUME NEW l \in Lease, NEW s \in Nat
  PROVE  /\ Acknowledged(l, s) \in Lease
         /\ Acknowledged(l, s).mac = l.mac
         /\ Acknowledged(l, s).ip = l.ip
         /\ Acknowledged(l, s).tstamp = s
<1>1. Acknowledged(l, s) \in Lease
  BY DEF Acknowledged, Lease
<1>2. Acknowledged(l, s).mac = l.mac
  BY DEF Acknowledged, Lease
<1>3. Acknowledged(l, s).ip = l.ip
  BY DEF Acknowledged, Lease
<1>4. Acknowledged(l, s).tstamp = s
  BY DEF Acknowledged, Lease
<1> QED
  BY <1>1, <1>2, <1>3, <1>4

\* process_release keeps the client and the address of a lease.
LEMMA ReleasedFields ==
  ASSUME NEW l \in Lease, NEW s \in Nat
  PROVE  /\ Released(l, s) \in Lease
         /\ Released(l, s).mac = l.mac
         /\ Released(l, s).ip = l.ip
<1>1. Released(l, s) \in Lease
  BY DEF Released, Lease
<1>2. Released(l, s).mac = l.mac
  BY DEF Released, Lease
<1>3. Released(l, s).ip = l.ip
  BY DEF Released, Lease
<1> QED
  BY <1>1, <1>2, <1>3

\* A lease is changed in place.
LEMMA Changed ==
  ASSUME TypeOK, IsFiniteSet(leases), UniqueKeys(leases),
         NEW l \in leases, NEW new \in Lease,
         new.mac = l.mac, new.ip = l.ip, Change(l, new)
  PROVE  /\ leases' \in SUBSET Lease
         /\ IsFiniteSet(leases')
         /\ UniqueKeys(leases')
         /\ new \in leases'
         /\ \A k \in leases : k # l => k \in leases'
<1>1. leases' = (leases \ {l}) \cup {new}
  BY DEF Change
<1>2. IsFiniteSet(leases \ {l})
  BY FS_RemoveElement
<1>3. IsFiniteSet(leases')
  BY <1>1, <1>2, FS_AddElement
<1>4. leases' \in SUBSET Lease
  BY <1>1 DEF TypeOK
<1>5. UniqueKeys(leases')
  <2> SUFFICES ASSUME NEW a \in leases', NEW b \in leases', a.mac = b.mac \/ a.ip = b.ip
               PROVE  a = b
    BY DEF UniqueKeys
  <2>1. CASE a # new /\ b # new
    BY <1>1, <2>1 DEF UniqueKeys
  <2>2. CASE a = new /\ b # new
    <3>1. b \in leases /\ b # l /\ (l.mac = b.mac \/ l.ip = b.ip)
      BY <1>1, <2>2
    <3> QED
      BY <3>1 DEF UniqueKeys
  <2>3. CASE a # new /\ b = new
    <3>1. a \in leases /\ a # l /\ (l.mac = a.mac \/ l.ip = a.ip)
      BY <1>1, <2>3
    <3> QED
      BY <3>1 DEF UniqueKeys
  <2> QED
    BY <2>1, <2>2, <2>3
<1> QED
  BY <1>1, <1>3, <1>4, <1>5

\* lease_add of a lease whose keys are new.
LEMMA Added ==
  ASSUME NEW T \in SUBSET Lease, IsFiniteSet(T), UniqueKeys(T),
         NEW m \in Mac, NEW ip \in Ip, NEW tstamp \in Nat, NEW tid \in Tid \cup {0},
         CanAdd(T, m, ip, tstamp)
  PROVE  LET T1 == T \cup {NewLease(m, ip, tstamp, tid)} IN
         T1 \in SUBSET Lease /\ IsFiniteSet(T1) /\ UniqueKeys(T1)
<1> DEFINE new == NewLease(m, ip, tstamp, tid)
<1>1. new \in Lease /\ new.mac = m /\ new.ip = ip
  BY DEF NewLease, Lease
<1>2. IsFiniteSet(T \cup {new})
  BY FS_AddElement
<1> HIDE DEF new
<1>3. UniqueKeys(T \cup {new})
  BY <1>1 DEF UniqueKeys, CanAdd
<1> QED
  BY <1>1, <1>2, <1>3 DEF new

\* A subset of the table.
LEMMA Fewer ==
  ASSUME NEW T \in SUBSET Lease, IsFiniteSet(T), UniqueKeys(T), NEW U \in SUBSET T
  PROVE  U \in SUBSET Lease /\ IsFiniteSet(U) /\ UniqueKeys(U)
<1>1. IsFiniteSet(U)
  BY FS_Subset
<1> QED
  BY <1>1 DEF UniqueKeys

\* lease_file_update of a table that backs the promises.
LEMMA FileUpdated ==
  ASSUME TypeOK, NEW T \in SUBSET Lease, IsFiniteSet(T), UniqueKeys(T), LeaseFileUpdate(T)
  PROVE  /\ file' \in Seq(Record) /\ tmp' = <<>>
         /\ \A p \in Promise : \A l \in T : Backs(l, p) =>
                \E i \in DOMAIN file' : LastRecord(file', i, p)
<1>1. PICK s \in SetToSeqs({Stored(l) : l \in T}) : file' = tmp \o s
  BY DEF LeaseFileUpdate
<1>2. tmp \in Seq(Record) /\ s \in Seq(Record)
  BY StoredOrder DEF TypeOK
<1>3. tmp \o s \in Seq(Record)
  BY <1>2
<1>4. \A p \in Promise : \A l \in T : Backs(l, p) =>
            \E i \in DOMAIN (tmp \o s) : LastRecord(tmp \o s, i, p)
  BY <1>2, AppendedLast
<1> QED
  BY <1>1, <1>3, <1>4 DEF LeaseFileUpdate

\* assign_ip returns an address or 0.
LEMMA AssignTyped ==
  ASSUME NEW n \in Net, NEW m \in Mac
  PROVE  AssignIp(n, m) \in Ip \cup {0}
<1> DEFINE free == {ip \in RangeOf(n) : FindIp(ip) = {}}
           ahead == {ip \in free : ip >= Start(n)}
<1>1. Ip \subseteq Nat /\ HostIp[m] \in Ip \cup {0}
  BY DhcpAssumption
<1>2. free \subseteq Ip /\ ahead \subseteq Ip
  BY DEF RangeOf
<1>3. AssignIp(n, m) = CASE Static(n, m) -> HostIp[m]
                         [] ~Static(n, m) /\ ahead # {} -> Min(ahead)
                         [] ~Static(n, m) /\ ahead = {} /\ free # {} -> Min(free)
                         [] OTHER -> 0
  BY DEF AssignIp
<1> HIDE DEF free, ahead
<1>4. (free # {} => Min(free) \in Ip) /\ (ahead # {} => Min(ahead) \in Ip)
  BY <1>1, <1>2, MinIsLeast
<1>5. CASE Static(n, m)
  BY <1>1, <1>3, <1>5
<1>6. CASE ~Static(n, m) /\ ahead # {}
  BY <1>3, <1>4, <1>6
<1>7. CASE ~Static(n, m) /\ ahead = {} /\ free # {}
  BY <1>3, <1>4, <1>7
<1>8. CASE ~Static(n, m) /\ ahead = {} /\ free = {}
  BY <1>3, <1>8
<1> QED
  BY <1>5, <1>6, <1>7, <1>8

\* The queue of offers.
LEMMA ProbeTyped ==
  ASSUME TypeOK, NEW m \in Mac, NEW ip \in Ip, NEW tid \in Tid, Probe(m, ip, tid)
  PROVE  queue' \in Seq(Offer)
<1>1. [mac |-> m, ip |-> ip, tid |-> tid, ttl |-> ProbeTtl, response |-> FALSE] \in Offer
  BY DhcpAssumption DEF Offer
<1> QED
  BY <1>1 DEF Probe, TypeOK

\* icmp_timeout: the offers that go on waiting are well formed.
LEMMA TimeoutTyped ==
  ASSUME TypeOK, IcmpTimeout
  PROVE  queue' \in Seq(Offer)
<1> DEFINE at == {i \in DOMAIN queue : queue[i].ttl > 1}
<1>1. PICK f \in [1..Cardinality(at) -> at] :
          queue' = [i \in DOMAIN f |-> [queue[f[i]] EXCEPT !.ttl = @ - 1]]
  BY DEF IcmpTimeout, Remaining
<1>2. queue \in Seq(Offer) /\ Len(queue) \in Nat /\ DOMAIN queue = 1..Len(queue)
  BY DEF TypeOK
<1>3. at \in SUBSET (1..Len(queue)) /\ IsFiniteSet(1..Len(queue))
  BY <1>2, FS_Interval
<1>4. Cardinality(at) \in Nat
  BY <1>3, FS_Subset, FS_CardinalityType
<1>5. ASSUME NEW i \in at PROVE [queue[i] EXCEPT !.ttl = @ - 1] \in Offer
  <2>1. queue[i] \in Offer /\ queue[i].ttl > 1
    BY <1>2
  <2> QED
    BY <2>1 DEF Offer
<1> HIDE DEF at
<1>6. queue' \in [1..Cardinality(at) -> Offer]
  BY <1>1, <1>5
<1> QED
  BY <1>4, <1>6

\* get_icmp_pkt: so is the queue without the offer that was answered.
LEMMA EchoTyped ==
  ASSUME TypeOK, NEW ip \in Ip, EchoReply(ip)
  PROVE  queue' \in Seq(Offer)
<1> DEFINE at == {i \in DOMAIN queue : queue[i].ip = ip}
           k == Min(at)
<1>1. queue \in Seq(Offer) /\ Len(queue) \in Nat /\ DOMAIN queue = 1..Len(queue)
  BY DEF TypeOK
<1>2. at \subseteq Nat /\ at # {}
  BY <1>1 DEF EchoReply
<1>3. k \in 1..Len(queue)
  BY <1>1, <1>2, MinIsLeast
<1>4. queue' = [queue EXCEPT ![k].response = TRUE, ![k].ttl = 0]
  BY DEF EchoReply
<1> HIDE DEF k, at
<1>5. queue[k] \in Offer
  BY <1>1, <1>3
<1>6. [[queue[k] EXCEPT !.response = TRUE] EXCEPT !.ttl = 0] \in Offer
  BY <1>5 DEF Offer
<1>7. queue' = [queue EXCEPT ![k] = [[queue[k] EXCEPT !.response = TRUE] EXCEPT !.ttl = 0]]
  BY <1>1, <1>3, <1>4
<1> QED
  BY <1>1, <1>3, <1>6, <1>7

(***************************************************************************)
(* What every action does to the promises.                                 *)
(***************************************************************************)
Promises == PromisesRun /\ OnFile /\ Loaded /\ PromiseKept

Table == leases \in SUBSET Lease /\ IsFiniteSet(leases) /\ UniqueKeys(leases)

\* A serving process knows the lease of a promise, and it has not run out.
LEMMA Known ==
  ASSUME DhcpInv, mode = "up", NEW p \in promise
  PROVE  /\ p \in Promise /\ p.until > now
         /\ \E l \in leases : Backs(l, p)
BY DEF DhcpInv, TypeOK, PromisesRun, PromiseKept, Backs

\* A step of a serving process that does not touch the file.
LEMMA ServingStep ==
  ASSUME DhcpInv, mode' = "up", UNCHANGED <<now, file>>,
         promise' \in SUBSET promise,
         \A p \in promise' : \E l \in leases' : Backs(l, p)
  PROVE  Promises'
BY DEF DhcpInv, Promises, PromisesRun, OnFile, Loaded, PromiseKept, Backs

\* A lease is changed and its time is left as it is.
LEMMA SameTime ==
  ASSUME DhcpInv, mode = "up", UNCHANGED <<mode, now, file, promise>>,
         NEW l \in leases, NEW new \in Lease,
         new.mac = l.mac, new.ip = l.ip, new.tstamp = l.tstamp, Change(l, new)
  PROVE  Table' /\ Promises'
<1>1. /\ Table'
      /\ new \in leases' /\ \A k \in leases : k # l => k \in leases'
  BY Changed DEF DhcpInv, Table
<1>2. ASSUME NEW p \in promise PROVE \E k \in leases' : Backs(k, p)
  <2>1. PICK k \in leases : Backs(k, p)
    BY Known
  <2>2. Backs(l, p) => Backs(new, p)
    BY DEF Backs
  <2> QED
    BY <1>1, <2>1, <2>2
<1> QED
  BY <1>1, <1>2, ServingStep

\* Neither the leases nor what they back are touched.
LEMMA NotTouched ==
  ASSUME DhcpInv, UNCHANGED <<now, mode, leases, file, rd>>, promise' \in SUBSET promise
  PROVE  Table' /\ Promises'
<1>1. Table'
  BY DEF DhcpInv, Table, TypeOK
<1>2. PromisesRun' /\ OnFile'
  BY DEF DhcpInv, PromisesRun, OnFile
<1>3. Loaded'
  BY DEF DhcpInv, Loaded
<1>4. PromiseKept'
  BY DEF DhcpInv, PromiseKept
<1> QED
  BY <1>1, <1>2, <1>3, <1>4 DEF Promises

\* A process that stops, or that starts to read the file.
LEMMA NotServing ==
  ASSUME DhcpInv, UNCHANGED <<now, file, promise>>,
         mode' # "up", mode' = "loading" => rd' = 1
  PROVE  Promises'
<1>1. PromisesRun' /\ OnFile' /\ PromiseKept'
  BY DEF DhcpInv, PromisesRun, OnFile, PromiseKept
<1>2. Loaded'
  <2>1. DOMAIN file = 1..Len(file)
    BY DEF DhcpInv, TypeOK
  <2>2. \A i \in DOMAIN file : ~(i < 1)
    BY <2>1 DEF DhcpInv, TypeOK
  <2> QED
    BY <2>2 DEF Loaded
<1> QED
  BY <1>1, <1>2 DEF Promises

\* process_request.
LEMMA RequestStep ==
  ASSUME DhcpInv, NEW m \in Mac, NEW ip \in Ip, NEW tid \in Tid, Request(m, ip, tid)
  PROVE  Table' /\ Promises' /\ file' \in Seq(Record) /\ promise' \in SUBSET Promise
<1>1. PICK l \in Both(m, ip) :
        IF NetOf[ip] \in valid
        THEN LET new == Acknowledged(l, now + LeaseTime) IN
             /\ Change(l, new)
             /\ file' = Append(file, Stored(new))
             /\ promise' = {p \in promise : ~(p.mac = m /\ p.ip = ip)}
                      \cup {[mac |-> m, ip |-> ip, until |-> now + LeaseTime]}
        ELSE /\ Change(l, [l EXCEPT !.tid = 0])
             /\ UNCHANGED <<file, promise>>
  BY DEF Request, Acknowledged
<1>2. l \in leases /\ l \in Lease /\ l.mac = m /\ l.ip = ip
  BY DEF Both, DhcpInv, TypeOK
<1>3. /\ mode = "up" /\ UNCHANGED <<mode, now>>
      /\ file \in Seq(Record) /\ promise \in SUBSET Promise
      /\ now \in Nat /\ LeaseTime \in Nat \ {0}
  BY DhcpAssumption DEF Request, Serving, DhcpInv, TypeOK
<1>4. CASE NetOf[ip] \in valid
  <2> DEFINE new == Acknowledged(l, now + LeaseTime)
             np == [mac |-> m, ip |-> ip, until |-> now + LeaseTime]
  <2>1. /\ Change(l, new) /\ file' = Append(file, Stored(new))
        /\ promise' = {p \in promise : ~(p.mac = m /\ p.ip = ip)} \cup {np}
    BY <1>1, <1>4
  <2>0. now + LeaseTime \in Nat
    BY <1>3
  <2>2. new \in Lease /\ new.mac = m /\ new.ip = ip /\ new.tstamp = now + LeaseTime
    BY <1>2, <2>0, AcknowledgedFields, Zenon
  <2>3. np \in Promise /\ np.mac = m /\ np.ip = ip /\ np.until = now + LeaseTime
    BY <1>3 DEF Promise
  <2> HIDE DEF new, np
  <2>4. Stored(new) \in Record /\ Stored(new).ip = ip /\ Backs(Stored(new), np)
    BY <1>3, <2>2, <2>3 DEF Stored, Record, Backs, Lease
  <2>5. /\ Table'
        /\ new \in leases' /\ \A k \in leases : k # l => k \in leases'
    BY <1>2, <2>1, <2>2, Changed DEF DhcpInv, Table
  <2>6. ASSUME NEW p \in promise, ~(p.mac = m /\ p.ip = ip)
        PROVE  p.ip # ip /\ \E k \in leases' : Backs(k, p)
    <3>1. PICK k \in leases : Backs(k, p)
      BY <1>3, Known
    <3>2. k # l
      BY <1>2, <2>6, <3>1 DEF Backs
    <3>3. k.ip # ip
      BY <1>2, <3>2 DEF DhcpInv, UniqueKeys
    <3> QED
      BY <2>5, <3>1, <3>2, <3>3 DEF Backs
  <2>7. Backs(new, np) /\ np.until > now
    BY <1>3, <2>2, <2>3 DEF Backs
  <2>8. PromisesRun'
    <3>1. \A p \in promise' : p \in promise \/ p = np
      BY <2>1
    <3> QED
      BY <1>3, <2>7, <3>1 DEF PromisesRun, DhcpInv
  <2>9. \A p \in promise' : \E k \in leases' : Backs(k, p)
    BY <2>1, <2>5, <2>6, <2>7
  <2>10. OnFile'
    <3> SUFFICES ASSUME NEW p \in promise' PROVE \E i \in DOMAIN file' : LastRecord(file', i, p)
      BY DEF OnFile
    <3>1. CASE p = np
      BY <1>3, <2>1, <2>4, <3>1, AppendBacks
    <3>2. CASE p # np
      <4>1. p \in promise /\ ~(p.mac = m /\ p.ip = ip)
        BY <2>1, <3>2
      <4>2. PICK i \in DOMAIN file : LastRecord(file, i, p)
        BY <4>1 DEF DhcpInv, OnFile
      <4>3. LastRecord(file', i, p)
        BY <1>3, <2>1, <2>4, <2>6, <4>1, <4>2, AppendKeeps
      <4> QED
        BY <4>3 DEF LastRecord
    <3> QED
      BY <3>1, <3>2
  <2>11. Promises'
    BY <1>3, <2>8, <2>9, <2>10 DEF Promises, Loaded, PromiseKept, Backs
  <2>12. file' \in Seq(Record) /\ promise' \in SUBSET Promise
    BY <1>3, <2>1, <2>3, <2>4
  <2> QED
    BY <2>5, <2>11, <2>12
<1>5. CASE NetOf[ip] \notin valid
  <2> DEFINE new == [l EXCEPT !.tid = 0]
  <2>1. Change(l, new) /\ UNCHANGED <<file, promise>>
    BY <1>1, <1>5
  <2>2. new \in Lease /\ new.mac = l.mac /\ new.ip = l.ip /\ new.tstamp = l.tstamp
    BY <1>2 DEF Lease
  <2> HIDE DEF new
  <2>3. Table' /\ Promises'
    BY <1>2, <1>3, <2>1, <2>2, SameTime
  <2> QED
    BY <1>3, <2>1, <2>3
<1> QED
  BY <1>4, <1>5

\* process_release.
LEMMA ReleaseStep ==
  ASSUME DhcpInv, NEW m \in Mac, NEW ip \in Ip, Release(m, ip)
  PROVE  Table' /\ Promises' /\ file' \in Seq(Record) /\ promise' \in SUBSET Promise
<1>1. PICK l \in Both(m, ip) :
        LET new == Released(l, now + OfferTime)
        IN Change(l, new) /\ file' = Append(file, Stored(new))
  BY DEF Release, Released
<1>2. l \in leases /\ l \in Lease /\ l.mac = m /\ l.ip = ip
  BY DEF Both, DhcpInv, TypeOK
<1>3. /\ mode = "up" /\ UNCHANGED <<mode, now>>
      /\ file \in Seq(Record) /\ promise \in SUBSET Promise
      /\ now \in Nat /\ OfferTime \in Nat
  BY DhcpAssumption DEF Release, Serving, DhcpInv, TypeOK
<1> DEFINE new == Released(l, now + OfferTime)
<1>4. Change(l, new) /\ file' = Append(file, Stored(new))
  BY <1>1
<1>5. new \in Lease /\ new.mac = m /\ new.ip = ip
  BY <1>2, <1>3, ReleasedFields
<1> HIDE DEF new
<1>6. Stored(new) \in Record /\ Stored(new).ip = ip
  BY <1>5 DEF Stored, Record, Lease
<1>7. /\ Table'
      /\ new \in leases' /\ \A k \in leases : k # l => k \in leases'
  BY <1>2, <1>4, <1>5, Changed DEF DhcpInv, Table
<1>8. promise' = {p \in promise : ~(p.mac = m /\ p.ip = ip)}
  BY DEF Release, GiveUp
<1>9. ASSUME NEW p \in promise'
      PROVE  p \in promise /\ p.ip # ip /\ \E k \in leases' : Backs(k, p)
  <2>1. p \in promise /\ ~(p.mac = m /\ p.ip = ip)
    BY <1>8
  <2>2. PICK k \in leases : Backs(k, p)
    BY <1>3, <2>1, Known
  <2>3. k # l
    BY <1>2, <2>1, <2>2 DEF Backs
  <2>4. k.ip # ip
    BY <1>2, <2>3 DEF DhcpInv, UniqueKeys
  <2> QED
    BY <1>7, <2>1, <2>2, <2>3, <2>4 DEF Backs
<1>10. PromisesRun'
  BY <1>3, <1>8 DEF PromisesRun, DhcpInv
<1>11. OnFile'
  <2> SUFFICES ASSUME NEW p \in promise' PROVE \E i \in DOMAIN file' : LastRecord(file', i, p)
    BY DEF OnFile
  <2>1. PICK i \in DOMAIN file : LastRecord(file, i, p)
    BY <1>9 DEF DhcpInv, OnFile
  <2>2. LastRecord(file', i, p)
    BY <1>3, <1>4, <1>6, <1>9, <2>1, AppendKeeps
  <2> QED
    BY <2>2 DEF LastRecord
<1>12. Promises'
  BY <1>3, <1>9, <1>10, <1>11 DEF Promises, Loaded, PromiseKept, Backs
<1> QED
  BY <1>3, <1>4, <1>6, <1>7, <1>8, <1>12

\* The timer branch: no promised lease has expired, and the rewritten file
\* has them all.
LEMMA TimerStep ==
  ASSUME DhcpInv, Timer
  PROVE  Table' /\ Promises' /\ file' \in Seq(Record) /\ tmp' \in Seq(Record)
<1>1. mode = "up" /\ UNCHANGED <<now, mode, promise>> /\ leases' = {l \in leases : ~Expired(l)}
  BY DEF Timer
<1>2. leases' \in SUBSET leases
  BY <1>1
<1>3. Table'
  BY <1>2, Fewer DEF DhcpInv, TypeOK, Table
<1>4. ASSUME NEW p \in promise PROVE p \in Promise /\ \E l \in leases' : Backs(l, p)
  <2>1. PICK l \in leases : Backs(l, p)
    BY <1>1, Known
  <2>2. p \in Promise /\ p.until > now /\ now \in Nat /\ l \in Lease
    BY <1>1, Known DEF DhcpInv, TypeOK
  <2>3. p.until \in Nat /\ l.tstamp \in Nat
    BY <2>2 DEF Promise, Lease
  <2>4. ~Expired(l)
    BY <2>1, <2>2, <2>3 DEF Backs, Expired
  <2> QED
    BY <1>1, <2>1, <2>2, <2>4
<1>5. CASE UNCHANGED <<file, tmp>>
  <2>1. Promises'
    BY <1>1, <1>4, <1>5, ServingStep
  <2> QED
    BY <1>3, <1>5, <2>1 DEF DhcpInv, TypeOK
<1>6. CASE LeaseFileUpdate(leases')
  <2>1. /\ file' \in Seq(Record) /\ tmp' = <<>>
        /\ \A p \in Promise : \A l \in leases' : Backs(l, p) =>
                \E i \in DOMAIN file' : LastRecord(file', i, p)
    BY <1>3, <1>6, FileUpdated DEF Table, DhcpInv
  <2>2. Promises'
    BY <1>1, <1>4, <2>1
    DEF Promises, PromisesRun, OnFile, Loaded, PromiseKept, Backs, DhcpInv
  <2> QED
    BY <1>3, <2>1, <2>2
<1> QED
  BY <1>5, <1>6 DEF Timer

\* lease_init reads a record.
LEMMA LoadRecordStep ==
  ASSUME DhcpInv, LoadRecord
  PROVE  Table' /\ Promises' /\ mode' \in {"loading", "segv"} /\ rd' \in Nat
         /\ queue' \in Seq(Offer) /\ icmp_sock' \in BOOLEAN
<1> DEFINE r == file[rd]
           rest == leases \ FindIp(r.ip)
<1>1. /\ mode = "loading" /\ rd \in Nat /\ rd > 0 /\ rd <= Len(file)
      /\ UNCHANGED <<now, file, promise>>
      /\ file \in Seq(Record) /\ now \in Nat /\ Len(file) \in Nat
      /\ DOMAIN file = 1..Len(file)
  BY DEF LoadRecord, DhcpInv, TypeOK, Loaded
<1>2. rd \in DOMAIN file /\ r \in Record
  BY <1>1
<1>3. rest \in SUBSET leases /\ \A l \in leases : l.ip # r.ip => l \in rest
  BY DEF FindIp
<1>4. rest \in SUBSET Lease /\ IsFiniteSet(rest) /\ UniqueKeys(rest)
  BY <1>3, Fewer DEF DhcpInv, TypeOK
<1>5. queue \in Seq(Offer) /\ icmp_sock \in BOOLEAN
  BY DEF DhcpInv, TypeOK
<1>6. CASE r.tstamp <= now /\ rd' = rd + 1 /\ UNCHANGED <<mode, leases, queue, icmp_sock>>
  <2>1. ASSUME NEW p \in promise, NEW i \in DOMAIN file, LastRecord(file, i, p), i < rd + 1
        PROVE  \E l \in leases : Backs(l, p)
    <3>1. CASE i < rd
      BY <1>1, <2>1, <3>1 DEF DhcpInv, Loaded
    <3>2. CASE i = rd
      <4>1. r.tstamp >= p.until
        BY <2>1, <3>2 DEF LastRecord, Backs
      <4>2. p.until > now /\ p.until \in Nat /\ r.tstamp \in Nat
        BY <1>2 DEF DhcpInv, TypeOK, PromisesRun, Promise, Record
      <4> QED
        BY <1>1, <1>6, <4>1, <4>2
    <3> QED
      BY <1>1, <2>1, <3>1, <3>2
  <2>2. Loaded'
    BY <1>1, <1>6, <2>1 DEF Loaded
  <2>3. PromisesRun' /\ OnFile' /\ PromiseKept'
    BY <1>1, <1>6 DEF DhcpInv, PromisesRun, OnFile, PromiseKept
  <2> QED
    BY <1>1, <1>5, <1>6, <2>2, <2>3 DEF Promises, Table, DhcpInv, TypeOK
<1>7. CASE /\ CanAdd(rest, r.mac, r.ip, r.tstamp)
           /\ leases' = rest \cup {NewLease(r.mac, r.ip, r.tstamp, 0)}
           /\ rd' = rd + 1
           /\ UNCHANGED <<mode, queue, icmp_sock>>
  <2> DEFINE new == NewLease(r.mac, r.ip, r.tstamp, 0)
  <2>1. r.mac \in Mac /\ r.ip \in Ip /\ r.tstamp \in Nat
    BY <1>2 DEF Record
  <2> HIDE DEF rest, r
  <2>2. Table'
    BY <1>4, <1>7, <2>1, Added DEF Table
  <2>3. new.mac = r.mac /\ new.ip = r.ip /\ new.tstamp = r.tstamp
    BY DEF NewLease
  <2>4. leases' = rest \cup {new}
    BY <1>7
  <2> HIDE DEF new
  <2>5. ASSUME NEW p \in promise, NEW i \in DOMAIN file, LastRecord(file, i, p), i < rd + 1
        PROVE  \E l \in leases' : Backs(l, p)
    <3>1. CASE i < rd
      <4>1. PICK l \in leases : Backs(l, p)
        BY <1>1, <2>5, <3>1 DEF DhcpInv, Loaded
      <4>2. r.ip # p.ip
        BY <1>1, <1>2, <2>5, <3>1 DEF LastRecord, r
      <4>3. l \in rest
        BY <1>3, <4>1, <4>2 DEF Backs
      <4> QED
        BY <2>4, <4>1, <4>3
    <3>2. CASE i = rd
      <4>1. Backs(r, p)
        BY <2>5, <3>2 DEF LastRecord, r
      <4>2. Backs(new, p)
        BY <2>3, <4>1 DEF Backs
      <4> QED
        BY <2>4, <4>2
    <3> QED
      BY <1>1, <2>5, <3>1, <3>2
  <2>6. Loaded'
    BY <1>1, <1>7, <2>5 DEF Loaded
  <2>7. PromisesRun' /\ OnFile' /\ PromiseKept'
    BY <1>1, <1>7 DEF DhcpInv, PromisesRun, OnFile, PromiseKept
  <2> QED
    BY <1>1, <1>5, <1>7, <2>2, <2>6, <2>7 DEF Promises
<1>8. CASE mode' = "segv" /\ Die
  <2>1. Promises'
    BY <1>1, <1>8, NotServing
  <2>2. Table'
    BY <1>8, FS_EmptySet DEF Die, Table, UniqueKeys
  <2>3. rd' = 0 /\ queue' = <<>> /\ icmp_sock' = FALSE
    BY <1>8 DEF Die
  <2>4. rd' \in Nat /\ queue' \in Seq(Offer)
    BY <2>3
  <2>5. icmp_sock' \in BOOLEAN
    BY <2>3, Zenon
  <2> QED
    BY <1>8, <2>1, <2>2, <2>4, <2>5
<1> QED
  BY <1>6, <1>7, <1>8 DEF LoadRecord

\* lease_init ends: every promised lease has been read.
LEMMA LoadDoneStep ==
  ASSUME DhcpInv, LoadDone
  PROVE  Table' /\ Promises' /\ file' \in Seq(Record) /\ tmp' \in Seq(Record)
<1>1. /\ mode = "loading" /\ mode' = "up" /\ rd > Len(file) /\ LeaseFileUpdate(leases)
      /\ UNCHANGED <<now, leases, promise>>
      /\ file \in Seq(Record) /\ rd \in Nat /\ Len(file) \in Nat
      /\ DOMAIN file = 1..Len(file)
  BY DEF LoadDone, DhcpInv, TypeOK
<1>2. Table /\ Table'
  BY <1>1 DEF DhcpInv, TypeOK, Table
<1>3. ASSUME NEW p \in promise PROVE p \in Promise /\ \E l \in leases : Backs(l, p)
  <2>1. PICK i \in DOMAIN file : LastRecord(file, i, p)
    BY DEF DhcpInv, OnFile
  <2>2. i < rd
    BY <1>1
  <2> QED
    BY <1>1, <2>1, <2>2 DEF DhcpInv, Loaded, TypeOK
<1>4. /\ file' \in Seq(Record) /\ tmp' = <<>>
      /\ \A p \in Promise : \A l \in leases : Backs(l, p) =>
              \E i \in DOMAIN file' : LastRecord(file', i, p)
  BY <1>1, <1>2, FileUpdated DEF Table, DhcpInv
<1>5. Promises'
  BY <1>1, <1>3, <1>4
  DEF Promises, PromisesRun, OnFile, Loaded, PromiseKept, Backs, DhcpInv
<1> QED
  BY <1>2, <1>4, <1>5

\* A crash, wherever the process is.
LEMMA CrashStep ==
  ASSUME DhcpInv, Crash \/ CrashInUpdate
  PROVE  Table' /\ Promises' /\ tmp' \in Seq(Record)
<1>1. UNCHANGED <<now, file, promise>> /\ mode' = "down" /\ Die
  BY DEF Crash, CrashInUpdate
<1>2. Promises'
  BY <1>1, NotServing
<1>3. Table'
  BY <1>1, FS_EmptySet DEF Die, Table, UniqueKeys
<1>4. CASE Crash
  BY <1>2, <1>3, <1>4 DEF Crash, DhcpInv, TypeOK
<1>5. CASE CrashInUpdate
  <2>1. PICK s \in SetToSeqs({Stored(l) : l \in leases}) :
            \E k \in 0..Len(s) : tmp' = tmp \o SubSeq(s, 1, k)
    BY <1>5 DEF CrashInUpdate
  <2>2. s \in Seq(Record)
    BY StoredOrder DEF DhcpInv, TypeOK
  <2>3. PICK k \in 0..Len(s) : tmp' = tmp \o SubSeq(s, 1, k)
    BY <2>1
  <2>4. SubSeq(s, 1, k) \in Seq(Record) /\ tmp \in Seq(Record)
    BY <2>2, <2>3 DEF DhcpInv, TypeOK
  <2>5. tmp \o SubSeq(s, 1, k) \in Seq(Record)
    BY <2>4
  <2>6. tmp' \in Seq(Record)
    BY <2>3, <2>5
  <2> QED
    BY <1>2, <1>3, <2>6
<1> QED
  BY <1>4, <1>5

(***************************************************************************)
(* The invariant is inductive.                                             *)
(***************************************************************************)
LEMMA DhcpInvInit == Init => DhcpInv
<1> SUFFICES ASSUME Init PROVE DhcpInv
  OBVIOUS
<1>1. leases = {} /\ promise = {} /\ mode = "up" /\ IsFiniteSet({})
  BY FS_EmptySet DEF Init
<1>2. TypeOK
  <2>1. icmp_sock \in BOOLEAN /\ enable \in BOOLEAN
    BY Zenon DEF Init
  <2>2. last_ip \in [Net -> Ip \cup {0}]
    BY DEF Init
  <2>3. file \in Seq(Record) /\ tmp \in Seq(Record) /\ queue \in Seq(Offer)
    BY DEF Init
  <2> QED
    BY <2>1, <2>2, <2>3 DEF Init, TypeOK
<1>3. UniqueKeys(leases)
  BY <1>1 DEF UniqueKeys
<1>4. PromisesRun /\ OnFile /\ Loaded /\ PromiseKept
  BY <1>1 DEF PromisesRun, OnFile, Loaded, PromiseKept
<1> QED
  BY <1>1, <1>2, <1>3, <1>4 DEF DhcpInv

\* Every step keeps the invariant: commands, messages, the timer, crashes, lease_init.
LEMMA DhcpInvStep == DhcpInv /\ [Next]_vars => DhcpInv'
<1> SUFFICES ASSUME DhcpInv, [Next]_vars PROVE DhcpInv'
  OBVIOUS
<1> USE DEF conf
<1>0. TypeOK /\ Table /\ Promises
  BY DEF DhcpInv, TypeOK, Table, Promises
<1>a. ASSUME TypeOK', Table', Promises' PROVE DhcpInv'
  BY <1>a DEF DhcpInv, Table, Promises
<1>1. ASSUME NEW m \in Mac, NEW tid \in Tid, DiscoverKnown(m, tid) PROVE DhcpInv'
  <2>1. PICK l \in FindMac(m) :
            Change(l, [l EXCEPT !.tid = tid]) /\ Probe(m, l.ip, tid)
    BY <1>1 DEF DiscoverKnown
  <2> DEFINE new == [l EXCEPT !.tid = tid]
  <2>2. l \in leases /\ l \in Lease /\ l.ip \in Ip
    BY <1>0 DEF FindMac, TypeOK, Lease
  <2>3. new \in Lease /\ new.mac = l.mac /\ new.ip = l.ip /\ new.tstamp = l.tstamp
    BY <2>2 DEF Lease
  <2>4. Change(l, new)
    BY <2>1
  <2> HIDE DEF new
  <2>5. mode = "up" /\ UNCHANGED <<mode, now, file, promise>>
    BY <1>1 DEF DiscoverKnown, Serving
  <2>6. Table' /\ Promises'
    BY <2>2, <2>3, <2>4, <2>5, SameTime
  <2>7. queue' \in Seq(Offer)
    BY <1>0, <2>1, <2>2, ProbeTyped
  <2>8. TypeOK'
    BY <1>0, <1>1, <2>6, <2>7 DEF DiscoverKnown, TypeOK, Table
  <2> QED
    BY <1>a, <2>6, <2>8
<1>2. ASSUME NEW n \in Net, NEW m \in Mac, NEW tid \in Tid, DiscoverNew(n, m, tid) PROVE DhcpInv'
  <2> DEFINE ip == AssignIp(n, m)
  <2>1. ip \in Ip \cup {0}
    BY AssignTyped
  <2>2. /\ mode = "up" /\ UNCHANGED <<now, mode, file, tmp, rd, icmp_sock, enable, valid, promise, faults>>
        /\ last_ip' = IF Static(n, m) THEN last_ip ELSE [last_ip EXCEPT ![n] = ip]
        /\ \/ /\ ip # 0 /\ CanAdd(leases, m, ip, now + OfferTime)
              /\ leases' = leases \cup {NewLease(m, ip, now + OfferTime, tid)}
              /\ Probe(m, ip, tid)
           \/ UNCHANGED <<leases, queue>>
    BY <1>2 DEF DiscoverNew, Serving
  <2> HIDE DEF ip
  <2>3. now + OfferTime \in Nat
    BY <1>0, DhcpAssumption DEF TypeOK
  <2>4. Table' /\ leases \subseteq leases' /\ queue' \in Seq(Offer)
    <3>1. CASE UNCHANGED <<leases, queue>>
      BY <1>0, <3>1 DEF Table, TypeOK
    <3>2. CASE /\ ip # 0 /\ CanAdd(leases, m, ip, now + OfferTime)
               /\ leases' = leases \cup {NewLease(m, ip, now + OfferTime, tid)}
               /\ Probe(m, ip, tid)
      <4>1. ip \in Ip
        BY <2>1, <3>2
      <4>2. queue' \in Seq(Offer)
        BY <1>0, <3>2, <4>1, ProbeTyped
      <4>3. Table'
        BY <1>0, <2>3, <3>2, <4>1, Added DEF Table
      <4> QED
        BY <3>2, <4>2, <4>3
    <3> QED
      BY <2>2, <3>1, <3>2
  <2>5. \A p \in promise : \E l \in leases' : Backs(l, p)
    BY <2>2, <2>4, Known
  <2>6. Promises'
    BY <2>2, <2>5, ServingStep
  <2>7. last_ip' \in [Net -> Ip \cup {0}]
    BY <1>0, <2>1, <2>2 DEF TypeOK
  <2>8. TypeOK'
    BY <1>0, <2>2, <2>4, <2>7 DEF TypeOK, Table
  <2> QED
    BY <1>a, <2>4, <2>6, <2>8
<1>3. ASSUME NEW m \in Mac, NEW ip \in Ip, NEW tid \in Tid, Request(m, ip, tid) PROVE DhcpInv'
  <2>1. Table' /\ Promises' /\ file' \in Seq(Record) /\ promise' \in SUBSET Promise
    BY <1>3, RequestStep
  <2>2. UNCHANGED <<now, mode, tmp, rd, queue, icmp_sock, enable, valid, last_ip, faults>>
    BY <1>3 DEF Request
  <2>3. TypeOK'
    BY <1>0, <2>1, <2>2 DEF TypeOK, Table
  <2> QED
    BY <1>a, <2>1, <2>3
<1>4. ASSUME NEW m \in Mac, NEW ip \in Ip, NEW tid \in Tid, Decline(m, ip, tid) PROVE DhcpInv'
  <2>1. PICK l \in Both(m, ip) : Change(l, [l EXCEPT !.declined = TRUE])
    BY <1>4 DEF Decline
  <2> DEFINE new == [l EXCEPT !.declined = TRUE]
  <2>2. l \in leases /\ l \in Lease
    BY <1>0 DEF Both, TypeOK
  <2>3. new \in Lease /\ new.mac = l.mac /\ new.ip = l.ip /\ new.tstamp = l.tstamp
    BY <2>2 DEF Lease
  <2>4. Change(l, new)
    BY <2>1
  <2> HIDE DEF new
  <2>5. mode = "up" /\ UNCHANGED <<mode, now, file, promise>>
    BY <1>4 DEF Decline, Serving
  <2>6. Table' /\ Promises'
    BY <2>2, <2>3, <2>4, <2>5, SameTime
  <2>7. TypeOK'
    BY <1>0, <1>4, <2>6 DEF Decline, TypeOK, Table
  <2> QED
    BY <1>a, <2>6, <2>7
<1>5. ASSUME NEW m \in Mac, NEW ip \in Ip, Release(m, ip) PROVE DhcpInv'
  <2>1. Table' /\ Promises' /\ file' \in Seq(Record) /\ promise' \in SUBSET Promise
    BY <1>5, ReleaseStep
  <2>2. UNCHANGED <<now, mode, tmp, rd, queue, icmp_sock, enable, valid, last_ip, faults>>
    BY <1>5 DEF Release
  <2>3. TypeOK'
    BY <1>0, <2>1, <2>2 DEF TypeOK, Table
  <2> QED
    BY <1>a, <2>1, <2>3
<1>6. ASSUME NEW m \in Mac, NEW ip \in Ip, ReleaseLost(m, ip) PROVE DhcpInv'
  <2>1. UNCHANGED <<now, mode, leases, file, tmp, rd, queue, icmp_sock, enable, valid, last_ip, faults>>
        /\ promise' \in SUBSET promise
    BY <1>6 DEF ReleaseLost, GiveUp
  <2>2. Table' /\ Promises'
    BY <2>1, NotTouched
  <2>3. TypeOK'
    BY <1>0, <2>1 DEF TypeOK
  <2> QED
    BY <1>a, <2>2, <2>3
<1>7. ASSUME NEW ip \in Ip, EchoReply(ip) PROVE DhcpInv'
  <2>1. UNCHANGED <<now, mode, leases, file, tmp, rd, icmp_sock, enable, valid, last_ip, promise, faults>>
    BY <1>7 DEF EchoReply
  <2>2. Table' /\ Promises'
    BY <2>1, NotTouched
  <2>3. queue' \in Seq(Offer)
    BY <1>0, <1>7, EchoTyped
  <2>4. TypeOK'
    BY <1>0, <2>1, <2>3 DEF TypeOK
  <2> QED
    BY <1>a, <2>2, <2>4
<1>8. ASSUME NEW ip \in Ip, ClearLease(ip) PROVE DhcpInv'
  <2>1. /\ mode = "up" /\ UNCHANGED <<now, mode, file, tmp, rd, queue, icmp_sock, enable, valid, last_ip>>
        /\ leases' = leases \ FindIp(ip) /\ promise' = {p \in promise : p.ip # ip}
        /\ faults' \in Nat
    BY <1>0, <1>8 DEF ClearLease, Disturb, TypeOK
  <2>2. Table'
    BY <1>0, <2>1, Fewer DEF Table
  <2>3. ASSUME NEW p \in promise' PROVE \E l \in leases' : Backs(l, p)
    <3>1. p \in promise /\ p.ip # ip
      BY <2>1
    <3>2. PICK l \in leases : Backs(l, p)
      BY <2>1, <3>1, Known
    <3> QED
      BY <2>1, <3>1, <3>2 DEF Backs, FindIp
  <2>4. Promises'
    BY <2>1, <2>3, ServingStep
  <2>5. TypeOK'
    BY <1>0, <2>1, <2>2 DEF TypeOK, Table
  <2> QED
    BY <1>a, <2>2, <2>4, <2>5
<1>9. ASSUME NEW n \in Net, ServerNetwork(n) PROVE DhcpInv'
  <2>1. UNCHANGED <<now, mode, leases, file, tmp, rd, queue, icmp_sock, enable, promise>>
    BY <1>9 DEF ServerNetwork
  <2>2. Table' /\ Promises'
    BY <2>1, NotTouched
  <2>3. valid' \in SUBSET Net /\ last_ip' \in [Net -> Ip \cup {0}] /\ faults' \in Nat
    BY <1>0, <1>9 DEF ServerNetwork, Disturb, TypeOK
  <2>4. TypeOK'
    BY <1>0, <2>1, <2>3 DEF TypeOK
  <2> QED
    BY <1>a, <2>2, <2>4
<1>10. ASSUME Timer PROVE DhcpInv'
  <2>1. Table' /\ Promises' /\ file' \in Seq(Record) /\ tmp' \in Seq(Record)
    BY <1>10, TimerStep
  <2>2. queue' \in Seq(Offer)
    BY <1>0, <1>10, TimeoutTyped DEF Timer
  <2>3. icmp_sock' \in BOOLEAN
        /\ UNCHANGED <<now, mode, rd, enable, valid, last_ip, promise, faults>>
    BY <1>0, <1>10 DEF Timer, TypeOK
  <2>4. TypeOK'
    BY <1>0, <2>1, <2>2, <2>3 DEF TypeOK, Table
  <2> QED
    BY <1>a, <2>1, <2>4
<1>11. ASSUME Advance PROVE DhcpInv'
  <2>1. /\ UNCHANGED <<mode, leases, file, tmp, rd, queue, icmp_sock, enable, valid, last_ip, faults>>
        /\ mode # "loading" /\ now' = now + 1 /\ promise' = {p \in promise : p.until > now'}
    BY <1>11 DEF Advance
  <2>2. TypeOK'
    BY <1>0, <2>1 DEF TypeOK
  <2>3. PromisesRun'
    BY <2>1 DEF PromisesRun
  <2>4. OnFile'
    BY <1>0, <2>1 DEF OnFile, Promises
  <2>5. Loaded'
    BY <2>1 DEF Loaded
  <2>6. PromiseKept'
    BY <1>0, <2>1 DEF PromiseKept, Promises
  <2>7. Table'
    BY <1>0, <2>1 DEF Table
  <2> QED
    BY <1>a, <2>2, <2>3, <2>4, <2>5, <2>6, <2>7 DEF Promises
<1>12. ASSUME ClearAll PROVE DhcpInv'
  <2>1. /\ mode = "up" /\ UNCHANGED <<now, mode, rd, queue, icmp_sock, enable, valid, last_ip>>
        /\ leases' = {} /\ promise' = {} /\ LeaseFileUpdate({}) /\ faults' \in Nat
    BY <1>0, <1>12 DEF ClearAll, Disturb, TypeOK
  <2>2. Table'
    BY <2>1, FS_EmptySet DEF Table, UniqueKeys
  <2>3. file' \in Seq(Record) /\ tmp' = <<>>
    BY <1>0, <2>1, <2>2, FileUpdated DEF Table
  <2>4. Promises'
    BY <2>1 DEF Promises, PromisesRun, OnFile, Loaded, PromiseKept
  <2>5. TypeOK'
    BY <1>0, <2>1, <2>2, <2>3 DEF TypeOK, Table
  <2> QED
    BY <1>a, <2>2, <2>4, <2>5
<1>13. ASSUME ServerEnable PROVE DhcpInv'
  <2>1. /\ UNCHANGED <<now, mode, leases, file, tmp, rd, queue, icmp_sock, valid, last_ip, promise>>
        /\ enable' \in BOOLEAN /\ faults' \in Nat
    BY <1>0, <1>13 DEF ServerEnable, Disturb, TypeOK
  <2>2. Table' /\ Promises'
    BY <2>1, NotTouched
  <2>3. TypeOK'
    BY <1>0, <2>1 DEF TypeOK
  <2> QED
    BY <1>a, <2>2, <2>3
<1>14. ASSUME Crash \/ CrashInUpdate PROVE DhcpInv'
  <2>1. Table' /\ Promises' /\ tmp' \in Seq(Record)
    BY <1>14, CrashStep
  <2>2. /\ UNCHANGED <<now, file, enable, valid, last_ip, promise>>
        /\ mode' = "down" /\ rd' = 0 /\ queue' = <<>> /\ faults' \in Nat
    BY <1>0, <1>14 DEF Crash, CrashInUpdate, Die, Disturb, TypeOK
  <2>3. TypeOK'
    <3>1. icmp_sock' = FALSE
      BY <1>14 DEF Crash, CrashInUpdate, Die
    <3>2. icmp_sock' \in BOOLEAN
      BY <3>1, Zenon
    <3>3. queue' \in Seq(Offer)
      BY <2>2
    <3> QED
      BY <1>0, <2>1, <2>2, <3>2, <3>3 DEF TypeOK, Table
  <2> QED
    BY <1>a, <2>1, <2>3
<1>15. ASSUME Restart PROVE DhcpInv'
  <2>1. /\ UNCHANGED <<now, leases, file, tmp, queue, icmp_sock, enable, valid, last_ip, promise, faults>>
        /\ mode' = "loading" /\ rd' = 1
    BY <1>15 DEF Restart
  <2>2. Promises'
    BY <2>1, NotServing
  <2>3. Table' /\ TypeOK'
    BY <1>0, <2>1 DEF Table, TypeOK
  <2> QED
    BY <1>a, <2>2, <2>3
<1>16. ASSUME LoadRecord PROVE DhcpInv'
  <2>1. /\ Table' /\ Promises' /\ mode' \in {"loading", "segv"} /\ rd' \in Nat
        /\ queue' \in Seq(Offer) /\ icmp_sock' \in BOOLEAN
    BY <1>16, LoadRecordStep
  <2>2. UNCHANGED <<now, file, tmp, enable, valid, last_ip, promise, faults>>
    BY <1>16 DEF LoadRecord
  <2>3. TypeOK'
    BY <1>0, <2>1, <2>2 DEF TypeOK, Table
  <2> QED
    BY <1>a, <2>1, <2>3
<1>17. ASSUME LoadDone PROVE DhcpInv'
  <2>1. Table' /\ Promises' /\ file' \in Seq(Record) /\ tmp' \in Seq(Record)
    BY <1>17, LoadDoneStep
  <2>2. /\ UNCHANGED <<now, leases, queue, icmp_sock, enable, valid, last_ip, promise, faults>>
        /\ mode' = "up" /\ rd' = 0
    BY <1>17 DEF LoadDone
  <2>3. TypeOK'
    BY <1>0, <2>1, <2>2 DEF TypeOK
  <2> QED
    BY <1>a, <2>1, <2>3
<1>18. CASE UNCHANGED vars
  <2>1. UNCHANGED <<now, mode, leases, file, tmp, rd, queue, icmp_sock, enable, valid,
                    last_ip, faults, promise>>
    BY <1>18 DEF vars
  <2>2. Table' /\ Promises'
    BY <2>1, NotTouched
  <2>3. TypeOK'
    BY <1>0, <2>1 DEF TypeOK
  <2> QED
    BY <1>a, <2>2, <2>3
<1> QED
  BY <1>1, <1>2, <1>3, <1>4, <1>5, <1>6, <1>7, <1>8, <1>9, <1>10, <1>11, <1>12, <1>13,
     <1>14, <1>15, <1>16, <1>17, <1>18 DEF Next

\* The invariant of the server holds in every state.
LEMMA DhcpInvAlways == Spec => []DhcpInv
BY DhcpInvInit, DhcpInvStep, PTL DEF Spec

-----------------------------------------------------------------------------
(***************************************************************************)
(* The variables of the server keep their types: the queue of offers and   *)
(* the lease file have well formed entries, assign_ip answers with an      *)
(* address or 0, and the wait of an offer does not become negative.        *)
(***************************************************************************)
THEOREM DhcpTyped == Spec => []TypeOK
<1>1. DhcpInv => TypeOK
  BY DEF DhcpInv
<1> QED
  BY <1>1, DhcpInvAlways, PTL

(***************************************************************************)
(* An acknowledged lease is remembered until it runs out, across crashes   *)
(* (in lease_file_update too), restarts and rewrites of the lease file.    *)
(***************************************************************************)
THEOREM LeasesRemembered == Spec => []PromiseKept
<1>1. DhcpInv => PromiseKept
  BY DEF DhcpInv
<1> QED
  BY <1>1, DhcpInvAlways, PTL

\* An acknowledgement grants the address, and every other step ends leases.
LEMMA PoolStep ==
  ASSUME DhcpInv, [Next]_vars
  PROVE  [Pool!Next]_{<<p.mac, p.ip>> : p \in promise}
<1> DEFINE held == {<<p.mac, p.ip>> : p \in promise}
<1>1. ASSUME promise' \in SUBSET promise PROVE Pool!End
  BY <1>1 DEF Pool!End
<1>2. ASSUME NEW m \in Mac, NEW ip \in Ip, NEW tid \in Tid, Request(m, ip, tid)
      PROVE  Pool!Grant(m, ip) \/ Pool!End
  <2>1. PICK l \in leases : /\ l.mac = m /\ l.ip = ip
                            /\ \/ promise' = {p \in promise : ~(p.mac = m /\ p.ip = ip)}
                                   \cup {[mac |-> m, ip |-> ip, until |-> now + LeaseTime]}
                               \/ promise' = promise
    BY <1>2 DEF Request, Both
  <2>2. CASE promise' = promise
    BY <1>1, <2>2
  <2>3. CASE promise' = {p \in promise : ~(p.mac = m /\ p.ip = ip)}
                          \cup {[mac |-> m, ip |-> ip, until |-> now + LeaseTime]}
    <3>1. ASSUME NEW p \in promise PROVE p.mac = m <=> p.ip = ip
      <4>1. PICK k \in leases : Backs(k, p)
        BY <1>2, Known DEF Request, Serving
      <4> QED
        BY <2>1, <4>1 DEF Backs, DhcpInv, UniqueKeys
    <3>2. \A h \in held : (h[1] = m) <=> (h[2] = ip)
      BY <3>1
    <3>3. ASSUME NEW h PROVE h \in held' <=> h \in held \cup {<<m, ip>>}
      <4>1. h \in held' <=> \E p \in promise' : h = <<p.mac, p.ip>>
        OBVIOUS
      <4>2. h \in held <=> \E p \in promise : h = <<p.mac, p.ip>>
        OBVIOUS
      <4> DEFINE np == [mac |-> m, ip |-> ip, until |-> now + LeaseTime]
      <4>3. np.mac = m /\ np.ip = ip
        OBVIOUS
      <4>4. promise' = {p \in promise : ~(p.mac = m /\ p.ip = ip)} \cup {np}
        BY <2>3
      <4> HIDE DEF np, held
      <4>5. ASSUME h \in held' PROVE h \in held \cup {<<m, ip>>}
        <5>1. PICK p \in promise' : h = <<p.mac, p.ip>>
          BY <4>1, <4>5
        <5>2. p \in promise \/ p = np
          BY <4>4
        <5> QED
          BY <4>2, <4>3, <5>1, <5>2
      <4>6. ASSUME h \in held PROVE h \in held'
        <5>1. PICK p \in promise : h = <<p.mac, p.ip>>
          BY <4>2, <4>6
        <5>2. CASE p.mac = m /\ p.ip = ip
          <6>1. np \in promise' /\ h = <<np.mac, np.ip>>
            BY <4>3, <4>4, <5>1, <5>2
          <6> QED
            BY <4>1, <6>1
        <5>3. CASE ~(p.mac = m /\ p.ip = ip)
          <6>1. p \in promise'
            BY <4>4, <5>3
          <6> QED
            BY <4>1, <5>1, <6>1
        <5> QED
          BY <5>2, <5>3
      <4>7. <<m, ip>> \in held'
        <5>1. np \in promise' /\ <<m, ip>> = <<np.mac, np.ip>>
          BY <4>3, <4>4
        <5> QED
          BY <5>1 DEF held
      <4> QED
        BY <4>5, <4>6, <4>7
    <3>4. held' = held \cup {<<m, ip>>}
      BY <3>3
    <3>5. Pool!Grant(m, ip)
      BY <3>2, <3>4 DEF Pool!Grant
    <3> QED
      BY <3>5
  <2> QED
    BY <2>1, <2>2, <2>3
<1>3. (\E m \in Mac, ip \in Ip, tid \in Tid : Request(m, ip, tid)) \/ promise' \in SUBSET promise
  <2>1. CASE UNCHANGED vars
    BY <2>1 DEF vars
  <2>2. CASE Next
    BY <2>2 DEF Next, DiscoverKnown, DiscoverNew, Decline, Release, ReleaseLost, GiveUp,
                EchoReply, ClearLease, ServerNetwork, Timer, Advance, ClearAll,
                ServerEnable, Crash, CrashInUpdate, Restart, LoadRecord, LoadDone
  <2> QED
    BY <2>1, <2>2
<1> QED
  BY <1>1, <1>2, <1>3 DEF Pool!Next

(***************************************************************************)
(* The server implements the address pool: process_request acknowledges an *)
(* address that no other client holds, to a client that holds no other,    *)
(* and every other step at most ends leases.  With PoolSafe no two hosts   *)
(* hold the same address.                                                  *)
(***************************************************************************)
THEOREM ServesPool == Spec => PoolSpec
<1>1. Init => Pool!Init
  BY DEF Init, Pool!Init
<1>2. DhcpInv /\ [Next]_vars => [Pool!Next]_{<<p.mac, p.ip>> : p \in promise}
  BY PoolStep
<1> QED
  BY <1>1, <1>2, DhcpInvAlways, PTL DEF Spec, PoolSpec, Pool!Spec

(***************************************************************************)
(* The pool keeps its promise: whatever is granted as AddressPool says     *)
(* (process_request) has one holder, with nothing known of the server that *)
(* grants it.                                                              *)
(***************************************************************************)
LEMMA PoolSafe == PoolSpec => []Pool!OneHolder
<1> DEFINE held == {<<p.mac, p.ip>> : p \in promise}
<1>1. Pool!Init => Pool!OneHolder
  <2>1. Pool!Init => held = {}
    BY DEF Pool!Init
  <2> HIDE DEF held
  <2>2. held = {} => \A h1, h2 \in held : h1[2] = h2[2] => h1[1] = h2[1]
    OBVIOUS
  <2> QED
    BY <2>1, <2>2 DEF held, Pool!OneHolder
<1>2. Pool!OneHolder /\ [Pool!Next]_held => Pool!OneHolder'
  <2>1. SUFFICES ASSUME Pool!OneHolder, [Pool!Next]_held PROVE Pool!OneHolder'
    OBVIOUS
  <2>2. \A h1, h2 \in held : h1[2] = h2[2] => h1[1] = h2[1]
    BY <2>1 DEF Pool!OneHolder
  <2>3. \A h1, h2 \in held' : h1[2] = h2[2] => h1[1] = h2[1]
    <3>1. ASSUME NEW m \in Mac, NEW ip \in Ip, Pool!Grant(m, ip)
          PROVE  \A h1, h2 \in held' : h1[2] = h2[2] => h1[1] = h2[1]
      <4>1. /\ \A h \in held : (h[1] = m) <=> (h[2] = ip)
            /\ held' = held \cup {<<m, ip>>}
        BY <3>1 DEF Pool!Grant
      <4> DEFINE n == <<m, ip>>
      <4>2. n[1] = m /\ n[2] = ip /\ held' = held \cup {n}
        BY <4>1
      <4> HIDE DEF held, n
      <4> QED
        BY <2>2, <4>1, <4>2
    <3>2. ASSUME held' \in SUBSET held
          PROVE  \A h1, h2 \in held' : h1[2] = h2[2] => h1[1] = h2[1]
      <4> HIDE DEF held
      <4> QED
        BY <2>2, <3>2
    <3>3. \/ \E m \in Mac, ip \in Ip : Pool!Grant(m, ip)
          \/ held' \in SUBSET held
      <4>1. Pool!Next \/ held' = held
        BY <2>1
      <4>2. CASE Pool!Next
        BY <4>2 DEF Pool!Next, Pool!End
      <4>3. CASE held' = held
        BY <4>3
      <4> QED
        BY <4>1, <4>2, <4>3
    <3> HIDE DEF held
    <3> QED
      BY <3>1, <3>2, <3>3
  <2> QED
    BY <2>3 DEF Pool!OneHolder
<1> QED
  BY <1>1, <1>2, PTL DEF PoolSpec, Pool!Spec

(***************************************************************************)
(* No two clients hold the same address at the same time, whatever they    *)
(* send, however often the server crashes, and whatever is configured.     *)
(***************************************************************************)
THEOREM NoAddressTwice == Spec => []Pool!OneHolder
BY ServesPool, PoolSafe, PTL
=============================================================================
