------------------------- MODULE OspfExchangeProofs -------------------------
(***************************************************************************)
(* A router that reports its neighbour Full has its peer's database        *)
(* (FullHasPeerDatabase), from the order in which dbdescRx and             *)
(* dbdescBuildPkt number, take, answer and repeat DD packets.  R2 has the  *)
(* higher id and leads every exchange (LeaderAgreed).                      *)
(*                                                                         *)
(* The invariant has three parts.  Inventory: instances of a router's      *)
(* external LSAs, wherever they are, are no older than at its boot.        *)
(* Exchange: an external LSA of the master that the slave neither holds    *)
(* nor asks for is in the part of the master's summary that the slave has  *)
(* not taken.  Answers: the same for the slave's LSAs and the master.      *)
(* Every step of the daemons is of one of a few kinds (Stays, Begins,      *)
(* Drops, Repeats, and the packets that dbdescRx takes), and each kind     *)
(* keeps the three parts; what the handlers do is then shown to be of      *)
(* these kinds.                                                            *)
(*                                                                         *)
(* The last part is about two routers that are left alone: when they have  *)
(* settled their databases are the same (UndisturbedAgree).  Its invariant *)
(* adds that there is one exchange and one last answer in it (Once, Done), *)
(* that the two router-LSAs get across in it (SlaveLearns, MasterLearns),  *)
(* that a network-LSA is flooded until the peer has it (Told), and that    *)
(* every instance, held or sent, is the one its originator has (Genuine).  *)
(***************************************************************************)
EXTENDS OspfAdjacencyProofs, SequenceTheorems

(* ----------------- the exchange, as the master leads it ----------------- *)
(* the external LSA e *)
ExtLsa(e) == <<"ext", e>>

(* the LSAs that headers or instances I are of *)
LsasOf(I) == {i.l : i \in I}

(* of the peer's external LSAs, those not in cov are among I *)
Complete(cov, I) == \A e \in Ext : e \in cov \/ ExtLsa(e) \in LsasOf(I)

(* the states in which a neighbour repeats its last DD packet (networkTimeout) *)
Building(n) == n.state \in {EXSTART, EXCHANGE}

(* the DD packet that the retransmission timer repeats, in ExStart and in Exchange *)
LastDdFits(n) ==
  /\ n.state = EXSTART => n.lastdd = Dd(TRUE, TRUE, TRUE, n.ddseq, {})
  /\ n.state = EXCHANGE =>
       \E more \in BOOLEAN :
         n.lastdd = Dd(FALSE, more, n.master, n.ddseq, n.sent) /\ (~more => n.ddsum = {})

(* In what follows m is the master's neighbour structure and s the slave's,   *)
(* ds the DD packets on the wire to the slave, rp the slave's answers on the  *)
(* wire to the master, hi a bound on the numbers in use, and c1 the external  *)
(* LSAs of the master that the slave holds or has on its request list.        *)
DdTypes(m, s, ds, rp, hi) ==
  /\ m.state \in Nat /\ m.ddseq \in Nat /\ s.state \in Nat /\ s.ddseq \in Nat /\ hi \in Nat
  /\ \A q \in ds : q.seq \in Nat
  /\ \A p \in rp : p.seq \in Nat

(* dbdescBuildPkt: hi is the number of the current exchange, none is above it *)
DdBounded(m, s, ds, rp, hi) ==
  /\ \A q \in ds : q.seq <= hi
  /\ \A p \in rp : p.seq <= hi
  /\ s.state >= EXCHANGE => s.ddseq <= hi
  /\ m.state >= EXSTART => m.ddseq = hi /\ hi > 0

(* the wire holds one packet per number, and of the current number the last   *)
(* one sent: a repetition is a copy                                           *)
DdCurrent(m, ds) ==
  /\ \A q \in ds : Building(m) /\ q.seq = m.ddseq => q = m.lastdd
  /\ \A p, q \in ds : p.seq = q.seq => p = q

(* the master goes on only when it has the answer to its packet, the slave    *)
(* only with a packet that follows: the two are never more than one number    *)
(* apart                                                                      *)
DdAcked(m, s, ds, rp) ==
  /\ m.state = EXCHANGE => \A q \in ds : q.seq + 1 >= m.ddseq
  /\ \A p \in rp, q \in ds : q.seq >= p.seq
  /\ s.state >= EXCHANGE => \A q \in ds : q.seq >= s.ddseq
  /\ s.state >= EXCHANGE => \A p \in rp : s.ddseq >= p.seq
  /\ m.state = EXCHANGE /\ s.state >= EXCHANGE => s.ddseq + 1 >= m.ddseq

(* the packets of an exchange on the wire: nothing older than one number      *)
(* back, and nothing the slave is not ready for                               *)
DdWindow(s, ds) == \A q \in ds : ~q.init =>
  /\ \A p \in ds : p.seq + 1 >= q.seq
  /\ s.state >= EXCHANGE => q.seq <= s.ddseq + 1

(* while the first packet is under way the master has described nothing: its  *)
(* summary is whole, and an exchange that closes right after the first packet *)
(* had nothing to describe                                                    *)
DdFirst(m, ds) == \A p \in ds : p.init =>
  /\ m.state = EXCHANGE /\ p.seq + 1 = m.ddseq =>
       \A e \in Ext : ExtSeq[R2][e] > 0 => ExtLsa(e) \in LsasOf(m.ddsum)
  /\ \A q \in ds : ~q.init /\ q.seq = p.seq + 1 /\ ~q.more => \A e \in Ext : ExtSeq[R2][e] = 0

(* what the slave has not yet got or asked for is still to come from the master *)
SlaveCovered(m, s, ds, c1) ==
  /\ s.state = EXCHANGE /\ m.state = EXCHANGE =>
       /\ s.ddseq = m.ddseq => Complete(c1, m.ddsum \ m.sent)
       /\ s.ddseq + 1 = m.ddseq => Complete(c1, m.ddsum)
  /\ s.state = EXCHANGE => \A q \in ds : ~q.init /\ q.seq = s.ddseq + 1 /\ ~q.more => Complete(c1, q.hs)
  /\ s.state >= LOADING => Complete(c1, {})

(* the exchange as the master leads it *)
Led(m, s, ds, rp, hi, c1) ==
  /\ DdTypes(m, s, ds, rp, hi) /\ DdBounded(m, s, ds, rp, hi) /\ DdCurrent(m, ds) /\ DdAcked(m, s, ds, rp)
  /\ DdWindow(s, ds) /\ DdFirst(m, ds) /\ SlaveCovered(m, s, ds, c1)

(* the numbers of the external LSAs are numbers *)
LEMMA ExtSeqNat == \A r \in Router, e \in Ext : ExtSeq[r][e] \in Nat
BY SizeAssumption

(* the fields of the packet kept for retransmission *)
LEMMA LastDdFields ==
  ASSUME NEW n, Building(n), LastDdFits(n), n.sent \subseteq n.ddsum
  PROVE  /\ n.lastdd.seq = n.ddseq /\ n.lastdd.t = "dd"
         /\ n.state = EXSTART => n.lastdd.init
         /\ n.state = EXCHANGE => /\ ~n.lastdd.init /\ n.lastdd.hs = n.sent
                                  /\ ~n.lastdd.more => n.ddsum = {} /\ n.lastdd.hs = {}
<1>1. CASE n.state = EXSTART
  BY <1>1 DEF LastDdFits, Dd, EXSTART, EXCHANGE
<1>2. CASE n.state = EXCHANGE
  <2>1. PICK more \in BOOLEAN : n.lastdd = Dd(FALSE, more, n.master, n.ddseq, n.sent) /\ (~more => n.ddsum = {})
    BY <1>2 DEF LastDdFits
  <2>2. n.lastdd.seq = n.ddseq /\ n.lastdd.t = "dd" /\ ~n.lastdd.init /\ n.lastdd.hs = n.sent
    BY <2>1 DEF Dd
  <2>3. ~n.lastdd.more => ~more
    BY <2>1 DEF Dd
  <2>4. ~n.lastdd.more => n.ddsum = {}
    BY <2>1, <2>3
  <2> QED BY <1>2, <2>2, <2>4 DEF EXSTART, EXCHANGE
<1> QED BY <1>1, <1>2 DEF Building

(* what is covered stays covered *)
LEMMA CompleteMore ==
  ASSUME NEW a, NEW b, NEW I, a \subseteq b, Complete(a, I)
  PROVE  Complete(b, I)
BY DEF Complete

(* a step of the master that sends no DD packet *)
LEMMA MasterQuiet ==
  ASSUME NEW m, NEW s, NEW ds, NEW rp, NEW hi, NEW c1, Led(m, s, ds, rp, hi, c1),
         NEW m2, NEW rp2, NEW hi2 \in Nat, m2.state \in Nat, m2.ddseq \in Nat,
         rp2 \subseteq rp, hi <= hi2,
         m2.state >= EXSTART => m2.ddseq = hi2 /\ hi2 > 0,
         Building(m2) => /\ m2.state = m.state /\ m2.ddseq = m.ddseq /\ m2.lastdd = m.lastdd
                         /\ m2.ddsum = m.ddsum /\ m2.sent = m.sent
  PROVE  Led(m2, s, ds, rp2, hi2, c1)
<1> USE DEF Led
<1>1. DdTypes(m2, s, ds, rp2, hi2)
  BY DEF DdTypes
<1>2. DdBounded(m2, s, ds, rp2, hi2)
  BY DEF DdTypes, DdBounded
<1>3. DdCurrent(m2, ds)
  BY DEF DdCurrent, Building
<1>4. DdAcked(m2, s, ds, rp2)
  BY DEF DdAcked, Building
<1>5. DdFirst(m2, ds)
  BY DEF DdFirst, Building
<1>6. SlaveCovered(m2, s, ds, c1)
  BY DEF SlaveCovered, Building
<1> QED BY <1>1, <1>2, <1>3, <1>4, <1>5, <1>6

(* start_adj of the master: a number above all in use *)
LEMMA MasterBegin ==
  ASSUME NEW m, NEW s, NEW ds, NEW rp, NEW hi, NEW c1, Led(m, s, ds, rp, hi, c1),
         NEW m2, NEW ds2, NEW rp2, m2.state = EXSTART, m2.ddseq \in Nat, hi < m2.ddseq,
         rp2 \subseteq rp, LastDdFits(m2), ds2 \subseteq ds \union {m2.lastdd}
  PROVE  Led(m2, s, ds2, rp2, m2.ddseq, c1)
<1> DEFINE new == m2.lastdd
<1>1. new.init /\ new.seq = m2.ddseq
  BY DEF LastDdFits, Dd
<1> HIDE DEF new
<1> USE DEF Led
<1>2. \A q \in ds2 : q \in ds \/ q = new
  BY DEF new
<1>3. DdTypes(m2, s, ds2, rp2, m2.ddseq)
  BY <1>1, <1>2 DEF DdTypes, EXSTART
<1>4. DdBounded(m2, s, ds2, rp2, m2.ddseq)
  BY <1>1, <1>2, <1>3 DEF DdTypes, DdBounded
<1>5. DdCurrent(m2, ds2)
  BY <1>1, <1>2 DEF DdCurrent, DdTypes, DdBounded, new
<1>6. DdAcked(m2, s, ds2, rp2)
  BY <1>1, <1>2 DEF DdAcked, DdTypes, DdBounded, EXSTART, EXCHANGE
<1>7. DdWindow(s, ds2)
  BY <1>1, <1>2 DEF DdWindow, DdTypes, DdBounded
<1>8. DdFirst(m2, ds2)
  BY <1>1, <1>2 DEF DdFirst, DdTypes, DdBounded, EXSTART, EXCHANGE
<1>9. SlaveCovered(m2, s, ds2, c1)
  BY <1>1, <1>2 DEF SlaveCovered, EXSTART, EXCHANGE
<1> QED BY <1>3, <1>4, <1>5, <1>6, <1>7, <1>8, <1>9

(* the master's timer repeats its last DD packet *)
LEMMA MasterRxmt ==
  ASSUME NEW m, NEW s, NEW ds, NEW rp, NEW hi, NEW c1, Led(m, s, ds, rp, hi, c1),
         NEW ds2, Building(m), LastDdFits(m), m.sent \subseteq m.ddsum, ds2 = ds \union {m.lastdd}
  PROVE  Led(m, s, ds2, rp, hi, c1)
<1> DEFINE new == m.lastdd
<1>0. m.ddseq = hi
  BY DEF Building, Led, DdTypes, DdBounded, EXSTART, EXCHANGE
<1>1. /\ new.seq = m.ddseq
      /\ m.state = EXSTART => new.init
      /\ m.state = EXCHANGE => ~new.init /\ (~new.more => m.ddsum = {} /\ new.hs = {})
  BY LastDdFields
<1> HIDE DEF new
<1> USE DEF Led
<1>2. \A q \in ds2 : q \in ds \/ q = new
  BY DEF new
<1>3. DdTypes(m, s, ds2, rp, hi)
  BY <1>0, <1>1, <1>2 DEF DdTypes
<1>4. DdBounded(m, s, ds2, rp, hi)
  BY <1>0, <1>1, <1>2, <1>3 DEF DdTypes, DdBounded
<1>5. DdCurrent(m, ds2)
  BY <1>0, <1>1, <1>2 DEF DdCurrent, new
<1>6. DdAcked(m, s, ds2, rp)
  BY <1>0, <1>1, <1>2 DEF DdAcked, DdTypes, DdBounded
<1>7. DdWindow(s, ds2)
  BY <1>0, <1>1, <1>2 DEF DdWindow, DdTypes, DdBounded, DdAcked, Building
<1>8. DdFirst(m, ds2)
  <2>1. ASSUME NEW p \in ds2, p.init, m.state = EXCHANGE, p.seq + 1 = m.ddseq
        PROVE  \A e \in Ext : ExtSeq[R2][e] > 0 => ExtLsa(e) \in LsasOf(m.ddsum)
    BY <1>1, <1>2, <2>1 DEF DdFirst
  <2>2. ASSUME NEW p \in ds2, p.init, NEW q \in ds2, ~q.init, q.seq = p.seq + 1, ~q.more
        PROVE  \A e \in Ext : ExtSeq[R2][e] = 0
    <3>1. CASE q \in ds
      BY <1>0, <1>1, <1>2, <2>2, <3>1 DEF DdFirst, DdTypes, DdBounded
    <3>2. CASE q = new
      <4>1. m.state = EXCHANGE /\ m.ddsum = {} /\ p \in ds
        BY <1>1, <1>2, <2>2, <3>2 DEF Building
      <4>2. \A e \in Ext : ExtSeq[R2][e] > 0 => ExtLsa(e) \in LsasOf({})
        BY <1>1, <2>2, <3>2, <4>1 DEF DdFirst
      <4> QED BY <4>2, ExtSeqNat DEF LsasOf, Router
    <3> QED BY <1>2, <3>1, <3>2
  <2> QED BY <2>1, <2>2 DEF DdFirst
<1>9. SlaveCovered(m, s, ds2, c1)
  BY <1>0, <1>1, <1>2 DEF SlaveCovered, DdTypes, DdBounded, Building
<1> QED BY <1>3, <1>4, <1>5, <1>6, <1>7, <1>8, <1>9

(* a reply to the current packet: the master sends the next one *)
LEMMA MasterNext ==
  ASSUME NEW m, NEW s, NEW ds, NEW rp, NEW hi, NEW c1, Led(m, s, ds, rp, hi, c1),
         NEW m2, NEW ds2, NEW rp2, NEW p \in rp, p.seq = m.ddseq, Building(m),
         LastDdFits(m), m.sent \subseteq m.ddsum, LastDdFits(m2), m2.sent \subseteq m2.ddsum,
         m2.state = EXCHANGE, m2.ddseq = m.ddseq + 1,
         m.state = EXSTART => \A e \in Ext : ExtSeq[R2][e] > 0 => ExtLsa(e) \in LsasOf(m2.ddsum),
         m.state = EXCHANGE => m2.ddsum = m.ddsum \ m.sent,
         \A e \in Ext : ExtSeq[R2][e] = 0 => e \in c1,
         rp2 \subseteq rp, ds2 = ds \union {m2.lastdd}
  PROVE  Led(m2, s, ds2, rp2, m2.ddseq, c1)
<1> DEFINE new == m2.lastdd
<1>0. m.ddseq = hi /\ hi \in Nat
  BY DEF Building, Led, DdTypes, DdBounded, EXSTART, EXCHANGE
<1>1. /\ new.seq = hi + 1 /\ ~new.init
      /\ ~new.more => m2.ddsum = {} /\ new.hs = {}
  BY <1>0, LastDdFields DEF Building
<1>a. m.state = EXCHANGE => ~m.lastdd.init
  BY LastDdFields
<1> HIDE DEF new
<1>2. \A q \in ds2 : q \in ds \/ q = new
  BY DEF new
<1>b. \A q \in ds : q.seq = hi
  BY <1>0 DEF Led, DdTypes, DdBounded, DdAcked
<1>c. s.state >= EXCHANGE => s.ddseq = hi
  BY <1>0 DEF Led, DdTypes, DdBounded, DdAcked
<1>3. DdTypes(m2, s, ds2, rp2, m2.ddseq)
  BY <1>0, <1>1, <1>2 DEF Led, DdTypes, EXCHANGE
<1>4. DdBounded(m2, s, ds2, rp2, m2.ddseq)
  BY <1>0, <1>1, <1>2, <1>3 DEF Led, DdTypes, DdBounded
<1>5. DdCurrent(m2, ds2)
  BY <1>0, <1>1, <1>2, <1>b DEF Led, DdCurrent, new
<1>6. DdAcked(m2, s, ds2, rp2)
  BY <1>0, <1>1, <1>2, <1>b, <1>c DEF Led, DdAcked, DdTypes, DdBounded
<1>7. DdWindow(s, ds2)
  BY <1>0, <1>1, <1>2, <1>b, <1>c DEF Led, DdWindow, DdTypes
<1>d. ASSUME m.state = EXSTART, ~new.more PROVE \A e \in Ext : ExtSeq[R2][e] = 0
  BY <1>1, <1>d, ExtSeqNat DEF LsasOf, Router
<1>8. DdFirst(m2, ds2)
  <2>1. ASSUME NEW q \in ds2, q.init PROVE m.state = EXSTART /\ q \in ds
    BY <1>0, <1>1, <1>2, <1>a, <1>b, <2>1 DEF Led, DdCurrent, Building
  <2>2. ASSUME NEW q \in ds2, q.init, NEW g \in ds2, ~g.init, g.seq = q.seq + 1, ~g.more
        PROVE  \A e \in Ext : ExtSeq[R2][e] = 0
    <3>1. q.seq = hi
      BY <1>b, <2>1, <2>2
    <3>2. g = new
      BY <1>0, <1>2, <1>b, <2>2, <3>1
    <3> QED BY <1>d, <2>1, <2>2, <3>2
  <2> QED BY <2>1, <2>2 DEF DdFirst
<1>9. SlaveCovered(m2, s, ds2, c1)
  <2>1. ASSUME s.state = EXCHANGE PROVE Complete(c1, m2.ddsum)
    <3>1. CASE m.state = EXSTART
      BY <3>1, ExtSeqNat DEF Complete, Router
    <3>2. CASE m.state = EXCHANGE
      <4>1. SlaveCovered(m, s, ds, c1)
        BY DEF Led
      <4>2. s.ddseq = m.ddseq
        BY <1>0, <1>c, <2>1 DEF EXCHANGE
      <4>3. Complete(c1, m.ddsum \ m.sent)
        BY <2>1, <3>2, <4>1, <4>2 DEF SlaveCovered
      <4> QED BY <3>2, <4>3
    <3> QED BY <3>1, <3>2 DEF Building
  <2>2. ASSUME s.state = EXCHANGE, NEW q \in ds2, q.seq = s.ddseq + 1, ~q.more PROVE Complete(c1, q.hs)
    <3>1. q = new
      BY <1>0, <1>2, <1>b, <1>c, <2>2 DEF EXCHANGE
    <3> QED BY <1>1, <2>1, <2>2, <3>1
  <2>3. s.state = EXCHANGE => s.ddseq # m2.ddseq
    BY <1>0, <1>c DEF EXCHANGE
  <2> QED BY <2>1, <2>2, <2>3 DEF Led, SlaveCovered
<1> QED BY <1>3, <1>4, <1>5, <1>6, <1>7, <1>8, <1>9 DEF Led

(* a step of the slave that sends no answer and does not enter Exchange *)
LEMMA SlaveQuiet ==
  ASSUME NEW m, NEW s, NEW ds, NEW rp, NEW hi, NEW c1, Led(m, s, ds, rp, hi, c1),
         NEW s2, NEW ds2, NEW rp2, NEW c2, NEW hi2 \in Nat, s2.state \in Nat, s2.ddseq \in Nat,
         ds2 \subseteq ds, rp2 \subseteq rp, hi <= hi2,
         m.state >= EXSTART => hi2 = hi,
         s2.state >= EXCHANGE => /\ s2.ddseq = s.ddseq /\ c1 \subseteq c2 /\ s.state >= EXCHANGE
                                 /\ s2.state = s.state \/ (s.state >= LOADING /\ s2.state >= LOADING)
  PROVE  Led(m, s2, ds2, rp2, hi2, c2)
<1> USE DEF Led
<1>1. DdTypes(m, s2, ds2, rp2, hi2)
  BY DEF DdTypes
<1>2. DdBounded(m, s2, ds2, rp2, hi2)
  BY DEF DdTypes, DdBounded
<1>3. DdCurrent(m, ds2)
  BY DEF DdCurrent
<1>4. DdAcked(m, s2, ds2, rp2)
  BY DEF DdAcked
<1>5. DdWindow(s2, ds2)
  BY DEF DdWindow
<1>6. DdFirst(m, ds2)
  BY DEF DdFirst
<1>7. SlaveCovered(m, s2, ds2, c2)
  BY CompleteMore DEF SlaveCovered, EXCHANGE, LOADING
<1> QED BY <1>1, <1>2, <1>3, <1>4, <1>5, <1>6, <1>7

(* the slave's timer repeats its last answer *)
LEMMA SlaveRxmt ==
  ASSUME NEW m, NEW s, NEW ds, NEW rp, NEW hi, NEW c1, Led(m, s, ds, rp, hi, c1),
         NEW rp2, NEW new, s.state = EXCHANGE, new.seq = s.ddseq, rp2 \subseteq rp \union {new}
  PROVE  Led(m, s, ds, rp2, hi, c1)
<1> USE DEF Led
<1>1. DdTypes(m, s, ds, rp2, hi)
  BY DEF DdTypes
<1>2. DdBounded(m, s, ds, rp2, hi)
  BY DEF DdBounded, EXCHANGE
<1>3. DdAcked(m, s, ds, rp2)
  BY DEF DdAcked, EXCHANGE, DdTypes
<1> QED BY <1>1, <1>2, <1>3

(* the slave takes the master's first packet *)
LEMMA SlaveFirst ==
  ASSUME NEW m, NEW s, NEW ds, NEW rp, NEW hi, NEW c1, Led(m, s, ds, rp, hi, c1),
         LastDdFits(m), m.sent \subseteq m.ddsum,
         NEW s2, NEW ds2, NEW rp2, NEW c2, NEW p \in ds, NEW new,
         p.init, ds2 \subseteq ds, \A q \in ds2 : p.seq <= q.seq,
         s2.state = EXCHANGE, s2.ddseq = p.seq, new.seq = p.seq, rp2 \subseteq rp \union {new},
         \A e \in Ext : ExtSeq[R2][e] = 0 => e \in c2
  PROVE  Led(m, s2, ds2, rp2, hi, c2)
<1> USE DEF Led
<1>a. m.state = EXCHANGE => ~m.lastdd.init
  BY LastDdFields DEF Building
<1>b. m.state = EXCHANGE => p.seq # m.ddseq
  BY <1>a DEF DdCurrent, Building
<1>1. DdTypes(m, s2, ds2, rp2, hi)
  BY DEF DdTypes, EXCHANGE
<1>2. DdBounded(m, s2, ds2, rp2, hi)
  BY <1>1 DEF DdBounded, DdTypes
<1>3. DdCurrent(m, ds2)
  BY DEF DdCurrent
<1>4. DdAcked(m, s2, ds2, rp2)
  BY DEF DdAcked, DdTypes
<1>5. DdWindow(s2, ds2)
  BY DEF DdWindow
<1>6. DdFirst(m, ds2)
  BY DEF DdFirst
<1>7. SlaveCovered(m, s2, ds2, c2)
  <2>1. ASSUME m.state = EXCHANGE, p.seq + 1 = m.ddseq PROVE Complete(c2, m.ddsum)
    <3>1. \A e \in Ext : ExtSeq[R2][e] > 0 => ExtLsa(e) \in LsasOf(m.ddsum)
      BY <2>1 DEF DdFirst
    <3> QED BY <3>1, ExtSeqNat DEF Complete, Router
  <2>2. ASSUME NEW q \in ds2, ~q.init, q.seq = p.seq + 1, ~q.more PROVE Complete(c2, q.hs)
    <3>1. \A e \in Ext : ExtSeq[R2][e] = 0
      BY <2>2 DEF DdFirst
    <3> QED BY <3>1 DEF Complete
  <2> QED BY <1>b, <2>1, <2>2 DEF SlaveCovered, EXCHANGE, LOADING
<1> QED BY <1>1, <1>2, <1>3, <1>4, <1>5, <1>6, <1>7

(* the slave takes the packet that follows *)
LEMMA SlaveNext ==
  ASSUME NEW m, NEW s, NEW ds, NEW rp, NEW hi, NEW c1, Led(m, s, ds, rp, hi, c1),
         LastDdFits(m), m.sent \subseteq m.ddsum,
         NEW s2, NEW ds2, NEW rp2, NEW c2, NEW p \in ds, NEW new,
         ~p.init, s.state = EXCHANGE, p.seq = s.ddseq + 1, ds2 \subseteq ds, \A q \in ds2 : p.seq <= q.seq,
         s2.state \in {EXCHANGE, LOADING, FULL}, s2.state # EXCHANGE => ~p.more,
         s2.ddseq = p.seq, new.seq = p.seq, rp2 \subseteq rp \union {new},
         c1 \subseteq c2, \A e \in Ext : ExtLsa(e) \in LsasOf(p.hs) => e \in c2
  PROVE  Led(m, s2, ds2, rp2, hi, c2)
<1> USE DEF Led
<1>0. s.state >= EXCHANGE /\ s2.state >= EXCHANGE /\ s2.state \in Nat
  BY DEF EXCHANGE, LOADING, FULL
<1>1. DdTypes(m, s2, ds2, rp2, hi)
  BY <1>0 DEF DdTypes
<1>2. DdBounded(m, s2, ds2, rp2, hi)
  BY <1>1 DEF DdBounded, DdTypes
<1>3. DdCurrent(m, ds2)
  BY DEF DdCurrent
<1>4. DdAcked(m, s2, ds2, rp2)
  BY <1>0 DEF DdAcked, DdTypes
<1>5. DdWindow(s2, ds2)
  BY DEF DdWindow
<1>6. DdFirst(m, ds2)
  BY DEF DdFirst
<1>7. SlaveCovered(m, s2, ds2, c2)
  <2>1. ASSUME m.state = EXCHANGE, p.seq = m.ddseq PROVE Complete(c2, m.ddsum \ m.sent)
    <3>1. p = m.lastdd /\ m.lastdd.hs = m.sent
      BY <2>1, LastDdFields DEF DdCurrent, Building
    <3>2. Complete(c1, m.ddsum)
      BY <2>1 DEF SlaveCovered
    <3> QED BY <3>1, <3>2 DEF Complete, LsasOf
  <2>2. m.state = EXCHANGE => p.seq + 1 # m.ddseq
    BY <1>0 DEF DdAcked, DdTypes
  <2>3. ASSUME NEW q \in ds2, ~q.init PROVE q.seq # p.seq + 1
    BY <1>0, <2>3 DEF DdWindow, DdTypes
  <2>4. ASSUME ~p.more PROVE Complete(c2, {})
    <3>1. Complete(c1, p.hs)
      BY <2>4 DEF SlaveCovered
    <3> QED BY <3>1 DEF Complete
  <2> QED BY <2>1, <2>2, <2>3, <2>4 DEF SlaveCovered, EXCHANGE, LOADING, FULL
<1> QED BY <1>1, <1>2, <1>3, <1>4, <1>5, <1>6, <1>7

(* ----------------- ... and what it learns of the slave ------------------ *)
(* the other half: c2 are the external LSAs of the slave that the master      *)
(* holds or has on its request list, w the wire to the slave                  *)
MasterCovered(m, s, rp, c2) ==
  /\ m.state = EXCHANGE => \A p \in rp : p.seq = m.ddseq /\ ~p.more => Complete(c2, p.hs)
  /\ m.state = EXCHANGE /\ s.state = EXCHANGE =>
       /\ s.ddseq = m.ddseq => Complete(c2, s.ddsum)
       /\ s.ddseq + 1 = m.ddseq => Complete(c2, s.ddsum \ s.sent)
  /\ m.state = EXSTART /\ s.state = EXCHANGE /\ s.ddseq = m.ddseq => Complete(c2, s.ddsum)
  /\ Building(m) /\ s.state = EXCHANGE => \A p \in rp : p.seq = m.ddseq => p.hs = s.sent
  /\ m.state >= LOADING => Complete(c2, {})

(* the slave answers the master's current first packet only from Exchange,    *)
(* and does not fall back while the master may still take that answer         *)
Synced(m, s, ds, rp) ==
  /\ m.state = EXSTART => \A p \in rp : p.seq = m.ddseq => s.state = EXCHANGE /\ s.ddseq = m.ddseq
  /\ m.state = EXCHANGE => s.state >= EXCHANGE \/ \A q \in ds : ~q.init
  /\ s.state >= LOADING => \A q \in ds : q.seq = s.ddseq => ~q.init
  /\ m.state = EXSTART /\ s.state >= EXCHANGE /\ s.ddseq = m.ddseq => s.state = EXCHANGE

(* no request is on the wire *)
NoReq(w) == \A i \in DOMAIN w : w[i].t # "req"

(* no request follows the packet of number v: a request could send the slave  *)
(* back to ExStart (nfsmBadLSReq)                                             *)
ReqBefore(w, v) ==
  \A i, j \in DOMAIN w : i < j /\ w[i].t = "dd" /\ w[i].seq = v => w[j].t # "req"

(* the master asks for LSAs only when it has the slave's whole summary, and   *)
(* then no old request of it is left to break the new exchange                *)
NoStrayRequest(m, s, w) ==
  /\ m.state = EXSTART => ReqBefore(w, m.ddseq)
  /\ m.state = EXSTART /\ s.state >= EXCHANGE /\ s.ddseq = m.ddseq => NoReq(w)
  /\ m.state = EXCHANGE => NoReq(w)

(* the exchange as the master sees it *)
Paired(m, s, ds, rp, c2, w) == MasterCovered(m, s, rp, c2) /\ Synced(m, s, ds, rp) /\ NoStrayRequest(m, s, w)

(* a step of the master that neither begins nor ends anything *)
LEMMA MasterQuietPaired ==
  ASSUME NEW m, NEW s, NEW ds, NEW rp, NEW c2, NEW w, Paired(m, s, ds, rp, c2, w),
         NEW m2, NEW rp2, NEW d2, NEW w2, rp2 \subseteq rp, m2.state \in Nat, m.state \in Nat,
         m2.state >= EXSTART => /\ c2 \subseteq d2 /\ m2.ddseq = m.ddseq
                                /\ m2.state = m.state \/ (m.state >= LOADING /\ m2.state >= LOADING),
         Building(m2) => (NoReq(w) => NoReq(w2)) /\ (ReqBefore(w, m.ddseq) => ReqBefore(w2, m.ddseq))
  PROVE  Paired(m2, s, ds, rp2, d2, w2)
<1> USE DEF Paired
<1>1. MasterCovered(m2, s, rp2, d2)
  BY CompleteMore DEF MasterCovered, Building, EXSTART, EXCHANGE, LOADING
<1>2. Synced(m2, s, ds, rp2)
  BY DEF Synced, EXSTART, EXCHANGE, LOADING
<1>3. NoStrayRequest(m2, s, w2)
  BY DEF NoStrayRequest, Building, EXSTART, EXCHANGE, LOADING
<1> QED BY <1>1, <1>2, <1>3

(* the master is done: the slave has nothing more to say *)
LEMMA MasterDonePaired ==
  ASSUME NEW m, NEW s, NEW ds, NEW rp, NEW c2, NEW w, Paired(m, s, ds, rp, c2, w),
         NEW m2, NEW rp2, NEW d2, NEW w2, NEW p \in rp, p.seq = m.ddseq, ~p.more,
         m.state = EXCHANGE, m2.state \in {LOADING, FULL}, c2 \subseteq d2,
         \A e \in Ext : ExtLsa(e) \in LsasOf(p.hs) => e \in d2
  PROVE  Paired(m2, s, ds, rp2, d2, w2)
<1>1. Complete(d2, {})
  <2>1. Complete(c2, p.hs)
    BY DEF Paired, MasterCovered
  <2> QED BY <2>1 DEF Complete
<1>2. MasterCovered(m2, s, rp2, d2)
  BY <1>1 DEF MasterCovered, Building, EXSTART, EXCHANGE, LOADING, FULL
<1>3. Synced(m2, s, ds, rp2)
  BY DEF Paired, Synced, EXSTART, EXCHANGE, LOADING, FULL
<1>4. NoStrayRequest(m2, s, w2)
  BY DEF NoStrayRequest, EXSTART, EXCHANGE, LOADING, FULL
<1> QED BY <1>2, <1>3, <1>4 DEF Paired

(* the master begins *)
LEMMA MasterBeginPaired ==
  ASSUME NEW m, NEW s, NEW ds, NEW rp, NEW hi, NEW c1, NEW c2, NEW w,
         Led(m, s, ds, rp, hi, c1), Paired(m, s, ds, rp, c2, w),
         NEW m2, NEW ds2, NEW rp2, NEW d2, NEW w2, m2.state = EXSTART, m2.ddseq \in Nat, hi < m2.ddseq,
         rp2 \subseteq rp, LastDdFits(m2), ds2 \subseteq ds \union {m2.lastdd}, ReqBefore(w2, m2.ddseq)
  PROVE  Paired(m2, s, ds2, rp2, d2, w2)
<1> DEFINE new == m2.lastdd
<1>1. new.seq = m2.ddseq
  BY DEF LastDdFits, Dd
<1> HIDE DEF new
<1>2. \A q \in ds2 : q \in ds \/ q = new
  BY DEF new
<1>3. /\ \A p \in rp2 : p.seq # m2.ddseq
      /\ s.state >= EXCHANGE => s.ddseq # m2.ddseq
  BY DEF Led, DdTypes, DdBounded
<1>4. MasterCovered(m2, s, rp2, d2)
  BY <1>3 DEF MasterCovered, EXSTART, EXCHANGE, LOADING
<1>5. Synced(m2, s, ds2, rp2)
  <2>1. s.state >= LOADING => s.state >= EXCHANGE
    BY DEF Led, DdTypes, LOADING, EXCHANGE
  <2> QED BY <1>1, <1>2, <1>3, <2>1 DEF Paired, Synced, EXSTART, EXCHANGE
<1>6. NoStrayRequest(m2, s, w2)
  BY <1>3 DEF NoStrayRequest, EXSTART, EXCHANGE
<1> QED BY <1>4, <1>5, <1>6 DEF Paired

(* the master repeats its last DD packet *)
LEMMA MasterRxmtPaired ==
  ASSUME NEW m, NEW s, NEW ds, NEW rp, NEW hi, NEW c1, NEW c2, NEW w,
         Led(m, s, ds, rp, hi, c1), Paired(m, s, ds, rp, c2, w),
         NEW ds2, NEW w2, Building(m), LastDdFits(m), m.sent \subseteq m.ddsum, ds2 = ds \union {m.lastdd},
         NoReq(w) => NoReq(w2), ReqBefore(w, m.ddseq) => ReqBefore(w2, m.ddseq)
  PROVE  Paired(m, s, ds2, rp, c2, w2)
<1> DEFINE new == m.lastdd
<1>1. /\ new.seq = m.ddseq
      /\ m.state = EXSTART => new.init
      /\ m.state = EXCHANGE => ~new.init
  BY LastDdFields
<1> HIDE DEF new
<1>2. \A q \in ds2 : q \in ds \/ q = new
  BY DEF new
<1>3. Synced(m, s, ds2, rp)
  BY <1>1, <1>2 DEF Paired, Led, DdTypes, Synced, Building, EXSTART, EXCHANGE, LOADING
<1>4. NoStrayRequest(m, s, w2)
  BY DEF Paired, NoStrayRequest
<1> QED BY <1>3, <1>4 DEF Paired

(* the master takes an answer and sends the next packet *)
LEMMA MasterNextPaired ==
  ASSUME NEW m, NEW s, NEW ds, NEW rp, NEW hi, NEW c1, NEW c2, NEW w,
         Led(m, s, ds, rp, hi, c1), Paired(m, s, ds, rp, c2, w),
         NEW m2, NEW ds2, NEW rp2, NEW d2, NEW w2, NEW p \in rp, p.seq = m.ddseq, Building(m),
         LastDdFits(m2), m2.sent \subseteq m2.ddsum,
         m2.state = EXCHANGE, m2.ddseq = m.ddseq + 1, rp2 \subseteq rp, ds2 = ds \union {m2.lastdd},
         c2 \subseteq d2, \A e \in Ext : ExtLsa(e) \in LsasOf(p.hs) => e \in d2,
         NoReq(w) => NoReq(w2)
  PROVE  Paired(m2, s, ds2, rp2, d2, w2)
<1> DEFINE new == m2.lastdd
<1>0. m.ddseq = hi /\ hi \in Nat
  BY DEF Building, Led, DdTypes, DdBounded, EXSTART, EXCHANGE
<1>1. ~new.init
  BY LastDdFields DEF Building
<1> HIDE DEF new
<1>2. \A q \in ds2 : q \in ds \/ q = new
  BY DEF new
<1>3. /\ \A g \in rp2 : g.seq # m2.ddseq
      /\ s.state >= EXCHANGE => s.ddseq # m2.ddseq
  BY <1>0 DEF Led, DdTypes, DdBounded
<1>4. s.state = EXCHANGE => Complete(d2, s.ddsum \ s.sent)
  <2> SUFFICES ASSUME s.state = EXCHANGE PROVE Complete(d2, s.ddsum \ s.sent)
    OBVIOUS
  <2>1. s.ddseq = m.ddseq
    BY <1>0 DEF Led, DdTypes, DdBounded, DdAcked, EXCHANGE
  <2>2. Complete(c2, s.ddsum) /\ p.hs = s.sent
    BY <2>1 DEF Paired, MasterCovered, Building
  <2> QED BY <2>2 DEF Complete, LsasOf
<1>5. MasterCovered(m2, s, rp2, d2)
  BY <1>3, <1>4 DEF MasterCovered, Building, EXSTART, EXCHANGE, LOADING
<1>6. Synced(m2, s, ds2, rp2)
  BY <1>1, <1>2 DEF Paired, Synced, Building, EXSTART, EXCHANGE, LOADING
<1>7. NoStrayRequest(m2, s, w2)
  BY DEF Paired, Synced, NoStrayRequest, Building, EXSTART, EXCHANGE
<1> QED BY <1>5, <1>6, <1>7 DEF Paired

(* a step of the slave that neither begins nor ends anything *)
LEMMA SlaveQuietPaired ==
  ASSUME NEW m, NEW s, NEW ds, NEW rp, NEW c2, NEW w, Paired(m, s, ds, rp, c2, w),
         NEW s2, NEW ds2, NEW w2, ds2 \subseteq ds, s.state \in Nat, s2.state \in Nat,
         \/ s2.state = s.state
         \/ s.state < EXSTART /\ s2.state < EXSTART
         \/ s.state = LOADING /\ s2.state = FULL,
         s2.ddseq = s.ddseq, s2.ddsum = s.ddsum, s2.sent = s.sent,
         NoReq(w) => NoReq(w2), ReqBefore(w, m.ddseq) => ReqBefore(w2, m.ddseq)
  PROVE  Paired(m, s2, ds2, rp, c2, w2)
<1>1. MasterCovered(m, s2, rp, c2)
  BY DEF Paired, MasterCovered, EXSTART, EXCHANGE, LOADING, FULL
<1>2. Synced(m, s2, ds2, rp)
  BY DEF Paired, Synced, EXSTART, EXCHANGE, LOADING, FULL
<1>3. NoStrayRequest(m, s2, w2)
  BY DEF Paired, NoStrayRequest, EXSTART, EXCHANGE, LOADING, FULL
<1> QED BY <1>1, <1>2, <1>3 DEF Paired

(* the slave begins again: never with an answer to the master's first packet *)
(* on the wire, and never while the master's first packet may still come     *)
LEMMA SlaveBeginPaired ==
  ASSUME NEW m, NEW s, NEW ds, NEW rp, NEW hi, NEW c1, NEW c2, NEW w,
         Led(m, s, ds, rp, hi, c1), Paired(m, s, ds, rp, c2, w),
         LastDdFits(m), m.sent \subseteq m.ddsum,
         NEW s2, NEW ds2, NEW w2, ds2 \subseteq ds, s2.state = EXSTART,
         \/ s.state < EXSTART
         \/ ~NoReq(w) /\ s.state >= EXCHANGE
         \/ \E p \in ds : /\ s.state >= EXCHANGE /\ \A q \in ds2 : p.seq <= q.seq
                          /\ s.ddseq < p.seq \/ (s.state >= LOADING /\ p.init),
         NoReq(w) => NoReq(w2), ReqBefore(w, m.ddseq) => ReqBefore(w2, m.ddseq)
  PROVE  Paired(m, s2, ds2, rp, c2, w2)
<1>1. MasterCovered(m, s2, rp, c2)
  BY DEF Paired, MasterCovered, EXSTART, EXCHANGE, LOADING, FULL
<1>2. ASSUME m.state = EXSTART, NEW p \in rp, p.seq = m.ddseq PROVE FALSE
  <2>1. s.state = EXCHANGE /\ s.ddseq = m.ddseq
    BY <1>2 DEF Paired, Synced
  <2>2. NoReq(w) /\ \A q \in ds : q.seq <= s.ddseq
    BY <1>2, <2>1 DEF Paired, NoStrayRequest, Led, DdBounded, DdTypes, EXSTART, EXCHANGE
  <2> QED BY <2>1, <2>2 DEF Led, DdTypes, EXSTART, EXCHANGE, LOADING
<1>3. ASSUME m.state = EXCHANGE, NEW q \in ds2, q.init PROVE FALSE
  <2>1. CASE s.state < EXSTART
    BY <1>3, <2>1 DEF Paired, Synced, Led, DdTypes, EXSTART, EXCHANGE
  <2>2. CASE ~NoReq(w) /\ s.state >= EXCHANGE
    BY <1>3, <2>2 DEF Paired, NoStrayRequest
  <2>3. ASSUME NEW p \in ds, s.state >= EXCHANGE, \A g \in ds2 : p.seq <= g.seq,
               s.ddseq < p.seq \/ (s.state >= LOADING /\ p.init)
        PROVE  FALSE
    <3>1. CASE s.ddseq < p.seq
      <4>1. p.seq <= q.seq /\ q.seq <= m.ddseq /\ m.ddseq <= s.ddseq + 1
        BY <1>3, <2>3 DEF Led, DdTypes, DdBounded, DdAcked, EXSTART, EXCHANGE
      <4>2. q.seq = m.ddseq
        BY <1>3, <2>3, <3>1, <4>1 DEF Led, DdTypes
      <4>3. q = m.lastdd /\ ~m.lastdd.init
        BY <1>3, <4>2, LastDdFields DEF Led, DdCurrent, Building
      <4> QED BY <1>3, <4>3
    <3>2. CASE ~(s.ddseq < p.seq)
      <4>1. p.seq = s.ddseq
        BY <2>3, <3>2 DEF Led, DdTypes, DdAcked
      <4> QED BY <2>3, <3>2, <4>1 DEF Paired, Synced
    <3> QED BY <3>1, <3>2
  <2> QED BY <2>1, <2>2, <2>3
<1>4. Synced(m, s2, ds2, rp)
  BY <1>2, <1>3 DEF Synced, EXSTART, EXCHANGE, LOADING, FULL
<1>5. NoStrayRequest(m, s2, w2)
  BY DEF Paired, NoStrayRequest, EXSTART, EXCHANGE
<1> QED BY <1>1, <1>4, <1>5 DEF Paired

(* the slave repeats its last answer *)
LEMMA SlaveRxmtPaired ==
  ASSUME NEW m, NEW s, NEW ds, NEW rp, NEW c2, NEW w, Paired(m, s, ds, rp, c2, w),
         NEW rp2, s.state = EXCHANGE, LastDdFits(s), s.sent \subseteq s.ddsum, rp2 \subseteq rp \union {s.lastdd}
  PROVE  Paired(m, s, ds, rp2, c2, w)
<1> DEFINE new == s.lastdd
<1>1. new.seq = s.ddseq /\ new.hs = s.sent /\ (~new.more => s.ddsum = {} /\ new.hs = {})
  BY LastDdFields DEF Building
<1> HIDE DEF new
<1>2. \A g \in rp2 : g \in rp \/ g = new
  BY DEF new
<1>3. MasterCovered(m, s, rp2, c2)
  BY <1>1, <1>2 DEF Paired, MasterCovered
<1>4. Synced(m, s, ds, rp2)
  BY <1>1, <1>2 DEF Paired, Synced
<1> QED BY <1>3, <1>4 DEF Paired

(* the slave takes the master's first packet, and lists its whole database *)
LEMMA SlaveFirstPaired ==
  ASSUME NEW m, NEW s, NEW ds, NEW rp, NEW hi, NEW c1, NEW c2, NEW w,
         Led(m, s, ds, rp, hi, c1), Paired(m, s, ds, rp, c2, w),
         LastDdFits(m), m.sent \subseteq m.ddsum,
         NEW s2, NEW ds2, NEW rp2, NEW w2, NEW p \in ds, p.init, s.state \in Nat, s.state < EXCHANGE,
         ds2 \subseteq ds, s2.state = EXCHANGE, s2.ddseq = p.seq,
         LastDdFits(s2), s2.sent \subseteq s2.ddsum, s2.lastdd.more, rp2 \subseteq rp \union {s2.lastdd},
         \A e \in Ext : ExtSeq[R1][e] > 0 => ExtLsa(e) \in LsasOf(s2.ddsum),
         \A e \in Ext : ExtSeq[R1][e] = 0 => e \in c2,
         NoReq(w) => NoReq(w2), ReqBefore(w, m.ddseq) => ReqBefore(w2, m.ddseq),
         ReqBefore(w, p.seq) => NoReq(w2)
  PROVE  Paired(m, s2, ds2, rp2, c2, w2)
<1> DEFINE new == s2.lastdd
<1>1. new.seq = p.seq /\ new.hs = s2.sent /\ new.more
  BY LastDdFields DEF Building
<1> HIDE DEF new
<1>2. \A g \in rp2 : g \in rp \/ g = new
  BY DEF new
<1>3. m.state # EXCHANGE
  BY DEF Paired, Synced, EXSTART, EXCHANGE
<1>4. ASSUME m.state = EXSTART, NEW g \in rp, g.seq = m.ddseq PROVE FALSE
  BY <1>4 DEF Paired, Synced, EXSTART, EXCHANGE
<1>5. Complete(c2, s2.ddsum)
  BY ExtSeqNat DEF Complete, Router
<1>6. MasterCovered(m, s2, rp2, c2)
  BY <1>1, <1>2, <1>3, <1>4, <1>5 DEF Paired, MasterCovered, Building
<1>7. Synced(m, s2, ds2, rp2)
  BY <1>1, <1>2, <1>3, <1>4 DEF Synced, EXCHANGE, LOADING
<1>8. NoStrayRequest(m, s2, w2)
  BY <1>3 DEF Paired, NoStrayRequest
<1> QED BY <1>6, <1>7, <1>8 DEF Paired

(* the slave takes the packet that follows *)
LEMMA SlaveNextPaired ==
  ASSUME NEW m, NEW s, NEW ds, NEW rp, NEW hi, NEW c1, NEW c2, NEW w,
         Led(m, s, ds, rp, hi, c1), Paired(m, s, ds, rp, c2, w),
         LastDdFits(m), m.sent \subseteq m.ddsum,
         NEW s2, NEW ds2, NEW rp2, NEW w2, NEW new, NEW p \in ds, ~p.init,
         s.state = EXCHANGE, p.seq = s.ddseq + 1,
         ds2 \subseteq ds, s2.state \in {EXCHANGE, LOADING, FULL}, s2.ddseq = p.seq,
         s2.ddsum = s.ddsum \ s.sent, s2.sent \subseteq s2.ddsum,
         new.seq = p.seq, new.hs = s2.sent, ~new.more => s2.ddsum = {}, rp2 \subseteq rp \union {new},
         NoReq(w) => NoReq(w2), ReqBefore(w, m.ddseq) => ReqBefore(w2, m.ddseq)
  PROVE  Paired(m, s2, ds2, rp2, c2, w2)
<1>2. \A g \in rp2 : g \in rp \/ g = new
  OBVIOUS
<1>3. Building(m) => p.seq <= m.ddseq
  BY DEF Building, Led, DdTypes, DdBounded, EXSTART, EXCHANGE
<1>4. m.state = EXSTART => p.seq # m.ddseq
  BY LastDdFields DEF Led, DdCurrent, Building
<1>5. ASSUME Building(m), NEW g \in rp, g.seq = m.ddseq PROVE FALSE
  BY <1>3, <1>5 DEF Led, DdTypes, DdAcked, EXCHANGE
<1>6. m.state = EXCHANGE => p.seq + 1 # m.ddseq
  BY DEF Led, DdAcked, DdTypes, EXCHANGE
<1>7. MasterCovered(m, s2, rp2, c2)
  <2>1. ASSUME m.state = EXCHANGE, p.seq = m.ddseq PROVE Complete(c2, s2.ddsum)
    BY <2>1 DEF Paired, MasterCovered
  <2>2. ASSUME m.state = EXCHANGE, NEW g \in rp2, g.seq = m.ddseq, ~g.more PROVE Complete(c2, g.hs)
    <3>1. g = new /\ s2.ddsum = {} /\ new.hs = {}
      BY <1>2, <1>5, <2>2 DEF Building
    <3> QED BY <2>1, <2>2, <3>1
  <2>3. ASSUME Building(m), NEW g \in rp2, g.seq = m.ddseq PROVE g.hs = s2.sent
    BY <1>2, <1>5, <2>3
  <2>4. m.state >= LOADING => Complete(c2, {})
    BY DEF Paired, MasterCovered
  <2> QED BY <1>4, <1>6, <2>1, <2>2, <2>3, <2>4 DEF MasterCovered
<1>8. Synced(m, s2, ds2, rp2)
  <2>1. ASSUME m.state = EXSTART, NEW g \in rp2, g.seq = m.ddseq PROVE FALSE
    BY <1>2, <1>4, <1>5, <2>1 DEF Building
  <2>2. s2.state >= EXCHANGE
    BY DEF EXCHANGE, LOADING, FULL
  <2>3. ASSUME NEW q \in ds2, q.seq = p.seq PROVE ~q.init
    BY <2>3 DEF Led, DdCurrent
  <2> QED BY <1>4, <2>1, <2>2, <2>3 DEF Synced
<1>9. NoStrayRequest(m, s2, w2)
  BY <1>4 DEF Paired, NoStrayRequest
<1> QED BY <1>7, <1>8, <1>9 DEF Paired

(* ----------------------- the packets on the wires ----------------------- *)
(* the packets on a wire, the DD packets among them, and the slave's answers *)
Pkts(w) == {w[i] : i \in DOMAIN w}

Dds(w) == {p \in Pkts(w) : p.t = "dd"}

Replies(w) == {p \in Dds(w) : ~p.init}

(* the numbers of the DD packets on a wire do not go down *)
InOrder(w) ==
  \A i, j \in DOMAIN w : i < j /\ w[i].t = "dd" /\ w[j].t = "dd" => w[i].seq <= w[j].seq

(* DD packets on a wire have the fields of DD packets *)
LEMMA DdsType ==
  ASSUME NEW w \in Seq(Pkt)
  PROVE  Pkts(w) \subseteq Pkt /\ \A p \in Dds(w) : p \in DdPkt /\ p.seq \in Nat
<1>1. Pkts(w) \subseteq Pkt
  BY DEF Pkts
<1>2. \A p \in Pkt : p.t = "dd" => p \in DdPkt
  BY DEF Pkt, DdPkt, ReqPkt
<1>3. \A p \in DdPkt : p.seq \in Nat
  BY DEF DdPkt
<1> QED BY <1>1, <1>2, <1>3 DEF Dds

(* the wire after its first packet was taken or lost *)
LEMMA TailWire ==
  ASSUME NEW w \in Seq(Pkt), w # <<>>
  PROVE  /\ Head(w) \in Pkts(w) /\ Tail(w) \in Seq(Pkt)
         /\ Pkts(Tail(w)) \subseteq Pkts(w) /\ Dds(Tail(w)) \subseteq Dds(w)
         /\ Replies(Tail(w)) \subseteq Replies(w)
         /\ InOrder(w) => InOrder(Tail(w))
         /\ NoReq(w) => NoReq(Tail(w)) /\ Head(w).t # "req"
         /\ \A v : ReqBefore(w, v) => ReqBefore(Tail(w), v)
         /\ InOrder(w) /\ Head(w).t = "dd" => \A q \in Dds(Tail(w)) : Head(w).seq <= q.seq
         /\ Head(w).t = "dd" /\ ReqBefore(w, Head(w).seq) => NoReq(Tail(w))
<1>1. Len(w) \in Nat /\ Len(w) > 0 /\ DOMAIN w = 1..Len(w) /\ Head(w) = w[1]
  BY EmptySeq
<1>2. Tail(w) \in Seq(Pkt) /\ DOMAIN Tail(w) = 1..(Len(w) - 1)
  BY <1>1
<1>3. \A i \in 1..(Len(w) - 1) : Tail(w)[i] = w[i + 1]
  BY <1>1
<1> DEFINE t == Tail(w)
           h == Head(w)
           n == Len(w)
<1>4. /\ n \in Nat /\ n > 0 /\ DOMAIN w = 1..n /\ h = w[1] /\ DOMAIN t = 1..(n - 1)
      /\ \A i \in 1..(n - 1) : t[i] = w[i + 1]
  BY <1>1, <1>2, <1>3
<1> HIDE DEF t, h, n
<1>5. h \in Pkts(w) /\ Pkts(t) \subseteq Pkts(w)
  BY <1>4 DEF Pkts
<1>6. Dds(t) \subseteq Dds(w) /\ Replies(t) \subseteq Replies(w)
  BY <1>5 DEF Dds, Replies
<1>a. \A i \in DOMAIN t : i + 1 \in DOMAIN w /\ t[i] = w[i + 1]
  BY <1>4
<1>b. 1 \in DOMAIN w /\ \A i, j \in DOMAIN t : i < j => i + 1 < j + 1
  BY <1>4
<1>7. InOrder(w) => InOrder(t)
  BY <1>a, <1>b DEF InOrder
<1>8. NoReq(w) => NoReq(t) /\ h.t # "req"
  BY <1>4, <1>a, <1>b DEF NoReq
<1>9. ASSUME NEW v, ReqBefore(w, v) PROVE ReqBefore(t, v)
  BY <1>9, <1>a, <1>b DEF ReqBefore
<1>10. InOrder(w) /\ h.t = "dd" => \A q \in Dds(t) : h.seq <= q.seq
  BY <1>4 DEF InOrder, Dds, Pkts
<1>11. h.t = "dd" /\ ReqBefore(w, h.seq) => NoReq(t)
  BY <1>4 DEF ReqBefore, NoReq
<1> QED BY <1>2, <1>5, <1>6, <1>7, <1>8, <1>9, <1>10, <1>11 DEF t, h

(* the wire after packets were sent *)
LEMMA SentWire ==
  ASSUME NEW w \in Seq(Pkt), NEW o \in Seq(Pkt)
  PROVE  /\ w \o o \in Seq(Pkt)
         /\ Pkts(w \o o) = Pkts(w) \union Pkts(o) /\ Dds(w \o o) = Dds(w) \union Dds(o)
         /\ Replies(w \o o) = Replies(w) \union Replies(o)
         /\ \A v : (\A p \in Dds(w) : p.seq <= v) /\ (\A p \in Dds(o) : p.seq = v) /\ InOrder(w) => InOrder(w \o o)
         /\ Dds(o) = {} /\ InOrder(w) => InOrder(w \o o)
         /\ NoReq(w) /\ NoReq(o) => NoReq(w \o o)
         /\ \A v : NoReq(o) /\ ReqBefore(w, v) => ReqBefore(w \o o, v)
<1> DEFINE z == w \o o
           m == Len(w)
           n == Len(o)
<1>1. /\ m \in Nat /\ n \in Nat /\ DOMAIN w = 1..m /\ DOMAIN o = 1..n /\ DOMAIN z = 1..(m + n)
      /\ \A i \in 1..(m + n) : z[i] = IF i <= m THEN w[i] ELSE o[i - m]
  OBVIOUS
<1>2. z \in Seq(Pkt)
  OBVIOUS
<1> HIDE DEF z, m, n
<1>3. Pkts(z) = Pkts(w) \union Pkts(o)
  <2>1. ASSUME NEW i \in 1..m PROVE z[i] = w[i] /\ i \in 1..(m + n)
    BY <1>1
  <2>2. ASSUME NEW i \in 1..n PROVE z[m + i] = o[i] /\ m + i \in 1..(m + n)
    BY <1>1
  <2>3. ASSUME NEW i \in 1..(m + n) PROVE (i \in 1..m /\ z[i] = w[i]) \/ (i - m \in 1..n /\ z[i] = o[i - m])
    BY <1>1
  <2>4. \A p \in Pkts(z) : p \in Pkts(w) \/ p \in Pkts(o)
    BY <1>1, <2>3 DEF Pkts
  <2>5. \A p \in Pkts(w) : p \in Pkts(z)
    BY <1>1, <2>1 DEF Pkts
  <2>6. \A p \in Pkts(o) : p \in Pkts(z)
    BY <1>1, <2>2 DEF Pkts
  <2> QED BY <2>4, <2>5, <2>6
<1>4. Dds(z) = Dds(w) \union Dds(o) /\ Replies(z) = Replies(w) \union Replies(o)
  BY <1>3 DEF Dds, Replies
<1>5. ASSUME NEW i \in DOMAIN z, NEW j \in DOMAIN z, i < j
      PROVE  \/ i \in DOMAIN w /\ j \in DOMAIN w /\ z[i] = w[i] /\ z[j] = w[j]
             \/ i \in DOMAIN w /\ j - m \in DOMAIN o /\ z[i] = w[i] /\ z[j] = o[j - m]
             \/ i - m \in DOMAIN o /\ j - m \in DOMAIN o /\ z[i] = o[i - m] /\ z[j] = o[j - m] /\ i - m < j - m
  BY <1>1, <1>5
<1>6. ASSUME NEW v, \A p \in Dds(w) : p.seq <= v, \A p \in Dds(o) : p.seq = v, InOrder(w) PROVE InOrder(z)
  <2>0. (\A i \in DOMAIN w : w[i] \in Pkts(w)) /\ (\A i \in DOMAIN o : o[i] \in Pkts(o))
    BY DEF Pkts
  <2>a. \A p \in Dds(o) : p.seq \in Nat
    BY DdsType
  <2>1. ASSUME NEW i \in DOMAIN z, NEW j \in DOMAIN z, i < j, z[i].t = "dd", z[j].t = "dd"
        PROVE  z[i].seq <= z[j].seq
    <3>1. CASE i \in DOMAIN w /\ j \in DOMAIN w /\ z[i] = w[i] /\ z[j] = w[j]
      BY <1>6, <2>1, <3>1 DEF InOrder
    <3>2. CASE j - m \in DOMAIN o /\ z[j] = o[j - m] /\ i \in DOMAIN w /\ z[i] = w[i]
      <4>1. z[j] \in Dds(o) /\ z[i] \in Dds(w)
        BY <2>0, <2>1, <3>2 DEF Dds
      <4> QED BY <1>6, <4>1
    <3>3. CASE i - m \in DOMAIN o /\ j - m \in DOMAIN o /\ z[i] = o[i - m] /\ z[j] = o[j - m]
      <4>1. z[i] \in Dds(o) /\ z[j] \in Dds(o)
        BY <2>0, <2>1, <3>3 DEF Dds
      <4> QED BY <1>6, <2>a, <4>1
    <3> QED BY <1>5, <2>1, <3>1, <3>2, <3>3
  <2> QED BY <2>1 DEF InOrder
<1>7. ASSUME Dds(o) = {}, InOrder(w) PROVE InOrder(z)
  <2>0. \A i \in DOMAIN o : o[i].t # "dd"
    BY <1>7 DEF Dds, Pkts
  <2> QED BY <1>5, <1>7, <2>0 DEF InOrder
<1>8. ASSUME NoReq(w), NoReq(o) PROVE NoReq(z)
  BY <1>1, <1>8 DEF NoReq
<1>9. ASSUME NEW v, NoReq(o), ReqBefore(w, v) PROVE ReqBefore(z, v)
  BY <1>5, <1>9 DEF NoReq, ReqBefore
<1> QED BY <1>2, <1>3, <1>4, <1>6, <1>7, <1>8, <1>9 DEF z

(* --------- the external LSAs in what the routers hold and send ---------- *)
(* instances of r's external LSAs are never MaxAge and at least as recent as  *)
(* those r booted with                                                        *)
GoodInsts(r, I) == \A i \in I, e \in Ext : i.l = ExtLsa(e) => ~i.max /\ i.seq >= ExtSeq[r][e]

(* the database of r: entries are where they belong, external LSAs are        *)
(* learned, and at least as recent as at boot                                 *)
GoodDb(r, d) ==
  /\ \A k \in Key : d.db[k].l = k[1]
  /\ \A e \in Ext : /\ d.db[<<ExtLsa(e), TRUE>>].seq = 0
                    /\ ~d.db[<<ExtLsa(e), FALSE>>].max
                    /\ d.db[<<ExtLsa(e), FALSE>>].seq >= ExtSeq[r][e]

(* what r sends of external LSAs *)
GoodPkt(r, p) == p.t \in {"dd", "upd"} => GoodInsts(r, p.hs)

(* what r holds: database, summary and retransmission list, and the DD packet *)
(* it repeats                                                                 *)
Held(r, n, d) == GoodDb(r, d) /\ GoodInsts(r, n.ddsum) /\ GoodInsts(r, n.rxmt) /\ LastDdFits(n)

(* ... and what it is about to send *)
Known(r, x) == Held(r, x.n, x.d) /\ \A p \in Pkts(x.out) : GoodPkt(r, p)

(* the database changes, but none of the external LSAs in it *)
SameExt(d, e) ==
  /\ \A k \in Key : d.db[k].l = k[1] => e.db[k].l = k[1]
  /\ \A k \in Key : k[1][1] = "ext" => e.db[k] = d.db[k]

(* the neighbour changes, but only its retransmission list *)
SameNb(n, q) ==
  /\ q.state = n.state /\ q.master = n.master /\ q.ddseq = n.ddseq
  /\ q.ddsum = n.ddsum /\ q.sent = n.sent /\ q.lsreq = n.lsreq /\ q.lastdd = n.lastdd

(* what an operation on LSAs of these two routers does *)
Tame(r, x, y) ==
  /\ y \in XType /\ SameNb(x.n, y.n) /\ SameExt(x.d, y.d)
  /\ GoodInsts(r, x.n.rxmt) /\ GoodDb(r, x.d) => GoodInsts(r, y.n.rxmt)
  /\ \A p \in Pkts(y.out) :
       p \in Pkts(x.out) \/ (p.t = "upd" /\ (GoodDb(r, x.d) => GoodInsts(r, p.hs)))

(* the external LSAs are not router or network LSAs, and have their entries   *)
(* in the database                                                            *)
LEMMA ExtKey ==
  /\ \A e \in Ext : ExtLsa(e) \in Lsa /\ ExtLsa(e)[1] = "ext"
  /\ \A e \in Ext, self \in BOOLEAN : <<ExtLsa(e), self>> \in Key /\ <<ExtLsa(e), self>>[1] = ExtLsa(e)
  /\ \A r \in Router : Rtr(r)[1] # "ext" /\ Net(r)[1] # "ext"
  /\ \A l \in Lsa : l[1] = "ext" => \E e \in Ext : l = ExtLsa(e)
<1>1. \A e \in Ext : ExtLsa(e) \in Lsa /\ ExtLsa(e)[1] = "ext"
  BY DEF ExtLsa, Lsa
<1>2. \A e \in Ext, self \in BOOLEAN : <<ExtLsa(e), self>> \in Key /\ <<ExtLsa(e), self>>[1] = ExtLsa(e)
  BY <1>1, KeyType
<1>3. \A r \in Router : Rtr(r)[1] # "ext" /\ Net(r)[1] # "ext"
  BY DEF Rtr, Net
<1>4. \A l \in Lsa : l[1] = "ext" => \E e \in Ext : l = ExtLsa(e)
  BY <1>3 DEF ExtLsa, Lsa
<1> QED BY <1>1, <1>2, <1>3, <1>4

(* a database whose external LSAs are untouched stays good *)
LEMMA SameExtGood ==
  ASSUME NEW r \in Router, NEW d, NEW e, SameExt(d, e), GoodDb(r, d)
  PROVE  GoodDb(r, e) /\ \A a \in Ext : e.db[<<ExtLsa(a), FALSE>>] = d.db[<<ExtLsa(a), FALSE>>]
<1>1. \A a \in Ext, self \in BOOLEAN : e.db[<<ExtLsa(a), self>>] = d.db[<<ExtLsa(a), self>>]
  BY ExtKey DEF SameExt
<1>2. \A k \in Key : e.db[k].l = k[1]
  BY DEF SameExt, GoodDb
<1> QED BY <1>1, <1>2 DEF GoodDb

(* a record that is left alone *)
LEMMA TameSelf == ASSUME NEW r \in Router, NEW x \in XType PROVE Tame(r, x, x)
BY DEF Tame, SameNb, SameExt

(* one handler calls several operations *)
LEMMA TameTrans ==
  ASSUME NEW r \in Router, NEW x, NEW y, NEW z, Tame(r, x, y), Tame(r, y, z)
  PROVE  Tame(r, x, z)
<1>1. GoodDb(r, x.d) => GoodDb(r, y.d)
  BY SameExtGood DEF Tame
<1>2. SameExt(x.d, z.d)
  BY DEF Tame, SameExt
<1>3. SameNb(x.n, z.n)
  BY DEF Tame, SameNb
<1>4. \A p \in Pkts(z.out) :
       p \in Pkts(x.out) \/ (p.t = "upd" /\ (GoodDb(r, x.d) => GoodInsts(r, p.hs)))
  BY <1>1 DEF Tame
<1> QED BY <1>1, <1>2, <1>3, <1>4 DEF Tame

(* what is known of a record is known of it after a tame operation *)
LEMMA TameKnown ==
  ASSUME NEW r \in Router, NEW x, NEW y, Known(r, x), Tame(r, x, y)
  PROVE  Known(r, y)
<1>1. GoodDb(r, y.d)
  BY SameExtGood DEF Tame, Known, Held
<1>2. \A p \in Pkts(y.out) : GoodPkt(r, p)
  BY DEF Tame, Known, Held, GoodPkt
<1>3. GoodInsts(r, y.n.ddsum) /\ GoodInsts(r, y.n.rxmt)
  BY DEF Tame, SameNb, Known, Held
<1>4. LastDdFits(y.n)
  BY DEF Tame, SameNb, Known, Held, LastDdFits
<1> QED BY <1>1, <1>2, <1>3, <1>4 DEF Known, Held

(* a change of the database alone *)
LEMMA TameDb ==
  ASSUME NEW r \in Router, NEW x \in XType, NEW d \in LsType, SameExt(x.d, d)
  PROVE  Tame(r, x, [x EXCEPT !.d = d])
<1> DEFINE y == [x EXCEPT !.d = d]
<1>1. y \in XType /\ y.n = x.n /\ y.d = d /\ y.out = x.out
  BY DEF XType
<1> HIDE DEF y
<1> QED BY <1>1 DEF Tame, SameNb, y

(* several changes of a database leave the external LSAs alone *)
LEMMA SameExtTrans ==
  ASSUME NEW a, NEW b, NEW c, SameExt(a, b), SameExt(b, c) PROVE SameExt(a, c)
BY DEF SameExt

(* lsadbRemove of LSAs of the two routers *)
LEMMA RemoveSameExt ==
  ASSUME NEW d \in LsType, NEW ks \in SUBSET Key, \A k \in ks : k[1][1] # "ext"
  PROVE  SameExt(d, lsadbRemove(d, ks))
<1> DEFINE e == lsadbRemove(d, ks)
<1>1. \A k \in Key : e.db[k] = IF k \in ks THEN NoInst(k[1]) ELSE d.db[k]
  BY DEF lsadbRemove, LsType
<1>2. \A l : NoInst(l).l = l
  BY DEF NoInst
<1> HIDE DEF e
<1> QED BY <1>1, <1>2 DEF SameExt, e

(* originating an LSA *)
LEMMA OriginateSameExt ==
  ASSUME NEW d \in LsType, NEW l \in Lsa, l[1] # "ext", NEW val \in Nat, NEW changed \in BOOLEAN
  PROVE  SameExt(d, Originate(d, l, val, changed))
<1> DEFINE e == Originate(d, l, val, changed)
           k == <<l, TRUE>>
           i == [l |-> l, seq |-> d.next, val |-> val, max |-> FALSE]
<1>1. k \in Key /\ i.l = l
  BY KeyType
<1>2. e.db[k] \in {i, d.db[k]} /\ \A j \in Key : j # k => e.db[j] = d.db[j]
  <2>1. CASE Present(d, k) /\ ~changed
    BY <1>1, <2>1 DEF Originate, LsType
  <2>2. CASE ~(Present(d, k) /\ ~changed)
    <3>1. e = [d EXCEPT !.next = @ + 1, !.db[k] = i, !.flood = @ \union {k}, !.old[l] = 0]
      BY <2>2 DEF Originate
    <3> HIDE DEF e, i, k
    <3> QED BY <1>1, <3>1 DEF LsType
  <2> QED BY <2>1, <2>2
<1> HIDE DEF e, i
<1>3. d.db[k].l = l => e.db[k].l = l
  BY <1>1, <1>2
<1>4. SameExt(d, e)
  BY <1>2, <1>3, KeyType DEF SameExt
<1> QED BY <1>4 DEF e

(* lsa_renew *)
LEMMA RenewSameExt ==
  ASSUME NEW d \in LsType, NEW l \in Lsa, l[1] # "ext"
  PROVE  SameExt(d, Renew(d, l))
<1> DEFINE e == Renew(d, l)
           k == <<l, TRUE>>
           i == [d.db[k] EXCEPT !.seq = d.next, !.max = FALSE]
<1>1. k \in Key /\ d.db[k] \in Inst
  BY KeyType, SeqType
<1>2. i.l = d.db[k].l
  BY <1>1 DEF Inst
<1>3. e = [d EXCEPT !.next = @ + 1, !.db[k] = i]
  BY DEF Renew
<1> HIDE DEF e, i, k
<1>4. e.db[k] = i /\ \A j \in Key : j # k => e.db[j] = d.db[j]
  BY <1>1, <1>3 DEF LsType
<1>5. d.db[k].l = l => e.db[k].l = l
  BY <1>2, <1>4
<1>6. k[1] = l
  BY DEF k
<1>7. \A j \in Key : d.db[j].l = j[1] => e.db[j].l = j[1]
  BY <1>4, <1>5, <1>6
<1>8. \A j \in Key : j[1][1] = "ext" => e.db[j] = d.db[j]
  BY <1>4, <1>6
<1> QED BY <1>7, <1>8 DEF SameExt, e

(* overtaking an old instance *)
LEMMA OvertakeSameExt ==
  ASSUME NEW d \in LsType, NEW l \in Lsa, l[1] # "ext"
  PROVE  SameExt(d, Overtake(d, l))
<1> DEFINE n == IF d.old[l] > d.next THEN d.old[l] + 1 ELSE d.next
           e == [d EXCEPT !.old[l] = 0, !.next = n]
<1>1. d.old[l] \in Nat /\ d.next \in Nat \ {0}
  BY DEF LsType
<1>2. n \in Nat \ {0}
  BY <1>1
<1> HIDE DEF n
<1>3. e \in LsType /\ e.db = d.db
  BY <1>2 DEF LsType
<1>4. Overtake(d, l) = Renew(e, l)
  BY DEF Overtake, n
<1> HIDE DEF e
<1>5. SameExt(d, e)
  BY <1>3 DEF SameExt
<1> QED BY <1>3, <1>4, <1>5, RenewSameExt, SameExtTrans

(* the packets after one more is sent *)
LEMMA SendPkts ==
  ASSUME NEW x \in XType, NEW p \in Pkt
  PROVE  Pkts(Send(x, p).out) = Pkts(x.out) \union {p}
<1> DEFINE o == x.out
           n == Len(o)
           a == Append(o, p)
<1>1. o \in Seq(Pkt) /\ Send(x, p).out = a
  BY DEF Send, XType
<1>2. n \in Nat /\ DOMAIN o = 1..n /\ DOMAIN a = 1..(n + 1) /\ \A i \in 1..(n + 1) : a[i] = IF i <= n THEN o[i] ELSE p
  BY <1>1
<1>3. \A i \in DOMAIN a : (i \in DOMAIN o /\ a[i] = o[i]) \/ a[i] = p
  BY <1>2
<1>4. \A i \in DOMAIN o : i \in DOMAIN a /\ a[i] = o[i]
  BY <1>2
<1>5. n + 1 \in DOMAIN a /\ a[n + 1] = p
  BY <1>2
<1> HIDE DEF a, n, o
<1>6. Pkts(a) = Pkts(o) \union {p}
  BY <1>3, <1>4, <1>5 DEF Pkts
<1> QED BY <1>1, <1>6 DEF o

(* flooding an instance: an update, and the retransmission list *)
LEMMA FloodTame ==
  ASSUME NEW r \in Router, NEW x \in XType, NEW k \in Key, NEW i \in Inst, NEW isdr \in BOOLEAN,
         GoodDb(r, x.d) => GoodInsts(r, {i})
  PROVE  Tame(r, x, Flood(x, k, i, isdr))
<1> DEFINE q == {j \in x.n.rxmt : j.l # i.l} \union {i}
           y == [x EXCEPT !.n.rxmt = q]
           u == LsUpd({i})
           z == Send(y, u)
<1>1. q \in SUBSET Inst
  BY DEF XType, NbType
<1>2. GoodInsts(r, x.n.rxmt) /\ GoodDb(r, x.d) => GoodInsts(r, q)
  BY DEF GoodInsts
<1>3. u \in Pkt /\ u.t = "upd" /\ u.hs = {i}
  BY PktType DEF LsUpd
<1> HIDE DEF q, u
<1>4. y \in XType /\ y.d = x.d /\ y.out = x.out /\ y.n.rxmt = q /\ SameNb(x.n, y.n)
  BY <1>1 DEF XType, NbType, SameNb
<1> HIDE DEF y
<1>5. z \in XType /\ z.n = y.n /\ z.d = y.d /\ Pkts(z.out) = Pkts(y.out) \union {u}
  BY <1>3, <1>4, SendType, SendPkts
<1> HIDE DEF z
<1>6. Tame(r, x, z)
  BY <1>2, <1>3, <1>4, <1>5 DEF Tame, SameExt
<1> QED BY <1>6, TameSelf DEF Flood, z, y, u, q

(* flushing an LSA of one of the two routers *)
LEMMA FlushTame ==
  ASSUME NEW r \in Router, NEW x \in XType, NEW k \in Key, k[1][1] # "ext", NEW isdr \in BOOLEAN
  PROVE  Tame(r, x, FlushLsa(x, k, isdr))
<1> DEFINE i == [x.d.db[k] EXCEPT !.max = TRUE]
           y == IF Present(x.d, k) THEN Flood(x, k, i, isdr) ELSE x
           d == lsadbRemove(y.d, {k})
           z == [y EXCEPT !.d = d]
<1>1. i \in Inst /\ i.l = x.d.db[k].l
  <2>1. x.d.db[k] \in Inst
    BY DEF XType, LsType
  <2> QED BY <2>1, MaxAgeInst DEF Inst
<1>2. GoodDb(r, x.d) => GoodInsts(r, {i})
  <2> HIDE DEF i
  <2> QED BY <1>1, ExtKey DEF GoodDb, GoodInsts
<1>3. y \in XType /\ Tame(r, x, y)
  <2> HIDE DEF i
  <2> QED BY <1>1, <1>2, FloodTame, FloodType, TameSelf
<1>4. z = FlushLsa(x, k, isdr)
  BY DEF FlushLsa
<1> HIDE DEF y
<1>5. d \in LsType /\ SameExt(y.d, d)
  BY <1>3, RemoveType, RemoveSameExt DEF XType
<1> HIDE DEF d
<1>6. Tame(r, y, z)
  BY <1>3, <1>5, TameDb
<1> QED BY <1>3, <1>4, <1>6, TameTrans

(* lsa_originate_net_update *)
LEMMA NetUpdateTame ==
  ASSUME TypeOK, NEW r \in Router, NEW x \in XType, NEW isdr \in BOOLEAN
  PROVE  Tame(r, x, NetUpdate(r, x, isdr))
<1> DEFINE d == Originate(x.d, Net(r), boot[r], FALSE)
<1>0. Net(r) \in Lsa /\ Net(r)[1] # "ext" /\ boot[r] \in Nat /\ x.d \in LsType
  BY KeyType, ExtKey DEF TypeOK, XType
<1>1. d \in LsType /\ SameExt(x.d, d)
  BY <1>0, OriginateType, OriginateSameExt
<1> HIDE DEF d
<1>2. Tame(r, x, [x EXCEPT !.d = d])
  BY <1>1, TameDb
<1>3. Tame(r, x, FlushLsa(x, <<Net(r), TRUE>>, isdr))
  BY <1>0, KeyType, FlushTame
<1> QED BY <1>2, <1>3 DEF NetUpdate, d

(* the elections, apart from the adjacency they may start *)
LEMMA ElectTame ==
  ASSUME TypeOK, NEW r \in Router, NEW x \in XType, NEW isdr \in BOOLEAN, NEW changed \in BOOLEAN
  PROVE  Tame(r, IF x.n.state = TWOWAY THEN StartAdj(r, x) ELSE x, Elect(r, x, isdr, changed))
<1> DEFINE d1 == Originate(x.d, Net(r), boot[r], FALSE)
           x1 == IF isdr /\ x.n.state = FULL THEN [x EXCEPT !.d = d1] ELSE x
           x2 == IF x1.n.state = TWOWAY THEN StartAdj(r, x1) ELSE x1
           d3 == Originate(x2.d, Rtr(r), boot[r], changed)
           d4 == IF isdr THEN [d3 EXCEPT !.upd = TRUE] ELSE d3
           x3 == [x2 EXCEPT !.d = d4]
           y == Elect(r, x, isdr, changed)
           s == IF x.n.state = TWOWAY THEN StartAdj(r, x) ELSE x
<1>0. /\ boot[r] \in Nat /\ Rtr(r) \in Lsa /\ Net(r) \in Lsa /\ x.d \in LsType
      /\ Rtr(r)[1] # "ext" /\ Net(r)[1] # "ext"
  BY KeyType, ExtKey DEF TypeOK, XType
<1>1. d1 \in LsType /\ SameExt(x.d, d1)
  BY <1>0, OriginateType, OriginateSameExt
<1>2. x1 \in XType /\ Tame(r, x, x1) /\ x1.n = x.n /\ (x.n.state = TWOWAY => x1 = x)
  <2> HIDE DEF d1
  <2>1. [x EXCEPT !.d = d1] \in XType /\ [x EXCEPT !.d = d1].n = x.n /\ Tame(r, x, [x EXCEPT !.d = d1])
    BY <1>1, TameDb DEF XType
  <2> QED BY <2>1, TameSelf DEF TWOWAY, FULL
<1>3. y = IF ~adj[r] \/ isdr # dr[r] THEN NetUpdate(r, x3, isdr) ELSE x3
  BY DEF Elect
<1> HIDE DEF x1, y
<1>4. x2 \in XType /\ Tame(r, s, x2)
  BY <1>2, StartAdjType, TameSelf
<1> HIDE DEF x2, s
<1>5. d3 \in LsType /\ SameExt(x2.d, d3)
  BY <1>0, <1>4, OriginateType, OriginateSameExt DEF XType
<1> HIDE DEF d3
<1>6. d4 \in LsType /\ SameExt(x2.d, d4)
  <2>1. [d3 EXCEPT !.upd = TRUE] \in LsType /\ [d3 EXCEPT !.upd = TRUE].db = d3.db
    BY <1>5 DEF LsType
  <2> QED BY <1>5, <2>1 DEF SameExt
<1> HIDE DEF d4
<1>7. x3 \in XType /\ Tame(r, x2, x3)
  BY <1>4, <1>6, TameDb DEF XType
<1> HIDE DEF x3
<1>8. Tame(r, x3, NetUpdate(r, x3, isdr))
  BY <1>7, NetUpdateTame
<1>9. Tame(r, s, x3)
  BY <1>4, <1>7, TameTrans
<1>10. Tame(r, s, NetUpdate(r, x3, isdr))
  BY <1>8, <1>9, TameTrans
<1> QED BY <1>3, <1>9, <1>10 DEF y, s

(* an election in a timer branch *)
LEMMA TimerElectTame ==
  ASSUME TypeOK, NEW r \in Router, NEW x \in XType, NEW isdr \in BOOLEAN, NEW changed \in BOOLEAN
  PROVE  Tame(r, IF x.n.state = TWOWAY THEN StartAdj(r, x) ELSE x, TimerElect(r, x, isdr, changed))
<1> DEFINE s == IF x.n.state = TWOWAY THEN StartAdj(r, x) ELSE x
           y == Elect(r, x, isdr, changed)
           d == [y.d EXCEPT !.upd = FALSE]
           z == [y EXCEPT !.d = d]
<1>1. y \in XType /\ Tame(r, s, y)
  BY ElectType, ElectTame
<1>2. TimerElect(r, x, isdr, changed) = IF y.d.upd THEN NetUpdate(r, z, isdr) ELSE y
  BY DEF TimerElect
<1> HIDE DEF y, s
<1>3. d \in LsType /\ SameExt(y.d, d)
  <2>1. y.d \in LsType
    BY <1>1 DEF XType
  <2>2. d \in LsType /\ d.db = y.d.db
    BY <2>1 DEF LsType
  <2> QED BY <2>2 DEF SameExt
<1> HIDE DEF d
<1>4. z \in XType /\ Tame(r, y, z)
  BY <1>1, <1>3, TameDb DEF XType
<1> HIDE DEF z
<1>5. Tame(r, z, NetUpdate(r, z, isdr))
  BY <1>4, NetUpdateTame
<1>6. Tame(r, s, NetUpdate(r, z, isdr))
  BY <1>1, <1>4, <1>5, TameTrans
<1> QED BY <1>1, <1>2, <1>6 DEF s

(* ---------------- the invariant, and the kinds of steps ----------------- *)
(* the external LSAs of the peer that r holds, or will ask for *)
Covered(r, n, d) == {e \in Ext : d.db[<<ExtLsa(e), FALSE>>].seq >= ExtSeq[Peer(r)][e] \/ ExtLsa(e) \in n.lsreq}

(* no DD number of n is above this; t is the time *)
DdBase(n, t) == IF n.ddseq = 0 THEN t ELSE n.ddseq

(* of both routers: what is held and what is under way is good *)
Inventory ==
  \A r \in Router : Held(r, nb[r], ls[r]) /\ \A p \in Pkts(chan[Peer(r)]) : GoodPkt(r, p)

(* first part of the invariant: the master leads, the slave gets all *)
Exchange ==
  /\ InOrder(chan[R1])
  /\ Led(nb[R2], nb[R1], Dds(chan[R1]), Replies(chan[R2]), DdBase(nb[R2], Time(R2)), Covered(R1, nb[R1], ls[R1]))

(* second part: the master gets all (as long as the slave does not fail) *)
Answers ==
  Paired(nb[R2], nb[R1], Dds(chan[R1]), Replies(chan[R2]), Covered(R2, nb[R2], ls[R2]), chan[R1])

(* the invariant that every step keeps while the master's clock is ahead *)
ExchangeInv == IInv /\ Inventory /\ Exchange

(* what r's step may do to the packets it has not read: nothing, read or lose *)
(* the first, lose all in a restart                                           *)
Shrunk(w, v) == v = w \/ v = <<>> \/ (w # <<>> /\ v = Tail(w))

(* what every step of r does: y is the handler's result *)
Moves(r, y) ==
  /\ y \in XType /\ Known(r, y)
  /\ nb' = [nb EXCEPT ![r] = y.n]
  /\ ls' = [ls EXCEPT ![r] = y.d]
  /\ Shrunk(chan[r], chan'[r])
  /\ chan'[Peer(r)] = chan[Peer(r)] \o y.out
  /\ Time(R2)' \in Nat /\ Time(R2) <= Time(R2)'

(* nothing happens to the exchange *)
Stays(r, y) ==
  /\ y.n.ddseq = nb[r].ddseq /\ y.n.ddsum = nb[r].ddsum /\ y.n.sent = nb[r].sent
  /\ \/ y.n.state = nb[r].state
     \/ y.n.state < EXSTART /\ nb[r].state < EXSTART
     \/ y.n.state = FULL /\ nb[r].state = LOADING
  /\ Building(y.n) => y.n.lastdd = nb[r].lastdd
  /\ Covered(r, nb[r], ls[r]) \subseteq Covered(r, y.n, y.d)
  /\ Dds(y.out) = {} /\ (y.n.state = LOADING \/ NoReq(y.out))

(* the adjacency starts, again perhaps *)
Begins(r, y) ==
  /\ y.n.state = EXSTART /\ (r = R2 => y.n.ddseq > DdBase(nb[r], Time(r)))
  /\ Dds(y.out) \subseteq {y.n.lastdd} /\ NoReq(y.out)

(* it ends *)
Drops(r, y) ==
  /\ y.n.state < EXSTART /\ Dds(y.out) = {} /\ NoReq(y.out)
  /\ y.n.ddseq = nb[r].ddseq \/ (y.n.ddseq = 0 /\ (r = R2 => nb[r].ddseq <= Time(r)'))

(* the last DD packet is repeated *)
Repeats(r, y) ==
  /\ y.n = nb[r] /\ y.d = ls[r] /\ Building(nb[r]) /\ chan'[r] = chan[r]
  /\ Dds(y.out) = {nb[r].lastdd} /\ NoReq(y.out)

(* states and DD numbers are numbers *)
LEMMA NbFields ==
  ASSUME NEW n \in NbType PROVE n.state \in Nat /\ n.ddseq \in Nat
BY DEF NbType, DOWN, INIT, TWOWAY, EXSTART, EXCHANGE, LOADING, FULL

(* what was true of the unread packets is true of the ones that are left *)
LEMMA ShrunkWire ==
  ASSUME NEW w \in Seq(Pkt), NEW v, Shrunk(w, v)
  PROVE  /\ v \in Seq(Pkt)
         /\ Pkts(v) \subseteq Pkts(w) /\ Dds(v) \subseteq Dds(w) /\ Replies(v) \subseteq Replies(w)
         /\ InOrder(w) => InOrder(v)
         /\ NoReq(w) => NoReq(v)
         /\ \A a : ReqBefore(w, a) => ReqBefore(v, a)
<1>1. CASE v = w
  BY <1>1
<1>2. CASE v = <<>>
  BY <1>2 DEF Pkts, Dds, Replies, InOrder, NoReq, ReqBefore
<1>3. CASE w # <<>> /\ v = Tail(w)
  BY <1>3, TailWire
<1> QED BY <1>1, <1>2, <1>3 DEF Shrunk

(* the state after a step of r *)
LEMMA Moved ==
  ASSUME TypeOK, NEW r \in Router, NEW y, Moves(r, y)
  PROVE  /\ nb'[r] = y.n /\ nb'[Peer(r)] = nb[Peer(r)] /\ ls'[r] = y.d /\ ls'[Peer(r)] = ls[Peer(r)]
         /\ y.n \in NbType /\ y.d \in LsType /\ y.out \in Seq(Pkt) /\ nb[r] \in NbType
         /\ chan[r] \in Seq(Pkt) /\ chan[Peer(r)] \in Seq(Pkt)
<1>1. Peer(r) \in Router /\ Peer(r) # r
  BY PeerType
<1>2. nb'[r] = y.n /\ nb'[Peer(r)] = nb[Peer(r)] /\ ls'[r] = y.d /\ ls'[Peer(r)] = ls[Peer(r)]
  BY <1>1 DEF TypeOK, Moves
<1>3. y.n \in NbType /\ y.d \in LsType /\ y.out \in Seq(Pkt)
  BY DEF Moves, XType
<1> QED BY <1>1, <1>2, <1>3 DEF TypeOK

(* what is known of the external LSAs stays true *)
LEMMA InventoryStep ==
  ASSUME ExchangeInv, NEW r \in Router, NEW y, Moves(r, y)
  PROVE  Inventory'
<1> DEFINE q == Peer(r)
<1>0. q \in Router /\ q # r /\ Peer(q) = r /\ \A s \in Router : s = r \/ s = q
  BY IdAssumption DEF Peer, Router
<1>1. /\ nb'[r] = y.n /\ nb'[q] = nb[q] /\ ls'[r] = y.d /\ ls'[q] = ls[q]
      /\ y.out \in Seq(Pkt) /\ chan[r] \in Seq(Pkt) /\ chan[q] \in Seq(Pkt)
  BY Moved DEF ExchangeInv, IInv
<1>2. Shrunk(chan[r], chan'[r]) /\ chan'[q] = chan[q] \o y.out /\ Known(r, y)
  BY DEF Moves
<1> HIDE DEF q
<1>3. Pkts(chan'[r]) \subseteq Pkts(chan[r])
  BY <1>1, <1>2, ShrunkWire
<1>4. Pkts(chan'[q]) = Pkts(chan[q]) \union Pkts(y.out)
  BY <1>1, <1>2, SentWire
<1>5. Held(r, nb'[r], ls'[r]) /\ \A p \in Pkts(chan'[q]) : GoodPkt(r, p)
  BY <1>1, <1>2, <1>4 DEF Known, ExchangeInv, Inventory, q
<1>6. Held(q, nb'[q], ls'[q]) /\ \A p \in Pkts(chan'[r]) : GoodPkt(q, p)
  BY <1>0, <1>1, <1>3 DEF ExchangeInv, Inventory
<1>7. \A s \in Router : Held(s, nb'[s], ls'[s]) /\ \A p \in Pkts(chan'[Peer(s)]) : GoodPkt(s, p)
  BY <1>0, <1>5, <1>6 DEF q
<1> QED BY <1>7 DEF Inventory

(* ------------------------- steps of the master -------------------------- *)
(* R1 and R2 are each other's peers *)
LEMMA PeerRoles == R1 \in Router /\ R2 \in Router /\ Peer(R1) = R2 /\ Peer(R2) = R1 /\ R1 # R2
BY IdAssumption DEF Router, Peer

(* a step of the master, as the other lemmas need it *)
LEMMA MasterMoves ==
  ASSUME ExchangeInv, NEW y, Moves(R2, y)
  PROVE  /\ nb'[R2] = y.n /\ nb'[R1] = nb[R1] /\ ls'[R2] = y.d /\ ls'[R1] = ls[R1]
         /\ y.n.state \in Nat /\ y.n.ddseq \in Nat /\ nb[R2].state \in Nat /\ nb[R2].ddseq \in Nat
         /\ Dds(chan'[R1]) = Dds(chan[R1]) \union Dds(y.out)
         /\ Replies(chan'[R2]) \subseteq Replies(chan[R2])
         /\ Dds(y.out) = {} => InOrder(chan'[R1])
         /\ \A v : (\A p \in Dds(chan[R1]) : p.seq <= v) /\ (\A p \in Dds(y.out) : p.seq = v) => InOrder(chan'[R1])
         /\ NoReq(y.out) => /\ NoReq(chan[R1]) => NoReq(chan'[R1])
                            /\ \A v : ReqBefore(chan[R1], v) => ReqBefore(chan'[R1], v)
         /\ LastDdFits(nb[R2]) /\ LastDdFits(y.n)
         /\ nb[R2].sent \subseteq nb[R2].ddsum
         /\ Time(R2) \in Nat /\ Time(R2)' \in Nat /\ Time(R2) <= Time(R2)'
<1>0. TypeOK /\ R2 \in Router /\ Peer(R2) = R1
  BY PeerRoles DEF ExchangeInv, IInv
<1>1. /\ nb'[R2] = y.n /\ nb'[R1] = nb[R1] /\ ls'[R2] = y.d /\ ls'[R1] = ls[R1]
      /\ y.n \in NbType /\ nb[R2] \in NbType /\ y.out \in Seq(Pkt)
      /\ chan[R1] \in Seq(Pkt) /\ chan[R2] \in Seq(Pkt)
  BY <1>0, Moved
<1>2. y.n.state \in Nat /\ y.n.ddseq \in Nat /\ nb[R2].state \in Nat /\ nb[R2].ddseq \in Nat
  BY <1>1, NbFields
<1>3. chan'[R1] = chan[R1] \o y.out /\ Shrunk(chan[R2], chan'[R2])
  BY <1>0 DEF Moves
<1>4. Replies(chan'[R2]) \subseteq Replies(chan[R2])
  BY <1>1, <1>3, ShrunkWire
<1>5. /\ Dds(chan'[R1]) = Dds(chan[R1]) \union Dds(y.out)
      /\ Dds(y.out) = {} => InOrder(chan'[R1])
      /\ \A v : (\A p \in Dds(chan[R1]) : p.seq <= v) /\ (\A p \in Dds(y.out) : p.seq = v) => InOrder(chan'[R1])
      /\ NoReq(y.out) => /\ NoReq(chan[R1]) => NoReq(chan'[R1])
                         /\ \A v : ReqBefore(chan[R1], v) => ReqBefore(chan'[R1], v)
  <2> DEFINE w == chan[R1]
             o == y.out
  <2>1. InOrder(w) /\ w \in Seq(Pkt) /\ o \in Seq(Pkt)
    BY <1>1 DEF ExchangeInv, Exchange
  <2> HIDE DEF w, o
  <2>2. /\ Dds(w \o o) = Dds(w) \union Dds(o)
        /\ \A v : (\A p \in Dds(w) : p.seq <= v) /\ (\A p \in Dds(o) : p.seq = v) /\ InOrder(w) => InOrder(w \o o)
        /\ Dds(o) = {} /\ InOrder(w) => InOrder(w \o o)
        /\ NoReq(w) /\ NoReq(o) => NoReq(w \o o)
        /\ \A v : NoReq(o) /\ ReqBefore(w, v) => ReqBefore(w \o o, v)
    BY <2>1, SentWire
  <2>3. chan'[R1] = w \o o
    BY <1>3 DEF w, o
  <2>4. /\ Dds(chan'[R1]) = Dds(w) \union Dds(o)
        /\ Dds(o) = {} => InOrder(chan'[R1])
    BY <2>1, <2>2, <2>3
  <2>5. \A v : (\A p \in Dds(w) : p.seq <= v) /\ (\A p \in Dds(o) : p.seq = v) => InOrder(chan'[R1])
    BY <2>1, <2>2, <2>3
  <2>6. NoReq(o) => /\ NoReq(w) => NoReq(chan'[R1])
                    /\ \A v : ReqBefore(w, v) => ReqBefore(chan'[R1], v)
    BY <2>2, <2>3
  <2> QED BY <2>4, <2>5, <2>6 DEF w, o
<1>6. LastDdFits(nb[R2]) /\ LastDdFits(y.n) /\ nb[R2].sent \subseteq nb[R2].ddsum
  BY <1>0 DEF Moves, Known, Held, ExchangeInv, Inventory, IInv, ListsFollowState, ListsOf
<1>7. Time(R2) \in Nat /\ Time(R2)' \in Nat /\ Time(R2) <= Time(R2)'
  BY <1>0, TimeType DEF Moves
<1> QED BY <1>1, <1>2, <1>4, <1>5, <1>6, <1>7

(* ... and a step of the slave *)
LEMMA SlaveMoves ==
  ASSUME ExchangeInv, NEW y, Moves(R1, y)
  PROVE  /\ nb'[R1] = y.n /\ nb'[R2] = nb[R2] /\ ls'[R1] = y.d /\ ls'[R2] = ls[R2]
         /\ y.n.state \in Nat /\ y.n.ddseq \in Nat /\ nb[R1].state \in Nat /\ nb[R1].ddseq \in Nat
         /\ Replies(chan'[R2]) = Replies(chan[R2]) \union Replies(y.out)
         /\ Dds(chan'[R1]) \subseteq Dds(chan[R1]) /\ InOrder(chan'[R1])
         /\ NoReq(chan[R1]) => NoReq(chan'[R1])
         /\ \A v : ReqBefore(chan[R1], v) => ReqBefore(chan'[R1], v)
         /\ LastDdFits(nb[R2]) /\ LastDdFits(nb[R1]) /\ LastDdFits(y.n)
         /\ nb[R2].sent \subseteq nb[R2].ddsum /\ nb[R1].sent \subseteq nb[R1].ddsum
         /\ DdBase(nb[R2], Time(R2)') \in Nat
         /\ DdBase(nb[R2], Time(R2)) <= DdBase(nb[R2], Time(R2)')
         /\ nb[R2].state >= EXSTART => DdBase(nb[R2], Time(R2)') = DdBase(nb[R2], Time(R2))
<1>0. TypeOK /\ R1 \in Router /\ R2 \in Router /\ Peer(R1) = R2 /\ nb[R2] \in NbType
  BY PeerRoles DEF ExchangeInv, IInv, TypeOK
<1>1. /\ nb'[R1] = y.n /\ nb'[R2] = nb[R2] /\ ls'[R1] = y.d /\ ls'[R2] = ls[R2]
      /\ y.n \in NbType /\ nb[R1] \in NbType /\ y.out \in Seq(Pkt)
      /\ chan[R1] \in Seq(Pkt) /\ chan[R2] \in Seq(Pkt)
  BY <1>0, Moved
<1>2. /\ y.n.state \in Nat /\ y.n.ddseq \in Nat /\ nb[R1].state \in Nat /\ nb[R1].ddseq \in Nat
      /\ nb[R2].state \in Nat /\ nb[R2].ddseq \in Nat
  BY <1>0, <1>1, NbFields
<1>3. chan'[R2] = chan[R2] \o y.out /\ Shrunk(chan[R1], chan'[R1])
  BY <1>0 DEF Moves
<1>4. Replies(chan'[R2]) = Replies(chan[R2]) \union Replies(y.out)
  BY <1>1, <1>3, SentWire
<1>5. /\ Dds(chan'[R1]) \subseteq Dds(chan[R1]) /\ InOrder(chan'[R1])
      /\ NoReq(chan[R1]) => NoReq(chan'[R1])
      /\ \A v : ReqBefore(chan[R1], v) => ReqBefore(chan'[R1], v)
  BY <1>1, <1>3, ShrunkWire DEF ExchangeInv, Exchange
<1>6. /\ LastDdFits(nb[R2]) /\ LastDdFits(nb[R1]) /\ LastDdFits(y.n)
      /\ nb[R2].sent \subseteq nb[R2].ddsum /\ nb[R1].sent \subseteq nb[R1].ddsum
  BY <1>0 DEF Moves, Known, Held, ExchangeInv, Inventory, IInv, ListsFollowState, ListsOf
<1>7. Time(R2) \in Nat /\ Time(R2)' \in Nat /\ Time(R2) <= Time(R2)'
  BY <1>0, TimeType DEF Moves
<1>8. nb[R2].state >= EXSTART => nb[R2].ddseq # 0
  BY <1>2 DEF ExchangeInv, Exchange, Led, DdBounded, DdTypes
<1>9. /\ DdBase(nb[R2], Time(R2)') \in Nat
      /\ DdBase(nb[R2], Time(R2)) <= DdBase(nb[R2], Time(R2)')
      /\ nb[R2].state >= EXSTART => DdBase(nb[R2], Time(R2)') = DdBase(nb[R2], Time(R2))
  BY <1>2, <1>7, <1>8 DEF DdBase
<1> QED BY <1>1, <1>2, <1>4, <1>5, <1>6, <1>9

(* ------------------------------- the master ----------------------------- *)
LEMMA MasterStays ==
  ASSUME ExchangeInv, NEW y, Moves(R2, y), Stays(R2, y)
  PROVE  Exchange' /\ (Answers => Answers')
<1> DEFINE m == nb[R2]
           s == nb[R1]
           ds == Dds(chan[R1])
           rp == Replies(chan[R2])
           rp2 == Replies(chan'[R2])
           hi == DdBase(m, Time(R2))
           hi2 == DdBase(y.n, Time(R2)')
           c1 == Covered(R1, s, ls[R1])
           c2 == Covered(R2, m, ls[R2])
           d2 == Covered(R2, y.n, y.d)
<1>1. Led(m, s, ds, rp, hi, c1)
  BY DEF ExchangeInv, Exchange
<1>2. /\ nb'[R2] = y.n /\ nb'[R1] = s /\ ls'[R1] = ls[R1] /\ ls'[R2] = y.d
      /\ y.n.state \in Nat /\ y.n.ddseq \in Nat /\ m.state \in Nat /\ m.ddseq \in Nat
      /\ Dds(chan'[R1]) = ds /\ rp2 \subseteq rp /\ InOrder(chan'[R1])
      /\ Time(R2) \in Nat /\ Time(R2)' \in Nat /\ Time(R2) <= Time(R2)'
  BY MasterMoves DEF Stays
<1>3. hi2 \in Nat /\ hi <= hi2 /\ (y.n.state >= EXSTART => y.n.ddseq = hi2 /\ hi2 > 0)
  <2>1. y.n.state >= EXSTART => m.state >= EXSTART
    BY <1>2 DEF Stays, EXSTART, LOADING, FULL
  <2>2. y.n.ddseq = m.ddseq
    BY DEF Stays
  <2>3. m.state >= EXSTART => m.ddseq > 0
    BY <1>1, <1>2 DEF Led, DdTypes, DdBounded
  <2> QED BY <1>2, <2>1, <2>2, <2>3 DEF DdBase
<1>4. Building(y.n) => /\ y.n.state = m.state /\ y.n.ddseq = m.ddseq /\ y.n.lastdd = m.lastdd
                       /\ y.n.ddsum = m.ddsum /\ y.n.sent = m.sent
  BY DEF Stays, Building, EXSTART, EXCHANGE, LOADING, FULL
<1>5. Led(y.n, s, ds, rp2, hi2, c1)
  <2> HIDE DEF m, s, ds, rp, rp2, hi, hi2, c1
  <2> QED BY <1>1, <1>2, <1>3, <1>4, MasterQuiet
<1>6. Exchange'
  BY <1>2, <1>5 DEF Exchange
<1>7. ASSUME Answers PROVE Answers'
  <2>1. Paired(m, s, ds, rp, c2, chan[R1])
    BY <1>7 DEF Answers
  <2>2. y.n.state >= EXSTART => /\ c2 \subseteq d2 /\ y.n.ddseq = m.ddseq
                                /\ y.n.state = m.state \/ (m.state >= LOADING /\ y.n.state >= LOADING)
    BY <1>2 DEF Stays, EXSTART, LOADING, FULL
  <2>3. Building(y.n) => /\ NoReq(chan[R1]) => NoReq(chan'[R1])
                         /\ ReqBefore(chan[R1], m.ddseq) => ReqBefore(chan'[R1], m.ddseq)
    BY MasterMoves DEF Stays, Building, EXSTART, EXCHANGE, LOADING
  <2>4. Paired(y.n, s, ds, rp2, d2, chan'[R1])
    <3> HIDE DEF m, s, ds, rp, rp2, c2, d2
    <3> QED BY <1>2, <2>1, <2>2, <2>3, MasterQuietPaired
  <2> QED BY <1>2, <2>4 DEF Answers
<1> QED BY <1>6, <1>7

(* the master's neighbour goes down, or the master restarts *)
LEMMA MasterDrops ==
  ASSUME ExchangeInv, NEW y, Moves(R2, y), Drops(R2, y)
  PROVE  Exchange' /\ (Answers => Answers')
<1> DEFINE m == nb[R2]
           s == nb[R1]
           ds == Dds(chan[R1])
           rp == Replies(chan[R2])
           rp2 == Replies(chan'[R2])
           hi == DdBase(m, Time(R2))
           hi2 == DdBase(y.n, Time(R2)')
           c1 == Covered(R1, s, ls[R1])
           c2 == Covered(R2, m, ls[R2])
           d2 == Covered(R2, y.n, y.d)
<1>1. Led(m, s, ds, rp, hi, c1)
  BY DEF ExchangeInv, Exchange
<1>2. /\ nb'[R2] = y.n /\ nb'[R1] = s /\ ls'[R1] = ls[R1] /\ ls'[R2] = y.d
      /\ y.n.state \in Nat /\ y.n.ddseq \in Nat /\ m.state \in Nat /\ m.ddseq \in Nat
      /\ Dds(chan'[R1]) = ds /\ rp2 \subseteq rp /\ InOrder(chan'[R1])
      /\ Time(R2) \in Nat /\ Time(R2)' \in Nat /\ Time(R2) <= Time(R2)'
  BY MasterMoves DEF Drops
<1>3. hi2 \in Nat /\ hi <= hi2
  BY <1>2 DEF DdBase, Drops
<1>4. ~(y.n.state >= EXSTART) /\ ~Building(y.n)
  BY <1>2 DEF Drops, Building, EXSTART, EXCHANGE
<1>5. Led(y.n, s, ds, rp2, hi2, c1)
  <2> HIDE DEF m, s, ds, rp, rp2, hi, hi2, c1
  <2> QED BY <1>1, <1>2, <1>3, <1>4, MasterQuiet
<1>6. Exchange'
  BY <1>2, <1>5 DEF Exchange
<1>7. ASSUME Answers PROVE Answers'
  <2>1. Paired(m, s, ds, rp, c2, chan[R1])
    BY <1>7 DEF Answers
  <2>4. Paired(y.n, s, ds, rp2, d2, chan'[R1])
    <3> HIDE DEF m, s, ds, rp, rp2, c2, d2
    <3> QED BY <1>2, <1>4, <2>1, MasterQuietPaired
  <2> QED BY <1>2, <2>4 DEF Answers
<1> QED BY <1>6, <1>7

(* an LSA that the peer did not boot with is no matter *)
LEMMA NoneCovered ==
  ASSUME TypeOK, NEW r \in Router, NEW n
  PROVE  \A e \in Ext : ExtSeq[Peer(r)][e] = 0 => e \in Covered(r, n, ls[r])
<1>1. \A e \in Ext : ls[r].db[<<ExtLsa(e), FALSE>>].seq \in Nat
  <2>1. ls[r] \in LsType
    BY DEF TypeOK
  <2> QED BY <2>1, ExtKey DEF LsType, Inst
<1>2. \A e \in Ext : ExtSeq[Peer(r)][e] = 0 => ls[r].db[<<ExtLsa(e), FALSE>>].seq >= ExtSeq[Peer(r)][e]
  <2> SUFFICES ASSUME NEW e \in Ext, ExtSeq[Peer(r)][e] = 0
               PROVE  ls[r].db[<<ExtLsa(e), FALSE>>].seq >= ExtSeq[Peer(r)][e]
    OBVIOUS
  <2> DEFINE a == ls[r].db[<<ExtLsa(e), FALSE>>].seq
             b == ExtSeq[Peer(r)][e]
  <2>1. a \in Nat /\ b = 0
    BY <1>1
  <2> HIDE DEF a, b
  <2>2. a >= b
    BY <2>1
  <2> QED BY <2>2 DEF a, b
<1> QED BY <1>2 DEF Covered

(* the master takes the answer it waits for and sends the next packet *)
Continues(y) ==
  /\ Building(nb[R2]) /\ y.n.state = EXCHANGE /\ y.n.ddseq = nb[R2].ddseq + 1
  /\ y.n.sent \subseteq y.n.ddsum
  /\ nb[R2].state = EXSTART => \A e \in Ext : ExtSeq[R2][e] > 0 => ExtLsa(e) \in LsasOf(y.n.ddsum)
  /\ nb[R2].state = EXCHANGE => y.n.ddsum = nb[R2].ddsum \ nb[R2].sent
  /\ Dds(y.out) = {y.n.lastdd} /\ NoReq(y.out)
  /\ Covered(R2, nb[R2], ls[R2]) \subseteq Covered(R2, y.n, y.d)
  /\ \E p \in Replies(chan[R2]) : /\ p.seq = nb[R2].ddseq
                                  /\ \A e \in Ext : ExtLsa(e) \in LsasOf(p.hs) => e \in Covered(R2, y.n, y.d)

(* ... or is done *)
Concludes(y) ==
  /\ nb[R2].state = EXCHANGE /\ y.n.state \in {LOADING, FULL} /\ y.n.ddseq = nb[R2].ddseq
  /\ Dds(y.out) = {}
  /\ Covered(R2, nb[R2], ls[R2]) \subseteq Covered(R2, y.n, y.d)
  /\ \E p \in Replies(chan[R2]) : /\ p.seq = nb[R2].ddseq /\ ~p.more
                                  /\ \A e \in Ext : ExtLsa(e) \in LsasOf(p.hs) => e \in Covered(R2, y.n, y.d)

(* start_adj of the master, with a number above all that are in use *)
LEMMA MasterBegins ==
  ASSUME ExchangeInv, NEW y, Moves(R2, y), Begins(R2, y)
  PROVE  Exchange' /\ (Answers => Answers')
<1> DEFINE m == nb[R2]
           s == nb[R1]
           ds == Dds(chan[R1])
           ds2 == Dds(chan'[R1])
           rp == Replies(chan[R2])
           rp2 == Replies(chan'[R2])
           hi == DdBase(m, Time(R2))
           c1 == Covered(R1, s, ls[R1])
           c2 == Covered(R2, m, ls[R2])
           d2 == Covered(R2, y.n, y.d)
           w == chan[R1]
           w2 == chan'[R1]
<1>1. Led(m, s, ds, rp, hi, c1)
  BY DEF ExchangeInv, Exchange
<1>2. /\ nb'[R2] = y.n /\ nb'[R1] = s /\ ls'[R1] = ls[R1] /\ ls'[R2] = y.d
      /\ y.n.ddseq \in Nat /\ ds2 \subseteq ds \union {y.n.lastdd} /\ rp2 \subseteq rp /\ LastDdFits(y.n)
  BY MasterMoves DEF Begins
<1>3. y.n.state = EXSTART /\ hi < y.n.ddseq /\ hi \in Nat
  BY <1>1, <1>2 DEF Begins, Led, DdTypes, DdBase
<1>4. DdBase(y.n, Time(R2)') = y.n.ddseq
  BY <1>2, <1>3 DEF DdBase
<1>5. Led(y.n, s, ds2, rp2, y.n.ddseq, c1)
  <2> HIDE DEF m, s, ds, ds2, rp, rp2, hi, c1
  <2> QED BY <1>1, <1>2, <1>3, MasterBegin
<1>6. /\ \A p \in ds : p.seq \in Nat /\ p.seq <= hi
      /\ \A p \in Dds(y.out) : p.seq = y.n.ddseq
  <2>1. y.n.lastdd.seq = y.n.ddseq
    BY <1>2, <1>3 DEF LastDdFits, Dd
  <2> QED BY <1>1, <2>1 DEF Led, DdTypes, DdBounded, Begins
<1>7. InOrder(w2)
  <2>1. \A p \in ds : p.seq <= y.n.ddseq
    BY <1>2, <1>3, <1>6
  <2> QED BY <1>6, <2>1, MasterMoves
<1>8. Exchange'
  BY <1>2, <1>4, <1>5, <1>7 DEF Exchange
<1>9. ASSUME Answers PROVE Answers'
  <2>1. Paired(m, s, ds, rp, c2, w)
    BY <1>9 DEF Answers
  <2>2. ReqBefore(w, y.n.ddseq)
    <3>1. \A p \in ds : p.seq # y.n.ddseq
      BY <1>2, <1>3, <1>6
    <3> QED BY <3>1 DEF ReqBefore, Dds, Pkts
  <2>3. ReqBefore(w2, y.n.ddseq)
    BY <2>2, MasterMoves DEF Begins
  <2>4. Paired(y.n, s, ds2, rp2, d2, w2)
    <3> HIDE DEF m, s, ds, ds2, rp, rp2, c2, d2, w, w2, hi, c1
    <3> QED BY <1>1, <1>2, <1>3, <2>1, <2>3, MasterBeginPaired
  <2> QED BY <1>2, <2>4 DEF Answers
<1> QED BY <1>8, <1>9

(* the master's timer repeats its last DD packet *)
LEMMA MasterRepeats ==
  ASSUME ExchangeInv, NEW y, Moves(R2, y), Repeats(R2, y)
  PROVE  Exchange' /\ (Answers => Answers')
<1> DEFINE m == nb[R2]
           s == nb[R1]
           ds == Dds(chan[R1])
           ds2 == Dds(chan'[R1])
           rp == Replies(chan[R2])
           hi == DdBase(m, Time(R2))
           c1 == Covered(R1, s, ls[R1])
           c2 == Covered(R2, m, ls[R2])
           w == chan[R1]
           w2 == chan'[R1]
<1>1. Led(m, s, ds, rp, hi, c1)
  BY DEF ExchangeInv, Exchange
<1>2. /\ nb'[R2] = m /\ nb'[R1] = s /\ ls'[R1] = ls[R1] /\ ls'[R2] = ls[R2]
      /\ m.ddseq \in Nat /\ m.state \in Nat /\ ds2 = ds \union {m.lastdd} /\ Replies(chan'[R2]) = rp
      /\ LastDdFits(m) /\ m.sent \subseteq m.ddsum /\ Building(m)
  BY MasterMoves DEF Repeats
<1>3. m.ddseq = hi /\ m.ddseq > 0 /\ DdBase(m, Time(R2)') = hi
  BY <1>1, <1>2 DEF Led, DdBounded, Building, EXSTART, EXCHANGE, DdBase
<1>4. Led(m, s, ds2, rp, hi, c1)
  <2> HIDE DEF m, s, ds, ds2, rp, hi, c1
  <2> QED BY <1>1, <1>2, MasterRxmt
<1>5. InOrder(w2)
  <2>1. \A p \in ds : p.seq <= hi
    BY <1>1 DEF Led, DdBounded
  <2>2. \A p \in Dds(y.out) : p.seq = hi
    BY <1>2, <1>3, LastDdFields DEF Repeats
  <2> QED BY <2>1, <2>2, MasterMoves
<1>6. Exchange'
  BY <1>2, <1>3, <1>4, <1>5 DEF Exchange
<1>7. ASSUME Answers PROVE Answers'
  <2>1. Paired(m, s, ds, rp, c2, w)
    BY <1>7 DEF Answers
  <2>2. (NoReq(w) => NoReq(w2)) /\ (ReqBefore(w, m.ddseq) => ReqBefore(w2, m.ddseq))
    BY MasterMoves DEF Repeats
  <2>3. Paired(m, s, ds2, rp, c2, w2)
    <3> HIDE DEF m, s, ds, ds2, rp, c2, w, w2, hi, c1
    <3> QED BY <1>1, <1>2, <2>1, <2>2, MasterRxmtPaired
  <2> QED BY <1>2, <2>3 DEF Answers
<1> QED BY <1>6, <1>7

(* the master takes an answer and sends the next packet *)
LEMMA MasterContinues ==
  ASSUME ExchangeInv, NEW y, Moves(R2, y), Continues(y)
  PROVE  Exchange' /\ (Answers => Answers')
<1> DEFINE m == nb[R2]
           s == nb[R1]
           ds == Dds(chan[R1])
           ds2 == Dds(chan'[R1])
           rp == Replies(chan[R2])
           rp2 == Replies(chan'[R2])
           hi == DdBase(m, Time(R2))
           c1 == Covered(R1, s, ls[R1])
           c2 == Covered(R2, m, ls[R2])
           d2 == Covered(R2, y.n, y.d)
           w == chan[R1]
           w2 == chan'[R1]
<1>0. PICK p \in rp : p.seq = m.ddseq /\ \A e \in Ext : ExtLsa(e) \in LsasOf(p.hs) => e \in d2
  BY DEF Continues
<1>1. Led(m, s, ds, rp, hi, c1)
  BY DEF ExchangeInv, Exchange
<1>2. /\ nb'[R2] = y.n /\ nb'[R1] = s /\ ls'[R1] = ls[R1] /\ ls'[R2] = y.d
      /\ m.ddseq \in Nat /\ m.state \in Nat /\ ds2 = ds \union {y.n.lastdd} /\ rp2 \subseteq rp
      /\ LastDdFits(m) /\ m.sent \subseteq m.ddsum /\ LastDdFits(y.n)
  BY MasterMoves DEF Continues
<1>3. \A e \in Ext : ExtSeq[R2][e] = 0 => e \in c1
  BY NoneCovered, PeerRoles DEF ExchangeInv, IInv
<1>4. /\ Building(m) /\ y.n.state = EXCHANGE /\ y.n.ddseq = m.ddseq + 1 /\ y.n.sent \subseteq y.n.ddsum
      /\ m.state = EXSTART => \A e \in Ext : ExtSeq[R2][e] > 0 => ExtLsa(e) \in LsasOf(y.n.ddsum)
      /\ m.state = EXCHANGE => y.n.ddsum = m.ddsum \ m.sent
  BY DEF Continues
<1>5. DdBase(y.n, Time(R2)') = y.n.ddseq
  BY <1>2, <1>4 DEF DdBase
<1>6. Led(y.n, s, ds2, rp2, y.n.ddseq, c1)
  <2> HIDE DEF m, s, ds, ds2, rp, rp2, hi, c1
  <2> QED BY <1>0, <1>1, <1>2, <1>3, <1>4, MasterNext
<1>7. InOrder(w2)
  <2>1. \A q \in ds : q.seq <= y.n.ddseq
    BY <1>1, <1>2, <1>4 DEF Led, DdTypes, DdBounded, Building, EXSTART, EXCHANGE
  <2>2. \A q \in Dds(y.out) : q.seq = y.n.ddseq
    BY <1>2, <1>4, LastDdFields DEF Continues, Building
  <2> QED BY <2>1, <2>2, MasterMoves
<1>8. Exchange'
  BY <1>2, <1>5, <1>6, <1>7 DEF Exchange
<1>9. ASSUME Answers PROVE Answers'
  <2>1. Paired(m, s, ds, rp, c2, w)
    BY <1>9 DEF Answers
  <2>2. (NoReq(w) => NoReq(w2)) /\ c2 \subseteq d2
    BY MasterMoves DEF Continues
  <2>3. Paired(y.n, s, ds2, rp2, d2, w2)
    <3> HIDE DEF m, s, ds, ds2, rp, rp2, c2, d2, w, w2, hi, c1
    <3> QED BY <1>0, <1>1, <1>2, <1>4, <2>1, <2>2, MasterNextPaired
  <2> QED BY <1>2, <2>3 DEF Answers
<1> QED BY <1>8, <1>9

(* the master takes the last answer (nfsmExchangeDone) *)
LEMMA MasterConcludes ==
  ASSUME ExchangeInv, NEW y, Moves(R2, y), Concludes(y)
  PROVE  Exchange' /\ (Answers => Answers')
<1> DEFINE m == nb[R2]
           s == nb[R1]
           ds == Dds(chan[R1])
           rp == Replies(chan[R2])
           rp2 == Replies(chan'[R2])
           hi == DdBase(m, Time(R2))
           c1 == Covered(R1, s, ls[R1])
           c2 == Covered(R2, m, ls[R2])
           d2 == Covered(R2, y.n, y.d)
           w == chan[R1]
           w2 == chan'[R1]
<1>0. PICK p \in rp : p.seq = m.ddseq /\ ~p.more /\ \A e \in Ext : ExtLsa(e) \in LsasOf(p.hs) => e \in d2
  BY DEF Concludes
<1>1. Led(m, s, ds, rp, hi, c1)
  BY DEF ExchangeInv, Exchange
<1>2. /\ nb'[R2] = y.n /\ nb'[R1] = s /\ ls'[R1] = ls[R1] /\ ls'[R2] = y.d
      /\ m.ddseq \in Nat /\ m.state \in Nat /\ y.n.state \in Nat /\ y.n.ddseq \in Nat
      /\ Dds(w2) = ds /\ rp2 \subseteq rp /\ InOrder(w2)
  BY MasterMoves DEF Concludes
<1>3. m.state = EXCHANGE /\ y.n.state \in {LOADING, FULL} /\ y.n.ddseq = m.ddseq /\ c2 \subseteq d2
  BY DEF Concludes
<1>4. m.ddseq = hi /\ hi > 0 /\ hi \in Nat /\ DdBase(y.n, Time(R2)') = hi /\ ~Building(y.n)
  BY <1>1, <1>2, <1>3 DEF Led, DdTypes, DdBounded, Building, EXSTART, EXCHANGE, LOADING, FULL, DdBase
<1>5. Led(y.n, s, ds, rp2, hi, c1)
  <2> HIDE DEF m, s, ds, rp, rp2, hi, c1
  <2> QED BY <1>1, <1>2, <1>3, <1>4, MasterQuiet
<1>6. Exchange'
  BY <1>2, <1>4, <1>5 DEF Exchange
<1>7. ASSUME Answers PROVE Answers'
  <2>1. Paired(m, s, ds, rp, c2, w)
    BY <1>7 DEF Answers
  <2>3. Paired(y.n, s, ds, rp2, d2, w2)
    <3> HIDE DEF m, s, ds, rp, rp2, c2, d2, w, w2, hi, c1
    <3> QED BY <1>0, <1>3, <2>1, MasterDonePaired
  <2> QED BY <1>2, <2>3 DEF Answers
<1> QED BY <1>6, <1>7

(* -------------------------- steps of the slave -------------------------- *)
(* why the slave begins again *)
Again ==
  \/ nb[R1].state < EXSTART
  \/ ~NoReq(chan[R1]) /\ nb[R1].state >= EXCHANGE
  \/ \E p \in Dds(chan[R1]) :
       /\ nb[R1].state >= EXCHANGE /\ \A q \in Dds(chan'[R1]) : p.seq <= q.seq
       /\ nb[R1].ddseq < p.seq \/ (nb[R1].state >= LOADING /\ p.init)

(* the slave takes the master's first packet *)
Follows(y) ==
  /\ nb[R1].state < EXCHANGE /\ y.n.state = EXCHANGE
  /\ y.n.sent \subseteq y.n.ddsum /\ y.n.lastdd.more /\ Replies(y.out) \subseteq {y.n.lastdd}
  /\ \A e \in Ext : ExtSeq[R1][e] > 0 => ExtLsa(e) \in LsasOf(y.n.ddsum)
  /\ \E p \in Dds(chan[R1]) :
       /\ p.init /\ p.seq = y.n.ddseq /\ \A q \in Dds(chan'[R1]) : p.seq <= q.seq
       /\ ReqBefore(chan[R1], p.seq) => NoReq(chan'[R1])

(* ... and the packets after it *)
Answered(y, p, new) ==
  /\ ~p.init /\ p.seq = nb[R1].ddseq + 1 /\ p.seq = y.n.ddseq /\ \A q \in Dds(chan'[R1]) : p.seq <= q.seq
  /\ y.n.state # EXCHANGE => ~p.more
  /\ \A e \in Ext : ExtLsa(e) \in LsasOf(p.hs) => e \in Covered(R1, y.n, y.d)
  /\ new.seq = p.seq /\ new.hs = y.n.sent /\ (~new.more => y.n.ddsum = {}) /\ Replies(y.out) \subseteq {new}

(* the slave goes on: it takes a packet of the exchange and answers it *)
Keeps(y) ==
  /\ nb[R1].state = EXCHANGE /\ y.n.state \in {EXCHANGE, LOADING, FULL}
  /\ y.n.ddsum = nb[R1].ddsum \ nb[R1].sent /\ y.n.sent \subseteq y.n.ddsum
  /\ Covered(R1, nb[R1], ls[R1]) \subseteq Covered(R1, y.n, y.d)
  /\ \E p \in Dds(chan[R1]), new \in Pkt : Answered(y, p, new)

(* a step of the slave that concerns no exchange *)
LEMMA SlaveStays ==
  ASSUME ExchangeInv, NEW y, Moves(R1, y), Stays(R1, y)
  PROVE  Exchange' /\ (Answers => Answers')
<1> DEFINE m == nb[R2]
           s == nb[R1]
           ds == Dds(chan[R1])
           ds2 == Dds(chan'[R1])
           rp == Replies(chan[R2])
           hi == DdBase(m, Time(R2))
           hi2 == DdBase(m, Time(R2)')
           c1 == Covered(R1, s, ls[R1])
           d1 == Covered(R1, y.n, y.d)
           c2 == Covered(R2, m, ls[R2])
           w == chan[R1]
           w2 == chan'[R1]
<1>1. Led(m, s, ds, rp, hi, c1)
  BY DEF ExchangeInv, Exchange
<1>2. /\ nb'[R1] = y.n /\ nb'[R2] = m /\ ls'[R1] = y.d /\ ls'[R2] = ls[R2]
      /\ y.n.state \in Nat /\ y.n.ddseq \in Nat /\ s.state \in Nat /\ s.ddseq \in Nat
      /\ ds2 \subseteq ds /\ Replies(chan'[R2]) = rp /\ InOrder(w2)
      /\ hi2 \in Nat /\ hi <= hi2 /\ (m.state >= EXSTART => hi2 = hi)
  BY SlaveMoves DEF Stays, Replies
<1>3. /\ y.n.ddseq = s.ddseq /\ y.n.ddsum = s.ddsum /\ y.n.sent = s.sent /\ c1 \subseteq d1
      /\ \/ y.n.state = s.state
         \/ s.state < EXSTART /\ y.n.state < EXSTART
         \/ s.state = LOADING /\ y.n.state = FULL
  BY DEF Stays
<1>4. y.n.state >= EXCHANGE => /\ s.state >= EXCHANGE
                               /\ y.n.state = s.state \/ (s.state >= LOADING /\ y.n.state >= LOADING)
  BY <1>2, <1>3 DEF EXSTART, EXCHANGE, LOADING, FULL
<1>5. Led(m, y.n, ds2, rp, hi2, d1)
  <2> HIDE DEF m, s, ds, ds2, rp, hi, hi2, c1, d1
  <2> QED BY <1>1, <1>2, <1>3, <1>4, SlaveQuiet
<1>6. Exchange'
  BY <1>2, <1>5 DEF Exchange
<1>7. ASSUME Answers PROVE Answers'
  <2>1. Paired(m, s, ds, rp, c2, w)
    BY <1>7 DEF Answers
  <2>2. (NoReq(w) => NoReq(w2)) /\ (ReqBefore(w, m.ddseq) => ReqBefore(w2, m.ddseq))
    BY SlaveMoves
  <2>3. Paired(m, y.n, ds2, rp, c2, w2)
    <3> HIDE DEF m, s, ds, ds2, rp, c2, w, w2, c1, d1
    <3> QED BY <1>2, <1>3, <2>1, <2>2, SlaveQuietPaired
  <2> QED BY <1>2, <2>3 DEF Answers
<1> QED BY <1>6, <1>7

(* start_adj of the slave *)
LEMMA SlaveBegins ==
  ASSUME ExchangeInv, NEW y, Moves(R1, y), Begins(R1, y), Again
  PROVE  Exchange' /\ (Answers => Answers')
<1> DEFINE m == nb[R2]
           s == nb[R1]
           ds == Dds(chan[R1])
           ds2 == Dds(chan'[R1])
           rp == Replies(chan[R2])
           hi == DdBase(m, Time(R2))
           hi2 == DdBase(m, Time(R2)')
           c1 == Covered(R1, s, ls[R1])
           d1 == Covered(R1, y.n, y.d)
           c2 == Covered(R2, m, ls[R2])
           w == chan[R1]
           w2 == chan'[R1]
<1>1. Led(m, s, ds, rp, hi, c1)
  BY DEF ExchangeInv, Exchange
<1>2. /\ nb'[R1] = y.n /\ nb'[R2] = m /\ ls'[R1] = y.d /\ ls'[R2] = ls[R2]
      /\ y.n.state \in Nat /\ y.n.ddseq \in Nat /\ s.state \in Nat /\ s.ddseq \in Nat
      /\ ds2 \subseteq ds /\ InOrder(w2) /\ Replies(chan'[R2]) = rp \union Replies(y.out)
      /\ hi2 \in Nat /\ hi <= hi2 /\ (m.state >= EXSTART => hi2 = hi)
      /\ LastDdFits(m) /\ LastDdFits(y.n) /\ m.sent \subseteq m.ddsum
  BY SlaveMoves
<1>3. y.n.state = EXSTART /\ ~(y.n.state >= EXCHANGE)
  BY DEF Begins, EXSTART, EXCHANGE
<1>4. Replies(chan'[R2]) = rp
  <2>1. y.n.lastdd.init
    BY <1>2, <1>3 DEF LastDdFits, Dd
  <2> QED BY <1>2, <2>1 DEF Begins, Replies
<1>5. Led(m, y.n, ds2, rp, hi2, d1)
  <2> HIDE DEF m, s, ds, ds2, rp, hi, hi2, c1, d1
  <2> QED BY <1>1, <1>2, <1>3, SlaveQuiet
<1>6. Exchange'
  BY <1>2, <1>4, <1>5 DEF Exchange
<1>7. ASSUME Answers PROVE Answers'
  <2>1. Paired(m, s, ds, rp, c2, w)
    BY <1>7 DEF Answers
  <2>2. (NoReq(w) => NoReq(w2)) /\ (ReqBefore(w, m.ddseq) => ReqBefore(w2, m.ddseq))
    BY SlaveMoves
  <2>4. \/ s.state < EXSTART
        \/ ~NoReq(w) /\ s.state >= EXCHANGE
        \/ \E p \in ds : /\ s.state >= EXCHANGE /\ \A q \in ds2 : p.seq <= q.seq
                         /\ s.ddseq < p.seq \/ (s.state >= LOADING /\ p.init)
    BY DEF Again
  <2>3. Paired(m, y.n, ds2, rp, c2, w2)
    <3> HIDE DEF m, s, ds, ds2, rp, c2, w, w2, c1, d1, hi
    <3> QED BY <1>1, <1>2, <1>3, <2>1, <2>2, <2>4, SlaveBeginPaired
  <2> QED BY <1>2, <1>4, <2>3 DEF Answers
<1> QED BY <1>6, <1>7

(* the slave's neighbour goes down, or the slave restarts: the master keeps   *)
(* its part only when it is down itself                                       *)
LEMMA SlaveDrops ==
  ASSUME ExchangeInv, NEW y, Moves(R1, y), Drops(R1, y)
  PROVE  Exchange' /\ (nb[R2].state = DOWN => Answers')
<1> DEFINE m == nb[R2]
           s == nb[R1]
           ds == Dds(chan[R1])
           ds2 == Dds(chan'[R1])
           rp == Replies(chan[R2])
           hi == DdBase(m, Time(R2))
           hi2 == DdBase(m, Time(R2)')
           c1 == Covered(R1, s, ls[R1])
           d1 == Covered(R1, y.n, y.d)
           w2 == chan'[R1]
<1>1. Led(m, s, ds, rp, hi, c1)
  BY DEF ExchangeInv, Exchange
<1>2. /\ nb'[R1] = y.n /\ nb'[R2] = m /\ ls'[R1] = y.d /\ ls'[R2] = ls[R2]
      /\ y.n.state \in Nat /\ y.n.ddseq \in Nat /\ s.state \in Nat /\ s.ddseq \in Nat
      /\ ds2 \subseteq ds /\ Replies(chan'[R2]) = rp /\ InOrder(w2)
      /\ hi2 \in Nat /\ hi <= hi2 /\ (m.state >= EXSTART => hi2 = hi)
  BY SlaveMoves DEF Drops, Replies
<1>3. ~(y.n.state >= EXCHANGE) /\ ~(y.n.state >= LOADING) /\ y.n.state # EXCHANGE
  BY <1>2 DEF Drops, EXSTART, EXCHANGE, LOADING
<1>5. Led(m, y.n, ds2, rp, hi2, d1)
  <2> HIDE DEF m, s, ds, ds2, rp, hi, hi2, c1, d1
  <2> QED BY <1>1, <1>2, <1>3, SlaveQuiet
<1>6. Exchange'
  BY <1>2, <1>5 DEF Exchange
<1>7. ASSUME m.state = DOWN PROVE Answers'
  <2>1. /\ m.state # EXSTART /\ m.state # EXCHANGE /\ ~(m.state >= LOADING) /\ ~Building(m)
    BY <1>7 DEF DOWN, EXSTART, EXCHANGE, LOADING, Building
  <2>2. Paired(m, y.n, ds2, rp, Covered(R2, m, ls[R2]), w2)
    <3> HIDE DEF m, ds2, rp, w2
    <3> QED BY <1>3, <2>1 DEF Paired, MasterCovered, Synced, NoStrayRequest
  <2> QED BY <1>2, <2>2 DEF Answers
<1> QED BY <1>6, <1>7

(* the slave's timer repeats its last answer *)
LEMMA SlaveRepeats ==
  ASSUME ExchangeInv, NEW y, Moves(R1, y), Repeats(R1, y)
  PROVE  Exchange' /\ (Answers => Answers')
<1> DEFINE m == nb[R2]
           s == nb[R1]
           ds == Dds(chan[R1])
           rp == Replies(chan[R2])
           rp2 == Replies(chan'[R2])
           hi == DdBase(m, Time(R2))
           hi2 == DdBase(m, Time(R2)')
           c1 == Covered(R1, s, ls[R1])
           c2 == Covered(R2, m, ls[R2])
           w == chan[R1]
<1>1. Led(m, s, ds, rp, hi, c1)
  BY DEF ExchangeInv, Exchange
<1>2. /\ nb'[R1] = s /\ nb'[R2] = m /\ ls'[R1] = ls[R1] /\ ls'[R2] = ls[R2] /\ chan'[R1] = w
      /\ s.state \in Nat /\ s.ddseq \in Nat /\ InOrder(w)
      /\ rp2 = rp \union Replies(y.out)
      /\ hi2 \in Nat /\ hi <= hi2 /\ (m.state >= EXSTART => hi2 = hi)
      /\ LastDdFits(s) /\ s.sent \subseteq s.ddsum /\ Building(s)
  BY SlaveMoves DEF Repeats
<1>a. rp2 \subseteq rp \union {s.lastdd}
  BY <1>2 DEF Repeats, Replies
<1>b. s.state = EXSTART => rp2 = rp
  <2>1. s.state = EXSTART => s.lastdd.init
    BY <1>2, LastDdFields
  <2> QED BY <1>2, <2>1 DEF Repeats, Replies
<1>c. Led(m, s, ds, rp, hi2, c1)
  <2> HIDE DEF m, s, ds, rp, hi, hi2, c1
  <2> QED BY <1>1, <1>2, SlaveQuiet
<1>3. Led(m, s, ds, rp2, hi2, c1)
  <2>1. CASE s.state = EXSTART
    BY <1>c, <1>b, <2>1
  <2>2. CASE s.state = EXCHANGE
    <3>1. s.lastdd.seq = s.ddseq
      BY <1>2, LastDdFields
    <3> HIDE DEF m, s, ds, rp, rp2, hi, hi2, c1
    <3> QED BY <1>c, <1>a, <2>2, <3>1, SlaveRxmt
  <2> QED BY <1>2, <2>1, <2>2 DEF Building
<1>6. Exchange'
  BY <1>2, <1>3 DEF Exchange
<1>7. ASSUME Answers PROVE Answers'
  <2>1. Paired(m, s, ds, rp, c2, w)
    BY <1>7 DEF Answers
  <2>2. Paired(m, s, ds, rp2, c2, w)
    <3>1. CASE s.state = EXSTART
      BY <1>b, <2>1, <3>1
    <3>2. CASE s.state = EXCHANGE
      <4> HIDE DEF m, s, ds, rp, rp2, c2, w
      <4> QED BY <1>2, <1>a, <2>1, <3>2, SlaveRxmtPaired
    <3> QED BY <1>2, <3>1, <3>2 DEF Building
  <2> QED BY <1>2, <2>2 DEF Answers
<1> QED BY <1>6, <1>7

(* the slave takes the master's first packet *)
LEMMA SlaveFollows ==
  ASSUME ExchangeInv, NEW y, Moves(R1, y), Follows(y)
  PROVE  Exchange' /\ (Answers => Answers')
<1> DEFINE m == nb[R2]
           s == nb[R1]
           ds == Dds(chan[R1])
           ds2 == Dds(chan'[R1])
           rp == Replies(chan[R2])
           rp2 == Replies(chan'[R2])
           hi == DdBase(m, Time(R2))
           hi2 == DdBase(m, Time(R2)')
           c1 == Covered(R1, s, ls[R1])
           d1 == Covered(R1, y.n, y.d)
           c2 == Covered(R2, m, ls[R2])
           w == chan[R1]
           w2 == chan'[R1]
           new == y.n.lastdd
<1>0. PICK p \in ds : /\ p.init /\ p.seq = y.n.ddseq /\ \A q \in ds2 : p.seq <= q.seq
                      /\ ReqBefore(w, p.seq) => NoReq(w2)
  BY DEF Follows
<1>1. Led(m, s, ds, rp, hi, c1)
  BY DEF ExchangeInv, Exchange
<1>2. /\ nb'[R1] = y.n /\ nb'[R2] = m /\ ls'[R1] = y.d /\ ls'[R2] = ls[R2]
      /\ y.n.state \in Nat /\ y.n.ddseq \in Nat /\ s.state \in Nat /\ s.ddseq \in Nat
      /\ ds2 \subseteq ds /\ InOrder(w2) /\ rp2 = rp \union Replies(y.out)
      /\ hi2 \in Nat /\ hi <= hi2 /\ (m.state >= EXSTART => hi2 = hi)
      /\ LastDdFits(m) /\ LastDdFits(y.n) /\ m.sent \subseteq m.ddsum
  BY SlaveMoves
<1>3. /\ s.state < EXCHANGE /\ y.n.state = EXCHANGE /\ y.n.sent \subseteq y.n.ddsum
      /\ new.more /\ rp2 \subseteq rp \union {new}
      /\ \A e \in Ext : ExtSeq[R1][e] > 0 => ExtLsa(e) \in LsasOf(y.n.ddsum)
  BY <1>2 DEF Follows
<1>4. new.seq = p.seq
  BY <1>0, <1>2, <1>3, LastDdFields DEF Building
<1>5. /\ \A e \in Ext : ExtSeq[R2][e] = 0 => e \in d1
      /\ \A e \in Ext : ExtSeq[R1][e] = 0 => e \in c2
  <2>1. TypeOK
    BY DEF ExchangeInv, IInv
  <2>2. \A e \in Ext : ExtSeq[R1][e] = 0 => e \in c2
    BY <2>1, NoneCovered, PeerRoles
  <2>3. \A e \in Ext : y.d.db[<<ExtLsa(e), FALSE>>].seq \in Nat
    BY <2>1, PeerRoles, Moved, ExtKey, SeqType
  <2>4. ASSUME NEW e \in Ext, ExtSeq[R2][e] = 0 PROVE e \in d1
    <3> DEFINE a == y.d.db[<<ExtLsa(e), FALSE>>].seq
               b == ExtSeq[Peer(R1)][e]
    <3>1. a \in Nat /\ b = 0
      BY <2>3, <2>4, PeerRoles
    <3> HIDE DEF a, b
    <3>2. a >= b
      BY <3>1
    <3> QED BY <3>2 DEF Covered, a, b
  <2> QED BY <2>2, <2>4
<1>6. Led(m, s, ds, rp, hi2, c1)
  <2> HIDE DEF m, s, ds, rp, hi, hi2, c1
  <2> QED BY <1>1, <1>2, <1>3, SlaveQuiet DEF EXCHANGE
<1>7. Led(m, y.n, ds2, rp2, hi2, d1)
  <2> HIDE DEF m, s, ds, ds2, rp, rp2, hi, hi2, c1, d1, new
  <2> QED BY <1>0, <1>2, <1>3, <1>4, <1>5, <1>6, SlaveFirst
<1>8. Exchange'
  BY <1>2, <1>7 DEF Exchange
<1>9. ASSUME Answers PROVE Answers'
  <2>1. Paired(m, s, ds, rp, c2, w)
    BY <1>9 DEF Answers
  <2>2. (NoReq(w) => NoReq(w2)) /\ (ReqBefore(w, m.ddseq) => ReqBefore(w2, m.ddseq))
    BY SlaveMoves
  <2>3. Paired(m, y.n, ds2, rp2, c2, w2)
    <3> HIDE DEF m, s, ds, ds2, rp, rp2, hi, c1, d1, c2, w, w2
    <3> QED BY <1>0, <1>1, <1>2, <1>3, <1>5, <2>1, <2>2, SlaveFirstPaired
  <2> QED BY <1>2, <2>3 DEF Answers
<1> QED BY <1>8, <1>9

(* the slave takes the packet that follows, and is done perhaps *)
LEMMA SlaveKeeps ==
  ASSUME ExchangeInv, NEW y, Moves(R1, y), Keeps(y)
  PROVE  Exchange' /\ (Answers => Answers')
<1> DEFINE m == nb[R2]
           s == nb[R1]
           ds == Dds(chan[R1])
           ds2 == Dds(chan'[R1])
           rp == Replies(chan[R2])
           rp2 == Replies(chan'[R2])
           hi == DdBase(m, Time(R2))
           hi2 == DdBase(m, Time(R2)')
           c1 == Covered(R1, s, ls[R1])
           d1 == Covered(R1, y.n, y.d)
           c2 == Covered(R2, m, ls[R2])
           w == chan[R1]
           w2 == chan'[R1]
<1>0. PICK p \in ds, new \in Pkt : Answered(y, p, new)
  BY DEF Keeps
<1>a. /\ ~p.init /\ p.seq = s.ddseq + 1 /\ p.seq = y.n.ddseq /\ \A q \in ds2 : p.seq <= q.seq
      /\ y.n.state # EXCHANGE => ~p.more
      /\ \A e \in Ext : ExtLsa(e) \in LsasOf(p.hs) => e \in d1
      /\ new.seq = p.seq /\ new.hs = y.n.sent /\ (~new.more => y.n.ddsum = {}) /\ Replies(y.out) \subseteq {new}
  BY <1>0 DEF Answered
<1>1. Led(m, s, ds, rp, hi, c1)
  BY DEF ExchangeInv, Exchange
<1>2. /\ nb'[R1] = y.n /\ nb'[R2] = m /\ ls'[R1] = y.d /\ ls'[R2] = ls[R2]
      /\ y.n.state \in Nat /\ y.n.ddseq \in Nat /\ s.state \in Nat /\ s.ddseq \in Nat
      /\ ds2 \subseteq ds /\ InOrder(w2) /\ rp2 = rp \union Replies(y.out)
      /\ hi2 \in Nat /\ hi <= hi2 /\ (m.state >= EXSTART => hi2 = hi)
      /\ LastDdFits(m) /\ m.sent \subseteq m.ddsum
  BY SlaveMoves
<1>3. /\ s.state = EXCHANGE /\ y.n.state \in {EXCHANGE, LOADING, FULL}
      /\ y.n.ddsum = s.ddsum \ s.sent /\ y.n.sent \subseteq y.n.ddsum
      /\ c1 \subseteq d1
  BY DEF Keeps
<1>4. rp2 \subseteq rp \union {new}
  BY <1>2, <1>a
<1>6. Led(m, s, ds, rp, hi2, c1)
  <2> HIDE DEF m, s, ds, rp, hi, hi2, c1
  <2> QED BY <1>1, <1>2, <1>3, SlaveQuiet DEF EXCHANGE
<1>7. Led(m, y.n, ds2, rp2, hi2, d1)
  <2> HIDE DEF m, s, ds, ds2, rp, rp2, hi, hi2, c1, d1
  <2> QED BY <1>a, <1>2, <1>3, <1>4, <1>6, SlaveNext
<1>8. Exchange'
  BY <1>2, <1>7 DEF Exchange
<1>9. ASSUME Answers PROVE Answers'
  <2>1. Paired(m, s, ds, rp, c2, w)
    BY <1>9 DEF Answers
  <2>2. (NoReq(w) => NoReq(w2)) /\ (ReqBefore(w, m.ddseq) => ReqBefore(w2, m.ddseq))
    BY SlaveMoves
  <2>3. Paired(m, y.n, ds2, rp2, c2, w2)
    <3> HIDE DEF m, s, ds, ds2, rp, rp2, hi, c1, d1, c2, w, w2
    <3> QED BY <1>a, <1>1, <1>2, <1>3, <1>4, <2>1, <2>2, SlaveNextPaired
  <2> QED BY <1>2, <2>3 DEF Answers
<1> QED BY <1>8, <1>9

(* -------------------------- handlers as steps --------------------------- *)
(* nobody has restarted, and nobody has been given up *)
Unfailed == env["boot"] = 0 /\ env["dead"] = 0

(* what a step must keep *)
StepKeeps == Inventory' /\ Exchange' /\ ((R1 \notin Faulty \/ Unfailed') /\ Answers => Answers')

(* a step of either router that concerns no exchange *)
LEMMA StaysStep ==
  ASSUME ExchangeInv, NEW r \in Router, NEW y, Moves(r, y), Stays(r, y) PROVE StepKeeps
<1>1. Inventory'
  BY InventoryStep
<1>2. Exchange' /\ (Answers => Answers')
  BY MasterStays, SlaveStays DEF Router
<1> QED BY <1>1, <1>2 DEF StepKeeps

(* DD retransmission by either router *)
LEMMA RepeatsStep ==
  ASSUME ExchangeInv, NEW r \in Router, NEW y, Moves(r, y), Repeats(r, y) PROVE StepKeeps
<1>1. Inventory'
  BY InventoryStep
<1>2. Exchange' /\ (Answers => Answers')
  BY MasterRepeats, SlaveRepeats DEF Router
<1> QED BY <1>1, <1>2 DEF StepKeeps

(* an adjacency starts at either router *)
LEMMA BeginsStep ==
  ASSUME ExchangeInv, NEW r \in Router, NEW y, Moves(r, y), Begins(r, y), r = R1 => Again PROVE StepKeeps
<1>1. Inventory'
  BY InventoryStep
<1>2. Exchange' /\ (Answers => Answers')
  BY MasterBegins, SlaveBegins DEF Router
<1> QED BY <1>1, <1>2 DEF StepKeeps

(* an adjacency ends: at a router that fails, or at one whose peer is down *)
LEMMA DropsStep ==
  ASSUME ExchangeInv, NEW r \in Router, NEW y, Moves(r, y), Drops(r, y),
         (r \in Faulty /\ ~Unfailed') \/ nb[Peer(r)].state = DOWN
  PROVE  StepKeeps
<1>1. Inventory'
  BY InventoryStep
<1>2. CASE r = R1
  <2>1. R1 \notin Faulty \/ Unfailed' => nb[R2].state = DOWN
    BY <1>2, PeerRoles
  <2> QED BY <1>1, <1>2, <2>1, SlaveDrops DEF StepKeeps
<1>3. CASE r = R2
  BY <1>1, <1>3, MasterDrops DEF StepKeeps
<1> QED BY <1>2, <1>3 DEF Router

(* the clock does not go back *)
LEMMA TimeLater ==
  ASSUME TypeOK, UNCHANGED env \/ TimerDue \/ \E w \in Budget : Spend(w)
  PROVE  Time(R2)' \in Nat /\ Time(R2) <= Time(R2)'
<1> DEFINE a == env["boot"] + env["dead"]
           b == env'["boot"] + env'["dead"]
<1>1. Time(R2) = Epoch[R2] + a * Era /\ Time(R2)' = Epoch[R2] + b * Era
  BY DEF Time
<1>2. a \in Nat /\ Epoch[R2] \in Nat /\ Era \in Nat
  BY SizeAssumption DEF TypeOK, Budget, Router
<1>3. b = a \/ b = a + 1
  <2>1. env'["boot"] \in {env["boot"], env["boot"] + 1} /\ env'["dead"] \in {env["dead"], env["dead"] + 1}
        /\ (env'["boot"] = env["boot"] \/ env'["dead"] = env["dead"])
    <3>1. ASSUME NEW w \in Budget, Spend(w)
          PROVE  /\ env'["boot"] = IF w = "boot" THEN env["boot"] + 1 ELSE env["boot"]
                 /\ env'["dead"] = IF w = "dead" THEN env["dead"] + 1 ELSE env["dead"]
      BY <3>1 DEF Spend, TypeOK, Budget
    <3>2. "early" \in Budget
      BY DEF Budget
    <3>3. CASE UNCHANGED env
      BY <3>3
    <3>4. CASE \E w \in Budget : Spend(w)
      BY <3>1, <3>4
    <3> QED BY <3>2, <3>3, <3>4 DEF TimerDue
  <2>2. env["boot"] \in Nat /\ env["dead"] \in Nat
    BY DEF TypeOK, Budget
  <2> QED BY <2>1, <2>2
<1> HIDE DEF a, b
<1>4. (a + 1) * Era = a * Era + Era /\ a * Era \in Nat
  BY <1>2
<1>5. b * Era \in Nat /\ a * Era <= b * Era
  BY <1>2, <1>3, <1>4
<1> QED BY <1>1, <1>2, <1>4, <1>5

(* a timer branch as a step of r *)
LEMMA TickMoves ==
  ASSUME TypeOK, NEW r \in Router, NEW y \in XType, Known(r, y), Tick(r, y),
         UNCHANGED env \/ TimerDue \/ \E w \in Budget : Spend(w)
  PROVE  Moves(r, y) /\ chan'[r] = chan[r]
<1>1. Peer(r) \in Router /\ Peer(r) # r
  BY PeerType
<1>2. chan'[r] = chan[r] /\ chan'[Peer(r)] = chan[Peer(r)] \o y.out
  BY <1>1 DEF Tick, TypeOK
<1>3. Time(R2)' \in Nat /\ Time(R2) <= Time(R2)'
  BY TimeLater
<1> QED BY <1>2, <1>3 DEF Moves, Shrunk, Tick

(* a received packet as a step of r *)
LEMMA RxMoves ==
  ASSUME TypeOK, NEW r \in Router, NEW y \in XType, Known(r, y), chan[r] # <<>>, Rx(r, y), UNCHANGED env
  PROVE  Moves(r, y) /\ chan'[r] = Tail(chan[r])
<1>1. Peer(r) \in Router /\ Peer(r) # r
  BY PeerType
<1>2. chan'[r] = Tail(chan[r]) /\ chan'[Peer(r)] = chan[Peer(r)] \o y.out
  BY <1>1 DEF Rx, TypeOK
<1>3. Time(R2)' \in Nat /\ Time(R2) <= Time(R2)'
  BY TimeLater
<1> QED BY <1>2, <1>3 DEF Moves, Shrunk, Rx

(* ------------------------------ the outputs ----------------------------- *)
LEMMA NothingSent == Pkts(<<>>) = {} /\ Dds(<<>>) = {} /\ Replies(<<>>) = {} /\ NoReq(<<>>)
BY DEF Pkts, Dds, Replies, NoReq

(* there is no request on a wire without one among its packets *)
LEMMA NoReqPkts == \A w : NoReq(w) <=> \A p \in Pkts(w) : p.t # "req"
BY DEF NoReq, Pkts

(* what the invariant says of the record that a handler of r starts from *)
LEMMA KnownSelf ==
  ASSUME ExchangeInv, NEW r \in Router
  PROVE  /\ Known(r, Self(r)) /\ Self(r) \in XType /\ NbInv(r, nb[r]) /\ nb[r] \in NbType /\ TypeOK
         /\ Self(r).n = nb[r] /\ Self(r).d = ls[r] /\ Self(r).out = <<>>
         /\ \A p \in Pkts(chan[r]) : GoodPkt(Peer(r), p)
<1>1. Self(r).n = nb[r] /\ Self(r).d = ls[r] /\ Self(r).out = <<>>
  BY DEF Self
<1>2. Peer(r) \in Router /\ Peer(Peer(r)) = r
  BY IdAssumption DEF Peer, Router
<1>3. Held(r, nb[r], ls[r]) /\ \A p \in Pkts(chan[r]) : GoodPkt(Peer(r), p)
  BY <1>2 DEF ExchangeInv, Inventory
<1>4. Good(r, Self(r)) /\ TypeOK
  BY SelfGood DEF ExchangeInv, IInv
<1>5. Self(r) \in XType /\ NbInv(r, nb[r]) /\ nb[r] \in NbType
  BY <1>1, <1>4 DEF Good, XType
<1>6. Known(r, Self(r))
  BY <1>1, <1>3, NothingSent DEF Known
<1> QED BY <1>1, <1>3, <1>4, <1>5, <1>6

(* a tame operation sends no DD packet and no request *)
LEMMA TameOut ==
  ASSUME NEW r \in Router, NEW x, NEW y, Tame(r, x, y)
  PROVE  Dds(y.out) \subseteq Dds(x.out) /\ (NoReq(x.out) => NoReq(y.out))
<1>1. Dds(y.out) \subseteq Dds(x.out)
  BY DEF Tame, Dds
<1>2. ASSUME NoReq(x.out) PROVE NoReq(y.out)
  BY <1>2, NoReqPkts DEF Tame
<1> QED BY <1>1, <1>2

(* what is held or wanted after a tame operation *)
LEMMA TameCovered ==
  ASSUME NEW r \in Router, NEW x, NEW y, Tame(r, x, y), Known(r, x)
  PROVE  Covered(r, y.n, y.d) = Covered(r, x.n, x.d)
<1>1. \A e \in Ext : y.d.db[<<ExtLsa(e), FALSE>>] = x.d.db[<<ExtLsa(e), FALSE>>]
  <2>1. SameExt(x.d, y.d) /\ GoodDb(r, x.d)
    BY DEF Tame, Known, Held
  <2> QED BY <2>1, ExtKey DEF SameExt
<1>2. y.n.lsreq = x.n.lsreq
  BY DEF Tame, SameNb
<1> QED BY <1>1, <1>2 DEF Covered

(* tame operations do nothing to the exchange *)
LEMMA TameStays ==
  ASSUME ExchangeInv, NEW r \in Router, NEW y, Tame(r, Self(r), y)
  PROVE  y \in XType /\ Known(r, y) /\ Stays(r, y)
<1>1. Known(r, Self(r)) /\ Self(r).n = nb[r] /\ Self(r).d = ls[r] /\ Self(r).out = <<>>
  BY KnownSelf
<1>2. y \in XType /\ Known(r, y)
  BY <1>1, TameKnown DEF Tame
<1>3. Covered(r, y.n, y.d) = Covered(r, nb[r], ls[r])
  BY <1>1, TameCovered
<1>4. Dds(y.out) = {} /\ NoReq(y.out)
  BY <1>1, TameOut, NothingSent
<1>5. SameNb(nb[r], y.n)
  BY <1>1 DEF Tame
<1> QED BY <1>2, <1>3, <1>4, <1>5 DEF SameNb, Stays

(* a composition of steps: what was said of x can be said of y *)
LEMMA TameAfter ==
  ASSUME NEW r \in Router, NEW x, NEW y, Tame(r, x, y), Known(r, x)
  PROVE  /\ y \in XType /\ Known(r, y)
         /\ Begins(r, x) => Begins(r, y)
         /\ Drops(r, x) => Drops(r, y)
         /\ Stays(r, x) => Stays(r, y)
<1>1. y \in XType /\ Known(r, y)
  BY TameKnown DEF Tame
<1>2. Covered(r, y.n, y.d) = Covered(r, x.n, x.d)
  BY TameCovered
<1>3. Dds(y.out) \subseteq Dds(x.out) /\ (NoReq(x.out) => NoReq(y.out))
  BY TameOut
<1>4. SameNb(x.n, y.n)
  BY DEF Tame
<1>5. Begins(r, x) => Begins(r, y)
  BY <1>3, <1>4 DEF Begins, SameNb
<1>6. Drops(r, x) => Drops(r, y)
  BY <1>3, <1>4 DEF Drops, SameNb
<1>7. Stays(r, x) => Stays(r, y)
  BY <1>2, <1>3, <1>4 DEF Stays, SameNb, Building
<1> QED BY <1>1, <1>5, <1>6, <1>7

(* start_adj *)
LEMMA StartAdjFields ==
  ASSUME TypeOK, NEW r \in Router, NEW x \in XType
  PROVE  LET z == StartAdj(r, x)
         IN  /\ z \in XType /\ z.d = x.d /\ z.n.state = EXSTART
             /\ z.n.ddseq = DdBase(x.n, Time(r)) + 1
             /\ z.n.ddsum = x.n.ddsum /\ z.n.rxmt = x.n.rxmt /\ z.n.lsreq = x.n.lsreq
             /\ z.n.lastdd = Dd(TRUE, TRUE, TRUE, z.n.ddseq, {})
             /\ Pkts(z.out) = Pkts(x.out) \union {z.n.lastdd}
             /\ z.n.sent = x.n.sent
<1> DEFINE t == DdBase(x.n, Time(r)) + 1
           y == [x EXCEPT !.n.state = EXSTART, !.n.ddseq = t, !.n.master = TRUE]
           p == Dd(TRUE, TRUE, TRUE, t, {})
           u == [y EXCEPT !.n.lastdd = p, !.n.sent = @]
           z == StartAdj(r, x)
<1>0. z \in XType
  BY StartAdjType
<1>1. t \in Nat
  BY TimeType DEF XType, NbType, DdBase
<1>1a. (IF x.n.ddseq = 0 THEN Time(r) ELSE x.n.ddseq) + 1 = t
  BY DEF DdBase
<1> HIDE DEF t
<1>2. /\ y \in XType /\ y.n.state = EXSTART /\ y.d = x.d /\ y.out = x.out /\ y.n.ddseq = t
      /\ y.n.ddsum = x.n.ddsum /\ y.n.rxmt = x.n.rxmt /\ y.n.lsreq = x.n.lsreq /\ y.n.sent = x.n.sent
  BY <1>1 DEF XType, NbType
<1>3. z = BuildDd(y, TRUE, TRUE, {})
  BY <1>1a DEF StartAdj
<1> HIDE DEF y
<1>4. z = Send(u, p)
  BY <1>2, <1>3 DEF BuildDd
<1>5. p \in DdPkt /\ p \in Pkt
  BY <1>1, PktType DEF Dd, DdPkt, Pkt
<1> HIDE DEF p
<1>6. /\ u \in XType /\ u.n.state = EXSTART /\ u.d = x.d /\ u.out = x.out /\ u.n.ddseq = t /\ u.n.lastdd = p
      /\ u.n.ddsum = x.n.ddsum /\ u.n.rxmt = x.n.rxmt /\ u.n.lsreq = x.n.lsreq /\ u.n.sent = x.n.sent
  BY <1>2, <1>5 DEF XType, NbType
<1> HIDE DEF u, z
<1>7. z.n = u.n /\ z.d = u.d /\ Pkts(z.out) = Pkts(u.out) \union {p}
  BY <1>4, <1>5, <1>6, SendType, SendPkts
<1>8. p = Dd(TRUE, TRUE, TRUE, t, {})
  BY DEF p
<1> QED BY <1>0, <1>6, <1>7, <1>8 DEF z, t

(* an adjacency that starts *)
LEMMA StartAdjBegins ==
  ASSUME TypeOK, NEW r \in Router, NEW x \in XType, Known(r, x), nb[r] \in NbType,
         r = R2 => x.n.ddseq = nb[r].ddseq \/ (x.n.ddseq >= nb[r].ddseq /\ nb[r].ddseq > 0),
         Dds(x.out) = {}, NoReq(x.out)
  PROVE  StartAdj(r, x) \in XType /\ Known(r, StartAdj(r, x)) /\ Begins(r, StartAdj(r, x))
<1> DEFINE z == StartAdj(r, x)
<1>1. /\ z \in XType /\ z.d = x.d /\ z.n.state = EXSTART
      /\ z.n.ddseq = DdBase(x.n, Time(r)) + 1
      /\ z.n.ddsum = x.n.ddsum /\ z.n.rxmt = x.n.rxmt
      /\ z.n.lastdd = Dd(TRUE, TRUE, TRUE, z.n.ddseq, {})
      /\ Pkts(z.out) = Pkts(x.out) \union {z.n.lastdd}
  BY StartAdjFields
<1> HIDE DEF z
<1>2. LastDdFits(z.n) /\ GoodPkt(r, z.n.lastdd) /\ z.n.lastdd.t = "dd"
  BY <1>1 DEF LastDdFits, EXSTART, EXCHANGE, GoodPkt, Dd, GoodInsts
<1>3. Known(r, z)
  BY <1>1, <1>2 DEF Known, Held
<1>4. Dds(z.out) \subseteq {z.n.lastdd} /\ NoReq(z.out)
  BY <1>1, <1>2, NoReqPkts DEF Dds
<1>5. r = R2 => z.n.ddseq > DdBase(nb[r], Time(r))
  <2>1. x.n.ddseq \in Nat /\ nb[r].ddseq \in Nat /\ Time(r) \in Nat
    BY TimeType DEF XType, NbType
  <2> QED BY <1>1, <2>1 DEF DdBase
<1> QED BY <1>1, <1>3, <1>4, <1>5 DEF Begins, z

(* ------------------------- hellos and elections ------------------------- *)
(* a handler that returns at once *)
LEMMA SelfStays ==
  ASSUME ExchangeInv, NEW r \in Router PROVE Stays(r, Self(r))
BY KnownSelf, TameSelf, TameStays

(* the neighbour's state changes below ExStart *)
LEMMA StateStays ==
  ASSUME ExchangeInv, NEW r \in Router, NEW st \in {INIT, TWOWAY}, nb[r].state < EXSTART
  PROVE  LET y == [Self(r) EXCEPT !.n.state = st]
         IN  /\ y \in XType /\ Known(r, y) /\ Stays(r, y) /\ y.n.state = st /\ y.n.ddseq = nb[r].ddseq
             /\ y.out = <<>>
<1> DEFINE y == [Self(r) EXCEPT !.n.state = st]
<1>0. /\ Known(r, Self(r)) /\ Self(r) \in XType /\ nb[r] \in NbType
      /\ Self(r).n = nb[r] /\ Self(r).d = ls[r] /\ Self(r).out = <<>>
  BY KnownSelf
<1>1. /\ y \in XType /\ y.n.state = st /\ y.n.ddseq = nb[r].ddseq /\ y.n.ddsum = nb[r].ddsum
      /\ y.n.sent = nb[r].sent /\ y.n.lsreq = nb[r].lsreq /\ y.n.rxmt = nb[r].rxmt
      /\ y.d = ls[r] /\ y.out = <<>>
  BY <1>0 DEF XType, NbType
<1> HIDE DEF y
<1>2. y.n.state < EXSTART /\ y.n.state # EXSTART /\ y.n.state # EXCHANGE
  BY <1>1 DEF INIT, TWOWAY, EXSTART, EXCHANGE
<1>3. Known(r, y)
  BY <1>0, <1>1, <1>2, NothingSent DEF Known, Held, LastDdFits
<1>4. Covered(r, y.n, y.d) = Covered(r, nb[r], ls[r])
  BY <1>1 DEF Covered
<1>5. Stays(r, y)
  BY <1>1, <1>2, <1>4, NothingSent DEF Stays, Building
<1> QED BY <1>1, <1>3, <1>5 DEF y

(* nfsm2WayReceived of a neighbour below ExStart *)
LEMMA TwoWayKinds ==
  ASSUME ExchangeInv, NEW r \in Router, NEW x \in XType, Known(r, x), Stays(r, x), x.n.ddseq = nb[r].ddseq,
         x.out = <<>>, x = Self(r) \/ (nb[r].state < EXSTART /\ x = [Self(r) EXCEPT !.n.state = INIT])
  PROVE  LET y == TwoWayReceived(r, x)
         IN  /\ y \in XType /\ Known(r, y)
             /\ Stays(r, y) \/ (Begins(r, y) /\ x.n.state = INIT /\ y = StartAdj(r, x))
<1>0. /\ Self(r) \in XType /\ nb[r] \in NbType /\ TypeOK /\ Self(r).n = nb[r]
  BY KnownSelf
<1>1. CASE x.n.state # INIT
  BY <1>1 DEF TwoWayReceived
<1>2. CASE x.n.state = INIT /\ adj[r]
  <2>1. StartAdj(r, x) \in XType /\ Known(r, StartAdj(r, x)) /\ Begins(r, StartAdj(r, x))
    BY <1>0, StartAdjBegins, NothingSent
  <2> QED BY <1>2, <2>1 DEF TwoWayReceived
<1>3. CASE x.n.state = INIT /\ ~adj[r]
  <2> DEFINE z == [Self(r) EXCEPT !.n.state = TWOWAY]
  <2>1. [x EXCEPT !.n.state = TWOWAY] = z
    BY <1>0 DEF XType, NbType
  <2>2. nb[r].state < EXSTART
    <3>1. x = Self(r) => nb[r].state = INIT
      BY <1>0, <1>3
    <3> QED BY <3>1 DEF INIT, EXSTART
  <2>3. z \in XType /\ Known(r, z) /\ Stays(r, z)
    BY <2>2, StateStays
  <2> HIDE DEF z
  <2> QED BY <1>3, <2>1, <2>3 DEF TwoWayReceived
<1> QED BY <1>1, <1>2, <1>3

(* the lists are cleared, and nothing else *)
LEMMA ClearListsFields ==
  ASSUME NEW x \in XType
  PROVE  LET y == ClearLists(x)
         IN  /\ y \in XType /\ y.d = x.d /\ y.out = x.out /\ y.n.state = x.n.state /\ y.n.ddseq = x.n.ddseq
             /\ y.n.ddsum = {} /\ y.n.rxmt = {}
<1>1. ClearLists(x) \in XType
  BY ClearListsType
<1>2. x.n \in NbType /\ x \in [n : NbType, d : LsType, out : Seq(Pkt)]
  BY DEF XType
<1> DEFINE n == [x.n EXCEPT !.ddsum = {}, !.sent = {}, !.lsreq = {}, !.rxmt = {}]
<1>3. ClearLists(x).n = n /\ ClearLists(x).d = x.d /\ ClearLists(x).out = x.out
  BY <1>2 DEF ClearLists
<1>4. n.state = x.n.state /\ n.ddseq = x.n.ddseq /\ n.ddsum = {} /\ n.rxmt = {}
  BY <1>2 DEF NbType
<1> QED BY <1>1, <1>3, <1>4

(* nfsm1Way, and the inactivity timer: the lists are cleared and the neighbour's LSAs go *)
LEMMA ClearLsaFields ==
  ASSUME NEW r \in Router, NEW x \in XType
  PROVE  LET z == ClearLsa(r, x)
         IN  /\ z \in XType /\ SameExt(x.d, z.d) /\ z.out = x.out
             /\ z.n.state = x.n.state /\ z.n.ddseq = x.n.ddseq
             /\ z.n.ddsum = {} /\ z.n.rxmt = {}
<1> DEFINE y == ClearLists(x)
           ks == {<<Rtr(Peer(r)), FALSE>>, <<Net(Peer(r)), FALSE>>}
           z == ClearLsa(r, x)
           d == lsadbRemove(y.d, ks)
<1>0. z \in XType
  BY ClearLsaType
<1>1. /\ y \in XType /\ y.d = x.d /\ y.out = x.out /\ y.n.state = x.n.state /\ y.n.ddseq = x.n.ddseq
      /\ y.n.ddsum = {} /\ y.n.rxmt = {}
  BY ClearListsFields
<1>2. z = [y EXCEPT !.d = d]
  BY DEF ClearLsa
<1> HIDE DEF y
<1>3. ks \in SUBSET Key /\ \A k \in ks : k[1][1] # "ext"
  <2>1. \A l \in {Rtr(Peer(r)), Net(Peer(r))} : l \in Lsa /\ l[1] # "ext"
    BY PeerType, KeyType, ExtKey
  <2>2. \A k \in ks : \E l \in {Rtr(Peer(r)), Net(Peer(r))} : k = <<l, FALSE>>
    OBVIOUS
  <2> HIDE DEF ks
  <2>3. ASSUME NEW k \in ks PROVE k \in Key /\ k[1][1] # "ext"
    <3>1. PICK l \in {Rtr(Peer(r)), Net(Peer(r))} : k = <<l, FALSE>>
      BY <2>2
    <3>2. k[1] = l
      BY <3>1
    <3> QED BY <2>1, <3>1, <3>2, KeyType
  <2> QED BY <2>3
<1> HIDE DEF ks
<1>4. SameExt(x.d, d)
  BY <1>1, <1>3, RemoveSameExt DEF XType
<1> HIDE DEF d
<1>5. z.n = y.n /\ z.d = d /\ z.out = y.out
  BY <1>1, <1>2 DEF XType
<1> QED BY <1>0, <1>1, <1>4, <1>5

(* nfsm1Way: the neighbour stays below 2-Way, or falls back to Init *)
LEMMA OneWayKinds ==
  ASSUME ExchangeInv, NEW r \in Router, NEW x \in XType, Known(r, x), Stays(r, x), x.n.ddseq = nb[r].ddseq,
         x.out = <<>>
  PROVE  LET y == OneWay(r, x)
         IN  y \in XType /\ Known(r, y) /\ (Stays(r, y) \/ (Drops(r, y) /\ y.n.state = INIT))
<1>1. CASE ~(x.n.state >= TWOWAY)
  BY <1>1 DEF OneWay
<1>2. CASE x.n.state >= TWOWAY
  <2> DEFINE u == [x EXCEPT !.n.state = INIT]
             z == ClearLsa(r, u)
  <2>1. u \in XType /\ u.n.state = INIT /\ u.d = x.d /\ u.out = <<>> /\ u.n.ddseq = nb[r].ddseq
    BY DEF XType, NbType
  <2>2. z = OneWay(r, x)
    BY <1>2 DEF OneWay
  <2> HIDE DEF u
  <2>3. /\ z \in XType /\ SameExt(x.d, z.d) /\ z.out = <<>> /\ z.n.state = INIT
        /\ z.n.ddseq = nb[r].ddseq /\ z.n.ddsum = {} /\ z.n.rxmt = {}
    BY <2>1, ClearLsaFields
  <2> HIDE DEF z
  <2>4. Known(r, z)
    <3>1. GoodDb(r, z.d)
      BY <2>3, SameExtGood DEF Known, Held
    <3> QED BY <2>3, <3>1, NothingSent DEF Known, Held, LastDdFits, GoodInsts, INIT, EXSTART, EXCHANGE
  <2>5. Drops(r, z)
    BY <2>3, NothingSent DEF Drops, INIT, EXSTART
  <2> QED BY <2>2, <2>3, <2>4, <2>5
<1> QED BY <1>1, <1>2

(* helloRx up to the interface events *)
HelloKind(r, h) ==
  \/ Stays(r, h) /\ h.out = <<>>
  \/ Begins(r, h) /\ nb[r].state < EXSTART
  \/ Drops(r, h) /\ h.n.state = INIT /\ nb[Peer(r)].state = DOWN

(* what helloRx leaves, before the interface events *)
LEMMA HelloKinds ==
  ASSUME ExchangeInv, NEW r \in Router
  PROVE  HelloReceived(r) \in XType /\ Known(r, HelloReceived(r)) /\ HelloKind(r, HelloReceived(r))
<1> DEFINE x == Self(r)
           y == IF x.n.state = DOWN THEN [x EXCEPT !.n.state = INIT] ELSE x
           h == HelloReceived(r)
<1>0. /\ Known(r, x) /\ x \in XType /\ x.n = nb[r] /\ x.out = <<>> /\ Stays(r, x)
  BY KnownSelf, SelfStays
<1>1. /\ y \in XType /\ Known(r, y) /\ Stays(r, y) /\ y.n.ddseq = nb[r].ddseq /\ y.out = <<>>
      /\ y = Self(r) \/ (nb[r].state < EXSTART /\ y = [Self(r) EXCEPT !.n.state = INIT])
      /\ y.n.state = INIT => nb[r].state < EXSTART
  <2>1. CASE nb[r].state = DOWN
    <3>1. nb[r].state < EXSTART
      BY <2>1 DEF DOWN, EXSTART
    <3> HIDE DEF x
    <3> QED BY <1>0, <2>1, <3>1, StateStays DEF x
  <2>2. CASE nb[r].state # DOWN
    BY <1>0, <2>2 DEF INIT, EXSTART
  <2> QED BY <2>1, <2>2
<1>2. h = IF HelloSeen(r) THEN TwoWayReceived(r, y) ELSE OneWay(r, y)
  BY DEF HelloReceived
<1> HIDE DEF x, y, h
<1>3. CASE HelloSeen(r)
  <2>1. CASE y.n.state = INIT /\ adj[r]
    <3>1. h \in XType /\ Known(r, h) /\ (Stays(r, h) \/ Begins(r, h)) /\ h = StartAdj(r, y)
      BY <1>1, <1>2, <1>3, <2>1, TwoWayKinds DEF TwoWayReceived
    <3>2. TypeOK /\ h.n.state = EXSTART /\ nb[r].state < EXSTART /\ nb[r].state \in Nat
      BY <1>1, <2>1, <3>1, StartAdjFields, KnownSelf, NbFields
    <3>3. ~Stays(r, h)
      BY <3>2 DEF Stays, EXSTART, FULL
    <3> QED BY <3>1, <3>2, <3>3 DEF HelloKind, h
  <2>2. CASE y.n.state = INIT /\ ~adj[r]
    <3> DEFINE z == [y EXCEPT !.n.state = TWOWAY]
    <3>1. h = z
      BY <1>2, <1>3, <2>2 DEF TwoWayReceived
    <3>2. z.out = y.out /\ z.n.state = TWOWAY
      BY <1>1 DEF XType, NbType
    <3> HIDE DEF z
    <3>3. h \in XType /\ Known(r, h) /\ (Stays(r, h) \/ Begins(r, h))
      BY <1>1, <1>2, <1>3, TwoWayKinds
    <3>4. ~Begins(r, h)
      BY <3>1, <3>2 DEF Begins, TWOWAY, EXSTART
    <3> QED BY <1>1, <3>1, <3>2, <3>3, <3>4 DEF HelloKind, h
  <2>3. CASE y.n.state # INIT
    BY <1>1, <1>2, <1>3, <2>3 DEF TwoWayReceived, HelloKind, h
  <2> QED BY <2>1, <2>2, <2>3
<1>4. CASE ~HelloSeen(r)
  <2>0. nb[Peer(r)].state = DOWN
    BY <1>4 DEF HelloSeen
  <2>1. CASE y.n.state >= TWOWAY
    <3>1. h \in XType /\ Known(r, h) /\ Drops(r, h) /\ h.n.state = INIT
      <4>1. h \in XType /\ Known(r, h) /\ (Stays(r, h) \/ (Drops(r, h) /\ h.n.state = INIT))
        BY <1>1, <1>2, <1>4, OneWayKinds
      <4> DEFINE u == [y EXCEPT !.n.state = INIT]
      <4>2. u \in XType /\ u.n.state = INIT /\ u.out = <<>> /\ u.n.ddseq = nb[r].ddseq
        BY <1>1 DEF XType, NbType
      <4>3. h = ClearLsa(r, u)
        BY <1>2, <1>4, <2>1 DEF OneWay
      <4> HIDE DEF u
      <4>4. h.n.state = INIT /\ h.out = <<>> /\ h.n.ddseq = nb[r].ddseq
        BY <4>2, <4>3, ClearLsaFields
      <4>5. Drops(r, h)
        BY <4>4, NothingSent DEF Drops, INIT, EXSTART
      <4> QED BY <4>1, <4>4, <4>5
    <3> QED BY <2>0, <3>1 DEF HelloKind, h
  <2>2. CASE ~(y.n.state >= TWOWAY)
    BY <1>1, <1>2, <1>4, <2>2 DEF OneWay, HelloKind, h
  <2> QED BY <2>1, <2>2
<1> QED BY <1>3, <1>4

(* what a hello does to the exchange *)
LEMMA HelloStep ==
  ASSUME ExchangeInv, NEW r \in Router, NEW h, HelloKind(r, h), Moves(r, h)
  PROVE  StepKeeps
<1>1. CASE Stays(r, h)
  BY <1>1, StaysStep
<1>2. CASE Begins(r, h) /\ nb[r].state < EXSTART
  BY <1>2, BeginsStep DEF Again
<1>3. CASE Drops(r, h) /\ nb[Peer(r)].state = DOWN
  BY <1>3, DropsStep
<1> QED BY <1>1, <1>2, <1>3 DEF HelloKind

(* helloRx without an interface event *)
LEMMA HelloRxStep == ASSUME ExchangeInv, NEW r \in Router, HelloRx(r) PROVE StepKeeps
<1>1. HelloReceived(r) \in XType /\ Known(r, HelloReceived(r)) /\ HelloKind(r, HelloReceived(r)) /\ TypeOK
  BY HelloKinds, KnownSelf
<1>2. Moves(r, HelloReceived(r))
  BY <1>1, TickMoves DEF HelloRx
<1> QED BY <1>1, <1>2, HelloStep

(* an election after h *)
LEMMA ElectKind ==
  ASSUME ExchangeInv, NEW r \in Router, NEW h \in XType, Known(r, h), HelloKind(r, h), NEW y,
         Tame(r, IF h.n.state = TWOWAY THEN StartAdj(r, h) ELSE h, y)
  PROVE  /\ y \in XType /\ Known(r, y)
         /\ \/ Stays(r, y)
            \/ Begins(r, y) /\ nb[r].state < EXSTART
            \/ Drops(r, y) /\ nb[Peer(r)].state = DOWN
<1>0. TypeOK /\ nb[r] \in NbType /\ nb[r].state \in Nat
  BY KnownSelf, NbFields
<1>1. CASE h.n.state = TWOWAY
  <2> DEFINE s == StartAdj(r, h)
  <2>1. Stays(r, h) /\ h.out = <<>>
    BY <1>1 DEF HelloKind, Begins, INIT, TWOWAY, EXSTART
  <2>2. nb[r].state < EXSTART /\ h.n.ddseq = nb[r].ddseq
    BY <1>0, <1>1, <2>1 DEF Stays, TWOWAY, EXSTART, FULL
  <2>3. s \in XType /\ Known(r, s) /\ Begins(r, s)
    BY <1>0, <2>1, <2>2, StartAdjBegins, NothingSent
  <2> HIDE DEF s
  <2>4. Tame(r, s, y)
    BY <1>1 DEF s
  <2> QED BY <2>2, <2>3, <2>4, TameAfter
<1>2. CASE h.n.state # TWOWAY
  <2>1. Tame(r, h, y)
    BY <1>2
  <2> QED BY <2>1, TameAfter DEF HelloKind
<1> QED BY <1>1, <1>2

(* helloRx with an election *)
LEMMA HelloElectStep ==
  ASSUME ExchangeInv, NEW r \in Router, NEW isdr \in BOOLEAN, NEW changed \in BOOLEAN, HelloRxElect(r, isdr, changed)
  PROVE  StepKeeps
<1> DEFINE h == HelloReceived(r)
           y == Elect(r, h, isdr, changed)
<1>1. h \in XType /\ Known(r, h) /\ HelloKind(r, h) /\ TypeOK
  BY HelloKinds, KnownSelf
<1>2. Tick(r, y) /\ (UNCHANGED env \/ \E w \in Budget : Spend(w))
  BY DEF HelloRxElect, Budget
<1> HIDE DEF h
<1>3. Tame(r, IF h.n.state = TWOWAY THEN StartAdj(r, h) ELSE h, y)
  BY <1>1, ElectTame
<1> HIDE DEF y
<1>4. /\ y \in XType /\ Known(r, y)
      /\ \/ Stays(r, y)
         \/ Begins(r, y) /\ nb[r].state < EXSTART
         \/ Drops(r, y) /\ nb[Peer(r)].state = DOWN
  BY <1>1, <1>3, ElectKind
<1>5. Moves(r, y)
  BY <1>1, <1>2, <1>4, TickMoves
<1> QED BY <1>4, <1>5, StaysStep, BeginsStep, DropsStep DEF Again

(* the wait timer with its election *)
LEMMA WaitStep ==
  ASSUME ExchangeInv, NEW r \in Router, NEW isdr \in BOOLEAN, NEW changed \in BOOLEAN, WaitTimer(r, isdr, changed)
  PROVE  StepKeeps
<1> DEFINE h == Self(r)
           y == TimerElect(r, h, isdr, changed)
<1>1. h \in XType /\ Known(r, h) /\ HelloKind(r, h) /\ TypeOK
  BY KnownSelf, SelfStays DEF HelloKind
<1>2. Tick(r, y) /\ UNCHANGED env
  BY DEF WaitTimer
<1> HIDE DEF h
<1>3. Tame(r, IF h.n.state = TWOWAY THEN StartAdj(r, h) ELSE h, y)
  BY <1>1, TimerElectTame
<1> HIDE DEF y
<1>4. /\ y \in XType /\ Known(r, y)
      /\ \/ Stays(r, y)
         \/ Begins(r, y) /\ nb[r].state < EXSTART
         \/ Drops(r, y) /\ nb[Peer(r)].state = DOWN
  BY <1>1, <1>3, ElectKind
<1>5. Moves(r, y)
  BY <1>1, <1>2, <1>4, TickMoves
<1> QED BY <1>4, <1>5, StaysStep, BeginsStep, DropsStep DEF Again

(* ------------------------------- LSA timers ----------------------------- *)
LEMMA TameTick ==
  ASSUME ExchangeInv, NEW r \in Router, NEW y, Tame(r, Self(r), y), Tick(r, y),
         TimerDue \/ \E w \in Budget : Spend(w)
  PROVE  StepKeeps
<1>1. y \in XType /\ Known(r, y) /\ Stays(r, y) /\ TypeOK
  BY TameStays, KnownSelf
<1>2. Moves(r, y)
  BY <1>1, TickMoves
<1> QED BY <1>1, <1>2, StaysStep

(* entries of the database *)
LEMMA EntryGood ==
  ASSUME NEW r \in Router, NEW d \in LsType, GoodDb(r, d), NEW k \in Key, Present(d, k)
  PROVE  /\ GoodInsts(r, {d.db[k]})
         /\ d.db[k].max => k[1][1] # "ext"
         /\ k[2] => k[1][1] # "ext"
<1>1. CASE k[1][1] # "ext"
  <2>1. \A e \in Ext : d.db[k].l # ExtLsa(e)
    BY <1>1, ExtKey DEF GoodDb
  <2> QED BY <1>1, <2>1, ExtKey DEF GoodDb, GoodInsts
<1>2. CASE k[1][1] = "ext"
  <2>1. PICK e \in Ext : k[1] = ExtLsa(e)
    BY <1>2, ExtKey, KeyType
  <2>2. k = <<ExtLsa(e), FALSE>> /\ ~k[2]
    <3>1. k = <<ExtLsa(e), k[2]>> /\ k[2] \in BOOLEAN
      BY <2>1, KeyType
    <3>2. d.db[<<ExtLsa(e), TRUE>>].seq = 0
      BY DEF GoodDb
    <3>3. d.db[k].seq > 0
      BY DEF Present
    <3>4. ~(d.db[k].seq = 0)
      BY <3>3
    <3>5. k # <<ExtLsa(e), TRUE>>
      BY <3>2, <3>4
    <3> QED BY <3>1, <3>5
  <2>3. d.db[k].l = ExtLsa(e) /\ ~d.db[k].max /\ d.db[k].seq >= ExtSeq[r][e]
    BY <2>1, <2>2 DEF GoodDb
  <2>4. \A a \in Ext : ExtLsa(a) = ExtLsa(e) => a = e
    BY DEF ExtLsa
  <2> QED BY <2>2, <2>3, <2>4 DEF GoodInsts
<1> QED BY <1>1, <1>2

(* a new instance of an LSA that r originates is flooded *)
LEMMA RenewTame ==
  ASSUME ExchangeInv, NEW r \in Router, NEW l \in Lsa, l[1] # "ext", NEW d \in LsType, SameExt(ls[r], d)
  PROVE  LET y == [Self(r) EXCEPT !.d = d]
         IN  Tame(r, Self(r), Flood(y, <<l, TRUE>>, y.d.db[<<l, TRUE>>], dr[r]))
<1> DEFINE x == Self(r)
           y == [x EXCEPT !.d = d]
           k == <<l, TRUE>>
           i == y.d.db[k]
           z == Flood(y, k, i, dr[r])
<1>1. x \in XType /\ x.d = ls[r] /\ dr[r] \in BOOLEAN /\ k \in Key
  BY KnownSelf, KeyType DEF TypeOK
<1> HIDE DEF x
<1>2. Tame(r, x, y) /\ y \in XType /\ y.d = d
  BY <1>1, TameDb DEF XType
<1> HIDE DEF y
<1>3. i \in Inst
  BY <1>1, <1>2, SeqType
<1>4. GoodDb(r, y.d) => GoodInsts(r, {i})
  <2> SUFFICES ASSUME GoodDb(r, y.d) PROVE GoodInsts(r, {i})
    OBVIOUS
  <2>1. i.l = l
    BY <1>1 DEF GoodDb
  <2> QED BY <2>1, ExtKey DEF GoodInsts
<1> HIDE DEF i, k
<1>5. Tame(r, y, z)
  BY <1>1, <1>2, <1>3, <1>4, FloodTame
<1> HIDE DEF z
<1>6. Tame(r, x, z)
  BY <1>2, <1>5, TameTrans
<1> QED BY <1>6 DEF x, y, k, i, z

(* the LSA timers (lsa_originate_net_update, lsadbTimeout, lsadbFlood) and    *)
(* refreshes: router and network LSAs only                                    *)
LEMMA LsaTimerStep ==
  ASSUME ExchangeInv, NEW r \in Router, LsaTimers(r) \/ \E l \in Lsa : Refresh(r, l)
  PROVE  StepKeeps
<1>0. /\ TypeOK /\ Self(r) \in XType /\ Self(r).d = ls[r] /\ ls[r] \in LsType /\ GoodDb(r, ls[r])
      /\ dr[r] \in BOOLEAN /\ "change" \in Budget
  BY KnownSelf DEF TypeOK, Known, Held, Budget
<1>1. CASE NetLsaUpdate(r)
  <2> DEFINE d == [ls[r] EXCEPT !.upd = FALSE]
             x == [Self(r) EXCEPT !.d = d]
  <2>1. d \in LsType /\ d.db = ls[r].db
    BY <1>0 DEF LsType
  <2>2. [Self(r) EXCEPT !.d.upd = FALSE] = x
    BY <1>0 DEF XType
  <2> HIDE DEF d
  <2>3. SameExt(ls[r], d)
    BY <2>1 DEF SameExt
  <2>4. x \in XType /\ Tame(r, Self(r), x)
    BY <1>0, <2>1, <2>3, TameDb DEF XType
  <2> HIDE DEF x
  <2>5. Tame(r, x, NetUpdate(r, x, dr[r]))
    BY <1>0, <2>4, NetUpdateTame
  <2>6. Tame(r, Self(r), NetUpdate(r, x, dr[r]))
    BY <2>4, <2>5, TameTrans
  <2> QED BY <1>1, <2>2, <2>6, TameTick DEF NetLsaUpdate
<1>2. ASSUME NEW k \in Key, AgeOut(r, k) PROVE StepKeeps
  <2>1. Present(ls[r], k) /\ ls[r].db[k].max /\ TimerDue
    BY <1>0, <1>2 DEF AgeOut
  <2>2. k[1][1] # "ext" /\ k[1] \in Lsa /\ k = <<k[1], k[2]>> /\ k[2] \in BOOLEAN
    BY <1>0, <2>1, EntryGood, KeyType
  <2>3. CASE ~k[2]
    <3>1. Tame(r, Self(r), FlushLsa(Self(r), k, dr[r]))
      BY <1>0, <2>2, FlushTame
    <3> QED BY <1>2, <2>1, <2>3, <3>1, TameTick DEF AgeOut
  <2>4. CASE k[2]
    <3> DEFINE d == Renew(ls[r], k[1])
               y == [Self(r) EXCEPT !.d = d]
    <3>1. d \in LsType /\ SameExt(ls[r], d)
      BY <1>0, <2>2, RenewType, RenewSameExt
    <3>2. Tick(r, Flood(y, k, y.d.db[k], dr[r]))
      BY <1>0, <1>2, <2>4 DEF AgeOut
    <3> HIDE DEF d
    <3>3. k = <<k[1], TRUE>>
      BY <2>2, <2>4
    <3>4. Tame(r, Self(r), Flood(y, <<k[1], TRUE>>, y.d.db[<<k[1], TRUE>>], dr[r]))
      BY <2>2, <3>1, RenewTame
    <3> HIDE DEF y
    <3>5. Tame(r, Self(r), Flood(y, k, y.d.db[k], dr[r]))
      BY <3>3, <3>4
    <3> QED BY <2>1, <3>2, <3>5, TameTick
  <2> QED BY <2>3, <2>4
<1>3. ASSUME NEW k \in Key, FloodTimer(r, k) PROVE StepKeeps
  <2> DEFINE d == [ls[r] EXCEPT !.flood = @ \ {k}]
             y == [Self(r) EXCEPT !.d = d]
             i == ls[r].db[k]
  <2>1. d \in LsType /\ d.db = ls[r].db
    BY <1>0 DEF LsType
  <2>2. [Self(r) EXCEPT !.d.flood = @ \ {k}] = y
    BY <1>0 DEF XType
  <2> HIDE DEF d
  <2>3. SameExt(ls[r], d)
    BY <2>1 DEF SameExt
  <2>4. y \in XType /\ Tame(r, Self(r), y)
    BY <1>0, <2>1, <2>3, TameDb DEF XType
  <2>5. Present(ls[r], k) /\ TimerDue /\ Tick(r, Flood(y, k, i, dr[r]))
    BY <1>0, <1>3, <2>2 DEF FloodTimer, Idle
  <2>6. i \in Inst /\ GoodInsts(r, {i})
    BY <1>0, <2>5, EntryGood, SeqType
  <2> HIDE DEF y, i
  <2>7. Tame(r, y, Flood(y, k, i, dr[r]))
    BY <1>0, <2>4, <2>6, FloodTame
  <2>8. Tame(r, Self(r), Flood(y, k, i, dr[r]))
    BY <2>4, <2>7, TameTrans
  <2> QED BY <2>5, <2>8, TameTick
<1>4. ASSUME NEW l \in Lsa, OldTimer(r, l) \/ Refresh(r, l) PROVE StepKeeps
  <2> DEFINE k == <<l, TRUE>>
             d == Overtake(ls[r], l)
             e == Renew(ls[r], l)
             y == [Self(r) EXCEPT !.d = d]
             z == [Self(r) EXCEPT !.d = e]
  <2>1. Present(ls[r], k) /\ k \in Key /\ k[1] = l /\ k[2]
    BY <1>0, <1>4, KeyType DEF OldTimer, Refresh, Idle
  <2>2. l[1] # "ext"
    BY <1>0, <2>1, EntryGood
  <2>3. d \in LsType /\ SameExt(ls[r], d) /\ e \in LsType /\ SameExt(ls[r], e)
    BY <1>0, <2>2, OvertakeType, OvertakeSameExt, RenewType, RenewSameExt
  <2>4. /\ TimerDue \/ Spend("change")
        /\ Tick(r, Flood(y, k, y.d.db[k], dr[r])) \/ Tick(r, Flood(z, k, z.d.db[k], dr[r]))
    BY <1>0, <1>4 DEF OldTimer, Refresh
  <2> HIDE DEF d, e
  <2>5. /\ Tame(r, Self(r), Flood(y, k, y.d.db[k], dr[r]))
        /\ Tame(r, Self(r), Flood(z, k, z.d.db[k], dr[r]))
    BY <2>2, <2>3, RenewTame
  <2> HIDE DEF y, z, k
  <2> QED BY <1>0, <2>4, <2>5, TameTick
<1>5. ASSUME NEW l \in Lsa, ForeignFlush(r, l) PROVE StepKeeps
  <2> DEFINE k == <<l, FALSE>>
  <2>1. k \in Key /\ k[1][1] # "ext" /\ TimerDue /\ Tick(r, FlushLsa(Self(r), k, dr[r]))
    BY <1>5, KeyType, ExtKey DEF ForeignFlush
  <2> HIDE DEF k
  <2>2. Tame(r, Self(r), FlushLsa(Self(r), k, dr[r]))
    BY <1>0, <2>1, FlushTame
  <2> QED BY <2>1, <2>2, TameTick
<1> QED BY <1>1, <1>2, <1>3, <1>4, <1>5 DEF LsaTimers

(* ---------- requests, acknowledgements, repetitions and losses ---------- *)
(* a neighbour and a database that stay, and packets that concern no exchange *)
LEMMA SendStays ==
  ASSUME ExchangeInv, NEW r \in Router, NEW p \in Pkt, p.t \in {"req", "upd", "ack"}, GoodPkt(r, p),
         p.t = "req" => nb[r].state = LOADING
  PROVE  Send(Self(r), p) \in XType /\ Known(r, Send(Self(r), p)) /\ Stays(r, Send(Self(r), p))
<1> DEFINE y == Send(Self(r), p)
<1>0. /\ Known(r, Self(r)) /\ Self(r) \in XType /\ Self(r).n = nb[r] /\ Self(r).d = ls[r] /\ Self(r).out = <<>>
  BY KnownSelf
<1>1. y \in XType /\ y.n = nb[r] /\ y.d = ls[r] /\ Pkts(y.out) = {p}
  BY <1>0, SendType, SendPkts, NothingSent
<1> HIDE DEF y
<1>2. Known(r, y)
  BY <1>0, <1>1 DEF Known
<1>3. Dds(y.out) = {} /\ (y.n.state = LOADING \/ NoReq(y.out))
  BY <1>1, NoReqPkts DEF Dds
<1>4. Stays(r, y)
  BY <1>1, <1>3 DEF Stays
<1> QED BY <1>1, <1>2, <1>4 DEF y

(* a packet is read, and concerns no exchange *)
LEMMA RxStays ==
  ASSUME ExchangeInv, NEW r \in Router, NEW y \in XType, Known(r, y), Stays(r, y), chan[r] # <<>>, Rx(r, y), UNCHANGED env
  PROVE  StepKeeps
BY KnownSelf, RxMoves, StaysStep

(* a timer branch that concerns no exchange *)
LEMMA TickStays ==
  ASSUME ExchangeInv, NEW r \in Router, NEW y \in XType, Known(r, y), Stays(r, y), Tick(r, y),
         UNCHANGED env \/ TimerDue \/ \E w \in Budget : Spend(w)
  PROVE  StepKeeps
BY KnownSelf, TickMoves, StaysStep

(* lsrequestRx answers with updates *)
LEMMA LsReqStep == ASSUME ExchangeInv, NEW r \in Router, LsReqRx(r) PROVE StepKeeps
<1> DEFINE x == Self(r)
           ids == Head(chan[r]).ids
<1>0. /\ chan[r] # <<>> /\ Head(chan[r]).t = "req" /\ UNCHANGED env
      /\ \/ Rx(r, x)
         \/ /\ \A l \in ids : Found(x.d, l).seq > 0
            /\ \E c \in Chunk(ids, UpdMax) : Rx(r, Send(x, LsUpd({Found(x.d, l) : l \in c})))
  BY DEF LsReqRx, Arrived
<1>1. /\ Known(r, x) /\ x \in XType /\ Stays(r, x) /\ TypeOK /\ x.d = ls[r] /\ ls[r] \in LsType /\ GoodDb(r, ls[r])
  BY KnownSelf, SelfStays DEF TypeOK, Known, Held
<1>2. CASE Rx(r, x)
  BY <1>0, <1>1, <1>2, RxStays
<1>3. ASSUME \A l \in ids : Found(x.d, l).seq > 0, NEW c \in Chunk(ids, UpdMax),
             Rx(r, Send(x, LsUpd({Found(x.d, l) : l \in c})))
      PROVE  StepKeeps
  <2> DEFINE hs == {Found(ls[r], l) : l \in c}
             p == LsUpd(hs)
  <2>1. c \subseteq ids /\ ids \in SUBSET Lsa
    BY <1>0, <1>1, ChunkSubset, HeadType
  <2>2. hs \in SUBSET Inst
    BY <1>1, <2>1, FoundType
  <2>3. ASSUME NEW l \in c PROVE GoodInsts(r, {Found(ls[r], l)})
    <3>1. l \in Lsa /\ Found(ls[r], l).seq > 0
      BY <1>1, <1>3, <2>1
    <3>2. \E k \in Key : Present(ls[r], k) /\ Found(ls[r], l) = ls[r].db[k]
      BY <3>1, KeyType DEF Found, Present
    <3> QED BY <1>1, <3>2, EntryGood
  <2>4. GoodInsts(r, hs)
    BY <2>3 DEF GoodInsts
  <2>5. p \in Pkt /\ p.t = "upd" /\ p.hs = hs
    BY <2>2, PktType DEF LsUpd
  <2>6. Rx(r, Send(x, p))
    BY <1>1, <1>3
  <2> HIDE DEF p, hs
  <2>7. Send(x, p) \in XType /\ Known(r, Send(x, p)) /\ Stays(r, Send(x, p))
    BY <2>4, <2>5, SendStays DEF GoodPkt
  <2> QED BY <1>0, <2>6, <2>7, RxStays
<1> QED BY <1>0, <1>2, <1>3

(* the retransmission list gets shorter *)
LEMMA RxmtTame ==
  ASSUME NEW r \in Router, NEW x \in XType, NEW q \in SUBSET x.n.rxmt
  PROVE  Tame(r, x, [x EXCEPT !.n.rxmt = q])
<1> DEFINE y == [x EXCEPT !.n.rxmt = q]
<1>0. q \in SUBSET Inst
  BY DEF XType, NbType
<1>1. y \in XType /\ y.d = x.d /\ y.out = x.out /\ y.n.rxmt = q /\ SameNb(x.n, y.n)
  BY <1>0 DEF XType, NbType, SameNb
<1>2. GoodInsts(r, x.n.rxmt) => GoodInsts(r, q)
  BY DEF GoodInsts
<1> HIDE DEF y
<1> QED BY <1>1, <1>2 DEF Tame, SameExt, y

(* lsackRx shortens the retransmission list *)
LEMMA LsAckStep == ASSUME ExchangeInv, NEW r \in Router, LsAckRx(r) PROVE StepKeeps
<1> DEFINE x == Self(r)
           q == {j \in x.n.rxmt : j.l \notin {h.l : h \in Head(chan[r]).hs}}
           y == [x EXCEPT !.n.rxmt = q]
<1>0. chan[r] # <<>> /\ UNCHANGED env /\ (Rx(r, x) \/ Rx(r, y))
  BY DEF LsAckRx, Arrived
<1>1. x \in XType /\ Known(r, x) /\ Stays(r, x) /\ q \in SUBSET x.n.rxmt
  BY KnownSelf, SelfStays
<1> HIDE DEF q
<1>2. Tame(r, x, y)
  BY <1>1, RxmtTame
<1> HIDE DEF y
<1>3. y \in XType /\ Known(r, y) /\ Stays(r, y)
  BY <1>2, TameStays
<1> QED BY <1>0, <1>1, <1>3, RxStays

(* networkTimeout repeats DD packets, requests and updates *)
LEMMA RxmtStep == ASSUME ExchangeInv, NEW r \in Router, Rxmt(r) PROVE StepKeeps
<1>0. /\ Known(r, Self(r)) /\ Self(r) \in XType /\ nb[r] \in NbType /\ TypeOK /\ NbInv(r, nb[r])
      /\ Self(r).n = nb[r] /\ Self(r).d = ls[r] /\ Self(r).out = <<>>
  BY KnownSelf
<1>1. CASE DdRxmt(r)
  <2> DEFINE p == nb[r].lastdd
             y == Send(Self(r), p)
  <2>1. Building(nb[r]) /\ Tick(r, y) /\ TimerDue /\ p # NoPkt
    BY <1>1 DEF DdRxmt, Building
  <2>2. p \in DdPkt /\ p \in Pkt
    BY <1>0, <2>1 DEF NbType, Pkt
  <2>3. p.t = "dd" /\ LastDdFits(nb[r])
    BY <1>0, <2>2 DEF DdPkt, Known, Held
  <2>4. GoodPkt(r, p)
    <3>1. p.hs \subseteq nb[r].ddsum
      <4>1. CASE nb[r].state = EXSTART
        <5>1. p = Dd(TRUE, TRUE, TRUE, nb[r].ddseq, {})
          BY <2>3, <4>1 DEF LastDdFits
        <5> QED BY <5>1 DEF Dd
      <4>2. CASE nb[r].state = EXCHANGE
        <5>1. nb[r].sent \subseteq nb[r].ddsum
          BY <1>0 DEF NbInv, ListsOf
        <5> QED BY <2>1, <2>3, <4>2, <5>1, LastDdFields
      <4> QED BY <2>1, <4>1, <4>2 DEF Building
    <3>2. GoodInsts(r, nb[r].ddsum)
      BY <1>0 DEF Known, Held
    <3> QED BY <3>1, <3>2 DEF GoodPkt, GoodInsts
  <2>5. y \in XType /\ y.n = nb[r] /\ y.d = ls[r] /\ Pkts(y.out) = {p}
    BY <1>0, <2>2, SendType, SendPkts, NothingSent
  <2> HIDE DEF y
  <2>6. Known(r, y)
    BY <1>0, <2>4, <2>5 DEF Known
  <2>7. Moves(r, y) /\ chan'[r] = chan[r]
    BY <1>0, <2>1, <2>5, <2>6, TickMoves
  <2>8. Repeats(r, y)
    BY <2>1, <2>3, <2>5, <2>7, NoReqPkts DEF Repeats, Dds
  <2> QED BY <2>7, <2>8, RepeatsStep
<1>2. CASE LsReqRxmt(r)
  <2> DEFINE p == nb[r].lastreq
  <2>1. nb[r].state = LOADING /\ Tick(r, Send(Self(r), p)) /\ TimerDue /\ p # NoPkt
    BY <1>2 DEF LsReqRxmt
  <2>2. p \in ReqPkt /\ p \in Pkt
    BY <1>0, <2>1 DEF NbType, Pkt
  <2>3. p.t = "req" /\ GoodPkt(r, p)
    BY <2>2 DEF ReqPkt, GoodPkt
  <2> HIDE DEF p
  <2>4. Send(Self(r), p) \in XType /\ Known(r, Send(Self(r), p)) /\ Stays(r, Send(Self(r), p))
    BY <2>1, <2>2, <2>3, SendStays
  <2> QED BY <2>1, <2>4, TickStays
<1>3. CASE LsUpdRxmt(r)
  <2> DEFINE p == LsUpd(nb[r].rxmt)
  <2>1. Tick(r, Send(Self(r), p)) /\ TimerDue
    BY <1>3 DEF LsUpdRxmt
  <2>2. p \in Pkt /\ p.t = "upd" /\ p.hs = nb[r].rxmt
    BY <1>0, PktType DEF NbType, LsUpd
  <2>3. GoodPkt(r, p)
    BY <1>0, <2>2 DEF GoodPkt, Known, Held
  <2> HIDE DEF p
  <2>4. Send(Self(r), p) \in XType /\ Known(r, Send(Self(r), p)) /\ Stays(r, Send(Self(r), p))
    BY <2>2, <2>3, SendStays
  <2> QED BY <2>1, <2>4, TickStays
<1> QED BY <1>1, <1>2, <1>3 DEF Rxmt

(* networkTimeout frees the last packets of a Full neighbour *)
LEMMA FreeLastStep == ASSUME ExchangeInv, NEW r \in Router, FreeLast(r) PROVE StepKeeps
<1> DEFINE x == Self(r)
           y == [x EXCEPT !.n.lastdd = NoPkt, !.n.lastreq = NoPkt]
<1>0. /\ Known(r, x) /\ x \in XType /\ x.n = nb[r] /\ x.d = ls[r] /\ x.out = <<>> /\ Stays(r, x)
  BY KnownSelf, SelfStays
<1>1. Tick(r, y) /\ TimerDue /\ nb[r].state = FULL
  BY DEF FreeLast
<1> HIDE DEF x
<1>2. /\ y \in XType /\ y.n.state = nb[r].state /\ y.n.ddseq = nb[r].ddseq /\ y.n.ddsum = nb[r].ddsum
      /\ y.n.sent = nb[r].sent /\ y.n.lsreq = nb[r].lsreq /\ y.n.rxmt = nb[r].rxmt
      /\ y.d = ls[r] /\ y.out = <<>>
  BY <1>0 DEF XType, NbType
<1> HIDE DEF y
<1>3. Known(r, y)
  BY <1>0, <1>1, <1>2, NothingSent DEF Known, Held, LastDdFits, EXSTART, EXCHANGE, FULL
<1>4. Covered(r, y.n, y.d) = Covered(r, nb[r], ls[r])
  BY <1>2 DEF Covered
<1>5. Stays(r, y)
  BY <1>1, <1>2, <1>4, NothingSent DEF Stays, Building, EXSTART, EXCHANGE, FULL
<1> QED BY <1>1, <1>2, <1>3, <1>5, TickStays

(* a packet is lost: the wire stays in order, and what was missing is still   *)
(* to come                                                                    *)
LEMMA LoseStep == ASSUME ExchangeInv, NEW r \in Router, Lose(r) PROVE StepKeeps
<1>0. /\ Known(r, Self(r)) /\ Self(r) \in XType /\ TypeOK /\ Stays(r, Self(r))
      /\ Self(r).n = nb[r] /\ Self(r).d = ls[r] /\ Self(r).out = <<>>
  BY KnownSelf, SelfStays
<1>1. /\ \E w \in Budget : Spend(w)
      /\ chan[r] # <<>> /\ chan' = [chan EXCEPT ![r] = Tail(@)] /\ nb' = nb /\ ls' = ls
  BY DEF Lose, Budget
<1>2. Peer(r) \in Router /\ Peer(r) # r
  BY PeerType
<1>3. chan'[r] = Tail(chan[r]) /\ chan'[Peer(r)] = chan[Peer(r)] /\ chan[Peer(r)] \in Seq(Pkt)
  BY <1>0, <1>1, <1>2 DEF TypeOK
<1>4. chan'[Peer(r)] = chan[Peer(r)] \o <<>>
  BY <1>3
<1>5. nb' = [nb EXCEPT ![r] = nb[r]] /\ ls' = [ls EXCEPT ![r] = ls[r]]
  BY <1>0, <1>1 DEF TypeOK
<1>6. Moves(r, Self(r))
  BY <1>0, <1>1, <1>3, <1>4, <1>5, TimeLater DEF Moves, Shrunk
<1> QED BY <1>0, <1>6, StaysStep

(* ---------------- new LSAs, restarts and dead intervals ----------------- *)
(* a route is redistributed: a new instance of an external LSA, more recent   *)
(* than at boot                                                               *)
LEMMA LearnedStep == ASSUME ExchangeInv, NEW r \in Router, NEW e \in Ext, Learn(r, e) PROVE StepKeeps
<1> DEFINE k == <<ExtLsa(e), FALSE>>
           v == ls[r].db[k].seq + 1
           i == [NoInst(ExtLsa(e)) EXCEPT !.seq = v]
           d == [ls[r] EXCEPT !.db[k] = i, !.flood = @ \union {k}, !.here = @ \ {k}]
           y == [n |-> nb[r], d |-> d, out |-> <<>>]
<1>0. /\ TypeOK /\ ls[r] \in LsType /\ Known(r, Self(r)) /\ nb[r] \in NbType
      /\ Self(r).n = nb[r] /\ Self(r).d = ls[r] /\ Self(r).out = <<>>
  BY KnownSelf DEF TypeOK
<1>1. ExtLsa(e) \in Lsa /\ k \in Key /\ ls[r].db[k] \in Inst
  BY <1>0, ExtKey DEF LsType
<1>2. /\ \E w \in Budget : Spend(w)
      /\ UNCHANGED <<nb, adj, dr, chan, boot>> /\ ls' = [ls EXCEPT ![r] = d]
  BY <1>0 DEF Learn, TypeOK, ExtLsa, Budget
<1>3. v \in Nat /\ ls[r].db[k].seq \in Nat /\ v >= ls[r].db[k].seq
  BY <1>1 DEF Inst
<1> HIDE DEF v
<1>4. i \in Inst /\ i.l = ExtLsa(e) /\ ~i.max /\ i.seq = v
  BY <1>1, <1>3 DEF NoInst, Inst
<1> HIDE DEF i, k
<1>5. d \in LsType /\ d.db[k] = i /\ \A j \in Key : j # k => d.db[j] = ls[r].db[j]
  BY <1>0, <1>1, <1>4 DEF LsType
<1> HIDE DEF d
<1>6. \A a \in Ext : <<ExtLsa(a), FALSE>> # k => d.db[<<ExtLsa(a), FALSE>>] = ls[r].db[<<ExtLsa(a), FALSE>>]
  BY <1>5, ExtKey
<1>7. \A a \in Ext : d.db[<<ExtLsa(a), TRUE>>] = ls[r].db[<<ExtLsa(a), TRUE>>]
  BY <1>5, ExtKey DEF k
<1>8. \A a \in Ext : <<ExtLsa(a), FALSE>> = k => a = e
  BY DEF k, ExtLsa
<1>9. GoodDb(r, ls[r]) /\ \A a \in Ext, s \in Router : ExtSeq[s][a] \in Nat
  BY <1>0, ExtSeqNat DEF Known, Held
<1>10. ASSUME NEW a \in Ext
       PROVE  ~d.db[<<ExtLsa(a), FALSE>>].max /\ d.db[<<ExtLsa(a), FALSE>>].seq >= ls[r].db[<<ExtLsa(a), FALSE>>].seq
  <2>1. CASE <<ExtLsa(a), FALSE>> = k
    BY <1>3, <1>4, <1>5, <2>1
  <2>2. CASE <<ExtLsa(a), FALSE>> # k
    <3>1. d.db[<<ExtLsa(a), FALSE>>] = ls[r].db[<<ExtLsa(a), FALSE>>] /\ ls[r].db[<<ExtLsa(a), FALSE>>] \in Inst
      BY <1>0, <1>6, <2>2, ExtKey DEF LsType
    <3>2. ls[r].db[<<ExtLsa(a), FALSE>>].seq \in Nat /\ ~ls[r].db[<<ExtLsa(a), FALSE>>].max
      BY <1>9, <3>1 DEF Inst, GoodDb
    <3> QED BY <3>1, <3>2
  <2> QED BY <2>1, <2>2
<1>11. ASSUME NEW a \in Ext
       PROVE  ls[r].db[<<ExtLsa(a), FALSE>>].seq \in Nat /\ d.db[<<ExtLsa(a), FALSE>>].seq \in Nat
  BY <1>0, <1>5, ExtKey DEF LsType, Inst
<1>12. GoodDb(r, d)
  <2>1. \A j \in Key : d.db[j].l = j[1]
    <3>1. d.db[k].l = k[1]
      BY <1>4, <1>5 DEF k
    <3> QED BY <1>5, <1>9, <3>1 DEF GoodDb
  <2>2. ASSUME NEW a \in Ext PROVE d.db[<<ExtLsa(a), FALSE>>].seq >= ExtSeq[r][a]
    <3> DEFINE u == d.db[<<ExtLsa(a), FALSE>>].seq
               o == ls[r].db[<<ExtLsa(a), FALSE>>].seq
    <3>1. u \in Nat /\ o \in Nat /\ u >= o /\ ExtSeq[r][a] \in Nat
      BY <1>9, <1>10, <1>11
    <3>2. o >= ExtSeq[r][a]
      BY <1>9 DEF GoodDb
    <3> HIDE DEF u, o
    <3>3. u >= ExtSeq[r][a]
      BY <3>1, <3>2
    <3> QED BY <3>3 DEF u
  <2>3. \A a \in Ext : d.db[<<ExtLsa(a), TRUE>>].seq = 0
    BY <1>7, <1>9 DEF GoodDb
  <2> QED BY <1>10, <2>1, <2>2, <2>3 DEF GoodDb
<1>13. y \in XType /\ y.n = nb[r] /\ y.d = d /\ y.out = <<>>
  BY <1>0, <1>5 DEF XType
<1> HIDE DEF y
<1>14. Known(r, y)
  BY <1>0, <1>12, <1>13 DEF Known, Held
<1>15. Covered(r, nb[r], ls[r]) \subseteq Covered(r, y.n, y.d)
  <2>1. ASSUME NEW a \in Ext, ls[r].db[<<ExtLsa(a), FALSE>>].seq >= ExtSeq[Peer(r)][a]
        PROVE  d.db[<<ExtLsa(a), FALSE>>].seq >= ExtSeq[Peer(r)][a]
    <3> DEFINE u == d.db[<<ExtLsa(a), FALSE>>].seq
               o == ls[r].db[<<ExtLsa(a), FALSE>>].seq
               b == ExtSeq[Peer(r)][a]
    <3>1. u \in Nat /\ o \in Nat /\ u >= o /\ b \in Nat /\ o >= b
      BY <1>9, <1>10, <1>11, <2>1, PeerType
    <3> HIDE DEF u, o, b
    <3>2. u >= b
      BY <3>1
    <3> QED BY <3>2 DEF u, b
  <2> QED BY <1>13, <2>1 DEF Covered
<1>16. Stays(r, y)
  BY <1>13, <1>15, NothingSent DEF Stays
<1>17. Moves(r, y)
  <2>1. chan[Peer(r)] \in Seq(Pkt)
    BY <1>0, PeerType DEF TypeOK
  <2>2. chan'[r] = chan[r] /\ chan'[Peer(r)] = chan[Peer(r)] \o <<>>
    BY <1>2, <2>1
  <2>3. nb' = [nb EXCEPT ![r] = nb[r]]
    BY <1>0, <1>2 DEF TypeOK
  <2> QED BY <1>0, <1>2, <1>13, <1>14, <2>2, <2>3, TimeLater DEF Moves, Shrunk
<1> QED BY <1>16, <1>17, StaysStep

(* the DD numbers of the master stay behind the clock of its next life *)
ClockAhead == R2 \in Faulty => nb[R2].ddseq <= Time(R2) + Era

(* a restart and a dead interval move the clock *)
LEMMA TimeJumps ==
  ASSUME TypeOK, NEW w \in {"boot", "dead"}, Spend(w)
  PROVE  Time(R2)' = Time(R2) + Era
<1> DEFINE a == env["boot"] + env["dead"]
           b == env'["boot"] + env'["dead"]
<1>1. Time(R2) = Epoch[R2] + a * Era /\ Time(R2)' = Epoch[R2] + b * Era
  BY DEF Time
<1>2. a \in Nat /\ Epoch[R2] \in Nat /\ Era \in Nat
  BY SizeAssumption DEF TypeOK, Budget, Router
<1>3. b = a + 1
  BY DEF Spend, TypeOK, Budget
<1> HIDE DEF a, b
<1>4. (a + 1) * Era = a * Era + Era /\ a * Era \in Nat
  BY <1>2
<1> QED BY <1>1, <1>2, <1>3, <1>4

(* a restart and a dead interval are counted *)
LEMMA FailureCounts == ASSUME TypeOK, NEW w \in {"boot", "dead"}, Spend(w) PROVE ~Unfailed'
BY DEF Spend, TypeOK, Budget, Unfailed

(* the master forgets its DD numbers, and the clock it starts from again is   *)
(* past them                                                                  *)
LEMMA FreshDrops ==
  ASSUME ExchangeInv, ClockAhead, NEW r \in Faulty, NEW y, NEW w \in {"boot", "dead"}, Spend(w),
         y.n.state = DOWN, y.n.ddseq = 0, Dds(y.out) = {}, NoReq(y.out)
  PROVE  Drops(r, y)
<1>1. r = R2 => nb[r].ddseq <= Time(r)'
  <2>1. Time(R2)' = Time(R2) + Era
    BY TimeJumps DEF ExchangeInv, IInv
  <2> QED BY <2>1 DEF ClockAhead
<1> QED BY <1>1 DEF Drops, DOWN, EXSTART

(* the database that a router boots with *)
LEMMA BootGood == ASSUME NEW r \in Router PROVE GoodDb(r, BootLs(r))
<1> DEFINE db == BootLs(r).db
<1>1. \A k \in Key : db[k] = IF k[1][1] = "ext" /\ ~k[2]
                             THEN [NoInst(k[1]) EXCEPT !.seq = ExtSeq[r][k[1][2]]]
                             ELSE NoInst(k[1])
  BY DEF BootLs
<1> HIDE DEF db
<1>2. ASSUME NEW k \in Key PROVE db[k].l = k[1]
  <2>1. \A s : NoInst(k[1]).l = k[1] /\ [NoInst(k[1]) EXCEPT !.seq = s].l = k[1]
    BY DEF NoInst
  <2> QED BY <1>1, <2>1
<1>3. ASSUME NEW e \in Ext PROVE db[<<ExtLsa(e), TRUE>>].seq = 0
  <2> DEFINE k == <<ExtLsa(e), TRUE>>
  <2>1. k \in Key /\ k[2] = TRUE
    BY ExtKey
  <2> HIDE DEF k
  <2>2. db[k] = NoInst(k[1])
    BY <1>1, <2>1
  <2>3. db[k].seq = 0
    BY <2>2 DEF NoInst
  <2> QED BY <2>3 DEF k
<1>4. ASSUME NEW e \in Ext PROVE ~db[<<ExtLsa(e), FALSE>>].max /\ db[<<ExtLsa(e), FALSE>>].seq >= ExtSeq[r][e]
  <2> DEFINE k == <<ExtLsa(e), FALSE>>
  <2>1. k \in Key /\ k[2] = FALSE /\ k[1][1] = "ext" /\ k[1][2] = e
    BY ExtKey DEF ExtLsa
  <2> HIDE DEF k
  <2>2. db[k] = [NoInst(k[1]) EXCEPT !.seq = ExtSeq[r][k[1][2]]]
    BY <1>1, <2>1
  <2>3. db[k].seq = ExtSeq[r][e] /\ ~db[k].max /\ ExtSeq[r][e] \in Nat
    BY <2>1, <2>2, ExtSeqNat DEF NoInst
  <2>4. ~db[k].max /\ db[k].seq >= ExtSeq[r][e]
    BY <2>3
  <2> QED BY <2>4 DEF k
<1> QED BY <1>2, <1>3, <1>4 DEF GoodDb, db

(* a router without a neighbour has nothing to describe or repeat *)
LEMMA NoNbHeld ==
  ASSUME NEW r \in Router, NEW d, GoodDb(r, d) PROVE Held(r, NoNb, d)
BY DEF Held, NoNb, GoodInsts, LastDdFits, DOWN, EXSTART, EXCHANGE

(* the daemon is started again *)
LEMMA RestartStep == ASSUME ExchangeInv, ClockAhead, NEW r \in Router, Restart(r) PROVE StepKeeps
<1> DEFINE y == [n |-> NoNb, d |-> BootLs(r), out |-> <<>>]
<1>0. TypeOK
  BY DEF ExchangeInv, IInv
<1>1. /\ r \in Faulty /\ Spend("boot") /\ nb' = [nb EXCEPT ![r] = NoNb] /\ ls' = [ls EXCEPT ![r] = BootLs(r)]
      /\ chan' = [chan EXCEPT ![r] = <<>>]
  BY DEF Restart
<1>2. y \in XType /\ y.n = NoNb /\ y.d = BootLs(r) /\ y.out = <<>>
  BY BootType, NoNbInv DEF XType
<1> HIDE DEF y
<1>3. Known(r, y)
  BY <1>2, BootGood, NoNbHeld, NothingSent DEF Known
<1>4. Peer(r) \in Router /\ Peer(r) # r
  BY PeerType
<1>5. chan'[r] = <<>> /\ chan'[Peer(r)] = chan[Peer(r)] /\ chan[Peer(r)] \in Seq(Pkt)
  BY <1>0, <1>1, <1>4 DEF TypeOK
<1>6. chan'[Peer(r)] = chan[Peer(r)] \o <<>>
  BY <1>5
<1>7. Moves(r, y)
  BY <1>0, <1>1, <1>2, <1>3, <1>5, <1>6, TimeLater DEF Moves, Shrunk, Budget
<1>8. NoNb.state = DOWN /\ NoNb.ddseq = 0
  BY DEF NoNb
<1>9. Drops(r, y)
  BY <1>1, <1>2, <1>8, NothingSent, FreshDrops
<1> QED BY <1>0, <1>1, <1>7, <1>9, FailureCounts, DropsStep

(* nfsmInactivityTimer removes the neighbour *)
LEMMA InactivityStep ==
  ASSUME ExchangeInv, ClockAhead, NEW r \in Router, NEW changed \in BOOLEAN, InactivityTimer(r, changed)
  PROVE  StepKeeps
<1> DEFINE w == ClearLsa(r, Self(r))
           x == [w EXCEPT !.n = NoNb]
           d == Originate(x.d, Rtr(r), boot[r], changed)
           y == [x EXCEPT !.d = d]
           yes == TRUE
           z == IF adj[r] THEN TimerElect(r, y, yes, changed) ELSE y
<1>0. /\ TypeOK /\ boot[r] \in Nat /\ Rtr(r) \in Lsa /\ Rtr(r)[1] # "ext"
      /\ Known(r, Self(r)) /\ Self(r) \in XType /\ Self(r).d = ls[r] /\ Self(r).out = <<>>
  BY KeyType, ExtKey, KnownSelf DEF TypeOK
<1>1. r \in Faulty /\ Spend("dead") /\ Tick(r, z)
  BY DEF InactivityTimer
<1>2. w \in XType /\ SameExt(ls[r], w.d) /\ w.out = <<>>
  BY <1>0, ClearLsaFields
<1> HIDE DEF w
<1>3. x \in XType /\ x.n = NoNb /\ x.d = w.d /\ x.out = <<>>
  BY <1>2, NoNbInv DEF XType
<1>4. GoodDb(r, x.d)
  <2>1. GoodDb(r, ls[r])
    BY <1>0 DEF Known, Held
  <2> QED BY <1>2, <1>3, <2>1, SameExtGood
<1> HIDE DEF x
<1>5. Known(r, x)
  BY <1>3, <1>4, NoNbHeld, NothingSent DEF Known
<1>6. d \in LsType /\ SameExt(x.d, d)
  BY <1>0, <1>3, OriginateType, OriginateSameExt DEF XType
<1> HIDE DEF d
<1>7. y \in XType /\ Tame(r, x, y) /\ y.n = NoNb
  BY <1>3, <1>6, TameDb DEF XType
<1> HIDE DEF y
<1>8. NoNb.state = DOWN /\ NoNb.ddseq = 0 /\ NoNb.state # TWOWAY
  BY DEF NoNb, DOWN, TWOWAY
<1>9. Tame(r, y, TimerElect(r, y, yes, changed))
  BY <1>0, <1>7, <1>8, TimerElectTame
<1>10. Tame(r, x, z)
  BY <1>7, <1>9, TameTrans
<1> HIDE DEF z
<1>11. Drops(r, x)
  BY <1>1, <1>3, <1>8, NothingSent, FreshDrops
<1>12. z \in XType /\ Known(r, z) /\ Drops(r, z)
  BY <1>5, <1>10, <1>11, TameAfter
<1>13. Moves(r, z)
  BY <1>0, <1>1, <1>12, TickMoves DEF Budget
<1> QED BY <1>0, <1>1, <1>12, <1>13, FailureCounts, DropsStep

(* ------------------------------- updates -------------------------------- *)
(* an external LSA is found where it was learned *)
LEMMA FoundExt ==
  ASSUME NEW r \in Router, NEW d, GoodDb(r, d), NEW e \in Ext
  PROVE  Found(d, ExtLsa(e)) = d.db[<<ExtLsa(e), FALSE>>]
<1>1. d.db[<<ExtLsa(e), TRUE>>].seq = 0
  BY DEF GoodDb
<1>2. ~Present(d, <<ExtLsa(e), TRUE>>)
  BY <1>1 DEF Present
<1> QED BY <1>2 DEF Found

(* lsupdateRx leaves i in entry k: the entry as it was, an instance of the    *)
(* update, or the entry aged by a MaxAge instance                             *)
Stored(d, hs, k, i) ==
  \/ i = d.db[k] /\ ~(~k[2] /\ \E h \in hs : Installs(d, h) /\ h.l = k[1])
  \/ ~k[2] /\ i \in hs /\ Installs(d, i) /\ i.l = k[1]
  \/ i.l = d.db[k].l /\ i.seq = d.db[k].seq /\ (\E h \in hs : h.max /\ h.l = k[1])
     /\ ~(~k[2] /\ \E h \in hs : Installs(d, h) /\ h.l = k[1])

(* what lsupdateRx leaves in each entry of the database *)
LEMMA StoreEntry ==
  ASSUME NEW d \in LsType, NEW hs \in SUBSET Inst, NEW k \in Key
  PROVE  Stored(d, hs, k, Store(d, hs).db[k])
<1> DEFINE new == {h \in hs : Installs(d, h)}
           newKeys == {<<h.l, FALSE>> : h \in new}
           aged == {<<h.l, Present(d, <<h.l, TRUE>>)>> : h \in {g \in hs : Ages(d, g)}}
           db == [j \in Key |->
                    IF j \in newKeys THEN CHOOSE h \in new : h.l = j[1]
                    ELSE IF j \in aged THEN [d.db[j] EXCEPT !.max = TRUE] ELSE d.db[j]]
           i == Store(d, hs).db[k]
<1>1. Store(d, hs).db = db
  BY DEF Store, LsType
<1>2. i = IF k \in newKeys THEN CHOOSE h \in new : h.l = k[1]
          ELSE IF k \in aged THEN [d.db[k] EXCEPT !.max = TRUE] ELSE d.db[k]
  <2> HIDE DEF new, newKeys, aged
  <2> QED BY <1>1
<1>3. k \in newKeys => ~k[2] /\ \E h \in new : h.l = k[1]
  <2>1. ASSUME k \in newKeys PROVE ~k[2] /\ \E h \in new : h.l = k[1]
    <3>1. PICK h \in new : k = <<h.l, FALSE>>
      BY <2>1
    <3>2. k[1] = h.l /\ k[2] = FALSE
      BY <3>1
    <3> QED BY <3>2
  <2> QED BY <2>1
<1>4. k \notin newKeys => ~(~k[2] /\ \E h \in new : h.l = k[1])
  <2>1. ASSUME ~k[2], NEW h \in new, h.l = k[1] PROVE k \in newKeys
    <3>1. k = <<k[1], k[2]>> /\ k[2] \in BOOLEAN
      BY KeyType
    <3>2. k = <<h.l, FALSE>>
      BY <2>1, <3>1
    <3> QED BY <3>2
  <2> QED BY <2>1
<1>5. k \in aged => \E h \in hs : h.max /\ h.l = k[1]
  <2>1. ASSUME k \in aged PROVE \E h \in hs : h.max /\ h.l = k[1]
    <3>1. PICK h \in hs : Ages(d, h) /\ k = <<h.l, Present(d, <<h.l, TRUE>>)>>
      BY <2>1
    <3>2. k[1] = h.l /\ h.max
      BY <3>1 DEF Ages
    <3> QED BY <3>2
  <2> QED BY <2>1
<1>6. d.db[k] \in Inst
  BY DEF LsType
<1>7. [d.db[k] EXCEPT !.max = TRUE].l = d.db[k].l /\ [d.db[k] EXCEPT !.max = TRUE].seq = d.db[k].seq
  BY <1>6 DEF Inst
<1> HIDE DEF newKeys, aged, db
<1>8. CASE k \in newKeys
  <2>1. i \in new /\ i.l = k[1]
    BY <1>2, <1>3, <1>8
  <2> QED BY <1>3, <1>8, <2>1 DEF Stored
<1>9. CASE k \notin newKeys /\ k \in aged
  <2>1. i = [d.db[k] EXCEPT !.max = TRUE]
    BY <1>2, <1>9
  <2>2. i.l = d.db[k].l /\ i.seq = d.db[k].seq
    BY <1>7, <2>1
  <2> QED BY <1>4, <1>5, <1>9, <2>2 DEF Stored
<1>10. CASE k \notin newKeys /\ k \notin aged
  BY <1>2, <1>4, <1>10 DEF Stored
<1> QED BY <1>8, <1>9, <1>10

(* an update of the peer keeps the database good, and what it carries is then held *)
LEMMA StoreGood ==
  ASSUME NEW r \in Router, NEW d \in LsType, GoodDb(r, d), NEW hs \in SUBSET Inst, GoodInsts(Peer(r), hs)
  PROVE  /\ GoodDb(r, Store(d, hs))
         /\ \A e \in Ext : Store(d, hs).db[<<ExtLsa(e), FALSE>>].seq >= d.db[<<ExtLsa(e), FALSE>>].seq
         /\ \A e \in Ext : ExtLsa(e) \in LsasOf(hs) => Store(d, hs).db[<<ExtLsa(e), FALSE>>].seq >= ExtSeq[Peer(r)][e]
<1> DEFINE s == Store(d, hs)
<1>0. s \in LsType /\ Peer(r) \in Router
  BY StoreType, PeerType
<1>1. \A k \in Key : s.db[k].l = k[1]
  BY StoreEntry DEF GoodDb, Stored
<1>2. ASSUME NEW e \in Ext
      PROVE  s.db[<<ExtLsa(e), TRUE>>].seq = 0 /\ s.db[<<ExtLsa(e), FALSE>>].seq >= d.db[<<ExtLsa(e), FALSE>>].seq
  BY StoreSeq, ExtKey DEF GoodDb
<1>3. ASSUME NEW e \in Ext, NEW h \in hs, h.l = ExtLsa(e)
      PROVE  ~h.max /\ h.seq \in Nat /\ h.seq >= ExtSeq[Peer(r)][e] /\ ExtSeq[Peer(r)][e] \in Nat
  BY <1>0, <1>3, ExtSeqNat DEF GoodInsts, Inst
<1>4. ASSUME NEW e \in Ext
      PROVE  /\ ~s.db[<<ExtLsa(e), FALSE>>].max
             /\ ExtLsa(e) \in LsasOf(hs) => s.db[<<ExtLsa(e), FALSE>>].seq >= ExtSeq[Peer(r)][e]
  <2> DEFINE k == <<ExtLsa(e), FALSE>>
             i == s.db[k]
             o == d.db[k]
  <2>1. k \in Key /\ k[1] = ExtLsa(e) /\ k[2] = FALSE
    BY ExtKey
  <2>2. o \in Inst /\ i \in Inst /\ ~o.max
    BY <1>0, <2>1 DEF LsType, GoodDb
  <2>3. o.seq \in Nat /\ i.seq \in Nat /\ i.seq >= o.seq /\ ExtSeq[Peer(r)][e] \in Nat
    BY <1>0, <1>2, <2>2, ExtSeqNat DEF Inst
  <2>4. ~\E h \in hs : h.max /\ h.l = k[1]
    BY <1>3, <2>1
  <2>5. \/ i = o /\ ~\E h \in hs : Installs(d, h) /\ h.l = k[1]
        \/ i \in hs /\ i.l = k[1]
    <3>1. Stored(d, hs, k, i)
      BY <2>1, StoreEntry
    <3> HIDE DEF i, k
    <3> QED BY <2>1, <2>4, <3>1 DEF Stored
  <2>6. Found(d, ExtLsa(e)) = o
    BY FoundExt
  <2>7. ~Present(d, <<ExtLsa(e), TRUE>>)
    <3>1. d.db[<<ExtLsa(e), TRUE>>].seq = 0
      BY DEF GoodDb
    <3> QED BY <3>1 DEF Present
  <2> HIDE DEF i, o, k
  <2>8. CASE i \in hs /\ i.l = k[1]
    <3>1. ~i.max /\ i.seq >= ExtSeq[Peer(r)][e]
      BY <1>3, <2>1, <2>8
    <3> QED BY <3>1 DEF i, k
  <2>9. CASE i = o /\ ~\E h \in hs : Installs(d, h) /\ h.l = k[1]
    <3>1. ~i.max
      BY <2>2, <2>9
    <3>2. ASSUME ExtLsa(e) \in LsasOf(hs) PROVE i.seq >= ExtSeq[Peer(r)][e]
      <4>1. PICK h \in hs : h.l = ExtLsa(e)
        BY <3>2 DEF LsasOf
      <4>2. ~h.max /\ h.seq \in Nat /\ h.seq >= ExtSeq[Peer(r)][e]
        BY <1>3, <4>1
      <4>3. ~Installs(d, h)
        BY <2>1, <2>9, <4>1
      <4>4. ~(o.seq < h.seq) \/ o.seq = 0
        BY <2>6, <2>7, <4>1, <4>3 DEF Installs
      <4>5. o.seq # 0
        BY <2>6, <4>1, <4>2, <4>3 DEF Installs
      <4> QED BY <2>3, <2>9, <4>2, <4>4, <4>5
    <3> QED BY <3>1, <3>2 DEF i, k
  <2> QED BY <2>5, <2>8, <2>9
<1>5. ASSUME NEW e \in Ext PROVE s.db[<<ExtLsa(e), FALSE>>].seq >= ExtSeq[r][e]
  <2> DEFINE a == s.db[<<ExtLsa(e), FALSE>>].seq
             b == d.db[<<ExtLsa(e), FALSE>>].seq
             c == ExtSeq[r][e]
  <2>1. a \in Nat /\ b \in Nat /\ c \in Nat
    BY <1>0, ExtKey, ExtSeqNat DEF LsType, Inst
  <2>2. a >= b
    BY <1>2
  <2>3. b >= c
    BY DEF GoodDb
  <2> HIDE DEF a, b, c
  <2>4. a >= c
    BY <2>1, <2>2, <2>3
  <2> QED BY <2>4 DEF a, c
<1> HIDE DEF s
<1>6. GoodDb(r, s)
  BY <1>1, <1>2, <1>4, <1>5 DEF GoodDb
<1> QED BY <1>2, <1>4, <1>6 DEF s

(* a more recent database, and a request list that lost only what is now held *)
LEMMA CoveredGrows ==
  ASSUME NEW r \in Router, NEW n, NEW d \in LsType, NEW m, NEW g \in LsType,
         \A e \in Ext : g.db[<<ExtLsa(e), FALSE>>].seq >= d.db[<<ExtLsa(e), FALSE>>].seq,
         \A e \in Ext : ExtLsa(e) \in n.lsreq =>
           ExtLsa(e) \in m.lsreq \/ g.db[<<ExtLsa(e), FALSE>>].seq >= ExtSeq[Peer(r)][e]
  PROVE  Covered(r, n, d) \subseteq Covered(r, m, g)
<1>1. ASSUME NEW e \in Ext, d.db[<<ExtLsa(e), FALSE>>].seq >= ExtSeq[Peer(r)][e]
      PROVE  g.db[<<ExtLsa(e), FALSE>>].seq >= ExtSeq[Peer(r)][e]
  <2> DEFINE a == g.db[<<ExtLsa(e), FALSE>>].seq
             b == d.db[<<ExtLsa(e), FALSE>>].seq
             c == ExtSeq[Peer(r)][e]
  <2>1. a \in Nat /\ b \in Nat /\ c \in Nat
    BY ExtKey, ExtSeqNat, PeerType DEF LsType, Inst
  <2>2. a >= b /\ b >= c
    BY <1>1
  <2> HIDE DEF a, b, c
  <2>3. a >= c
    BY <2>1, <2>2
  <2> QED BY <2>3 DEF a, c
<1> QED BY <1>1 DEF Covered

(* the transition to Full, field by field *)
LEMMA GoFullFields ==
  ASSUME TypeOK, NEW r \in Router, NEW x \in XType
  PROVE  LET z == GoFull(r, x)
         IN  /\ z \in XType /\ SameExt(x.d, z.d) /\ z.out = x.out /\ z.n.state = FULL
             /\ z.n.ddseq = x.n.ddseq /\ z.n.ddsum = x.n.ddsum /\ z.n.sent = x.n.sent
             /\ z.n.lsreq = x.n.lsreq /\ z.n.rxmt = x.n.rxmt /\ z.n.lastdd = x.n.lastdd
<1> DEFINE o == Originate(x.d, Net(r), boot[r], FALSE)
           d == IF dr[r] THEN o ELSE x.d
           z == GoFull(r, x)
<1>1. o \in LsType /\ SameExt(x.d, o)
  BY OriginateType, OriginateSameExt, KeyType, ExtKey DEF TypeOK, XType
<1> HIDE DEF o
<1>2. d \in LsType /\ SameExt(x.d, d)
  BY <1>1 DEF XType, SameExt
<1>3. z = [x EXCEPT !.n.state = FULL, !.d = d]
  BY DEF GoFull, o
<1> HIDE DEF d, z
<1>4. /\ z \in XType /\ z.d = d /\ z.out = x.out /\ z.n.state = FULL
      /\ z.n.ddseq = x.n.ddseq /\ z.n.ddsum = x.n.ddsum /\ z.n.sent = x.n.sent
      /\ z.n.lsreq = x.n.lsreq /\ z.n.rxmt = x.n.rxmt /\ z.n.lastdd = x.n.lastdd
  BY <1>2, <1>3 DEF XType, NbType
<1> QED BY <1>2, <1>4 DEF z

(* lsrequestBuildPkt, field by field *)
LEMMA BuildReqFields ==
  ASSUME NEW x \in XType, NEW c \in SUBSET Lsa
  PROVE  LET z == BuildReq(x, c)
         IN  /\ z \in XType /\ z.d = x.d /\ Pkts(z.out) = Pkts(x.out) \union {LsReq(c)}
             /\ z.n.state = x.n.state
             /\ z.n.ddseq = x.n.ddseq /\ z.n.ddsum = x.n.ddsum /\ z.n.sent = x.n.sent
             /\ z.n.lsreq = x.n.lsreq /\ z.n.rxmt = x.n.rxmt /\ z.n.lastdd = x.n.lastdd
<1> DEFINE y == [x EXCEPT !.n.lastreq = LsReq(c)]
           z == BuildReq(x, c)
<1>1. LsReq(c) \in ReqPkt /\ LsReq(c) \in Pkt
  BY PktType
<1>2. z = Send(y, LsReq(c))
  BY DEF BuildReq
<1>3. /\ y \in XType /\ y.d = x.d /\ y.out = x.out /\ y.n.state = x.n.state
      /\ y.n.ddseq = x.n.ddseq /\ y.n.ddsum = x.n.ddsum /\ y.n.sent = x.n.sent
      /\ y.n.lsreq = x.n.lsreq /\ y.n.rxmt = x.n.rxmt /\ y.n.lastdd = x.n.lastdd
  BY <1>1 DEF XType, NbType
<1> HIDE DEF y, z
<1>4. z \in XType /\ z.n = y.n /\ z.d = y.d /\ Pkts(z.out) = Pkts(y.out) \union {LsReq(c)}
  BY <1>1, <1>2, <1>3, SendType, SendPkts
<1> QED BY <1>3, <1>4 DEF z

(* lsupdateRx: what is taken off the request list is then in the database *)
LEMMA UpdStep == ASSUME ExchangeInv, NEW r \in Router, LsUpdRx(r) PROVE StepKeeps
<1> DEFINE x == Self(r)
           hs == Head(chan[r]).hs
           ids == {h.l : h \in hs}
           d == Store(x.d, hs)
           q == {j \in x.n.rxmt : j.l \notin ids}
           w == [x EXCEPT !.d = d, !.n.lsreq = @ \ ids, !.n.rxmt = q]
           y == Send(w, LsAck(hs))
<1>0. TypeOK /\ chan[r] # <<>> /\ Head(chan[r]).t = "upd" /\ UNCHANGED env
  BY Zenon DEF ExchangeInv, IInv, LsUpdRx, Arrived
<1>1. hs \in SUBSET Inst
  BY <1>0, HeadType
<1>2. GoodInsts(Peer(r), hs)
  <2>1. Head(chan[r]) \in Pkts(chan[r])
    BY <1>0, TailWire DEF TypeOK
  <2> QED BY <1>0, <2>1, KnownSelf DEF GoodPkt
<1>3. \/ x.n.state < EXCHANGE /\ Rx(r, x)
      \/ x.n.state \in {EXCHANGE, FULL} /\ Rx(r, y)
      \/ x.n.state = LOADING /\ y.n.lsreq = {} /\ Rx(r, GoFull(r, y))
      \/ /\ x.n.state = LOADING /\ y.n.lsreq # {}
         /\ \E c \in Chunk(y.n.lsreq, LsReqMax) : Rx(r, BuildReq(y, c))
  BY Zenon DEF LsUpdRx
<1>4. /\ Known(r, x) /\ x \in XType /\ x.n = nb[r] /\ x.d = ls[r] /\ x.out = <<>> /\ Stays(r, x)
      /\ ls[r] \in LsType /\ nb[r] \in NbType /\ GoodDb(r, ls[r])
  BY KnownSelf, SelfStays DEF TypeOK, Known, Held
<1>5. ids = LsasOf(hs)
  BY DEF LsasOf
<1> HIDE DEF x, hs, ids
<1>6. /\ d \in LsType /\ LsAck(hs) \in Pkt /\ LsAck(hs).t = "ack" /\ GoodDb(r, d)
      /\ \A e \in Ext : d.db[<<ExtLsa(e), FALSE>>].seq >= ls[r].db[<<ExtLsa(e), FALSE>>].seq
      /\ \A e \in Ext : ExtLsa(e) \in ids => d.db[<<ExtLsa(e), FALSE>>].seq >= ExtSeq[Peer(r)][e]
  BY <1>1, <1>2, <1>4, <1>5, StoreType, StoreGood, PktType DEF LsAck
<1>7. q \in SUBSET Inst /\ q \subseteq nb[r].rxmt
  BY <1>4 DEF NbType
<1> HIDE DEF d, q
<1>8. /\ w \in XType /\ w.n.state = nb[r].state
      /\ w.n.ddseq = nb[r].ddseq /\ w.n.ddsum = nb[r].ddsum /\ w.n.sent = nb[r].sent
      /\ w.n.lastdd = nb[r].lastdd /\ w.n.lsreq = nb[r].lsreq \ ids /\ w.n.rxmt = q /\ w.d = d
      /\ w.out = <<>> /\ w.n.master = nb[r].master
  BY <1>4, <1>6, <1>7 DEF XType, NbType
<1> HIDE DEF w
<1>9. y \in XType /\ y.n = w.n /\ y.d = d /\ Pkts(y.out) = {LsAck(hs)}
  BY <1>6, <1>8, SendType, SendPkts, NothingSent
<1> HIDE DEF y
<1>10. Covered(r, nb[r], ls[r]) \subseteq Covered(r, y.n, y.d)
  BY <1>4, <1>6, <1>8, <1>9, CoveredGrows
<1>11. Held(r, y.n, y.d) /\ GoodPkt(r, LsAck(hs))
  <2>1. Held(r, nb[r], ls[r])
    BY <1>4 DEF Known
  <2>2. LastDdFits(y.n)
    BY <1>8, <1>9, <2>1 DEF Held, LastDdFits
  <2>3. GoodInsts(r, y.n.ddsum) /\ GoodInsts(r, y.n.rxmt)
    BY <1>7, <1>8, <1>9, <2>1 DEF Held, GoodInsts
  <2> QED BY <1>6, <1>9, <2>2, <2>3 DEF Held, GoodPkt
<1>12. Known(r, y)
  BY <1>9, <1>11 DEF Known
<1>13. Dds(y.out) = {} /\ NoReq(y.out)
  BY <1>6, <1>9, NoReqPkts DEF Dds
<1>14. CASE x.n.state < EXCHANGE /\ Rx(r, x)
  BY <1>0, <1>4, <1>14, RxStays
<1>15. CASE x.n.state \in {EXCHANGE, FULL} /\ Rx(r, y)
  <2>1. Stays(r, y)
    BY <1>8, <1>9, <1>10, <1>13 DEF Stays
  <2> QED BY <1>0, <1>9, <1>12, <1>15, <2>1, RxStays
<1>16. CASE x.n.state = LOADING /\ Rx(r, GoFull(r, y))
  <2> DEFINE z == GoFull(r, y)
  <2>1. /\ z \in XType /\ SameExt(y.d, z.d) /\ z.out = y.out /\ z.n.state = FULL
        /\ z.n.ddseq = y.n.ddseq /\ z.n.ddsum = y.n.ddsum /\ z.n.sent = y.n.sent
        /\ z.n.lsreq = y.n.lsreq /\ z.n.rxmt = y.n.rxmt /\ z.n.lastdd = y.n.lastdd
    BY <1>0, <1>9, GoFullFields
  <2>2. Rx(r, z)
    BY <1>16
  <2> HIDE DEF z
  <2>3. Known(r, z)
    <3>1. GoodDb(r, z.d)
      BY <1>6, <1>9, <2>1, SameExtGood
    <3>2. LastDdFits(z.n)
      BY <2>1 DEF LastDdFits, EXSTART, EXCHANGE, FULL
    <3>3. GoodInsts(r, z.n.ddsum) /\ GoodInsts(r, z.n.rxmt)
      BY <1>11, <2>1 DEF Held
    <3> QED BY <1>12, <2>1, <3>1, <3>2, <3>3 DEF Known, Held
  <2>4. Covered(r, z.n, z.d) = Covered(r, y.n, y.d)
    <3>1. \A e \in Ext : z.d.db[<<ExtLsa(e), FALSE>>] = y.d.db[<<ExtLsa(e), FALSE>>]
      BY <2>1, ExtKey DEF SameExt
    <3> QED BY <2>1, <3>1 DEF Covered
  <2>5. Stays(r, z)
    <3>1. ~Building(z.n)
      BY <2>1 DEF Building, EXSTART, EXCHANGE, FULL
    <3> QED BY <1>4, <1>8, <1>9, <1>10, <1>13, <1>16, <2>1, <2>4, <3>1 DEF Stays
  <2> QED BY <1>0, <2>1, <2>2, <2>3, <2>5, RxStays
<1>17. ASSUME x.n.state = LOADING, NEW c \in Chunk(y.n.lsreq, LsReqMax), Rx(r, BuildReq(y, c)) PROVE StepKeeps
  <2> DEFINE z == BuildReq(y, c)
  <2>0. c \in SUBSET Lsa
    BY <1>9, ChunkSubset DEF XType, NbType
  <2>1. /\ z \in XType /\ z.d = y.d /\ Pkts(z.out) = Pkts(y.out) \union {LsReq(c)}
        /\ z.n.state = y.n.state
        /\ z.n.ddseq = y.n.ddseq /\ z.n.ddsum = y.n.ddsum /\ z.n.sent = y.n.sent
        /\ z.n.lsreq = y.n.lsreq /\ z.n.rxmt = y.n.rxmt /\ z.n.lastdd = y.n.lastdd
    BY <1>9, <2>0, BuildReqFields
  <2>2. Rx(r, z) /\ LsReq(c).t = "req"
    BY <1>17 DEF LsReq
  <2> HIDE DEF z
  <2>3. z.n.state = LOADING
    BY <1>4, <1>8, <1>9, <1>17, <2>1
  <2>4. Known(r, z)
    <3>2. LastDdFits(z.n)
      BY <2>3 DEF LastDdFits, EXSTART, EXCHANGE, LOADING
    <3>3. GoodInsts(r, z.n.ddsum) /\ GoodInsts(r, z.n.rxmt) /\ GoodDb(r, z.d)
      BY <1>11, <2>1 DEF Held
    <3> QED BY <1>12, <2>1, <2>2, <3>2, <3>3 DEF Known, Held, GoodPkt
  <2>5. Covered(r, z.n, z.d) = Covered(r, y.n, y.d)
    BY <2>1 DEF Covered
  <2>6. Dds(z.out) = {}
    BY <1>13, <2>1, <2>2 DEF Dds
  <2>7. Stays(r, z)
    <3>1. ~Building(z.n)
      BY <2>3 DEF Building, EXSTART, EXCHANGE, LOADING
    <3> QED BY <1>8, <1>9, <1>10, <2>1, <2>3, <2>5, <2>6, <3>1 DEF Stays
  <2> QED BY <1>0, <2>1, <2>2, <2>4, <2>7, RxStays
<1> QED BY <1>3, <1>14, <1>15, <1>16, <1>17

(* ---------------------- exchanges that begin again ---------------------- *)
(* dbdescRx drops a packet: a duplicate, or one that came in a state that     *)
(* takes none                                                                 *)
LEMMA IgnoredStep == ASSUME ExchangeInv, NEW r \in Router, DdRxIgnored(r) PROVE StepKeeps
<1> DEFINE y == DdReceiver(r)
<1>0. chan[r] # <<>> /\ Rx(r, y) /\ UNCHANGED env
  BY DEF DdRxIgnored, Arrived
<1>1. /\ Known(r, Self(r)) /\ Self(r) \in XType /\ Stays(r, Self(r)) /\ Self(r).n = nb[r] /\ Self(r).out = <<>>
      /\ TypeOK
  BY KnownSelf, SelfStays
<1>2. /\ y \in XType /\ Known(r, y)
      /\ Stays(r, y) \/ (Begins(r, y) /\ nb[r].state = INIT)
  BY <1>1, TwoWayKinds DEF DdReceiver
<1> HIDE DEF y
<1>3. Moves(r, y)
  BY <1>0, <1>1, <1>2, RxMoves
<1>4. nb[r].state = INIT => nb[r].state < EXSTART
  BY DEF INIT, EXSTART
<1> QED BY <1>2, <1>3, <1>4, StaysStep, BeginsStep DEF Again

(* nfsmSeqNumberMismatch, nfsmBadLSReq: the adjacency begins again *)
LEMMA MismatchBegins ==
  ASSUME ExchangeInv, NEW r \in Router, nb[r].state >= EXCHANGE
  PROVE  LET y == SeqNumberMismatch(r, Self(r)) IN y \in XType /\ Known(r, y) /\ Begins(r, y)
<1> DEFINE x == Self(r)
           u == [x EXCEPT !.n.ddseq = @ + 1, !.n.lastdd = NoPkt, !.n.lastreq = NoPkt]
           v == ClearLists(u)
           g == [v EXCEPT !.n.state = INIT]
           y == SeqNumberMismatch(r, x)
<1>0. /\ Known(r, x) /\ x \in XType /\ TypeOK /\ nb[r] \in NbType /\ x.n = nb[r] /\ x.d = ls[r] /\ x.out = <<>>
  BY KnownSelf
<1>1. nb[r].ddseq \in Nat /\ nb[r].ddseq + 1 \in Nat /\ nb[r].state \in Nat
  BY <1>0, NbFields
<1> HIDE DEF x
<1>2. u \in XType /\ u.d = ls[r] /\ u.out = <<>> /\ u.n.ddseq = nb[r].ddseq + 1
  BY <1>0, <1>1 DEF XType, NbType
<1>3. y = StartAdj(r, v)
  BY DEF SeqNumberMismatch
<1> HIDE DEF u
<1>4. /\ v \in XType /\ v.d = ls[r] /\ v.out = <<>> /\ v.n.ddseq = nb[r].ddseq + 1
      /\ v.n.ddsum = {} /\ v.n.rxmt = {}
  BY <1>2, ClearListsFields
<1> HIDE DEF v
<1>5. /\ g \in XType /\ g.d = ls[r] /\ g.out = <<>> /\ g.n.ddseq = nb[r].ddseq + 1
      /\ g.n.ddsum = {} /\ g.n.rxmt = {} /\ g.n.state = INIT
  BY <1>4 DEF XType, NbType
<1>6. StartAdj(r, v) = StartAdj(r, g)
  <2>1. \A t : [v EXCEPT !.n.state = EXSTART, !.n.ddseq = t, !.n.master = TRUE]
             = [g EXCEPT !.n.state = EXSTART, !.n.ddseq = t, !.n.master = TRUE]
    BY <1>4 DEF XType, NbType
  <2> DEFINE t == (IF v.n.ddseq = 0 THEN Time(r) ELSE v.n.ddseq) + 1
             a == [v EXCEPT !.n.state = EXSTART, !.n.ddseq = t, !.n.master = TRUE]
             b == [g EXCEPT !.n.state = EXSTART, !.n.ddseq = t, !.n.master = TRUE]
  <2>2. a = b
    BY <2>1
  <2>3. StartAdj(r, v) = BuildDd(a, TRUE, TRUE, {})
    BY DEF StartAdj
  <2>4. (IF g.n.ddseq = 0 THEN Time(r) ELSE g.n.ddseq) + 1 = t
    BY <1>4, <1>5
  <2> HIDE DEF t
  <2>5. StartAdj(r, g) = BuildDd(b, TRUE, TRUE, {})
    BY <2>4 DEF StartAdj
  <2> HIDE DEF a, b
  <2> QED BY <2>2, <2>3, <2>5
<1> HIDE DEF g
<1>7. Known(r, g)
  <2>1. GoodDb(r, ls[r])
    BY <1>0 DEF Known, Held
  <2> QED BY <1>5, <2>1, NothingSent DEF Known, Held, GoodInsts, LastDdFits, INIT, EXSTART, EXCHANGE
<1>8. r = R2 => nb[r].ddseq > 0
  <2>1. nb[R2].state >= EXSTART => nb[R2].ddseq = DdBase(nb[R2], Time(R2)) /\ DdBase(nb[R2], Time(R2)) > 0
    BY DEF ExchangeInv, Exchange, Led, DdBounded
  <2>2. nb[r].state >= EXSTART
    BY <1>1 DEF EXSTART, EXCHANGE
  <2> QED BY <2>1, <2>2
<1>9. r = R2 => g.n.ddseq >= nb[r].ddseq /\ nb[r].ddseq > 0
  BY <1>1, <1>5, <1>8
<1>10. StartAdj(r, g) \in XType /\ Known(r, StartAdj(r, g)) /\ Begins(r, StartAdj(r, g))
  BY <1>0, <1>5, <1>7, <1>9, StartAdjBegins, NothingSent
<1>11. y \in XType /\ Known(r, y) /\ Begins(r, y)
  BY <1>3, <1>6, <1>10
<1> QED BY <1>11 DEF y, x

(* the router with the lower id is never master *)
LEMMA SlaveFollowing ==
  ASSUME ExchangeInv, nb[R1].state >= EXCHANGE PROVE ~nb[R1].master
<1>1. LeaderOf(R1, nb[R1])
  BY KnownSelf DEF NbInv, Router
<1>2. ~(R1 > Peer(R1))
  BY IdAssumption DEF Peer
<1> QED BY <1>1, <1>2 DEF LeaderOf

(* the exchange begins again: the slave does so only after a packet or a      *)
(* request of an exchange that the master has left                            *)
LEMMA MismatchStep == ASSUME ExchangeInv, NEW r \in Router, DdRxMismatch(r) \/ BadLsReqRx(r) PROVE StepKeeps
<1> DEFINE y == SeqNumberMismatch(r, Self(r))
           p == Head(chan[r])
<1>0. /\ chan[r] # <<>> /\ Rx(r, y) /\ UNCHANGED env
      /\ \/ p.t = "dd" /\ Mismatches(nb[r], p)
         \/ p.t = "req" /\ nb[r].state >= EXCHANGE
  BY DEF DdRxMismatch, BadLsReqRx, Arrived
<1>1. TypeOK /\ nb[r] \in NbType /\ nb[r].state \in Nat /\ nb[r].ddseq \in Nat /\ chan[r] \in Seq(Pkt)
  BY KnownSelf, NbFields DEF TypeOK
<1>2. nb[r].state >= EXCHANGE
  BY <1>0, <1>1 DEF Mismatches, EXCHANGE, LOADING
<1>3. y \in XType /\ Known(r, y) /\ Begins(r, y)
  BY <1>2, MismatchBegins
<1> HIDE DEF y
<1>4. Moves(r, y) /\ chan'[r] = Tail(chan[r])
  BY <1>0, <1>1, <1>3, RxMoves
<1>5. ASSUME r = R1 PROVE Again
  <2>1. CASE p.t = "req"
    <3>1. ~NoReq(chan[r])
      BY <1>0, <1>1, <2>1, TailWire
    <3> QED BY <1>2, <1>5, <3>1 DEF Again
  <2>2. CASE p.t = "dd" /\ Mismatches(nb[r], p)
    <3>1. p \in Dds(chan[r]) /\ p.seq \in Nat
      <4>1. p \in Pkts(chan[r])
        BY <1>0, <1>1, TailWire
      <4>2. p \in Dds(chan[r])
        BY <2>2, <4>1 DEF Dds
      <4> QED BY <1>1, <4>2, DdsType
    <3>2. InOrder(chan[r])
      BY <1>5 DEF ExchangeInv, Exchange
    <3>3. \A q \in Dds(Tail(chan[r])) : p.seq <= q.seq
      BY <1>0, <1>1, <2>2, <3>2, TailWire
    <3>4. ~nb[r].master
      BY <1>2, <1>5, SlaveFollowing
    <3> HIDE DEF p
    <3>5. ~Duplicate(nb[r], p) => nb[r].ddseq < p.seq
      BY <1>1, <3>1, <3>4 DEF Duplicate
    <3>6. nb[r].ddseq < p.seq \/ (nb[r].state >= LOADING /\ p.init)
      BY <2>2, <3>5 DEF Mismatches
    <3>7. \A q \in Dds(chan'[r]) : p.seq <= q.seq
      BY <1>4, <3>3
    <3> QED BY <1>2, <1>5, <3>1, <3>6, <3>7 DEF Again
  <2> QED BY <1>0, <2>1, <2>2
<1> QED BY <1>3, <1>4, <1>5, BeginsStep

(* ------------------------------- dbdescRx ------------------------------- *)
(* the database summary lists every LSA that was booted with *)
LEMMA SnapshotGood ==
  ASSUME NEW r \in Router, NEW d \in LsType, GoodDb(r, d)
  PROVE  /\ GoodInsts(r, Snapshot(d))
         /\ \A e \in Ext : ExtSeq[r][e] > 0 => ExtLsa(e) \in LsasOf(Snapshot(d))
<1>1. ASSUME NEW i \in Snapshot(d) PROVE GoodInsts(r, {i})
  <2>1. PICK k \in Key : Present(d, k) /\ i = d.db[k]
    BY DEF Snapshot
  <2> QED BY <2>1, EntryGood
<1>2. GoodInsts(r, Snapshot(d))
  BY <1>1 DEF GoodInsts
<1>3. ASSUME NEW e \in Ext, ExtSeq[r][e] > 0 PROVE ExtLsa(e) \in LsasOf(Snapshot(d))
  <2> DEFINE k == <<ExtLsa(e), FALSE>>
             a == d.db[k].seq
             b == ExtSeq[r][e]
  <2>1. k \in Key /\ k[1] = ExtLsa(e)
    BY ExtKey
  <2>2. d.db[k].l = ExtLsa(e)
    <3> HIDE DEF k
    <3> QED BY <2>1 DEF GoodDb
  <2>3. a \in Nat /\ b \in Nat
    BY <2>1, ExtSeqNat DEF LsType, Inst
  <2>4. a >= b /\ b > 0
    BY <1>3 DEF GoodDb
  <2> HIDE DEF a, b
  <2>5. a > 0
    BY <2>3, <2>4
  <2>6. Present(d, k)
    BY <2>5 DEF Present, a
  <2> HIDE DEF k
  <2>7. d.db[k] \in Snapshot(d)
    BY <2>1, <2>6 DEF Snapshot
  <2> QED BY <2>2, <2>7 DEF LsasOf
<1> QED BY <1>2, <1>3

(* an LSA described by the peer is held or wanted *)
LEMMA WantedCovered ==
  ASSUME NEW r \in Router, NEW d \in LsType, GoodDb(r, d), NEW hs \in SUBSET Inst, GoodInsts(Peer(r), hs),
         NEW e \in Ext, ExtLsa(e) \in LsasOf(hs)
  PROVE  ExtLsa(e) \in Wanted(d, hs) \/ d.db[<<ExtLsa(e), FALSE>>].seq >= ExtSeq[Peer(r)][e]
<1>1. PICK h \in hs : h.l = ExtLsa(e)
  BY DEF LsasOf
<1>2. Found(d, ExtLsa(e)) = d.db[<<ExtLsa(e), FALSE>>]
  BY FoundExt
<1>3. h.seq >= ExtSeq[Peer(r)][e]
  BY <1>1 DEF GoodInsts
<1>4. CASE Found(d, h.l) = h
  <2>1. d.db[<<ExtLsa(e), FALSE>>] = h
    BY <1>1, <1>2, <1>4
  <2> QED BY <1>3, <2>1
<1>5. CASE Found(d, h.l) # h
  <2>1. h.l \in Wanted(d, hs)
    BY <1>5 DEF Wanted
  <2> QED BY <1>1, <2>1
<1> QED BY <1>4, <1>5

(* z is x after DD packet p was accepted *)
TookDd(r, x, p, z) ==
  /\ Between(r, z) /\ z.d = x.d /\ z.out = x.out
  /\ z.n.lsreq = x.n.lsreq \union Wanted(x.d, p.hs)
  /\ x.n.state = EXSTART => z.n.ddsum = Snapshot(x.d) /\ z.n.more0 = FALSE
  /\ x.n.state = EXCHANGE => z.n.ddsum = x.n.ddsum \ x.n.sent
  /\ ~NegotiatesSlave(r, x.n, p) => z.n.ddseq = x.n.ddseq
  /\ NegotiatesSlave(r, x.n, p) \/ NegotiatesMaster(r, x.n, p) => x.n.state = EXSTART
  /\ ~NegotiatesSlave(r, x.n, p) /\ ~NegotiatesMaster(r, x.n, p) => x.n.state = EXCHANGE

(* dbdescRx takes a packet: what it leaves, field by field *)
LEMMA AcceptedFields ==
  ASSUME NEW r \in Router, NEW x, Good(r, x), NEW p \in DdPkt, Accepts(r, x.n, p)
  PROVE  TookDd(r, x, p, Accepted(r, x, p))
<1> DEFINE s == [x EXCEPT !.n.master = FALSE, !.n.ddseq = p.seq]
           t == [x EXCEPT !.n.master = TRUE]
           u == [x EXCEPT !.n.ddsum = @ \ x.n.sent, !.n.sent = {}]
           y == IF NegotiatesSlave(r, x.n, p) THEN NegotiationDone(s)
                ELSE IF NegotiatesMaster(r, x.n, p) THEN NegotiationDone(t) ELSE u
           w == Wanted(x.d, p.hs)
           z == [y EXCEPT !.n.lsreq = @ \union w]
<1>0. x \in XType /\ x.d \in LsType /\ p.hs \in SUBSET Inst /\ p.seq \in Nat
  BY DEF Good, XType, DdPkt
<1>1. x.n.state = EXSTART => x.n.ddsum = {}
  BY DEF Good, NbInv, ListsOf, EXSTART, EXCHANGE
<1>2. /\ NegotiatesSlave(r, x.n, p) \/ NegotiatesMaster(r, x.n, p) => x.n.state = EXSTART
      /\ ~NegotiatesSlave(r, x.n, p) /\ ~NegotiatesMaster(r, x.n, p) => x.n.state = EXCHANGE
  BY DEF NegotiatesSlave, NegotiatesMaster, Accepts, NextInSequence
<1>3. Between(r, Accepted(r, x, p)) /\ z = Accepted(r, x, p)
  BY AcceptedBetween, Zenon DEF Accepted
<1>4. ASSUME NEW g \in XType
      PROVE  LET a == NegotiationDone(g)
             IN  /\ a \in XType /\ a.d = g.d /\ a.out = g.out /\ a.n.lsreq = g.n.lsreq
                 /\ a.n.ddsum = g.n.ddsum \union Snapshot(g.d) /\ a.n.more0 = FALSE /\ a.n.ddseq = g.n.ddseq
  <2> DEFINE S == Snapshot(g.d)
             a == NegotiationDone(g)
  <2>1. a = [g EXCEPT !.n.state = EXCHANGE, !.n.more0 = FALSE, !.n.lastdd = NoPkt, !.n.ddsum = @ \union S]
    BY DEF NegotiationDone
  <2>2. a \in XType
    BY NegotiationType
  <2> HIDE DEF S, a
  <2>3. /\ a.d = g.d /\ a.out = g.out /\ a.n.lsreq = g.n.lsreq
        /\ a.n.ddsum = g.n.ddsum \union S /\ a.n.more0 = FALSE /\ a.n.ddseq = g.n.ddseq
    BY <2>1 DEF XType, NbType
  <2> QED BY <2>2, <2>3 DEF a, S
<1>5. s \in XType /\ s.d = x.d /\ s.out = x.out /\ s.n.lsreq = x.n.lsreq /\ s.n.ddsum = x.n.ddsum
  BY <1>0 DEF XType, NbType
<1>6. t \in XType /\ t.d = x.d /\ t.out = x.out /\ t.n.lsreq = x.n.lsreq /\ t.n.ddsum = x.n.ddsum /\ t.n.ddseq = x.n.ddseq
  BY <1>0 DEF XType, NbType
<1>7. /\ u \in XType /\ u.d = x.d /\ u.out = x.out /\ u.n.lsreq = x.n.lsreq
      /\ u.n.ddsum = x.n.ddsum \ x.n.sent /\ u.n.ddseq = x.n.ddseq
  BY <1>0 DEF XType, NbType
<1> HIDE DEF s, t, u
<1>8. EXSTART # EXCHANGE
  BY DEF EXSTART, EXCHANGE
<1>9. /\ y \in XType /\ y.d = x.d /\ y.out = x.out /\ y.n.lsreq = x.n.lsreq
      /\ x.n.state = EXSTART => y.n.ddsum = Snapshot(x.d) /\ y.n.more0 = FALSE
      /\ x.n.state = EXCHANGE => y.n.ddsum = x.n.ddsum \ x.n.sent
      /\ ~NegotiatesSlave(r, x.n, p) => y.n.ddseq = x.n.ddseq
  <2>1. CASE NegotiatesSlave(r, x.n, p)
    BY <1>1, <1>2, <1>4, <1>5, <1>8, <2>1
  <2>2. CASE ~NegotiatesSlave(r, x.n, p) /\ NegotiatesMaster(r, x.n, p)
    BY <1>1, <1>2, <1>4, <1>6, <1>8, <2>2
  <2>3. CASE ~NegotiatesSlave(r, x.n, p) /\ ~NegotiatesMaster(r, x.n, p)
    BY <1>2, <1>7, <1>8, <2>3
  <2> QED BY <2>1, <2>2, <2>3
<1>10. w \in SUBSET Lsa
  BY <1>0, WantedType
<1> HIDE DEF y, w
<1>11. /\ z.d = y.d /\ z.out = y.out /\ z.n.lsreq = y.n.lsreq \union w
       /\ z.n.ddsum = y.n.ddsum /\ z.n.more0 = y.n.more0 /\ z.n.ddseq = y.n.ddseq
  BY <1>9, <1>10 DEF XType, NbType
<1> HIDE DEF z
<1> QED BY <1>2, <1>3, <1>9, <1>11 DEF w, TookDd

(* what is known of a record whose last DD packet is about to be replaced *)
Stocked(r, x) ==
  GoodDb(r, x.d) /\ GoodInsts(r, x.n.ddsum) /\ GoodInsts(r, x.n.rxmt) /\ \A p \in Pkts(x.out) : GoodPkt(r, p)

(* ... what is described there is held or asked for, and when the exchange    *)
(* starts the summary has all the LSAs                                        *)
LEMMA AcceptedKnown ==
  ASSUME NEW r \in Router, NEW x, Good(r, x), Known(r, x), NEW p \in DdPkt, Accepts(r, x.n, p), GoodInsts(Peer(r), p.hs)
  PROVE  LET z == Accepted(r, x, p)
         IN  /\ Stocked(r, z) /\ Covered(r, x.n, x.d) \subseteq Covered(r, z.n, z.d)
             /\ \A e \in Ext : ExtLsa(e) \in LsasOf(p.hs) => e \in Covered(r, z.n, z.d)
             /\ x.n.state = EXSTART => \A e \in Ext : ExtSeq[r][e] > 0 => ExtLsa(e) \in LsasOf(z.n.ddsum)
<1> DEFINE z == Accepted(r, x, p)
<1>0. x \in XType /\ x.d \in LsType /\ p.hs \in SUBSET Inst /\ GoodDb(r, x.d) /\ GoodInsts(r, x.n.ddsum)
  BY DEF Good, XType, DdPkt, Known, Held
<1>1. /\ Between(r, z) /\ z.d = x.d /\ z.out = x.out
      /\ z.n.lsreq = x.n.lsreq \union Wanted(x.d, p.hs)
      /\ x.n.state = EXSTART => z.n.ddsum = Snapshot(x.d)
      /\ x.n.state = EXCHANGE => z.n.ddsum = x.n.ddsum \ x.n.sent
      /\ x.n.state = EXSTART \/ x.n.state = EXCHANGE
  <2>1. x.n.state = EXSTART \/ x.n.state = EXCHANGE
    BY DEF Accepts, NegotiatesSlave, NegotiatesMaster, NextInSequence
  <2>2. TookDd(r, x, p, z)
    BY AcceptedFields
  <2> HIDE DEF z
  <2> QED BY <2>1, <2>2 DEF TookDd
<1> HIDE DEF z
<1>2. GoodInsts(r, Snapshot(x.d)) /\ \A e \in Ext : ExtSeq[r][e] > 0 => ExtLsa(e) \in LsasOf(Snapshot(x.d))
  BY <1>0, SnapshotGood
<1>3. GoodInsts(r, z.n.ddsum)
  BY <1>0, <1>1, <1>2 DEF GoodInsts
<1>4. GoodInsts(r, z.n.rxmt)
  BY <1>1 DEF Between, GoodInsts
<1>5. Stocked(r, z)
  BY <1>0, <1>1, <1>3, <1>4 DEF Stocked, Known
<1>6. Covered(r, x.n, x.d) \subseteq Covered(r, z.n, z.d)
  BY <1>1 DEF Covered
<1>7. ASSUME NEW e \in Ext, ExtLsa(e) \in LsasOf(p.hs) PROVE e \in Covered(r, z.n, z.d)
  <2>1. ExtLsa(e) \in Wanted(x.d, p.hs) \/ x.d.db[<<ExtLsa(e), FALSE>>].seq >= ExtSeq[Peer(r)][e]
    BY <1>0, <1>7, WantedCovered
  <2> QED BY <1>1, <2>1 DEF Covered
<1> QED BY <1>1, <1>2, <1>5, <1>6, <1>7 DEF z

(* z is x after the next DD packet, with headers c, was built *)
SentDd(r, x, more, c, z) ==
  /\ z \in XType /\ Known(r, z) /\ z.d = x.d /\ z.n.state = EXCHANGE
  /\ z.n.ddseq = x.n.ddseq /\ z.n.ddsum = x.n.ddsum /\ z.n.sent = c
  /\ z.n.lsreq = x.n.lsreq /\ z.n.rxmt = x.n.rxmt
  /\ z.n.lastdd = Dd(FALSE, more, x.n.master, x.n.ddseq, c) /\ z.n.lastdd \in DdPkt
  /\ Pkts(z.out) = Pkts(x.out) \union {z.n.lastdd}

(* dbdescBuildPkt: the next part of the summary *)
LEMMA NextDdFields ==
  ASSUME NEW r \in Router, NEW x \in XType, x.n.state = EXCHANGE, Stocked(r, x), NEW more \in BOOLEAN,
         NEW c \in SUBSET x.n.ddsum, ~more => x.n.ddsum = {}
  PROVE  SentDd(r, x, more, c, BuildDd(x, more, x.n.master, c))
<1> DEFINE ms == x.n.master
           p == Dd(FALSE, more, ms, x.n.ddseq, c)
           y == [x EXCEPT !.n.lastdd = p, !.n.sent = c]
           z == BuildDd(x, more, ms, c)
<1>0. ms \in BOOLEAN /\ c \in SUBSET Inst /\ x.n.ddseq \in Nat /\ x.n.state # EXSTART
  BY DEF XType, NbType, EXSTART, EXCHANGE
<1>1. p \in DdPkt /\ p \in Pkt /\ p.t = "dd" /\ p.hs = c
  <2>1. p \in DdPkt /\ p \in Pkt
    BY <1>0, PktType
  <2> QED BY <2>1 DEF Dd
<1>2. z = Send(y, p)
  BY <1>0 DEF BuildDd
<1>2a. p = Dd(FALSE, more, ms, x.n.ddseq, c)
  OBVIOUS
<1> HIDE DEF p
<1>3. /\ y \in XType /\ y.d = x.d /\ y.out = x.out /\ y.n.state = EXCHANGE /\ y.n.ddseq = x.n.ddseq
      /\ y.n.ddsum = x.n.ddsum /\ y.n.sent = c /\ y.n.lsreq = x.n.lsreq /\ y.n.rxmt = x.n.rxmt
      /\ y.n.lastdd = p /\ y.n.master = x.n.master
  BY <1>0, <1>1 DEF XType, NbType
<1> HIDE DEF y, z
<1>4. z \in XType /\ z.n = y.n /\ z.d = y.d /\ Pkts(z.out) = Pkts(y.out) \union {p}
  BY <1>1, <1>2, <1>3, SendType, SendPkts
<1>5. LastDdFits(z.n)
  <2>1. z.n.lastdd = Dd(FALSE, more, z.n.master, z.n.ddseq, z.n.sent) /\ (~more => z.n.ddsum = {})
    BY <1>2a, <1>3, <1>4
  <2>2. z.n.state # EXSTART
    BY <1>0, <1>3, <1>4
  <2> QED BY <2>1, <2>2 DEF LastDdFits
<1>6. GoodPkt(r, p)
  BY <1>1 DEF GoodPkt, GoodInsts, Stocked
<1>7. Known(r, z)
  BY <1>3, <1>4, <1>5, <1>6 DEF Known, Held, Stocked
<1> QED BY <1>1, <1>2a, <1>3, <1>4, <1>7 DEF z, SentDd

(* nfsmExchangeDone, field by field *)
LEMMA DoneFields ==
  ASSUME TypeOK, NEW r \in Router, NEW x \in XType, Stocked(r, x), NEW c \in SUBSET Lsa
  PROVE  LET z == ExchangeDone(r, x, c)
         IN  /\ z \in XType /\ Known(r, z) /\ z.n.state \in {LOADING, FULL}
             /\ z.n.ddseq = x.n.ddseq /\ z.n.ddsum = x.n.ddsum /\ z.n.sent = x.n.sent
             /\ Covered(r, z.n, z.d) = Covered(r, x.n, x.d)
             /\ Dds(z.out) = Dds(x.out)
<1> DEFINE y == [x EXCEPT !.n.lastdd = NoPkt]
           u == [y EXCEPT !.n.state = LOADING]
           z == ExchangeDone(r, x, c)
<1>1. z = IF x.n.lsreq = {} THEN GoFull(r, y) ELSE BuildReq(u, c)
  BY DEF ExchangeDone
<1>2. /\ y \in XType /\ y.d = x.d /\ y.out = x.out /\ y.n.ddseq = x.n.ddseq
      /\ y.n.ddsum = x.n.ddsum /\ y.n.sent = x.n.sent /\ y.n.lsreq = x.n.lsreq /\ y.n.rxmt = x.n.rxmt
  BY DEF XType, NbType
<1> HIDE DEF y
<1>3. /\ u \in XType /\ u.d = x.d /\ u.out = x.out /\ u.n.state = LOADING /\ u.n.ddseq = x.n.ddseq
      /\ u.n.ddsum = x.n.ddsum /\ u.n.sent = x.n.sent /\ u.n.lsreq = x.n.lsreq /\ u.n.rxmt = x.n.rxmt
  BY <1>2 DEF XType, NbType
<1> HIDE DEF u, z
<1>4. SameExt(x.d, x.d)
  BY DEF SameExt
<1>5. /\ z \in XType /\ SameExt(x.d, z.d) /\ z.n.state \in {LOADING, FULL}
      /\ z.n.ddseq = x.n.ddseq /\ z.n.ddsum = x.n.ddsum /\ z.n.sent = x.n.sent
      /\ z.n.lsreq = x.n.lsreq /\ z.n.rxmt = x.n.rxmt
      /\ Pkts(z.out) = Pkts(x.out) \/ Pkts(z.out) = Pkts(x.out) \union {LsReq(c)}
  <2>1. CASE x.n.lsreq = {}
    BY <1>1, <1>2, <2>1, GoFullFields
  <2>2. CASE x.n.lsreq # {}
    BY <1>1, <1>3, <1>4, <2>2, BuildReqFields, SMTT(30)
  <2> QED BY <2>1, <2>2
<1>6. \A e \in Ext : z.d.db[<<ExtLsa(e), FALSE>>] = x.d.db[<<ExtLsa(e), FALSE>>]
  BY <1>5, ExtKey DEF SameExt
<1>7. Covered(r, z.n, z.d) = Covered(r, x.n, x.d)
  BY <1>5, <1>6 DEF Covered
<1>8. LsReq(c).t = "req"
  BY DEF LsReq
<1>9. Dds(z.out) = Dds(x.out)
  BY <1>5, <1>8 DEF Dds
<1>10. GoodDb(r, z.d)
  BY <1>5, SameExtGood DEF Stocked
<1>11. LastDdFits(z.n)
  <2>1. z.n.state # EXSTART /\ z.n.state # EXCHANGE
    BY <1>5 DEF EXSTART, EXCHANGE, LOADING, FULL
  <2> QED BY <2>1 DEF LastDdFits
<1>12. \A p \in Pkts(z.out) : GoodPkt(r, p)
  BY <1>5, <1>8 DEF Stocked, GoodPkt
<1>13. Known(r, z)
  BY <1>5, <1>10, <1>11, <1>12 DEF Known, Held, Stocked
<1> QED BY <1>5, <1>7, <1>9, <1>13 DEF z

(* the packet that a handler takes *)
LEMMA DdHead ==
  ASSUME ExchangeInv, NEW r \in Router, Arrived(r, "dd")
  PROVE  LET p == Head(chan[r])
         IN  /\ chan[r] # <<>> /\ chan[r] \in Seq(Pkt) /\ p \in DdPkt /\ p \in Dds(chan[r]) /\ p.seq \in Nat
             /\ GoodInsts(Peer(r), p.hs) /\ p.t = "dd"
<1> DEFINE p == Head(chan[r])
<1>1. chan[r] # <<>> /\ p.t = "dd" /\ TypeOK /\ chan[r] \in Seq(Pkt)
  BY KnownSelf DEF Arrived, TypeOK
<1>2. p \in Pkts(chan[r]) /\ p \in DdPkt
  BY <1>1, TailWire, HeadType
<1>3. p \in Dds(chan[r]) /\ p.seq \in Nat
  BY <1>1, <1>2 DEF Dds, DdPkt
<1>4. GoodInsts(Peer(r), p.hs)
  BY <1>1, <1>2, KnownSelf DEF GoodPkt
<1> QED BY <1>1, <1>2, <1>3, <1>4

(* the receiver of a DD packet: as it was, 2-Way, or ExStart when an adjacency starts with it *)
LEMMA ReceiverKinds ==
  ASSUME ExchangeInv, NEW r \in Router
  PROVE  LET x == DdReceiver(r)
         IN  /\ Good(r, x) /\ Known(r, x)
             /\ \/ x = Self(r)
                \/ x.n.state = TWOWAY
                \/ x = StartAdj(r, Self(r)) /\ nb[r].state = INIT
<1> DEFINE x == DdReceiver(r)
<1>1. /\ Known(r, Self(r)) /\ Self(r) \in XType /\ Stays(r, Self(r)) /\ Self(r).n = nb[r] /\ Self(r).out = <<>>
      /\ TypeOK /\ IInv
  BY KnownSelf, SelfStays DEF ExchangeInv
<1>2. Known(r, x)
  BY <1>1, TwoWayKinds DEF DdReceiver
<1>3. Good(r, x)
  BY <1>1, SelfGood, TwoWayGood DEF DdReceiver
<1>4. \/ x = Self(r)
      \/ x = [Self(r) EXCEPT !.n.state = TWOWAY]
      \/ x = StartAdj(r, Self(r)) /\ nb[r].state = INIT
  BY <1>1 DEF DdReceiver, TwoWayReceived
<1>5. [Self(r) EXCEPT !.n.state = TWOWAY].n.state = TWOWAY
  BY <1>1 DEF XType, NbType
<1> HIDE DEF x
<1> QED BY <1>2, <1>3, <1>4, <1>5 DEF x

(* only the router with the higher id handles a DD packet as a master *)
LEMMA LeaderId ==
  ASSUME ExchangeInv, NEW r \in Router, NEW p \in DdPkt, Accepts(r, DdReceiver(r).n, p)
  PROVE  /\ TookDd(r, DdReceiver(r), p, Accepted(r, DdReceiver(r), p))
         /\ Accepted(r, DdReceiver(r), p).n.master <=> r = R2
<1> DEFINE x == Accepted(r, DdReceiver(r), p)
<1>1. Good(r, DdReceiver(r))
  BY ReceiverKinds
<1>2. TookDd(r, DdReceiver(r), p, x)
  BY <1>1, AcceptedFields
<1> HIDE DEF x
<1>3. LeaderOf(r, x.n) /\ x.n.state = EXCHANGE
  BY <1>2 DEF TookDd, Between
<1>4. x.n.master <=> r > Peer(r)
  BY <1>3 DEF LeaderOf, EXCHANGE
<1>5. r > Peer(r) <=> r = R2
  BY IdAssumption DEF Peer, Router
<1> QED BY <1>2, <1>4, <1>5 DEF x

(* the master was waiting for the answer it takes *)
LEMMA MasterAwaits ==
  ASSUME ExchangeInv, NEW p \in Dds(chan[R2]), p \in DdPkt, Accepts(R2, DdReceiver(R2).n, p)
  PROVE  /\ DdReceiver(R2) = Self(R2) /\ Building(nb[R2])
         /\ p \in Replies(chan[R2]) /\ p.seq = nb[R2].ddseq
         /\ ~NegotiatesSlave(R2, nb[R2], p)
<1> DEFINE x == DdReceiver(R2)
<1>0. R2 \in Router /\ ~(Peer(R2) > R2) /\ R2 > Peer(R2)
  BY IdAssumption DEF Peer, Router
<1>1. /\ TypeOK /\ Self(R2) \in XType /\ Self(R2).n = nb[R2] /\ nb[R2] \in NbType /\ NbInv(R2, nb[R2])
      /\ nb[R2].ddseq \in Nat /\ Time(R2) \in Nat
  BY <1>0, KnownSelf, NbFields, TimeType
<1>2. /\ Good(R2, x)
      /\ \/ x = Self(R2)
         \/ x.n.state = TWOWAY
         \/ x = StartAdj(R2, Self(R2)) /\ nb[R2].state = INIT
  BY <1>0, ReceiverKinds
<1>3. NegotiatesMaster(R2, x.n, p) \/ NextInSequence(x.n, p)
  BY <1>0 DEF Accepts, NegotiatesSlave
<1>4. ~NegotiatesSlave(R2, x.n, p) /\ x.n.state # TWOWAY /\ ~p.init
  BY <1>0, <1>3 DEF NegotiatesSlave, NegotiatesMaster, NextInSequence, TWOWAY, EXSTART, EXCHANGE
<1>5. p \in Replies(chan[R2])
  BY <1>4 DEF Replies
<1>6. p.seq <= DdBase(nb[R2], Time(R2)) /\ p.seq \in Nat
  BY <1>5 DEF ExchangeInv, Exchange, Led, DdBounded, DdTypes
<1>7. x # StartAdj(R2, Self(R2))
  <2>1. ASSUME x = StartAdj(R2, Self(R2)) PROVE FALSE
    <3> DEFINE z == StartAdj(R2, Self(R2))
    <3>0. z.n.state = EXSTART /\ z.n.ddseq = DdBase(Self(R2).n, Time(R2)) + 1
      BY <1>0, <1>1, StartAdjFields
    <3> HIDE DEF z, x
    <3>1. x.n.state = EXSTART /\ x.n.ddseq = DdBase(nb[R2], Time(R2)) + 1
      BY <1>1, <2>1, <3>0 DEF z
    <3>2. p.seq = x.n.ddseq
      BY <1>3, <3>1 DEF NegotiatesMaster, NextInSequence, EXSTART, EXCHANGE
    <3>3. DdBase(nb[R2], Time(R2)) \in Nat
      BY <1>1 DEF DdBase
    <3> QED BY <1>6, <3>1, <3>2, <3>3
  <2> QED BY <2>1
<1>8. x = Self(R2) /\ x.n = nb[R2]
  BY <1>1, <1>2, <1>4, <1>7
<1>9. Building(nb[R2])
  BY <1>3, <1>8 DEF NegotiatesMaster, NextInSequence, Building
<1>10. p.seq = nb[R2].ddseq
  <2>1. CASE NegotiatesMaster(R2, nb[R2], p)
    BY <2>1 DEF NegotiatesMaster
  <2>2. CASE NextInSequence(nb[R2], p)
    <3>1. nb[R2].state = EXCHANGE /\ LeaderOf(R2, nb[R2])
      BY <1>1, <2>2 DEF NextInSequence, NbInv
    <3>2. nb[R2].master
      BY <1>0, <3>1 DEF LeaderOf, EXCHANGE
    <3> QED BY <2>2, <3>2 DEF NextInSequence
  <2> QED BY <1>3, <1>8, <2>1, <2>2
<1> QED BY <1>4, <1>5, <1>8, <1>9, <1>10

(* dbdescRx of the master *)
LEMMA MasterDdStep == ASSUME ExchangeInv, NEW r \in Router, DdRxMaster(r) PROVE StepKeeps
<1> DEFINE p == Head(chan[R2])
           x == Accepted(R2, Self(R2), p)
<1>1. /\ Arrived(r, "dd") /\ UNCHANGED env /\ Accepts(r, DdReceiver(r).n, Head(chan[r]))
      /\ Accepted(r, DdReceiver(r), Head(chan[r])).n.master
  BY DEF DdRxMaster
<1>2. r = R2
  <2>1. Head(chan[r]) \in DdPkt
    BY <1>1, DdHead
  <2> QED BY <1>1, <2>1, LeaderId
<1>3. /\ chan[R2] # <<>> /\ p \in DdPkt /\ p \in Dds(chan[R2]) /\ GoodInsts(Peer(R2), p.hs) /\ R2 \in Router
  BY <1>1, <1>2, DdHead DEF Router
<1>4. /\ DdReceiver(R2) = Self(R2) /\ Building(nb[R2])
      /\ p \in Replies(chan[R2]) /\ p.seq = nb[R2].ddseq /\ ~NegotiatesSlave(R2, nb[R2], p)
  BY <1>1, <1>2, <1>3, MasterAwaits
<1>5. /\ Known(R2, Self(R2)) /\ TypeOK /\ nb[R2] \in NbType
      /\ Self(R2).n = nb[R2] /\ Self(R2).d = ls[R2] /\ Self(R2).out = <<>> /\ Good(R2, Self(R2))
  BY <1>3, KnownSelf, SelfGood DEF ExchangeInv
<1>6. Accepts(R2, nb[R2], p) /\ x.n.master = TRUE
  <2>1. x \in XType
    BY <1>1, <1>2, <1>3, <1>4, LeaderId, Zenon DEF TookDd, Between
  <2>2. x.n.master \in BOOLEAN
    BY <2>1 DEF XType, NbType
  <2> QED BY <1>1, <1>2, <1>4, <1>5, <2>2
<1>7. IF x.n.more0 /\ ~p.more
      THEN \E c \in Chunk(x.n.lsreq, LsReqMax) :
             Rx(R2, ExchangeDone(R2, [x EXCEPT !.n.more0 = FALSE], c))
      ELSE \E c \in Chunk(x.n.ddsum, DdMax) :
             Rx(R2, BuildDd([x EXCEPT !.n.ddseq = @ + 1, !.n.more0 = @ \/ x.n.ddsum = {}],
                            x.n.ddsum # {}, TRUE, c))
  BY <1>2, <1>4, Zenon DEF DdRxMaster
<1> HIDE DEF p
<1>8. TookDd(R2, Self(R2), p, x)
  BY <1>3, <1>5, <1>6, AcceptedFields
<1>9. /\ Stocked(R2, x) /\ Covered(R2, nb[R2], ls[R2]) \subseteq Covered(R2, x.n, x.d)
      /\ \A e \in Ext : ExtLsa(e) \in LsasOf(p.hs) => e \in Covered(R2, x.n, x.d)
      /\ nb[R2].state = EXSTART => \A e \in Ext : ExtSeq[R2][e] > 0 => ExtLsa(e) \in LsasOf(x.n.ddsum)
  BY <1>3, <1>5, <1>6, AcceptedKnown
<1> HIDE DEF x
<1>10. /\ x \in XType /\ x.n.state = EXCHANGE /\ x.out = <<>>
       /\ nb[R2].state = EXSTART => x.n.more0 = FALSE
       /\ nb[R2].state = EXCHANGE => x.n.ddsum = nb[R2].ddsum \ nb[R2].sent
       /\ x.n.ddseq = nb[R2].ddseq
  BY <1>4, <1>5, <1>8 DEF TookDd, Between
<1>11. CASE x.n.more0 /\ ~p.more
  <2> DEFINE y == [x EXCEPT !.n.more0 = FALSE]
  <2>1. PICK c \in Chunk(x.n.lsreq, LsReqMax) : Rx(R2, ExchangeDone(R2, y, c))
    BY <1>7, <1>11
  <2>2. c \in SUBSET Lsa
    BY <1>10, ChunkSubset DEF XType, NbType
  <2>3. /\ y \in XType /\ y.n.ddseq = x.n.ddseq /\ y.n.ddsum = x.n.ddsum /\ y.n.rxmt = x.n.rxmt
        /\ y.n.lsreq = x.n.lsreq /\ y.d = x.d /\ y.out = x.out
    BY <1>10 DEF XType, NbType
  <2> HIDE DEF y
  <2>4. Stocked(R2, y) /\ Covered(R2, y.n, y.d) = Covered(R2, x.n, x.d)
    BY <1>9, <2>3 DEF Stocked, Covered
  <2> DEFINE z == ExchangeDone(R2, y, c)
  <2>5. /\ z \in XType /\ Known(R2, z) /\ z.n.state \in {LOADING, FULL}
        /\ z.n.ddseq = y.n.ddseq /\ Covered(R2, z.n, z.d) = Covered(R2, y.n, y.d) /\ Dds(z.out) = Dds(y.out)
    BY <1>3, <1>5, <2>2, <2>3, <2>4, DoneFields
  <2>6. Rx(R2, z)
    BY <2>1
  <2> HIDE DEF z
  <2>7. Moves(R2, z)
    BY <1>1, <1>3, <1>5, <2>5, <2>6, RxMoves
  <2>8. nb[R2].state = EXCHANGE
    BY <1>4, <1>10, <1>11 DEF Building
  <2>9. Concludes(z)
    BY <1>4, <1>9, <1>10, <1>11, <2>3, <2>4, <2>5, <2>8, NothingSent DEF Concludes
  <2> QED BY <1>3, <2>7, <2>9, MasterConcludes, InventoryStep DEF StepKeeps
<1>12. CASE ~(x.n.more0 /\ ~p.more)
  <2> DEFINE m == x.n.more0 \/ x.n.ddsum = {}
             y == [x EXCEPT !.n.ddseq = @ + 1, !.n.more0 = m]
             more == x.n.ddsum # {}
  <2>1. PICK c \in Chunk(x.n.ddsum, DdMax) : Rx(R2, BuildDd(y, more, TRUE, c))
    BY <1>7, <1>12
  <2>2. c \in SUBSET x.n.ddsum /\ m \in BOOLEAN /\ more \in BOOLEAN /\ (~more => x.n.ddsum = {})
        /\ nb[R2].ddseq + 1 \in Nat
    BY <1>5, ChunkSubset, NbFields
  <2> HIDE DEF m, more
  <2>3. /\ y \in XType /\ y.n.ddseq = nb[R2].ddseq + 1 /\ y.n.ddsum = x.n.ddsum /\ y.n.rxmt = x.n.rxmt
        /\ y.n.lsreq = x.n.lsreq /\ y.d = x.d /\ y.out = x.out /\ y.n.state = EXCHANGE /\ y.n.master = TRUE
    BY <1>6, <1>10, <2>2 DEF XType, NbType
  <2> HIDE DEF y
  <2>4. Stocked(R2, y)
    BY <1>9, <2>3 DEF Stocked
  <2> DEFINE z == BuildDd(y, more, y.n.master, c)
  <2>5. /\ z \in XType /\ Known(R2, z) /\ z.d = y.d /\ z.n.state = EXCHANGE
        /\ z.n.ddseq = y.n.ddseq /\ z.n.ddsum = y.n.ddsum /\ z.n.sent = c
        /\ z.n.lsreq = y.n.lsreq /\ z.n.lastdd \in DdPkt
        /\ Pkts(z.out) = Pkts(y.out) \union {z.n.lastdd}
    <3>1. SentDd(R2, y, more, c, z)
      BY <1>3, <2>2, <2>3, <2>4, NextDdFields
    <3> HIDE DEF z
    <3> QED BY <3>1 DEF SentDd
  <2>6. Rx(R2, z)
    BY <2>1, <2>3
  <2> HIDE DEF z
  <2>7. Moves(R2, z)
    BY <1>1, <1>3, <1>5, <2>5, <2>6, RxMoves
  <2>8. Covered(R2, z.n, z.d) = Covered(R2, x.n, x.d)
    BY <2>3, <2>5 DEF Covered
  <2>9. z.n.lastdd.t = "dd" /\ Pkts(z.out) = {z.n.lastdd}
    BY <1>10, <2>3, <2>5, NothingSent DEF DdPkt
  <2>10. Dds(z.out) = {z.n.lastdd} /\ NoReq(z.out)
    BY <2>9, NoReqPkts DEF Dds
  <2>11. z.n.ddsum = x.n.ddsum /\ z.n.sent \subseteq z.n.ddsum /\ z.n.ddseq = nb[R2].ddseq + 1
    BY <2>2, <2>3, <2>5
  <2>12. \E q \in Replies(chan[R2]) : /\ q.seq = nb[R2].ddseq
                                      /\ \A e \in Ext : ExtLsa(e) \in LsasOf(q.hs) => e \in Covered(R2, z.n, z.d)
    BY <1>4, <1>9, <2>8
  <2>13. Continues(z)
    BY <1>4, <1>9, <1>10, <2>5, <2>8, <2>10, <2>11, <2>12 DEF Continues
  <2> QED BY <1>3, <2>7, <2>13, MasterContinues, InventoryStep DEF StepKeeps
<1> QED BY <1>11, <1>12

(* the slave's answer to a packet it accepts *)
LEMMA SlaveAnswer ==
  ASSUME ExchangeInv, Arrived(R1, "dd"), Accepts(R1, DdReceiver(R1).n, Head(chan[R1])),
         NEW c \in Chunk(Accepted(R1, DdReceiver(R1), Head(chan[R1])).n.ddsum, DdMax)
  PROVE  LET p == Head(chan[R1])
             x == Accepted(R1, DdReceiver(R1), p)
             y == [x EXCEPT !.n.ddseq = p.seq]
             more == x.n.ddsum # {} \/ p.more
             z == BuildDd(y, more, FALSE, c)
         IN  /\ SentDd(R1, y, more, c, z) /\ Covered(R1, z.n, z.d) = Covered(R1, x.n, x.d)
             /\ y.n.ddseq = p.seq /\ y.n.ddsum = x.n.ddsum /\ y.out = x.out /\ y.n.master = FALSE
             /\ c \subseteq x.n.ddsum
<1> DEFINE p == Head(chan[R1])
           x == Accepted(R1, DdReceiver(R1), p)
           y == [x EXCEPT !.n.ddseq = p.seq]
           more == x.n.ddsum # {} \/ p.more
<1>0. R1 \in Router /\ R1 # R2
  BY IdAssumption DEF Router
<1>1. p \in DdPkt /\ p.seq \in Nat /\ GoodInsts(Peer(R1), p.hs)
  BY <1>0, DdHead
<1>2. Good(R1, DdReceiver(R1)) /\ Known(R1, DdReceiver(R1))
  BY <1>0, ReceiverKinds
<1>3. TookDd(R1, DdReceiver(R1), p, x) /\ ~x.n.master
  BY <1>0, <1>1, LeaderId
<1>4. Stocked(R1, x)
  BY <1>0, <1>1, <1>2, AcceptedKnown
<1>5. c \in SUBSET x.n.ddsum /\ more \in BOOLEAN /\ (~more => x.n.ddsum = {})
  BY <1>1, ChunkSubset DEF DdPkt
<1> HIDE DEF p, x
<1>6. x \in XType /\ x.n.state = EXCHANGE /\ x.n.master = FALSE
  BY <1>3 DEF TookDd, Between, XType, NbType
<1>7. /\ y \in XType /\ y.n.ddseq = p.seq /\ y.n.ddsum = x.n.ddsum /\ y.n.rxmt = x.n.rxmt
      /\ y.n.lsreq = x.n.lsreq /\ y.d = x.d /\ y.out = x.out /\ y.n.state = EXCHANGE /\ y.n.master = FALSE
  BY <1>1, <1>6 DEF XType, NbType
<1> HIDE DEF y, more
<1>8. Stocked(R1, y)
  BY <1>4, <1>7 DEF Stocked
<1> DEFINE z == BuildDd(y, more, FALSE, c)
<1>9. z = BuildDd(y, more, y.n.master, c)
  BY <1>7
<1> HIDE DEF z
<1>10. SentDd(R1, y, more, c, z)
  BY <1>0, <1>5, <1>7, <1>8, <1>9, NextDdFields
<1>11. Covered(R1, z.n, z.d) = Covered(R1, x.n, x.d)
  BY <1>7, <1>10 DEF SentDd, Covered
<1>12. c \subseteq x.n.ddsum
  BY <1>5
<1> QED BY <1>7, <1>10, <1>11, <1>12, Zenon DEF z, y, more, x, p

(* dbdescRx of the slave *)
LEMMA SlaveDdStep == ASSUME ExchangeInv, NEW r \in Router, DdRxSlave(r) PROVE StepKeeps
<1> DEFINE p == Head(chan[R1])
           x0 == DdReceiver(R1)
           x == Accepted(R1, x0, p)
           y == [x EXCEPT !.n.ddseq = p.seq]
           more == x.n.ddsum # {} \/ p.more
<1>1. /\ Arrived(r, "dd") /\ UNCHANGED env /\ Accepts(r, DdReceiver(r).n, Head(chan[r]))
      /\ ~Accepted(r, DdReceiver(r), Head(chan[r])).n.master
  BY DEF DdRxSlave
<1>2. r = R1 /\ R1 \in Router
  <2>1. Head(chan[r]) \in DdPkt
    BY <1>1, DdHead
  <2> QED BY <1>1, <2>1, LeaderId DEF Router
<1>3. PICK c \in Chunk(x.n.ddsum, DdMax) :
        IF ~p.more /\ x.n.ddsum = {}
        THEN \E q \in Chunk(x.n.lsreq, LsReqMax) : Rx(R1, ExchangeDone(R1, BuildDd(y, more, FALSE, c), q))
        ELSE Rx(R1, BuildDd(y, more, FALSE, c))
  <2>1. DdRxSlave(R1)
    BY <1>2
  <2> QED BY <2>1, Zenon DEF DdRxSlave
<1> DEFINE z == BuildDd(y, more, FALSE, c)
           new == z.n.lastdd
<1>4. /\ SentDd(R1, y, more, c, z) /\ Covered(R1, z.n, z.d) = Covered(R1, x.n, x.d)
      /\ y.n.ddseq = p.seq /\ y.n.ddsum = x.n.ddsum /\ y.out = x.out /\ y.n.master = FALSE
      /\ c \subseteq x.n.ddsum
  BY <1>1, <1>2, SlaveAnswer
<1>5. /\ chan[R1] # <<>> /\ chan[R1] \in Seq(Pkt) /\ p \in DdPkt /\ p \in Dds(chan[R1]) /\ p.t = "dd" /\ p.seq \in Nat
      /\ GoodInsts(Peer(R1), p.hs)
  BY <1>1, <1>2, DdHead
<1>6. /\ Good(R1, x0) /\ Known(R1, x0)
      /\ \/ x0 = Self(R1)
         \/ x0.n.state = TWOWAY
         \/ x0 = StartAdj(R1, Self(R1)) /\ nb[R1].state = INIT
  BY <1>2, ReceiverKinds
<1>7. TookDd(R1, x0, p, x)
  BY <1>1, <1>2, <1>5, LeaderId
<1>8. /\ Covered(R1, x0.n, x0.d) \subseteq Covered(R1, x.n, x.d)
      /\ \A e \in Ext : ExtLsa(e) \in LsasOf(p.hs) => e \in Covered(R1, x.n, x.d)
      /\ x0.n.state = EXSTART => \A e \in Ext : ExtSeq[R1][e] > 0 => ExtLsa(e) \in LsasOf(x.n.ddsum)
  BY <1>1, <1>2, <1>5, <1>6, AcceptedKnown
<1>9. /\ TypeOK /\ Self(R1).n = nb[R1] /\ Self(R1).d = ls[R1] /\ Self(R1).out = <<>> /\ Self(R1) \in XType
      /\ nb[R1] \in NbType /\ nb[R1].state \in Nat /\ nb[R1].ddseq \in Nat /\ InOrder(chan[R1])
  BY <1>2, KnownSelf, NbFields DEF ExchangeInv, Exchange
<1>10. /\ \A q \in Dds(Tail(chan[R1])) : p.seq <= q.seq
       /\ ReqBefore(chan[R1], p.seq) => NoReq(Tail(chan[R1]))
  BY <1>5, <1>9, TailWire
<1>11. Accepts(R1, x0.n, p)
  BY <1>1, <1>2
<1>12. more <=> x.n.ddsum # {} \/ p.more
  OBVIOUS
<1> HIDE DEF p, x0, x, y, more, z
<1>13. /\ z \in XType /\ Known(R1, z) /\ z.n.state = EXCHANGE /\ z.n.ddseq = p.seq /\ z.n.ddsum = x.n.ddsum
       /\ z.n.sent = c /\ new = Dd(FALSE, more, FALSE, p.seq, c) /\ new \in DdPkt
       /\ Pkts(z.out) = Pkts(x.out) \union {new}
  BY <1>4 DEF SentDd
<1>14. new.seq = p.seq /\ new.hs = c /\ new.more = more /\ new.t = "dd" /\ new \in Pkt
  BY <1>13, PktType DEF Dd
<1> HIDE DEF new
<1>15. Replies(x0.out) = {}
  <2>1. CASE x0 = Self(R1)
    BY <1>9, <2>1, NothingSent
  <2>2. CASE x0.n.state = TWOWAY
    BY <1>11, <2>2 DEF Accepts, NegotiatesSlave, NegotiatesMaster, NextInSequence, TWOWAY, EXSTART, EXCHANGE
  <2>3. CASE x0 = StartAdj(R1, Self(R1))
    <3> DEFINE a == StartAdj(R1, Self(R1))
    <3>1. /\ a.n.lastdd = Dd(TRUE, TRUE, TRUE, a.n.ddseq, {})
          /\ Pkts(a.out) = Pkts(Self(R1).out) \union {a.n.lastdd}
      BY <1>2, <1>9, StartAdjFields
    <3> HIDE DEF a
    <3>2. a.n.lastdd.init /\ Pkts(a.out) = {a.n.lastdd}
      BY <1>9, <3>1, NothingSent DEF Dd
    <3>3. Replies(a.out) = {}
      BY <3>2 DEF Replies, Dds
    <3> QED BY <2>3, <3>3 DEF a
  <2> QED BY <1>6, <2>1, <2>2, <2>3
<1>16. Replies(z.out) \subseteq {new}
  <2>1. x.out = x0.out
    BY <1>7 DEF TookDd
  <2>2. Pkts(z.out) = Pkts(x0.out) \union {new}
    BY <1>13, <2>1
  <2> QED BY <1>15, <2>2 DEF Replies, Dds
<1>17. CASE NegotiatesSlave(R1, x0.n, p)
  <2>1. p.init /\ p.more /\ x0.n.state = EXSTART
    BY <1>17 DEF NegotiatesSlave
  <2>2. nb[R1].state < EXCHANGE
    <3>1. CASE x0 = Self(R1)
      BY <1>9, <2>1, <3>1 DEF EXSTART, EXCHANGE
    <3>2. CASE nb[R1].state = INIT
      BY <3>2 DEF INIT, EXCHANGE
    <3> QED BY <1>6, <2>1, <3>1, <3>2 DEF TWOWAY, EXSTART
  <2>3. Rx(R1, z)
    BY <1>3, <2>1 DEF z
  <2>4. Moves(R1, z) /\ chan'[R1] = Tail(chan[R1])
    BY <1>1, <1>2, <1>5, <1>9, <1>13, <2>3, RxMoves
  <2>5. new.more
    BY <1>12, <1>14, <2>1
  <2>6. \A e \in Ext : ExtSeq[R1][e] > 0 => ExtLsa(e) \in LsasOf(z.n.ddsum)
    BY <1>8, <1>13, <2>1
  <2>7. /\ \A q \in Dds(chan'[R1]) : p.seq <= q.seq
        /\ ReqBefore(chan[R1], p.seq) => NoReq(chan'[R1])
    BY <1>10, <2>4
  <2>8. z.n.sent \subseteq z.n.ddsum
    BY <1>4, <1>13
  <2>9. Follows(z)
    BY <1>5, <1>13, <1>16, <2>1, <2>2, <2>5, <2>6, <2>7, <2>8 DEF Follows, new
  <2> QED BY <1>2, <2>4, <2>9, SlaveFollows, InventoryStep DEF StepKeeps
<1>18. CASE ~NegotiatesSlave(R1, x0.n, p)
  <2>1. ~NegotiatesMaster(R1, x0.n, p)
    BY IdAssumption DEF NegotiatesMaster, Peer
  <2>2. NextInSequence(x0.n, p)
    BY <1>11, <1>18, <2>1 DEF Accepts
  <2>3. x0 = Self(R1) /\ x0.n = nb[R1] /\ x0.d = ls[R1] /\ nb[R1].state = EXCHANGE
    <3>1. x0.n.state = EXCHANGE
      BY <2>2 DEF NextInSequence
    <3>2. StartAdj(R1, Self(R1)).n.state = EXSTART
      BY <1>2, <1>9, StartAdjFields
    <3>3. x0 # StartAdj(R1, Self(R1)) /\ x0.n.state # TWOWAY
      BY <3>1, <3>2 DEF TWOWAY, EXSTART, EXCHANGE
    <3> QED BY <1>6, <1>9, <3>1, <3>3
  <2>4. ~nb[R1].master
    BY <2>3, SlaveFollowing DEF EXCHANGE
  <2>5. ~p.init /\ p.seq = nb[R1].ddseq + 1
    BY <2>2, <2>3, <2>4 DEF NextInSequence
  <2>6. x.n.ddsum = nb[R1].ddsum \ nb[R1].sent
    BY <1>7, <2>3 DEF TookDd
  <2>7. ASSUME NEW f, f \in XType, Known(R1, f), Rx(R1, f), f.n.state \in {EXCHANGE, LOADING, FULL},
               f.n.state # EXCHANGE => ~p.more,
               f.n.ddseq = z.n.ddseq, f.n.ddsum = z.n.ddsum, f.n.sent = z.n.sent,
               Covered(R1, f.n, f.d) = Covered(R1, z.n, z.d), Replies(f.out) \subseteq {new}
        PROVE  StepKeeps
    <3>1. Moves(R1, f) /\ chan'[R1] = Tail(chan[R1])
      BY <1>1, <1>2, <1>5, <1>9, <2>7, RxMoves
    <3>2. \A q \in Dds(chan'[R1]) : p.seq <= q.seq
      BY <1>10, <3>1
    <3>3. ~new.more => f.n.ddsum = {}
      BY <1>12, <1>13, <1>14, <2>7
    <3>4. \A e \in Ext : ExtLsa(e) \in LsasOf(p.hs) => e \in Covered(R1, f.n, f.d)
      BY <1>4, <1>8, <2>7
    <3>5. Answered(f, p, new)
      BY <1>13, <1>14, <2>5, <2>7, <3>2, <3>3, <3>4 DEF Answered
    <3>6. Covered(R1, nb[R1], ls[R1]) \subseteq Covered(R1, f.n, f.d)
      BY <1>4, <1>8, <2>3, <2>7
    <3>7. f.n.ddsum = nb[R1].ddsum \ nb[R1].sent /\ f.n.sent \subseteq f.n.ddsum
      BY <1>4, <1>13, <2>6, <2>7
    <3>8. \E q \in Dds(chan[R1]), a \in Pkt : Answered(f, q, a)
      BY <1>5, <1>14, <3>5
    <3>9. Keeps(f)
      BY <2>3, <2>7, <3>6, <3>7, <3>8 DEF Keeps
    <3> QED BY <1>2, <3>1, <3>9, SlaveKeeps, InventoryStep DEF StepKeeps
  <2>8. CASE ~(~p.more /\ x.n.ddsum = {})
    <3>1. Rx(R1, z)
      BY <1>3, <2>8 DEF z
    <3> QED BY <1>13, <1>16, <2>7, <3>1
  <2>9. CASE ~p.more /\ x.n.ddsum = {}
    <3>1. PICK q \in Chunk(x.n.lsreq, LsReqMax) : Rx(R1, ExchangeDone(R1, z, q))
      BY <1>3, <2>9 DEF z
    <3>2. q \in SUBSET Lsa
      <4>1. x \in XType
        BY <1>7 DEF TookDd, Between
      <4> QED BY <4>1, ChunkSubset DEF XType, NbType
    <3>3. Stocked(R1, z)
      BY <1>13 DEF Stocked, Known, Held
    <3> DEFINE f == ExchangeDone(R1, z, q)
    <3>4. /\ f \in XType /\ Known(R1, f) /\ f.n.state \in {LOADING, FULL}
          /\ f.n.ddseq = z.n.ddseq /\ f.n.ddsum = z.n.ddsum /\ f.n.sent = z.n.sent
          /\ Covered(R1, f.n, f.d) = Covered(R1, z.n, z.d) /\ Dds(f.out) = Dds(z.out)
      BY <1>2, <1>9, <1>13, <3>2, <3>3, DoneFields
    <3>5. Rx(R1, f)
      BY <3>1
    <3> HIDE DEF f
    <3>6. Replies(f.out) \subseteq {new}
      BY <1>16, <3>4 DEF Replies
    <3> QED BY <2>7, <2>9, <3>4, <3>5, <3>6
  <2> QED BY <2>8, <2>9
<1> QED BY <1>17, <1>18

(* ----------------------------- the theorems ----------------------------- *)
(* two routers without neighbours *)
LEMMA InitExchange == Init => ExchangeInv /\ Answers
<1> SUFFICES ASSUME Init PROVE ExchangeInv /\ Answers
  OBVIOUS
<1>1. IInv
  BY InitInv
<1>2. \A r \in Router : nb[r] = NoNb /\ ls[r] = BootLs(r) /\ chan[r] = <<>> /\ Peer(r) \in Router
  BY IdAssumption DEF Init, Peer, Router
<1>3. Inventory
  BY <1>2, BootGood, NoNbHeld, NothingSent DEF Inventory
<1>4. R1 \in Router /\ R2 \in Router
  BY DEF Router
<1>5. NoNb.state = DOWN /\ NoNb.ddseq = 0 /\ NoNb.state \in Nat
  BY DEF NoNb, DOWN
<1>6. Time(R2) \in Nat
  BY <1>1, <1>4, TimeType DEF IInv
<1>7. DdBase(nb[R2], Time(R2)) \in Nat
  BY <1>2, <1>4, <1>5, <1>6 DEF DdBase
<1>8. InOrder(chan[R1]) /\ NoReq(chan[R1]) /\ Dds(chan[R1]) = {} /\ Replies(chan[R2]) = {}
  BY <1>2, <1>4, NothingSent DEF InOrder
<1>9. \A v, hi, c : v = NoNb /\ hi \in Nat => Led(v, v, {}, {}, hi, c)
  BY <1>5 DEF Led, DdTypes, DdBounded, DdCurrent, DdAcked, DdWindow, DdFirst, SlaveCovered, DOWN, EXSTART, EXCHANGE, LOADING
<1>10. Exchange
  BY <1>2, <1>4, <1>7, <1>8, <1>9 DEF Exchange
<1>11. \A c, w : Paired(NoNb, NoNb, {}, {}, c, w)
  BY <1>5 DEF Paired, MasterCovered, Synced, NoStrayRequest, Building, DOWN, EXSTART, EXCHANGE, LOADING
<1>12. Answers
  BY <1>2, <1>4, <1>8, <1>11 DEF Answers
<1> QED BY <1>1, <1>3, <1>10, <1>12 DEF ExchangeInv

(* every step keeps the parts of the invariant, the second one unless the     *)
(* slave may fail                                                             *)
LEMMA NextStep == ASSUME ExchangeInv, ClockAhead \/ Unfailed', [Next]_vars PROVE StepKeeps
<1>1. CASE UNCHANGED vars
  <2>1. nb' = nb /\ ls' = ls /\ chan' = chan /\ env' = env
    BY <1>1 DEF vars
  <2>2. Time(R2)' = Time(R2)
    BY <2>1 DEF Time
  <2>3. Inventory'
    BY <2>1 DEF ExchangeInv, Inventory
  <2>4. Exchange'
    BY <2>1, <2>2 DEF ExchangeInv, Exchange
  <2>5. Answers => Answers'
    BY <2>1 DEF Answers
  <2> QED BY <2>3, <2>4, <2>5 DEF StepKeeps
<1>2. ASSUME NEW r \in Router,
             HelloRx(r) \/ Receive(r) \/ Timer(r) \/ Election(r) \/ Environment(r)
      PROVE  StepKeeps
  <2>0. Role[r] \subseteq BOOLEAN
    BY SizeAssumption
  <2>1. CASE HelloRx(r)
    BY <2>1, HelloRxStep
  <2>2. CASE Receive(r)
    BY <2>2, IgnoredStep, MismatchStep, MasterDdStep, SlaveDdStep, LsReqStep, UpdStep, LsAckStep DEF Receive
  <2>3. CASE Timer(r)
    BY <2>3, RxmtStep, FreeLastStep, LsaTimerStep DEF Timer
  <2>4. CASE Election(r)
    BY <2>0, <2>4, WaitStep DEF Election
  <2>5. CASE Environment(r)
    <3>1. (\E changed \in BOOLEAN : InactivityTimer(r, changed)) \/ Restart(r) => ClockAhead
      BY FailureCounts DEF ExchangeInv, IInv, InactivityTimer, Restart
    <3> QED BY <2>0, <2>5, <3>1, HelloElectStep, InactivityStep, LsaTimerStep, LearnedStep, RestartStep, LoseStep
            DEF Environment
  <2> QED BY <1>2, <2>1, <2>2, <2>3, <2>4, <2>5
<1> QED BY <1>1, <1>2 DEF Next

(* the first part is inductive *)
LEMMA NextExchange == ExchangeInv /\ ClockAhead /\ [Next]_vars => ExchangeInv'
BY NextStep, NextInv DEF ExchangeInv, StepKeeps

(* ... and so is the second, when the slave does not fail *)
LEMMA NextAnswers ==
  ASSUME R1 \notin Faulty PROVE ExchangeInv /\ Answers /\ ClockAhead /\ [Next]_vars => Answers'
BY NextStep DEF StepKeeps

(* both are, as long as nobody fails *)
LEMMA NextUnfailed ==
  ExchangeInv /\ Answers /\ [Next]_vars /\ Unfailed' => ExchangeInv' /\ Answers'
BY NextStep, NextInv DEF ExchangeInv, StepKeeps

(* FullHasPeerDatabase of one router *)
HasPeerDatabase(r) ==
  nb[r].state = FULL => \A e \in Ext : Found(ls[r], <<"ext", e>>).seq >= ExtSeq[Peer(r)][e]

(* a Full router that covers what its peer has *)
LEMMA CoveredHas ==
  ASSUME ExchangeInv, NEW r \in Router, nb[r].state = FULL => Complete(Covered(r, nb[r], ls[r]), {})
  PROVE  HasPeerDatabase(r)
<1> SUFFICES ASSUME nb[r].state = FULL, NEW e \in Ext
             PROVE  Found(ls[r], ExtLsa(e)).seq >= ExtSeq[Peer(r)][e]
  BY DEF HasPeerDatabase, ExtLsa
<1>1. nb[r].lsreq = {} /\ GoodDb(r, ls[r])
  BY KnownSelf DEF NbInv, ListsOf, Known, Held
<1>2. e \in Covered(r, nb[r], ls[r])
  BY DEF Complete, LsasOf
<1>3. ls[r].db[<<ExtLsa(e), FALSE>>].seq >= ExtSeq[Peer(r)][e]
  BY <1>1, <1>2 DEF Covered
<1>4. Found(ls[r], ExtLsa(e)) = ls[r].db[<<ExtLsa(e), FALSE>>]
  BY <1>1, FoundExt
<1> QED BY <1>3, <1>4

(* the first part is enough for the slave *)
LEMMA SlaveHas == ExchangeInv => HasPeerDatabase(R1)
<1> SUFFICES ASSUME ExchangeInv PROVE HasPeerDatabase(R1)
  OBVIOUS
<1>1. nb[R1].state = FULL => Complete(Covered(R1, nb[R1], ls[R1]), {})
  BY DEF ExchangeInv, Exchange, Led, SlaveCovered, LOADING, FULL
<1> QED BY <1>1, CoveredHas DEF Router

(* the master needs the second part too *)
LEMMA MasterHas == ExchangeInv /\ Answers => HasPeerDatabase(R2)
<1> SUFFICES ASSUME ExchangeInv, Answers PROVE HasPeerDatabase(R2)
  OBVIOUS
<1>1. nb[R2].state = FULL => Complete(Covered(R2, nb[R2], ls[R2]), {})
  BY DEF Answers, Paired, MasterCovered, LOADING, FULL
<1> QED BY <1>1, CoveredHas DEF Router

(* The router with the lower id has every external LSA its peer booted with   *)
(* when it reports Full, whatever is lost, repeated or delayed and whichever  *)
(* router restarts or is given up in the middle, as long as the numbers that  *)
(* the peer takes from time(NULL) do not run past its clock (ClockAhead;      *)
(* nothing is asked when the peer does not fail).                             *)
THEOREM SlaveFullHasDatabase == Spec /\ []ClockAhead => []HasPeerDatabase(R1)
<1>1. Init => ExchangeInv
  BY InitExchange
<1> QED BY <1>1, NextExchange, SlaveHas, PTL DEF Spec

(* Both routers do, when the one that fails is the router with the higher id. *)
(* Without the condition on R1 this is false: a slave that restarts in the    *)
(* middle of an exchange answers the repeated first packet with its new       *)
(* database, and the master, which has the old answer, drops the new one as a *)
(* duplicate (dbdesc.c:292).                                                  *)
THEOREM FullHasDatabase ==
  ASSUME R1 \notin Faulty PROVE Spec /\ []ClockAhead => []FullHasPeerDatabase
<1> DEFINE I == ExchangeInv /\ Answers
<1>1. Init => I
  BY InitExchange
<1>2. I /\ ClockAhead /\ [Next]_vars => I'
  BY NextExchange, NextAnswers
<1>3. I => FullHasPeerDatabase
  BY SlaveHas, MasterHas DEF FullHasPeerDatabase, HasPeerDatabase, Router
<1> HIDE DEF I
<1> QED BY <1>1, <1>2, <1>3, PTL DEF Spec

(* When neither router fails nothing is asked of the clocks: losses,          *)
(* repetitions, early timers, refreshes, new LSAs and elections in any order  *)
(* leave no router Full without its peer's external LSAs.                     *)
THEOREM UnfailingFullHasDatabase ==
  ASSUME Faulty = {} PROVE Spec => []FullHasPeerDatabase
<1>1. R1 \notin Faulty
  OBVIOUS
<1>2. ClockAhead
  BY DEF ClockAhead
<1>3. Spec /\ []ClockAhead => []FullHasPeerDatabase
  BY <1>1, FullHasDatabase
<1> QED BY <1>2, <1>3, PTL

(* ------------- the exchange of two routers that are left alone ----------- *)
(* The number of the first exchange *)
First == Epoch[R2] + 1

(* on the wire to the master, the slave's first packets precede its answers *)
InitsFirst(w) ==
  \A i, j \in DOMAIN w : i < j /\ w[i].t = "dd" /\ w[j].t = "dd" /\ ~w[i].init => ~w[j].init

(* at most one answer of number v is on the wire *)
Single(w, v) ==
  \A i, j \in DOMAIN w :
    (w[i].t = "dd" /\ ~w[i].init /\ w[i].seq = v) /\ (w[j].t = "dd" /\ ~w[j].init /\ w[j].seq = v) => i = j

(* the wire loses packets, or gets some that are not DD packets *)
Thins(w, v) ==
  Dds(v) \subseteq Dds(w) /\ (InitsFirst(w) => InitsFirst(v)) /\ \A a : Single(w, a) => Single(v, a)

(* In what follows m is the master's neighbour structure and s the slave's,   *)
(* ds the DD packets on the wire to the slave, w the wire to the master.      *)
(* There is one exchange: numbers start at First and no router falls back.    *)
Once(m, s, ds, w) ==
  /\ m.state < EXSTART => m.ddseq = 0 /\ ds = {} /\ s.state < EXCHANGE
  /\ m.state = EXSTART => m.ddseq = First
  /\ m.state >= EXCHANGE => m.ddseq > First /\ s.state >= EXCHANGE /\ Dds(w) = Replies(w)
  /\ \A q \in ds : q.ms /\ (q.init <=> q.seq = First)
  /\ s.state >= EXCHANGE => s.ddseq >= First
  /\ \A p \in Replies(w) : ~p.ms
  /\ Replies(w) # {} => s.state >= EXCHANGE
  /\ InitsFirst(w)

(* The slave is done when it answers the master's last packet with its last   *)
(* answer, which is sent once; the master is done when it has that answer.    *)
Done(m, s, w) ==
  /\ m.state = EXCHANGE /\ ~m.lastdd.more => m.more0
  /\ s.state = EXCHANGE => s.lastdd.more
  /\ \A p \in Replies(w) : ~p.more => s.state >= LOADING
  /\ s.state >= LOADING =>
       /\ m.state >= EXCHANGE /\ m.ddseq = s.ddseq /\ (m.state = EXCHANGE => m.more0)
       /\ \A p \in Replies(w) : p.seq = s.ddseq => ~p.more
       /\ Single(w, s.ddseq)
  /\ m.state >= LOADING => s.state >= LOADING /\ \A p \in Replies(w) : p.seq # m.ddseq

(* What a says of the slave (it holds the master's router-LSA or asks for it) *)
(* is so at the end: until then the LSA is in the rest of the master's summary *)
SlaveLearns(m, s, a) ==
  /\ s.state = EXCHANGE /\ m.state = EXCHANGE =>
       /\ s.ddseq = m.ddseq => a \/ Rtr(R2) \in LsasOf(m.ddsum \ m.sent)
       /\ s.ddseq + 1 = m.ddseq => a \/ Rtr(R2) \in LsasOf(m.ddsum)
  /\ s.state >= LOADING => a

(* ... and what b says of the master *)
MasterLearns(m, s, b) ==
  /\ m.state = EXSTART /\ s.state = EXCHANGE => Rtr(R1) \in LsasOf(s.ddsum)
  /\ s.state = EXCHANGE /\ m.state = EXCHANGE =>
       /\ s.ddseq = m.ddseq => b \/ Rtr(R1) \in LsasOf(s.ddsum)
       /\ s.ddseq + 1 = m.ddseq => b \/ Rtr(R1) \in LsasOf(s.ddsum \ s.sent)
  /\ m.state = EXCHANGE /\ s.state >= LOADING => b
  /\ m.state >= LOADING => b

Calmly(m, s, ds, w, a, b) ==
  Once(m, s, ds, w) /\ Done(m, s, w) /\ SlaveLearns(m, s, a) /\ MasterLearns(m, s, b)

(* a router's part in the exchange does not change *)
Idles(n, q) ==
  /\ q.ddseq = n.ddseq /\ q.ddsum = n.ddsum /\ q.sent = n.sent /\ q.more0 = n.more0
  /\ \/ q.state = n.state
     \/ q.state < EXSTART /\ n.state < EXSTART
     \/ q.state = FULL /\ n.state = LOADING
  /\ Building(q) => q.lastdd = n.lastdd

(* fewer packets, fewer answers *)
LEMMA ThinReplies ==
  ASSUME NEW w, NEW v, Thins(w, v)
  PROVE  Replies(v) \subseteq Replies(w) /\ (Dds(w) = Replies(w) => Dds(v) = Replies(v))
BY DEF Thins, Replies

(* the wire after its first packet was taken or lost *)
LEMMA TailThins ==
  ASSUME NEW w \in Seq(Pkt), w # <<>>
  PROVE  /\ Thins(w, Tail(w))
         /\ Head(w) \in Replies(w) /\ InitsFirst(w) => Dds(Tail(w)) = Replies(Tail(w))
         /\ Head(w) \in Replies(w) /\ Single(w, Head(w).seq) => \A p \in Replies(Tail(w)) : p.seq # Head(w).seq
<1> DEFINE t == Tail(w)
           h == Head(w)
           n == Len(w)
<1>1. /\ n \in Nat /\ n > 0 /\ DOMAIN w = 1..n /\ h = w[1] /\ DOMAIN t = 1..(n - 1)
      /\ \A i \in 1..(n - 1) : t[i] = w[i + 1]
  BY EmptySeq
<1>2. Dds(t) \subseteq Dds(w)
  BY TailWire
<1> HIDE DEF t, h, n
<1>3. \A i \in DOMAIN t : i + 1 \in DOMAIN w /\ t[i] = w[i + 1] /\ 1 < i + 1
  BY <1>1
<1>4. 1 \in DOMAIN w /\ \A i, j \in DOMAIN t : (i < j => i + 1 < j + 1) /\ (i + 1 = j + 1 => i = j)
  BY <1>1
<1>5. InitsFirst(w) => InitsFirst(t)
  BY <1>3, <1>4 DEF InitsFirst
<1>6. ASSUME NEW v, Single(w, v) PROVE Single(t, v)
  BY <1>6, <1>3, <1>4 DEF Single
<1>7. ASSUME h \in Replies(w), InitsFirst(w) PROVE Dds(t) = Replies(t)
  <2>1. w[1].t = "dd" /\ ~w[1].init
    BY <1>7, <1>1 DEF Replies, Dds
  <2>2. \A i \in DOMAIN t : t[i].t = "dd" => ~t[i].init
    BY <2>1, <1>3, <1>4, <1>7 DEF InitsFirst
  <2> QED BY <2>2 DEF Replies, Dds, Pkts
<1>8. ASSUME h \in Replies(w), Single(w, h.seq), NEW p \in Replies(t) PROVE p.seq # h.seq
  <2>1. w[1].t = "dd" /\ ~w[1].init /\ w[1].seq = h.seq
    BY <1>8, <1>1 DEF Replies, Dds
  <2>2. PICK i \in DOMAIN t : p = t[i]
    BY <1>8 DEF Replies, Dds, Pkts
  <2>3. p.t = "dd" /\ ~p.init
    BY <1>8 DEF Replies, Dds
  <2> QED BY <2>1, <2>2, <2>3, <1>3, <1>4, <1>8 DEF Single
<1> QED BY <1>2, <1>5, <1>6, <1>7, <1>8 DEF Thins, t, h

(* the wire after packets were sent *)
LEMMA SentThins ==
  ASSUME NEW w \in Seq(Pkt), NEW o \in Seq(Pkt)
  PROVE  /\ Dds(o) = {} => Thins(w, w \o o)
         /\ (\A p \in Dds(o) : ~p.init) /\ InitsFirst(w) => InitsFirst(w \o o)
         /\ Replies(w) = {} /\ InitsFirst(o) => InitsFirst(w \o o)
         /\ \A v : (\A p \in Replies(w) : p.seq # v) /\ Single(o, v) => Single(w \o o, v)
<1> DEFINE z == w \o o
           m == Len(w)
           n == Len(o)
<1>1. /\ m \in Nat /\ n \in Nat /\ DOMAIN w = 1..m /\ DOMAIN o = 1..n /\ DOMAIN z = 1..(m + n)
      /\ \A i \in 1..(m + n) : z[i] = IF i <= m THEN w[i] ELSE o[i - m]
  OBVIOUS
<1>2. Dds(z) = Dds(w) \union Dds(o)
  BY SentWire
<1> HIDE DEF z, m, n
<1>3. \A i \in DOMAIN z : \/ i \in DOMAIN w /\ z[i] = w[i] /\ i <= m
                          \/ i - m \in DOMAIN o /\ z[i] = o[i - m] /\ i > m
  BY <1>1
<1>4. /\ \A i \in DOMAIN w : w[i] \in Pkts(w)
      /\ \A i \in DOMAIN o : o[i] \in Pkts(o)
  BY DEF Pkts
<1>5. DOMAIN z \subseteq Nat /\ m \in Nat
  BY <1>1
<1>6. ASSUME Dds(o) = {} PROVE Thins(w, z)
  <2>1. \A i \in DOMAIN o : o[i].t # "dd"
    BY <1>6, <1>4 DEF Dds
  <2>2. \A i \in DOMAIN z : z[i].t = "dd" => i \in DOMAIN w /\ z[i] = w[i]
    BY <2>1, <1>3
  <2>3. InitsFirst(w) => InitsFirst(z)
    BY <2>2 DEF InitsFirst
  <2>4. \A v : Single(w, v) => Single(z, v)
    BY <2>2 DEF Single
  <2> QED BY <2>3, <2>4, <1>2, <1>6 DEF Thins
<1>7. ASSUME \A p \in Dds(o) : ~p.init, InitsFirst(w) PROVE InitsFirst(z)
  <2>1. \A i \in DOMAIN o : o[i].t = "dd" => ~o[i].init
    BY <1>7, <1>4 DEF Dds
  <2> QED BY <2>1, <1>3, <1>7, <1>5 DEF InitsFirst
<1>8. ASSUME Replies(w) = {}, InitsFirst(o) PROVE InitsFirst(z)
  <2>1. \A i \in DOMAIN w : w[i].t = "dd" => w[i].init
    BY <1>8, <1>4 DEF Dds, Replies
  <2>2. ASSUME NEW i \in DOMAIN z, NEW j \in DOMAIN z, i < j, z[i].t = "dd", z[j].t = "dd", ~z[i].init
        PROVE  ~z[j].init
    <3>1. i - m \in DOMAIN o /\ z[i] = o[i - m] /\ i > m
      BY <1>3, <2>1, <2>2
    <3>2. j - m \in DOMAIN o /\ z[j] = o[j - m] /\ i - m < j - m
      BY <1>3, <1>5, <2>2, <3>1
    <3> QED BY <3>1, <3>2, <2>2, <1>8 DEF InitsFirst
  <2> QED BY <2>2 DEF InitsFirst
<1>9. ASSUME NEW v, \A p \in Replies(w) : p.seq # v, Single(o, v) PROVE Single(z, v)
  <2>1. \A i \in DOMAIN w : w[i].t = "dd" /\ ~w[i].init => w[i].seq # v
    BY <1>9, <1>4 DEF Dds, Replies
  <2>2. ASSUME NEW i \in DOMAIN z, NEW j \in DOMAIN z, z[i].t = "dd", ~z[i].init, z[i].seq = v,
               z[j].t = "dd", ~z[j].init, z[j].seq = v
        PROVE  i = j
    <3>1. i - m \in DOMAIN o /\ z[i] = o[i - m] /\ j - m \in DOMAIN o /\ z[j] = o[j - m]
      BY <1>3, <2>1, <2>2
    <3>2. i - m = j - m
      BY <3>1, <2>2, <1>9 DEF Single
    <3> QED BY <3>2, <1>5
  <2> QED BY <2>2 DEF Single
<1> QED BY <1>6, <1>7, <1>8, <1>9 DEF z

(* nothing happens to the exchange *)
LEMMA CalmIdle ==
  ASSUME NEW m, NEW s, NEW ds, NEW w, NEW a, NEW b, Calmly(m, s, ds, w, a, b),
         NEW m2, NEW s2, NEW ds2, NEW w2, NEW a2, NEW b2, Idles(m, m2), Idles(s, s2),
         m.state \in Nat, m2.state \in Nat, s.state \in Nat, s2.state \in Nat,
         ds2 \subseteq ds, Thins(w, w2), a => a2, b => b2
  PROVE  Calmly(m2, s2, ds2, w2, a2, b2)
<1> USE DEF Idles, Building, EXSTART, EXCHANGE, LOADING, FULL
<1>1. Replies(w2) \subseteq Replies(w) /\ (Dds(w) = Replies(w) => Dds(w2) = Replies(w2))
  BY ThinReplies
<1>2. (InitsFirst(w) => InitsFirst(w2)) /\ \A v : Single(w, v) => Single(w2, v)
  BY DEF Thins
<1>3. Once(m2, s2, ds2, w2)
  BY <1>1, <1>2 DEF Calmly, Once
<1>4. Done(m2, s2, w2)
  BY <1>1, <1>2 DEF Calmly, Done
<1>5. SlaveLearns(m2, s2, a2)
  BY DEF Calmly, SlaveLearns
<1>6. MasterLearns(m2, s2, b2)
  BY DEF Calmly, MasterLearns
<1> QED BY <1>3, <1>4, <1>5, <1>6 DEF Calmly

(* the master starts the adjacency *)
LEMMA CalmStart ==
  ASSUME NEW m, NEW s, NEW ds, NEW w, NEW a, NEW b, Calmly(m, s, ds, w, a, b),
         NEW m2, NEW ds2, NEW w2, m.state \in Nat, s.state \in Nat,
         m.state < EXSTART, m2.state = EXSTART, m2.ddseq = First, LastDdFits(m2),
         ds2 \subseteq ds \union {m2.lastdd}, Thins(w, w2)
  PROVE  Calmly(m2, s, ds2, w2, a, b)
<1> USE DEF EXSTART, EXCHANGE, LOADING, FULL
<1>1. Replies(w2) \subseteq Replies(w)
  BY ThinReplies
<1>2. (InitsFirst(w) => InitsFirst(w2)) /\ \A v : Single(w, v) => Single(w2, v)
  BY DEF Thins
<1>3. m2.lastdd.ms /\ m2.lastdd.init /\ m2.lastdd.seq = First
  BY DEF LastDdFits, Dd
<1>4. s.state < EXCHANGE /\ ds = {}
  BY DEF Calmly, Once
<1>5. Once(m2, s, ds2, w2)
  BY <1>1, <1>2, <1>3, <1>4 DEF Calmly, Once
<1>6. Done(m2, s, w2)
  BY <1>1, <1>2, <1>4 DEF Calmly, Done
<1>7. SlaveLearns(m2, s, a) /\ MasterLearns(m2, s, b)
  BY <1>4 DEF SlaveLearns, MasterLearns
<1> QED BY <1>5, <1>6, <1>7 DEF Calmly

(* the master repeats its last packet *)
LEMMA CalmMasterRepeats ==
  ASSUME NEW m, NEW s, NEW ds, NEW w, NEW a, NEW b, Calmly(m, s, ds, w, a, b),
         NEW ds2, Building(m), LastDdFits(m), m.state = EXCHANGE => m.master,
         m.ddseq \in Nat, First \in Nat, ds2 = ds \union {m.lastdd}
  PROVE  Calmly(m, s, ds2, w, a, b)
<1> USE DEF EXSTART, EXCHANGE, LOADING, FULL
<1>1. m.lastdd.ms /\ (m.lastdd.init <=> m.lastdd.seq = First)
  <2>1. CASE m.state = EXSTART
    BY <2>1 DEF Calmly, Once, LastDdFits, Dd
  <2>2. CASE m.state = EXCHANGE
    <3>1. m.ddseq > First /\ m.master
      BY <2>2 DEF Calmly, Once
    <3>2. PICK more \in BOOLEAN : m.lastdd = Dd(FALSE, more, m.master, m.ddseq, m.sent)
      BY <2>2 DEF LastDdFits
    <3> QED BY <3>1, <3>2 DEF Dd
  <2> QED BY <2>1, <2>2 DEF Building
<1>2. ~(m.state < EXSTART)
  BY DEF Building
<1>3. Once(m, s, ds2, w)
  BY <1>1, <1>2 DEF Calmly, Once
<1> QED BY <1>3 DEF Calmly

(* the packet a router in Exchange repeats *)
LEMMA ExchangeDd ==
  ASSUME NEW n, n.state = EXCHANGE, LastDdFits(n)
  PROVE  /\ ~n.lastdd.init /\ n.lastdd.seq = n.ddseq /\ n.lastdd.hs = n.sent /\ n.lastdd.t = "dd"
         /\ n.master => n.lastdd.ms
         /\ ~n.master => ~n.lastdd.ms
<1>1. PICK more \in BOOLEAN : n.lastdd = Dd(FALSE, more, n.master, n.ddseq, n.sent)
  BY DEF LastDdFits, EXCHANGE, EXSTART
<1>2. /\ n.lastdd.init = FALSE /\ n.lastdd.seq = n.ddseq /\ n.lastdd.hs = n.sent /\ n.lastdd.t = "dd"
      /\ n.lastdd.ms = n.master
  BY <1>1 DEF Dd
<1> QED BY <1>2

(* the master takes an answer and sends its next packet *)
LEMMA CalmContinues ==
  ASSUME NEW m, NEW s, NEW ds, NEW w \in Seq(Pkt), NEW a, NEW b, Calmly(m, s, ds, w, a, b),
         NEW hi, NEW c1, NEW c2, NEW v, Led(m, s, ds, Replies(w), hi, c1), Paired(m, s, ds, Replies(w), c2, v),
         NEW m2, NEW ds2, NEW b2, w # <<>>, Head(w) \in Replies(w), Head(w).seq = m.ddseq,
         Building(m), First \in Nat, m2.state = EXCHANGE, m2.ddseq = m.ddseq + 1,
         LastDdFits(m2), m2.master, m2.lastdd.more \/ m2.more0,
         m.state = EXSTART => Rtr(R2) \in LsasOf(m2.ddsum),
         m.state = EXCHANGE => m2.ddsum = m.ddsum \ m.sent /\ ~(m.more0 /\ ~Head(w).more),
         ds2 = ds \union {m2.lastdd}, b => b2, Rtr(R1) \in LsasOf(Head(w).hs) => b2
  PROVE  Calmly(m2, s, ds2, Tail(w), a, b2)
<1> USE DEF EXSTART, EXCHANGE, LOADING, FULL
<1> DEFINE t == Tail(w)
           p == Head(w)
<1>1. /\ m.ddseq \in Nat /\ s.state \in Nat /\ s.ddseq \in Nat /\ p.seq \in Nat /\ p \in Replies(w)
      /\ p.seq = m.ddseq /\ (p.seq <= s.ddseq \/ s.state < EXCHANGE)
  BY DEF Led, DdTypes, DdAcked
<1>2. Thins(w, t) /\ Dds(t) = Replies(t)
  BY TailThins DEF Calmly, Once
<1> HIDE DEF t, p
<1>3. Replies(t) \subseteq Replies(w) /\ (InitsFirst(w) => InitsFirst(t)) /\ \A x : Single(w, x) => Single(t, x)
  BY <1>2, ThinReplies DEF Thins
<1>4. s.state >= EXCHANGE /\ m.ddseq >= First /\ ~(m.state < EXSTART)
  BY <1>1 DEF Calmly, Once, Building
<1>5. s.ddseq <= m.ddseq
  BY <1>4 DEF Led, DdBounded, Building
<1>6. s.ddseq = m.ddseq
  BY <1>1, <1>4, <1>5
<1>7. s.state = EXCHANGE
  <2>1. CASE m.state = EXSTART
    BY <2>1, <1>1 DEF Paired, Synced
  <2>2. CASE m.state = EXCHANGE
    <3>1. ASSUME s.state >= LOADING PROVE FALSE
      BY <3>1, <2>2, <1>1, <1>6 DEF Calmly, Done, p
    <3> QED BY <3>1, <1>1, <1>4
  <2> QED BY <2>1, <2>2 DEF Building
<1>8. m2.lastdd.ms /\ ~m2.lastdd.init /\ m2.lastdd.seq = m2.ddseq
  BY ExchangeDd
<1>9. Once(m2, s, ds2, t)
  BY <1>1, <1>2, <1>3, <1>4, <1>8 DEF Calmly, Once
<1>10. Done(m2, s, t)
  BY <1>3, <1>7 DEF Calmly, Done
<1>11. SlaveLearns(m2, s, a)
  <2>1. ~(s.ddseq = m2.ddseq) /\ s.ddseq + 1 = m2.ddseq
    BY <1>1, <1>6
  <2>2. a \/ Rtr(R2) \in LsasOf(m2.ddsum)
    BY <1>6, <1>7 DEF Calmly, SlaveLearns, Building
  <2> QED BY <2>1, <2>2, <1>7 DEF SlaveLearns
<1>12. MasterLearns(m2, s, b2)
  <2>1. ~(s.ddseq = m2.ddseq) /\ s.ddseq + 1 = m2.ddseq
    BY <1>1, <1>6
  <2>2. p.hs = s.sent
    BY <1>1, <1>7 DEF Paired, MasterCovered
  <2>3. b \/ Rtr(R1) \in LsasOf(s.ddsum)
    BY <1>6, <1>7 DEF Calmly, MasterLearns, Building
  <2>4. b2 \/ Rtr(R1) \in LsasOf(s.ddsum \ s.sent)
    BY <2>2, <2>3 DEF LsasOf, p
  <2> QED BY <2>1, <2>4, <1>7 DEF MasterLearns
<1> QED BY <1>9, <1>10, <1>11, <1>12 DEF Calmly, t

(* the master is done: it has the slave's last answer *)
LEMMA CalmConcludes ==
  ASSUME NEW m, NEW s, NEW ds, NEW w \in Seq(Pkt), NEW a, NEW b, Calmly(m, s, ds, w, a, b),
         NEW m2, NEW b2, w # <<>>, Head(w) \in Replies(w), Head(w).seq = m.ddseq, ~Head(w).more,
         s.state \in Nat, m.state = EXCHANGE, m2.state \in {LOADING, FULL}, m2.ddseq = m.ddseq, b => b2
  PROVE  Calmly(m2, s, ds, Tail(w), a, b2)
<1> USE DEF EXSTART, EXCHANGE, LOADING, FULL
<1> DEFINE t == Tail(w)
           p == Head(w)
<1>1. s.state >= LOADING /\ m.ddseq = s.ddseq
  BY DEF Calmly, Done
<1>2. Thins(w, t) /\ Dds(t) = Replies(t) /\ \A q \in Replies(t) : q.seq # p.seq
  BY <1>1, TailThins DEF Calmly, Once, Done
<1> HIDE DEF t, p
<1>3. Replies(t) \subseteq Replies(w) /\ (InitsFirst(w) => InitsFirst(t)) /\ \A x : Single(w, x) => Single(t, x)
  BY <1>2, ThinReplies DEF Thins
<1>4. Once(m2, s, ds, t)
  BY <1>1, <1>2, <1>3 DEF Calmly, Once
<1>5. Done(m2, s, t)
  BY <1>1, <1>2, <1>3 DEF Calmly, Done, p
<1>6. SlaveLearns(m2, s, a) /\ MasterLearns(m2, s, b2)
  BY <1>1 DEF Calmly, SlaveLearns, MasterLearns
<1> QED BY <1>4, <1>5, <1>6 DEF Calmly, t

(* the slave starts the adjacency, or repeats its first packet *)
LEMMA CalmInit ==
  ASSUME NEW m, NEW s, NEW ds, NEW w \in Seq(Pkt), NEW a, NEW b, Calmly(m, s, ds, w, a, b),
         NEW s2, NEW ds2, NEW o \in Seq(Pkt), m.state \in Nat, s.state \in Nat,
         s.state <= EXSTART, s2.state = EXSTART,
         ds2 \subseteq ds, Replies(o) = {}
  PROVE  Calmly(m, s2, ds2, w \o o, a, b)
<1> USE DEF EXSTART, EXCHANGE, LOADING, FULL
<1>1. Replies(w) = {} /\ m.state < EXCHANGE
  BY DEF Calmly, Once
<1>2. Replies(w \o o) = {}
  BY <1>1, SentWire
<1>3. InitsFirst(o)
  BY DEF InitsFirst, Replies, Dds, Pkts
<1>4. InitsFirst(w \o o)
  BY <1>1, <1>3, SentThins
<1>5. Once(m, s2, ds2, w \o o)
  BY <1>1, <1>2, <1>4 DEF Calmly, Once
<1>6. Done(m, s2, w \o o)
  BY <1>1, <1>2 DEF Done
<1>7. SlaveLearns(m, s2, a) /\ MasterLearns(m, s2, b)
  BY <1>1 DEF SlaveLearns, MasterLearns
<1> QED BY <1>5, <1>6, <1>7 DEF Calmly

(* the slave repeats its last answer *)
LEMMA CalmSlaveRepeats ==
  ASSUME NEW m, NEW s, NEW ds, NEW w \in Seq(Pkt), NEW a, NEW b, Calmly(m, s, ds, w, a, b),
         NEW o \in Seq(Pkt), s.state = EXCHANGE, LastDdFits(s), ~s.master, Dds(o) = {s.lastdd}
  PROVE  Calmly(m, s, ds, w \o o, a, b)
<1> USE DEF EXSTART, EXCHANGE, LOADING, FULL
<1>1. s.lastdd.more /\ ~s.lastdd.ms /\ ~s.lastdd.init
  BY ExchangeDd DEF Calmly, Done
<1>2. Replies(o) = {s.lastdd}
  BY <1>1 DEF Replies
<1>3. Replies(w \o o) = Replies(w) \union {s.lastdd} /\ Dds(w \o o) = Dds(w) \union {s.lastdd}
  BY <1>2, SentWire
<1>4. InitsFirst(w) => InitsFirst(w \o o)
  BY <1>1, SentThins
<1> HIDE DEF Replies, Dds
<1>5. Once(m, s, ds, w \o o)
  BY <1>1, <1>3, <1>4 DEF Calmly, Once
<1>6. Done(m, s, w \o o)
  BY <1>1, <1>3 DEF Calmly, Done
<1> QED BY <1>5, <1>6 DEF Calmly

(* the slave takes the master's first packet *)
LEMMA CalmFollows ==
  ASSUME NEW m, NEW s, NEW ds, NEW w \in Seq(Pkt), NEW a, NEW b, Calmly(m, s, ds, w, a, b),
         NEW s2, NEW ds2, NEW o \in Seq(Pkt), NEW p \in ds, m.state \in Nat, s.state \in Nat, First \in Nat,
         p.init, s.state < EXCHANGE, s2.state = EXCHANGE, s2.ddseq = p.seq, LastDdFits(s2),
         ~s2.master, s2.lastdd.more, Rtr(R1) \in LsasOf(s2.ddsum),
         ds2 \subseteq ds, InitsFirst(o), Replies(o) \subseteq {s2.lastdd}
  PROVE  Calmly(m, s2, ds2, w \o o, a, b)
<1> USE DEF EXSTART, EXCHANGE, LOADING, FULL
<1>1. Replies(w) = {} /\ m.state = EXSTART /\ p.seq = First
  BY DEF Calmly, Once
<1>2. Replies(w \o o) \subseteq {s2.lastdd}
  BY <1>1, SentWire
<1>3. InitsFirst(w \o o)
  BY <1>1, SentThins
<1>4. ~s2.lastdd.ms
  BY ExchangeDd
<1>5. Once(m, s2, ds2, w \o o)
  BY <1>1, <1>2, <1>3, <1>4 DEF Calmly, Once
<1>6. Done(m, s2, w \o o)
  BY <1>1, <1>2 DEF Done
<1>7. SlaveLearns(m, s2, a) /\ MasterLearns(m, s2, b)
  BY <1>1 DEF SlaveLearns, MasterLearns
<1> QED BY <1>5, <1>6, <1>7 DEF Calmly

(* the slave takes the next packet and answers it; it may be done *)
LEMMA CalmAnswers ==
  ASSUME NEW m, NEW s, NEW ds, NEW w \in Seq(Pkt), NEW a, NEW b, Calmly(m, s, ds, w, a, b),
         NEW hi, NEW c1, Led(m, s, ds, Replies(w), hi, c1), LastDdFits(m), m.sent \subseteq m.ddsum, First \in Nat,
         NEW s2, NEW ds2, NEW o \in Seq(Pkt), NEW a2, NEW p \in ds, NEW new,
         ~p.init, s.state = EXCHANGE, p.seq = s.ddseq + 1, s2.state \in {EXCHANGE, LOADING, FULL},
         s2.ddseq = p.seq, s2.ddsum = s.ddsum \ s.sent,
         Dds(o) = {new}, ~new.init, ~new.ms, new.seq = p.seq, Single(o, p.seq),
         s2.state = EXCHANGE => new.more /\ s2.lastdd.more,
         s2.state # EXCHANGE => ~new.more /\ ~p.more /\ s2.ddsum = {},
         ds2 \subseteq ds, a => a2, Rtr(R2) \in LsasOf(p.hs) => a2
  PROVE  Calmly(m, s2, ds2, w \o o, a2, b)
<1> USE DEF EXSTART, EXCHANGE, LOADING, FULL
<1>1. m.state \in Nat /\ m.ddseq \in Nat /\ s.ddseq \in Nat /\ p.seq \in Nat /\ s.ddseq >= First
  BY DEF Led, DdTypes, Calmly, Once
<1>2. m.state = EXCHANGE
  <2>1. ~(m.state < EXSTART)
    BY DEF Calmly, Once
  <2>2. m.state # EXSTART
    <3>1. ASSUME m.state = EXSTART PROVE FALSE
      <4>1. m.ddseq = First /\ p.seq <= m.ddseq
        BY <3>1 DEF Calmly, Once, Led, DdBounded
      <4> QED BY <4>1, <1>1
    <3> QED BY <3>1
  <2>3. ~(m.state >= LOADING)
    BY DEF Calmly, Done
  <2> QED BY <1>1, <2>1, <2>2, <2>3
<1>3. p.seq = m.ddseq /\ s.ddseq + 1 = m.ddseq
  <2>1. p.seq <= m.ddseq /\ s.ddseq + 1 >= m.ddseq
    BY <1>2 DEF Led, DdBounded, DdAcked
  <2> QED BY <2>1, <1>1
<1>4. p = m.lastdd /\ p.hs = m.sent /\ (~p.more => m.ddsum = {} /\ m.more0)
  <2>1. p = m.lastdd
    BY <1>2, <1>3 DEF Led, DdCurrent, Building
  <2>2. p.hs = m.sent
    BY <2>1, <1>2, ExchangeDd
  <2>3. ~p.more => m.ddsum = {}
    BY <2>1, <1>2, LastDdFields DEF Building
  <2> QED BY <2>1, <2>2, <2>3, <1>2 DEF Calmly, Done
<1>5. Replies(o) = {new}
  BY DEF Replies
<1>6. Replies(w \o o) = Replies(w) \union {new} /\ Dds(w \o o) = Dds(w) \union {new}
  BY <1>5, SentWire
<1>7. InitsFirst(w) => InitsFirst(w \o o)
  BY SentThins
<1>8. \A q \in Replies(w) : q.seq # p.seq
  BY <1>1 DEF Led, DdAcked, DdTypes
<1>9. Single(w \o o, p.seq)
  BY <1>8, SentThins
<1>10. Once(m, s2, ds2, w \o o)
  BY <1>1, <1>2, <1>3, <1>6, <1>7 DEF Calmly, Once
<1>11. Done(m, s2, w \o o)
  <2>1. \A q \in Replies(w \o o) : ~q.more => s2.state >= LOADING
    BY <1>6 DEF Calmly, Done
  <2>2. ASSUME s2.state >= LOADING PROVE
          /\ m.state >= EXCHANGE /\ m.ddseq = s2.ddseq /\ (m.state = EXCHANGE => m.more0)
          /\ \A q \in Replies(w \o o) : q.seq = s2.ddseq => ~q.more
          /\ Single(w \o o, s2.ddseq)
    BY <2>2, <1>2, <1>3, <1>4, <1>6, <1>8, <1>9
  <2> QED BY <2>1, <2>2, <1>2 DEF Calmly, Done
<1>12. SlaveLearns(m, s2, a2)
  <2>1. a \/ Rtr(R2) \in LsasOf(m.ddsum)
    BY <1>2, <1>3 DEF Calmly, SlaveLearns
  <2>2. a2 \/ Rtr(R2) \in LsasOf(m.ddsum \ m.sent)
    BY <2>1, <1>4 DEF LsasOf
  <2>3. s2.state >= LOADING => a2
    BY <2>2, <1>4 DEF LsasOf
  <2>4. s2.ddseq = m.ddseq /\ s2.ddseq + 1 # m.ddseq
    BY <1>1, <1>3
  <2> QED BY <2>2, <2>3, <2>4 DEF SlaveLearns
<1>13. MasterLearns(m, s2, b)
  <2>1. b \/ Rtr(R1) \in LsasOf(s2.ddsum)
    BY <1>2, <1>3 DEF Calmly, MasterLearns
  <2>2. s2.state >= LOADING => b
    BY <2>1 DEF LsasOf
  <2>3. s2.ddseq = m.ddseq /\ s2.ddseq + 1 # m.ddseq
    BY <1>1, <1>3
  <2> QED BY <2>1, <2>2, <2>3, <1>2 DEF MasterLearns
<1> QED BY <1>10, <1>11, <1>12, <1>13 DEF Calmly

(* no packet is a mismatch: neither router falls back to ExStart *)
LEMMA CalmMatches ==
  ASSUME NEW m, NEW s, NEW ds, NEW w \in Seq(Pkt), NEW a, NEW b, Calmly(m, s, ds, w, a, b),
         NEW hi, NEW c1, NEW c2, NEW v, Led(m, s, ds, Replies(w), hi, c1), Paired(m, s, ds, Replies(w), c2, v),
         First \in Nat
  PROVE  /\ m.state >= EXCHANGE /\ m.master => \A p \in Dds(w) : ~Mismatches(m, p)
         /\ s.state >= EXCHANGE /\ ~s.master => \A q \in ds : ~Mismatches(s, q)
<1> USE DEF EXSTART, EXCHANGE, LOADING, FULL
<1>1. m.state \in Nat /\ m.ddseq \in Nat /\ s.ddseq \in Nat /\ s.state \in Nat
  BY DEF Led, DdTypes
<1>2. ASSUME m.state >= EXCHANGE, m.master, NEW p \in Dds(w) PROVE ~Mismatches(m, p)
  <2>1. p \in Replies(w) /\ ~p.ms /\ ~p.init
    BY <1>2 DEF Calmly, Once, Replies
  <2>2. p.seq \in Nat /\ p.seq <= m.ddseq
    BY <2>1, <1>1, <1>2 DEF Led, DdTypes, DdBounded
  <2>3. CASE m.state = EXCHANGE
    <3>1. ASSUME ~Duplicate(m, p) PROVE NextInSequence(m, p)
      <4>1. p.seq = m.ddseq
        BY <3>1, <2>2, <1>1, <1>2 DEF Duplicate
      <4>2. p.ms # m.master
        BY <2>1, <1>2
      <4> QED BY <4>1, <4>2, <3>1, <2>1, <2>3, <1>2 DEF NextInSequence
    <3> QED BY <3>1, <2>3 DEF Mismatches
  <2>4. CASE m.state >= LOADING
    <3>1. p.seq # m.ddseq
      BY <2>1, <2>4 DEF Calmly, Done
    <3>2. Duplicate(m, p)
      BY <3>1, <2>2, <1>1, <1>2 DEF Duplicate
    <3> QED BY <3>2, <2>1, <2>4 DEF Mismatches
  <2> QED BY <2>3, <2>4, <1>1, <1>2
<1>3. ASSUME s.state >= EXCHANGE, ~s.master, NEW q \in ds PROVE ~Mismatches(s, q)
  <2>1. q.ms /\ (q.init <=> q.seq = First) /\ s.ddseq >= First /\ q.seq \in Nat
    BY <1>3 DEF Calmly, Once, Led, DdTypes
  <2>2. q.seq >= s.ddseq /\ (~q.init => q.seq <= s.ddseq + 1)
    BY <1>3 DEF Led, DdAcked, DdWindow
  <2>3. CASE s.state = EXCHANGE
    <3>1. ASSUME ~Duplicate(s, q) PROVE NextInSequence(s, q)
      <4>1. q.seq >= s.ddseq + 1
        BY <3>1, <2>1, <1>1, <1>3 DEF Duplicate
      <4>2. ~q.init /\ q.seq = s.ddseq + 1
        BY <4>1, <2>1, <2>2, <1>1
      <4> QED BY <4>2, <3>1, <2>1, <2>3, <1>3 DEF NextInSequence
    <3> QED BY <3>1, <2>3 DEF Mismatches
  <2>4. CASE s.state >= LOADING
    <3>1. m.ddseq = s.ddseq /\ m.state >= EXCHANGE
      BY <2>4 DEF Calmly, Done
    <3>2. q.seq <= m.ddseq
      BY <3>1, <1>1 DEF Led, DdBounded
    <3>3. q.seq = s.ddseq
      BY <3>1, <3>2, <2>1, <2>2, <1>1
    <3>4. ~q.init
      BY <3>3, <2>4 DEF Paired, Synced
    <3>5. Duplicate(s, q)
      BY <3>3, <1>1, <1>3 DEF Duplicate
    <3> QED BY <3>4, <3>5, <2>4 DEF Mismatches
  <2> QED BY <2>3, <2>4, <1>1, <1>3
<1> QED BY <1>2, <1>3

(* --------------------- what is said and held is real --------------------- *)
(* the LSAs r originates *)
Own(r) == {Rtr(r), Net(r)}

(* l is in the database *)
Has(d, l) == Present(d, <<l, TRUE>>) \/ Present(d, <<l, FALSE>>)

(* In what follows d is the database of r and g that of its peer.  An         *)
(* instance is real when it is the one its originator has, or one of those    *)
(* the two had of an external LSA at boot.                                    *)
Real(r, d, g, i) ==
  /\ i.seq > 0 /\ ~i.max
  /\ i.l \in Own(r) => i = d.db[<<i.l, TRUE>>]
  /\ i.l \in Own(Peer(r)) => i = g.db[<<i.l, TRUE>>]
  /\ \A e \in Ext : i.l = ExtLsa(e) => i.val = 0 /\ (i.seq <= ExtSeq[R1][e] \/ i.seq <= ExtSeq[R2][e])

(* r may speak of instance i *)
Sure(r, d, g, i) == Real(r, d, g, i) /\ Has(d, i.l)

(* r has real instances, each under the right key, asks for what its peer has *)
(* and has met no older self                                                  *)
Stock(r, n, d, g) ==
  /\ \A k \in Key : d.db[k].seq = 0 => d.db[k] = NoInst(k[1])
  /\ \A k \in Key : Present(d, k) => Real(r, d, g, d.db[k]) /\ d.db[k].l = k[1] /\ (k[2] <=> k[1] \in Own(r))
  /\ \A l \in Lsa : d.old[l] = 0
  /\ \A i \in n.ddsum \union n.rxmt : Sure(r, d, g, i)
  /\ \A l \in n.lsreq : Has(g, l)

(* what r may send *)
PktReal(r, d, g, p) ==
  /\ p.t \in {"dd", "upd", "ack"} => \A i \in p.hs : Sure(r, d, g, i)
  /\ p.t = "req" => \A l \in p.ids : Has(g, l)

Genuine ==
  \A r \in Router : /\ Stock(r, nb[r], ls[r], ls[Peer(r)])
                    /\ \A p \in Pkts(chan[Peer(r)]) : PktReal(r, ls[r], ls[Peer(r)], p)

(* the database gets more LSAs, and what was originated stays *)
Grows(d, e) ==
  /\ \A l \in Lsa : Present(d, <<l, TRUE>>) => e.db[<<l, TRUE>>] = d.db[<<l, TRUE>>]
  /\ \A l \in Lsa : Has(d, l) => Has(e, l)

(* the handler's record is as the invariant wants it *)
Sound(r, x) ==
  /\ x \in XType /\ Grows(ls[r], x.d) /\ Stock(r, x.n, x.d, ls[Peer(r)])
  /\ \A p \in Pkts(x.out) : PktReal(r, x.d, ls[Peer(r)], p)

(* the LSAs of the two routers *)
LEMMA OwnLsas ==
  /\ \A r \in Router : Own(r) \subseteq Lsa /\ Rtr(r) \in Own(r) /\ Net(r) \in Own(r) /\ Rtr(r) # Net(r)
  /\ \A r \in Router : \A l \in Own(r) : l \notin Own(Peer(r)) /\ l[1] # "ext"
  /\ \A l \in Lsa : l[1] # "ext" => \A r \in Router : l \in Own(r) \/ l \in Own(Peer(r))
  /\ \A r \in Router : Peer(Peer(r)) = r
<1>1. /\ \A r \in Router : Own(r) \subseteq Lsa /\ Rtr(r) \in Own(r) /\ Net(r) \in Own(r) /\ Rtr(r) # Net(r)
      /\ \A r \in Router : \A l \in Own(r) : l[1] # "ext"
  BY DEF Own, Rtr, Net, Lsa
<1>2. \A r \in Router : \A l \in Own(r) : l \notin Own(Peer(r))
  BY PeerType DEF Own, Rtr, Net
<1>3. \A r \in Router : Peer(Peer(r)) = r /\ \A q \in Router : q = r \/ q = Peer(r)
  BY DEF Peer, Router
<1>4. ASSUME NEW l \in Lsa, l[1] # "ext", NEW r \in Router PROVE l \in Own(r) \/ l \in Own(Peer(r))
  <2>1. PICK q \in Router : l = Rtr(q) \/ l = Net(q)
    BY <1>4 DEF Lsa
  <2> QED BY <2>1, <1>3 DEF Own
<1> QED BY <1>1, <1>2, <1>3, <1>4

(* what is real stays real *)
LEMMA RealGrows ==
  ASSUME NEW r \in Router, NEW d, NEW e, NEW g, NEW h, NEW i \in Inst, Grows(d, e), Grows(g, h)
  PROVE  /\ Real(r, d, g, i) => Real(r, e, h, i)
         /\ Sure(r, d, g, i) => Sure(r, e, h, i)
<1>1. i.l \in Lsa
  BY DEF Inst
<1>2. Real(r, d, g, i) => Real(r, e, h, i)
  BY <1>1 DEF Real, Grows, Present
<1> QED BY <1>1, <1>2 DEF Sure, Grows

(* ... from both sides *)
LEMMA RealBoth ==
  ASSUME NEW r \in Router, NEW d, NEW g, NEW i PROVE Real(r, d, g, i) <=> Real(Peer(r), g, d, i)
BY OwnLsas DEF Real

LEMMA GrowsSelf == \A d : Grows(d, d)
BY DEF Grows

LEMMA GrowsTrans == ASSUME NEW a, NEW b, NEW c, Grows(a, b), Grows(b, c) PROVE Grows(a, c)
BY DEF Grows, Has, Present

(* packets carry instances and LSAs *)
LEMMA PktFields ==
  ASSUME NEW p \in Pkt
  PROVE  /\ p.t \in {"dd", "upd", "ack"} => p.hs \in SUBSET Inst
         /\ p.t = "req" => p.ids \in SUBSET Lsa
BY DEF Pkt, DdPkt, ReqPkt

(* the step of one router leaves both as they should be *)
LEMMA GenuineStep ==
  ASSUME TypeOK, Genuine, NEW r \in Router, NEW y, Sound(r, y),
         nb' = [nb EXCEPT ![r] = y.n], ls' = [ls EXCEPT ![r] = y.d],
         Pkts(chan'[r]) \subseteq Pkts(chan[r]),
         Pkts(chan'[Peer(r)]) = Pkts(chan[Peer(r)]) \union Pkts(y.out)
  PROVE  Genuine'
<1> DEFINE g == ls[Peer(r)]
<1>1. /\ Peer(r) \in Router /\ Peer(r) # r /\ Peer(Peer(r)) = r
      /\ \A q \in Router : q = r \/ q = Peer(r)
  BY PeerType, OwnLsas DEF Router, Peer
<1>2. /\ nb'[r] = y.n /\ nb'[Peer(r)] = nb[Peer(r)] /\ ls'[r] = y.d /\ ls'[Peer(r)] = g
      /\ nb[Peer(r)] \in NbType /\ g \in LsType /\ chan[r] \in Seq(Pkt) /\ chan[Peer(r)] \in Seq(Pkt)
  BY <1>1 DEF TypeOK
<1>3. Grows(ls[r], y.d) /\ Grows(g, g)
  BY GrowsSelf DEF Sound
<1>4. Stock(r, y.n, y.d, g)
  BY DEF Sound
<1>5. ASSUME NEW p \in Pkts(chan[Peer(r)]) \union Pkts(y.out) PROVE PktReal(r, y.d, g, p)
  <2>1. CASE p \in Pkts(y.out)
    BY <2>1 DEF Sound
  <2>2. CASE p \in Pkts(chan[Peer(r)])
    <3>1. p \in Pkt /\ PktReal(r, ls[r], g, p)
      BY <2>2, <1>2, DdsType DEF Genuine
    <3>2. p.t \in {"dd", "upd", "ack"} => \A i \in p.hs : i \in Inst /\ Sure(r, ls[r], g, i)
      BY <3>1, PktFields DEF PktReal
    <3>3. p.t \in {"dd", "upd", "ack"} => \A i \in p.hs : Sure(r, y.d, g, i)
      BY <3>2, <1>3, RealGrows
    <3> QED BY <3>1, <3>3 DEF PktReal
  <2> QED BY <1>5, <2>1, <2>2
<1>6. Stock(Peer(r), nb[Peer(r)], g, y.d)
  <2>1. Stock(Peer(r), nb[Peer(r)], g, ls[r])
    BY <1>1 DEF Genuine
  <2>2. ASSUME NEW i \in nb[Peer(r)].ddsum \union nb[Peer(r)].rxmt PROVE Sure(Peer(r), g, y.d, i)
    <3>1. i \in Inst
      BY <1>2 DEF NbType
    <3>2. Sure(Peer(r), g, ls[r], i)
      BY <2>1 DEF Stock
    <3> QED BY <3>1, <3>2, <1>1, <1>3, RealGrows
  <2>3. ASSUME NEW k \in Key, Present(g, k) PROVE Real(Peer(r), g, y.d, g.db[k])
    <3>1. g.db[k] \in Inst
      BY <1>2, SeqType
    <3>2. Real(Peer(r), g, ls[r], g.db[k])
      BY <2>1, <2>3 DEF Stock
    <3> QED BY <3>1, <3>2, <1>1, <1>3, RealGrows
  <2>4. nb[Peer(r)].lsreq \subseteq Lsa
    BY <1>2 DEF NbType
  <2>5. \A l \in nb[Peer(r)].lsreq : Has(y.d, l)
    BY <2>1, <2>4, <1>3 DEF Stock, Grows
  <2> HIDE DEF g
  <2> QED BY <2>1, <2>2, <2>3, <2>5 DEF Stock
<1>7. ASSUME NEW p \in Pkts(chan[r]) PROVE PktReal(Peer(r), g, y.d, p)
  <2>1. p \in Pkt /\ PktReal(Peer(r), g, ls[r], p)
    BY <1>7, <1>1, <1>2, DdsType DEF Genuine
  <2>2. p.t \in {"dd", "upd", "ack"} => \A i \in p.hs : i \in Inst /\ Sure(Peer(r), g, ls[r], i)
    BY <2>1, PktFields DEF PktReal
  <2>3. p.t \in {"dd", "upd", "ack"} => \A i \in p.hs : Sure(Peer(r), g, y.d, i)
    BY <2>2, <1>1, <1>3, RealGrows
  <2>4. p.t = "req" => \A l \in p.ids : l \in Lsa /\ Has(ls[r], l)
    BY <2>1, PktFields DEF PktReal
  <2>5. p.t = "req" => \A l \in p.ids : Has(y.d, l)
    BY <2>4, <1>3 DEF Grows
  <2> QED BY <2>3, <2>5 DEF PktReal
<1>8. /\ Stock(r, nb'[r], ls'[r], ls'[Peer(r)])
      /\ \A p \in Pkts(chan'[Peer(r)]) : PktReal(r, ls'[r], ls'[Peer(r)], p)
  BY <1>2, <1>4, <1>5
<1>9. /\ Stock(Peer(r), nb'[Peer(r)], ls'[Peer(r)], ls'[r])
      /\ \A p \in Pkts(chan'[r]) : PktReal(Peer(r), ls'[Peer(r)], ls'[r], p)
  BY <1>2, <1>6, <1>7
<1> HIDE DEF g
<1>10. ASSUME NEW q \in Router PROVE /\ Stock(q, nb'[q], ls'[q], ls'[Peer(q)])
                                    /\ \A p \in Pkts(chan'[Peer(q)]) : PktReal(q, ls'[q], ls'[Peer(q)], p)
  <2>1. CASE q = r
    BY <2>1, <1>8
  <2>2. CASE q = Peer(r)
    BY <2>2, <1>1, <1>9
  <2> QED BY <2>1, <2>2, <1>1
<1> QED BY <1>10 DEF Genuine, Stock, PktReal, Sure, Real, Has, Present, Pkts

(* what the handler may say: what it has listed or holds *)
Says(x) == x.n.ddsum \union x.n.rxmt \union Snapshot(x.d)

Fair(r, x, p) ==
  /\ p.t \in {"dd", "upd", "ack"} => p.hs \subseteq Says(x)
  /\ p.t = "req" => \A l \in p.ids : l \in x.n.lsreq \/ Has(ls[Peer(r)], l)

LEMMA SoundSelf ==
  ASSUME TypeOK, Genuine, NEW r \in Router PROVE Sound(r, Self(r)) /\ Self(r).d = ls[r] /\ Self(r).n = nb[r]
<1>1. Self(r) \in XType /\ Self(r).d = ls[r] /\ Self(r).n = nb[r] /\ Self(r).out = <<>>
  BY SelfType DEF Self
<1>2. Grows(ls[r], ls[r]) /\ Pkts(<<>>) = {}
  BY GrowsSelf, NothingSent
<1> QED BY <1>1, <1>2 DEF Sound, Genuine

(* whatever is listed or held is sure *)
LEMMA SaysSure ==
  ASSUME NEW r \in Router, NEW x, Sound(r, x), NEW i \in Says(x) PROVE Sure(r, x.d, ls[Peer(r)], i)
<1> DEFINE g == ls[Peer(r)]
<1>1. Stock(r, x.n, x.d, g)
  BY DEF Sound
<1>2. CASE i \in x.n.ddsum \union x.n.rxmt
  BY <1>1, <1>2 DEF Stock
<1>3. CASE i \in Snapshot(x.d)
  <2>1. PICK k \in Key : Present(x.d, k) /\ i = x.d.db[k]
    BY <1>3 DEF Snapshot
  <2>2. Real(r, x.d, g, i) /\ i.l = k[1]
    BY <1>1, <2>1 DEF Stock
  <2>3. k = <<k[1], k[2]>> /\ k[2] \in BOOLEAN
    BY KeyType
  <2>4. Has(x.d, i.l)
    BY <2>1, <2>2, <2>3 DEF Has
  <2> QED BY <2>2, <2>4 DEF Sure
<1> QED BY <1>2, <1>3 DEF Says

(* the database keeps its entries *)
LEMMA SoundSame ==
  ASSUME NEW r \in Router, NEW x, Sound(r, x), NEW z \in XType, z.d.db = x.d.db, z.d.old = x.d.old,
         z.n.ddsum \subseteq Says(x), z.n.rxmt \subseteq Says(x),
         \A l \in z.n.lsreq : l \in x.n.lsreq \/ Has(ls[Peer(r)], l),
         \A p \in Pkts(z.out) : p \in Pkts(x.out) \/ Fair(r, x, p)
  PROVE  Sound(r, z)
<1> DEFINE g == ls[Peer(r)]
<1>1. \A i : (Real(r, x.d, g, i) <=> Real(r, z.d, g, i)) /\ (Sure(r, x.d, g, i) <=> Sure(r, z.d, g, i))
  BY DEF Real, Sure, Has, Present
<1>2. Grows(ls[r], z.d)
  BY DEF Sound, Grows, Has, Present
<1>3. Stock(r, x.n, x.d, g)
  BY DEF Sound
<1>4. \A i \in Says(x) : Sure(r, z.d, g, i)
  BY <1>1, SaysSure
<1> HIDE DEF g
<1>5. Stock(r, z.n, z.d, g)
  BY <1>1, <1>3, <1>4 DEF Stock, Present, g
<1>6. ASSUME NEW p \in Pkts(z.out) PROVE PktReal(r, z.d, g, p)
  <2>1. CASE p \in Pkts(x.out)
    <3>1. PktReal(r, x.d, g, p)
      BY <2>1 DEF Sound, g
    <3> QED BY <3>1, <1>1 DEF PktReal
  <2>2. CASE Fair(r, x, p)
    <3>1. \A l \in x.n.lsreq : Has(g, l)
      BY <1>3 DEF Stock
    <3> QED BY <2>2, <3>1, <1>4 DEF PktReal, Fair, g
  <2> QED BY <2>1, <2>2
<1> QED BY <1>2, <1>5, <1>6 DEF Sound, g

(* a new LSA of r, or one that stays as it was *)
LEMMA OriginateSound ==
  ASSUME NEW r \in Router, NEW x, Sound(r, x), NEW l \in Own(r), NEW val \in Nat, NEW changed \in BOOLEAN,
         ~Present(x.d, <<l, TRUE>>) \/ ~changed,
         NEW z \in XType, z.n = x.n, z.out = x.out,
         z.d.db = Originate(x.d, l, val, changed).db, z.d.old = Originate(x.d, l, val, changed).old
  PROVE  Sound(r, z) /\ Present(z.d, <<l, TRUE>>) /\ Grows(x.d, z.d)
         /\ \A k \in Key : k # <<l, TRUE>> => z.d.db[k] = x.d.db[k]
<1> DEFINE g == ls[Peer(r)]
           kl == <<l, TRUE>>
<1>0. /\ x \in XType /\ x.d \in LsType /\ z.d \in LsType /\ x.n \in NbType /\ x.out \in Seq(Pkt)
      /\ l \in Lsa /\ kl \in Key /\ x.d.next \in Nat \ {0} /\ x.d.db \in [Key -> Inst] /\ x.d.old \in [Lsa -> Nat]
  BY OwnLsas, KeyType DEF Sound, XType, LsType
<1>1. CASE Present(x.d, kl)
  <2>1. z.d.db = x.d.db /\ z.d.old = x.d.old
    BY <1>1, <1>0 DEF Originate, LsType
  <2>2. Sound(r, z)
    BY <2>1, SoundSame DEF Says
  <2> QED BY <2>1, <2>2, <1>1, GrowsSelf DEF Present, Grows, Has
<1>2. CASE ~Present(x.d, kl)
  <2> DEFINE new == [l |-> l, seq |-> x.d.next, val |-> val, max |-> FALSE]
  <2>1. /\ z.d.db[kl] = new /\ z.d.old = [x.d.old EXCEPT ![l] = 0]
        /\ \A k \in Key : k # kl => z.d.db[k] = x.d.db[k]
    BY <1>2, <1>0 DEF Originate, LsType
  <2>2. Stock(r, x.n, x.d, g)
    BY DEF Sound
  <2>3. new.seq > 0 /\ ~new.max /\ new.l = l /\ Present(z.d, kl)
    BY <2>1, <1>0 DEF Present
  <2>4. Grows(x.d, z.d)
    <3>1. ASSUME NEW a \in Lsa, Present(x.d, <<a, TRUE>>) PROVE z.d.db[<<a, TRUE>>] = x.d.db[<<a, TRUE>>]
      BY <3>1, <1>2, <2>1, KeyType
    <3>2. ASSUME NEW a \in Lsa, Has(x.d, a) PROVE Has(z.d, a)
      BY <3>2, <3>1, <2>1, KeyType DEF Has, Present
    <3> QED BY <3>1, <3>2 DEF Grows
  <2>5. \A i \in Inst : (Real(r, x.d, g, i) => Real(r, z.d, g, i)) /\ (Sure(r, x.d, g, i) => Sure(r, z.d, g, i))
    BY <2>4, GrowsSelf, RealGrows
  <2>6. Real(r, z.d, g, new)
    <3>1. l \notin Own(Peer(r)) /\ l[1] # "ext"
      BY OwnLsas
    <3> QED BY <2>1, <2>3, <3>1, ExtKey DEF Real
  <2>7. Stock(r, z.n, z.d, g)
    <3>1. ASSUME NEW k \in Key, z.d.db[k].seq = 0 PROVE z.d.db[k] = NoInst(k[1])
      <4>1. k # kl
        <5> HIDE DEF kl
        <5> QED BY <3>1, <2>3 DEF Present
      <4>2. z.d.db[k] = x.d.db[k]
        BY <4>1, <2>1
      <4> QED BY <4>2, <3>1, <2>2 DEF Stock
    <3>2. ASSUME NEW k \in Key, Present(z.d, k)
          PROVE  Real(r, z.d, g, z.d.db[k]) /\ z.d.db[k].l = k[1] /\ (k[2] <=> k[1] \in Own(r))
      <4>1. CASE k = kl
        BY <4>1, <2>1, <2>3, <2>6
      <4>2. CASE k # kl
        <5>1. z.d.db[k] = x.d.db[k] /\ x.d.db[k] \in Inst /\ Present(x.d, k)
          BY <4>2, <2>1, <3>2, <1>0 DEF Present
        <5> QED BY <5>1, <2>2, <2>5 DEF Stock
      <4> QED BY <4>1, <4>2
    <3>3. \A a \in Lsa : z.d.old[a] = 0
      BY <2>1, <2>2, <1>0 DEF Stock
    <3>4. x.n.ddsum \subseteq Inst /\ x.n.rxmt \subseteq Inst
      BY <1>0 DEF NbType
    <3>5. \A i \in z.n.ddsum \union z.n.rxmt : Sure(r, z.d, g, i)
      BY <3>4, <2>2, <2>5 DEF Stock
    <3>6. \A a \in z.n.lsreq : Has(g, a)
      BY <2>2 DEF Stock
    <3> HIDE DEF g, kl, new
    <3> QED BY <3>1, <3>2, <3>3, <3>5, <3>6 DEF Stock
  <2>8. ASSUME NEW p \in Pkts(z.out) PROVE PktReal(r, z.d, g, p)
    <3>1. PktReal(r, x.d, g, p) /\ p \in Pkt
      BY <2>8, <1>0, DdsType DEF Sound
    <3>2. p.t \in {"dd", "upd", "ack"} => \A i \in p.hs : Sure(r, z.d, g, i)
      BY <3>1, <2>5, PktFields DEF PktReal
    <3> QED BY <3>1, <3>2 DEF PktReal
  <2>9. Grows(ls[r], z.d)
    BY <2>4, GrowsTrans DEF Sound
  <2> QED BY <2>1, <2>3, <2>4, <2>7, <2>8, <2>9 DEF Sound
<1> QED BY <1>1, <1>2

(* ... when its contents are not compared *)
LEMMA OriginateKeeps ==
  ASSUME NEW r \in Router, NEW x, Sound(r, x), NEW l \in Own(r), NEW val \in Nat,
         NEW z \in XType, z.n = x.n, z.out = x.out, z.d = Originate(x.d, l, val, FALSE)
  PROVE  Sound(r, z) /\ Present(z.d, <<l, TRUE>>) /\ Grows(x.d, z.d)
         /\ \A k \in Key : k # <<l, TRUE>> => z.d.db[k] = x.d.db[k]
<1>1. ASSUME NEW c \in BOOLEAN, c = FALSE
      PROVE  Sound(r, z) /\ Present(z.d, <<l, TRUE>>) /\ Grows(x.d, z.d)
             /\ \A k \in Key : k # <<l, TRUE>> => z.d.db[k] = x.d.db[k]
  <2>1. Originate(x.d, l, val, c) = Originate(x.d, l, val, FALSE) /\ ~c
    BY <1>1
  <2>2. z.d.db = Originate(x.d, l, val, c).db /\ z.d.old = Originate(x.d, l, val, c).old
    BY <2>1
  <2>3. QED BY <2>1, <2>2, OriginateSound
<1>2. QED BY <1>1

(* lsupdateRx stores what the peer says *)
LEMMA StoreSound ==
  ASSUME NEW r \in Router, NEW x, Sound(r, x), NEW hs \in SUBSET Inst,
         \A h \in hs : Sure(Peer(r), ls[Peer(r)], x.d, h),
         NEW z \in XType, z.n = x.n, z.out = x.out, z.d = Store(x.d, hs)
  PROVE  /\ Sound(r, z) /\ Grows(x.d, z.d)
         /\ \A h \in hs : Sure(r, z.d, ls[Peer(r)], h)
         /\ \A l \in Lsa : z.d.db[<<l, TRUE>>] = x.d.db[<<l, TRUE>>]
<1> DEFINE g == ls[Peer(r)]
<1>0. /\ x \in XType /\ x.d \in LsType /\ z.d \in LsType /\ x.n \in NbType /\ x.out \in Seq(Pkt)
      /\ x.d.db \in [Key -> Inst] /\ x.d.old \in [Lsa -> Nat]
  BY DEF Sound, XType, LsType
<1>1. Stock(r, x.n, x.d, g)
  BY DEF Sound
<1>2. \A h \in hs : Real(r, x.d, g, h) /\ Has(g, h.l) /\ h.seq > 0 /\ ~h.max /\ h.l \in Lsa /\ h.seq \in Nat
  <2>1. \A h \in hs : Real(r, x.d, g, h) /\ Has(g, h.l)
    BY RealBoth DEF Sure
  <2>2. \A h \in hs : h.l \in Lsa /\ h.seq \in Nat
    BY DEF Inst
  <2> QED BY <2>1, <2>2 DEF Real
<1>3. ASSUME NEW k \in Key
      PROVE  \/ z.d.db[k] = x.d.db[k] /\ ~(~k[2] /\ \E h \in hs : Installs(x.d, h) /\ h.l = k[1])
             \/ ~k[2] /\ z.d.db[k] \in hs /\ Installs(x.d, z.d.db[k]) /\ z.d.db[k].l = k[1]
  <2>1. Stored(x.d, hs, k, z.d.db[k])
    BY <1>0, StoreEntry
  <2> QED BY <2>1, <1>2 DEF Stored
<1> HIDE DEF g
<1>4. ASSUME NEW l \in Lsa PROVE z.d.db[<<l, TRUE>>] = x.d.db[<<l, TRUE>>]
  <2>1. <<l, TRUE>> \in Key /\ <<l, TRUE>>[2] = TRUE
    BY KeyType
  <2> QED BY <2>1, <1>3
<1>5. ASSUME NEW h \in hs, Installs(x.d, h) PROVE h.l \notin Own(r)
  <2>1. ASSUME h.l \in Own(r) PROVE FALSE
    <3>1. h = x.d.db[<<h.l, TRUE>>] /\ Present(x.d, <<h.l, TRUE>>)
      BY <2>1, <1>2 DEF Real, Present
    <3>2. Found(x.d, h.l).seq # 0
      BY <3>1, <1>2 DEF Found
    <3> QED BY <3>1, <3>2, <1>5 DEF Installs
  <2> QED BY <2>1
<1>6. ASSUME NEW l \in Lsa, Has(x.d, l) PROVE Has(z.d, l)
  <2>1. CASE Present(x.d, <<l, TRUE>>)
    BY <2>1, <1>4 DEF Has, Present
  <2>2. CASE Present(x.d, <<l, FALSE>>)
    <3>1. <<l, FALSE>> \in Key
      BY KeyType
    <3>2. z.d.db[<<l, FALSE>>] = x.d.db[<<l, FALSE>>] \/ z.d.db[<<l, FALSE>>] \in hs
      BY <3>1, <1>3
    <3> QED BY <2>2, <3>2, <1>2 DEF Has, Present
  <2> QED BY <1>6, <2>1, <2>2 DEF Has
<1>7. Grows(x.d, z.d)
  BY <1>4, <1>6 DEF Grows, Present
<1>8. \A i \in Inst : (Real(r, x.d, g, i) => Real(r, z.d, g, i)) /\ (Sure(r, x.d, g, i) => Sure(r, z.d, g, i))
  BY <1>7, GrowsSelf, RealGrows
<1>9. ASSUME NEW h \in hs PROVE Sure(r, z.d, g, h)
  <2>1. Real(r, z.d, g, h)
    BY <1>2, <1>8
  <2>2. CASE Installs(x.d, h)
    <3>1. <<h.l, FALSE>> \in Key /\ <<h.l, FALSE>>[1] = h.l /\ ~<<h.l, FALSE>>[2]
      BY <1>2, KeyType
    <3>2. z.d.db[<<h.l, FALSE>>] \in hs
      BY <3>1, <2>2, <1>3
    <3> QED BY <3>2, <2>1, <1>2 DEF Sure, Has, Present
  <2>3. CASE ~Installs(x.d, h)
    <3>1. Found(x.d, h.l).seq # 0
      <4>1. ASSUME Found(x.d, h.l).seq = 0 PROVE Installs(x.d, h)
        BY <4>1, <1>2 DEF Installs
      <4> QED BY <4>1, <2>3
    <3>2. Found(x.d, h.l) \in Inst
      BY <1>0, <1>2, FoundType
    <3>3. Found(x.d, h.l).seq > 0
      BY <3>1, <3>2 DEF Inst
    <3>4. Has(x.d, h.l)
      BY <3>3 DEF Found, Has, Present
    <3> QED BY <3>4, <2>1, <1>2, <1>6 DEF Sure
  <2> QED BY <2>2, <2>3
<1>10. z.d.old = x.d.old
  <2>1. ASSUME NEW h \in hs, IsOldSelf(x.d, h) PROVE FALSE
    <3>1. Present(x.d, <<h.l, TRUE>>) /\ Found(x.d, h.l).seq < h.seq /\ <<h.l, TRUE>> \in Key
      BY <2>1, <1>2, KeyType DEF IsOldSelf
    <3>2. h.l \in Own(r)
      BY <3>1, <1>1 DEF Stock
    <3>3. Found(x.d, h.l) = h
      BY <3>1, <3>2, <1>2, Zenon DEF Found, Real
    <3> QED BY <3>1, <3>3, <1>2
  <2>2. z.d.old = [l \in Lsa |-> IF \E h \in {a \in hs : IsOldSelf(x.d, a)} : h.l = l
                                 THEN (CHOOSE h \in {a \in hs : IsOldSelf(x.d, a)} : h.l = l).seq ELSE x.d.old[l]]
    BY <1>0, Zenon DEF Store, LsType
  <2>3. \A l \in Lsa : z.d.old[l] = x.d.old[l]
    BY <2>1, <2>2
  <2>4. z.d.old \in [Lsa -> Nat]
    BY <1>0 DEF LsType
  <2> QED BY <2>3, <2>4, <1>0
<1>11. Stock(r, z.n, z.d, g)
  <2>1. ASSUME NEW k \in Key, z.d.db[k].seq = 0 PROVE z.d.db[k] = NoInst(k[1])
    <3>1. z.d.db[k] = x.d.db[k]
      BY <2>1, <1>2, <1>3
    <3> QED BY <2>1, <3>1, <1>1 DEF Stock
  <2>2. ASSUME NEW k \in Key, Present(z.d, k)
        PROVE  Real(r, z.d, g, z.d.db[k]) /\ z.d.db[k].l = k[1] /\ (k[2] <=> k[1] \in Own(r))
    <3>1. CASE z.d.db[k] = x.d.db[k]
      <4>1. Present(x.d, k) /\ x.d.db[k] \in Inst
        BY <2>2, <3>1, <1>0 DEF Present
      <4> QED BY <4>1, <3>1, <1>1, <1>8 DEF Stock
    <3>2. CASE ~k[2] /\ z.d.db[k] \in hs /\ Installs(x.d, z.d.db[k]) /\ z.d.db[k].l = k[1]
      BY <3>2, <1>5, <1>9 DEF Sure
    <3> QED BY <3>1, <3>2, <1>3
  <2>3. x.n.ddsum \subseteq Inst /\ x.n.rxmt \subseteq Inst
    BY <1>0 DEF NbType
  <2>4. \A i \in z.n.ddsum \union z.n.rxmt : Sure(r, z.d, g, i)
    BY <2>3, <1>1, <1>8 DEF Stock
  <2>5. \A l \in Lsa : z.d.old[l] = 0
    BY <1>1, <1>10 DEF Stock
  <2>6. \A l \in z.n.lsreq : Has(g, l)
    BY <1>1 DEF Stock
  <2> QED BY <2>1, <2>2, <2>4, <2>5, <2>6 DEF Stock
<1>12. ASSUME NEW p \in Pkts(z.out) PROVE PktReal(r, z.d, g, p)
  <2>1. PktReal(r, x.d, g, p) /\ p \in Pkt
    BY <1>12, <1>0, DdsType DEF Sound, g
  <2>2. p.t \in {"dd", "upd", "ack"} => \A i \in p.hs : Sure(r, z.d, g, i)
    BY <2>1, <1>8, PktFields DEF PktReal
  <2> QED BY <2>1, <2>2 DEF PktReal
<1>13. Grows(ls[r], z.d)
  BY <1>7, GrowsTrans DEF Sound
<1> QED BY <1>4, <1>7, <1>9, <1>11, <1>12, <1>13 DEF Sound, g

(* -------------------- two routers that are left alone -------------------- *)
(* Nobody has failed and nothing has changed since the routers booted *)
Calm == Unfailed /\ env["change"] = 0

(* An adjacency starts after the election, which originates the router-LSA; n *)
(* is the neighbour structure of r, q that of its peer                        *)
Begun(r, n, d, q, adjacent, isdr) ==
  /\ adjacent <=> Present(d, <<Rtr(r), TRUE>>)
  /\ adjacent => isdr \in Role[r]
  /\ n.state >= EXSTART => adjacent
  /\ n.state >= TWOWAY => q.state # DOWN

Started ==
  \A r \in Router : /\ Begun(r, nb[r], ls[r], nb[Peer(r)], adj[r], dr[r])
                    /\ Dds(chan[Peer(r)]) # {} => nb[r].state # DOWN

(* A network-LSA is originated in Full and flooded until the peer has it; g   *)
(* is the database of the peer                                                *)
Announced(r, n, d, g, isdr) ==
  Present(d, <<Net(r), TRUE>>) =>
    /\ n.state = FULL /\ isdr
    /\ <<Net(r), TRUE>> \in d.flood \/ Net(r) \in LsasOf(n.rxmt) \/ Has(g, Net(r))

Told == \A r \in Router : Announced(r, nb[r], ls[r], ls[Peer(r)], dr[r])

(* r has the router-LSA of its peer, or asks for it *)
Aware(r, n, d) == Has(d, Rtr(Peer(r))) \/ Rtr(Peer(r)) \in n.lsreq

Exchanging ==
  Calmly(nb[R2], nb[R1], Dds(chan[R1]), chan[R2], Aware(R1, nb[R1], ls[R1]), Aware(R2, nb[R2], ls[R2]))

Orderly == Genuine /\ Started /\ Told /\ Exchanging

(* the invariant: nothing is claimed once a router has failed or an LSA changed *)
CalmInv == IInv /\ (Calm => ExchangeInv /\ Answers /\ Orderly)

(* a step of r: it reads or loses a packet, or none, and sends y.out *)
Acts(r, y) ==
  /\ nb' = [nb EXCEPT ![r] = y.n]
  /\ ls' = [ls EXCEPT ![r] = y.d]
  /\ chan'[r] = chan[r] \/ (chan[r] # <<>> /\ chan'[r] = Tail(chan[r]))
  /\ chan'[Peer(r)] = chan[Peer(r)] \o y.out
  /\ adj'[Peer(r)] = adj[Peer(r)] /\ dr'[Peer(r)] = dr[Peer(r)]

(* ... that leaves what is said of r alone true *)
Ready(r, y) ==
  /\ Sound(r, y)
  /\ Begun(r, y.n, y.d, nb[Peer(r)], adj'[r], dr'[r])
  /\ Announced(r, y.n, y.d, ls[Peer(r)], dr'[r])
  /\ Dds(y.out) # {} \/ nb[r].state # DOWN => y.n.state # DOWN

(* what a step of r does to the variables *)
LEMMA ActsFields ==
  ASSUME TypeOK, NEW r \in Router, NEW y \in XType, Acts(r, y)
  PROVE  /\ nb'[r] = y.n /\ ls'[r] = y.d /\ nb'[Peer(r)] = nb[Peer(r)] /\ ls'[Peer(r)] = ls[Peer(r)]
         /\ y.n \in NbType /\ y.d \in LsType /\ y.out \in Seq(Pkt)
         /\ nb[r] \in NbType /\ nb[Peer(r)] \in NbType /\ ls[r] \in LsType /\ ls[Peer(r)] \in LsType
         /\ chan[r] \in Seq(Pkt) /\ chan[Peer(r)] \in Seq(Pkt)
         /\ Pkts(chan'[r]) \subseteq Pkts(chan[r]) /\ Dds(chan'[r]) \subseteq Dds(chan[r])
         /\ Thins(chan[r], chan'[r])
         /\ Pkts(chan'[Peer(r)]) = Pkts(chan[Peer(r)]) \union Pkts(y.out)
         /\ Dds(chan'[Peer(r)]) = Dds(chan[Peer(r)]) \union Dds(y.out)
         /\ Dds(y.out) = {} => Thins(chan[Peer(r)], chan'[Peer(r)])
<1>1. Peer(r) \in Router /\ Peer(r) # r
  BY PeerType
<1>2. /\ y.n \in NbType /\ y.d \in LsType /\ y.out \in Seq(Pkt)
      /\ nb \in [Router -> NbType] /\ ls \in [Router -> LsType] /\ chan \in [Router -> Seq(Pkt)]
  BY DEF TypeOK, XType
<1>3. chan[r] \in Seq(Pkt) /\ chan[Peer(r)] \in Seq(Pkt)
  BY <1>1, <1>2
<1>4. Pkts(chan'[r]) \subseteq Pkts(chan[r]) /\ Dds(chan'[r]) \subseteq Dds(chan[r]) /\ Thins(chan[r], chan'[r])
  <2>1. Thins(chan[r], chan[r])
    BY DEF Thins
  <2>2. CASE chan[r] # <<>> /\ chan'[r] = Tail(chan[r])
    BY <2>2, <1>3, TailThins, TailWire
  <2>3. QED BY <2>1, <2>2 DEF Acts
<1>5. /\ Pkts(chan'[Peer(r)]) = Pkts(chan[Peer(r)]) \union Pkts(y.out)
      /\ Dds(chan'[Peer(r)]) = Dds(chan[Peer(r)]) \union Dds(y.out)
      /\ Dds(y.out) = {} => Thins(chan[Peer(r)], chan'[Peer(r)])
  BY <1>2, <1>3, SentWire, SentThins DEF Acts
<1>6. nb'[r] = y.n /\ ls'[r] = y.d /\ nb'[Peer(r)] = nb[Peer(r)] /\ ls'[Peer(r)] = ls[Peer(r)]
  BY <1>1, <1>2 DEF Acts
<1>7. QED BY <1>1, <1>2, <1>3, <1>4, <1>5, <1>6

LEMMA ReadyStep ==
  ASSUME TypeOK, Genuine, Started, Told, NEW r \in Router, NEW y, Acts(r, y), Ready(r, y)
  PROVE  Genuine' /\ Started' /\ Told'
<1> DEFINE o == Peer(r)
<1>1. y \in XType /\ Sound(r, y) /\ Grows(ls[r], y.d)
  BY DEF Ready, Sound
<1>2. /\ nb'[r] = y.n /\ ls'[r] = y.d /\ nb'[o] = nb[o] /\ ls'[o] = ls[o]
      /\ Pkts(chan'[r]) \subseteq Pkts(chan[r]) /\ Dds(chan'[r]) \subseteq Dds(chan[r])
      /\ Pkts(chan'[o]) = Pkts(chan[o]) \union Pkts(y.out)
      /\ Dds(chan'[o]) = Dds(chan[o]) \union Dds(y.out)
  BY <1>1, ActsFields
<1>3. o \in Router /\ o # r /\ Peer(o) = r /\ \A q \in Router : q = r \/ q = o
  BY PeerType, OwnLsas DEF Router, Peer
<1>4. Genuine'
  BY <1>1, <1>2, GenuineStep DEF Acts
<1>5. /\ Begun(r, nb[r], ls[r], nb[o], adj[r], dr[r]) /\ Begun(o, nb[o], ls[o], nb[r], adj[o], dr[o])
      /\ Dds(chan[o]) # {} => nb[r].state # DOWN
      /\ Dds(chan[r]) # {} => nb[o].state # DOWN
  BY <1>3 DEF Started
<1>6. Announced(o, nb[o], ls[o], ls[r], dr[o])
  BY <1>3 DEF Told
<1>7. /\ Begun(r, nb'[r], ls'[r], nb'[o], adj'[r], dr'[r])
      /\ Announced(r, nb'[r], ls'[r], ls'[o], dr'[r])
      /\ Dds(chan'[o]) # {} => nb'[r].state # DOWN
  BY <1>2, <1>5 DEF Ready
<1>8. /\ Begun(o, nb'[o], ls'[o], nb'[r], adj'[o], dr'[o])
      /\ Dds(chan'[r]) # {} => nb'[o].state # DOWN
  BY <1>2, <1>5 DEF Ready, Begun, Acts
<1>9. Announced(o, nb'[o], ls'[o], ls'[r], dr'[o])
  <2>1. Has(ls[r], Net(o)) => Has(y.d, Net(o))
    BY <1>1, <1>3, OwnLsas DEF Grows
  <2>2. QED BY <2>1, <1>2, <1>6 DEF Announced, Acts
<1>10. Started'
  <2>1. ASSUME NEW q \in Router
        PROVE  /\ Begun(q, nb'[q], ls'[q], nb'[Peer(q)], adj'[q], dr'[q])
               /\ Dds(chan'[Peer(q)]) # {} => nb'[q].state # DOWN
    <3>1. CASE q = r
      BY <3>1, <1>7
    <3>2. CASE q = o
      BY <3>2, <1>8, <1>3
    <3>3. QED BY <3>1, <3>2, <1>3
  <2>2. QED BY <2>1 DEF Started, Begun
<1>11. Told'
  <2>1. ASSUME NEW q \in Router PROVE Announced(q, nb'[q], ls'[q], ls'[Peer(q)], dr'[q])
    <3>1. CASE q = r
      BY <3>1, <1>7
    <3>2. CASE q = o
      BY <3>2, <1>9, <1>3
    <3>3. QED BY <3>1, <3>2, <1>3
  <2>2. QED BY <2>1 DEF Told, Announced
<1>12. QED BY <1>4, <1>10, <1>11

(* nothing happens to the exchange in this step *)
LEMMA IdlesStep ==
  ASSUME TypeOK, Orderly, NEW r \in Router, NEW y, Acts(r, y), Ready(r, y),
         Idles(nb[r], y.n), Dds(y.out) = {}, Aware(r, nb[r], ls[r]) => Aware(r, y.n, y.d)
  PROVE  Orderly'
<1>1. y \in XType
  BY DEF Ready, Sound
<1>2. /\ nb'[r] = y.n /\ ls'[r] = y.d /\ nb'[Peer(r)] = nb[Peer(r)] /\ ls'[Peer(r)] = ls[Peer(r)]
      /\ Dds(chan'[r]) \subseteq Dds(chan[r]) /\ Thins(chan[r], chan'[r])
      /\ Dds(chan'[Peer(r)]) = Dds(chan[Peer(r)])
      /\ Thins(chan[Peer(r)], chan'[Peer(r)])
      /\ y.n \in NbType /\ nb[r] \in NbType /\ nb[Peer(r)] \in NbType
  BY <1>1, ActsFields, ZenonT(60)
<1>3. /\ y.n.state \in Nat /\ nb[r].state \in Nat /\ nb[Peer(r)].state \in Nat
  BY <1>2, NbFields
<1>4. Idles(nb[Peer(r)], nb[Peer(r)])
  BY DEF Idles
<1>0. Calmly(nb[R2], nb[R1], Dds(chan[R1]), chan[R2], Aware(R1, nb[R1], ls[R1]), Aware(R2, nb[R2], ls[R2]))
  BY DEF Orderly, Exchanging
<1>5. Exchanging'
  <2>1. CASE r = R2
    <3>1. /\ Idles(nb[R2], y.n) /\ Idles(nb[R1], nb[R1])
          /\ nb[R2].state \in Nat /\ nb[R1].state \in Nat /\ y.n.state \in Nat
          /\ Dds(chan'[R1]) \subseteq Dds(chan[R1]) /\ Thins(chan[R2], chan'[R2])
          /\ Aware(R2, nb[R2], ls[R2]) => Aware(R2, y.n, y.d)
      BY <2>1, <1>2, <1>3, <1>4, PeerRoles
    <3>2. Calmly(y.n, nb[R1], Dds(chan'[R1]), chan'[R2], Aware(R1, nb[R1], ls[R1]), Aware(R2, y.n, y.d))
      BY <1>0, <3>1, CalmIdle
    <3>3. nb'[R2] = y.n /\ ls'[R2] = y.d /\ nb'[R1] = nb[R1] /\ ls'[R1] = ls[R1]
      BY <2>1, <1>2, PeerRoles
    <3>4. QED BY <3>2, <3>3 DEF Exchanging
  <2>2. CASE r = R1
    <3>1. /\ Idles(nb[R1], y.n) /\ Idles(nb[R2], nb[R2])
          /\ nb[R2].state \in Nat /\ nb[R1].state \in Nat /\ y.n.state \in Nat
          /\ Dds(chan'[R1]) \subseteq Dds(chan[R1]) /\ Thins(chan[R2], chan'[R2])
          /\ Aware(R1, nb[R1], ls[R1]) => Aware(R1, y.n, y.d)
      BY <2>2, <1>2, <1>3, <1>4, PeerRoles
    <3>2. Calmly(nb[R2], y.n, Dds(chan'[R1]), chan'[R2], Aware(R1, y.n, y.d), Aware(R2, nb[R2], ls[R2]))
      BY <1>0, <3>1, CalmIdle
    <3>3. nb'[R1] = y.n /\ ls'[R1] = y.d /\ nb'[R2] = nb[R2] /\ ls'[R2] = ls[R2]
      BY <2>2, <1>2, PeerRoles
    <3>4. QED BY <3>2, <3>3 DEF Exchanging
  <2>3. QED BY <2>1, <2>2 DEF Router
<1>6. Genuine /\ Started /\ Told
  BY DEF Orderly
<1>7. Genuine' /\ Started' /\ Told'
  BY <1>6, ReadyStep
<1>8. QED BY <1>5, <1>7 DEF Orderly

(* the exchange after a step of the master, and after one of the slave *)
LEMMA MasterDid ==
  ASSUME TypeOK, Orderly, NEW y, Acts(R2, y), Ready(R2, y),
         Calmly(y.n, nb[R1], Dds(chan'[R1]), chan'[R2], Aware(R1, nb[R1], ls[R1]), Aware(R2, y.n, y.d))
  PROVE  Orderly'
<1>1. y \in XType /\ Genuine /\ Started /\ Told
  BY DEF Ready, Sound, Orderly
<1>2. nb'[R2] = y.n /\ ls'[R2] = y.d /\ nb'[R1] = nb[R1] /\ ls'[R1] = ls[R1]
  BY <1>1, PeerRoles, ActsFields
<1>3. Genuine' /\ Started' /\ Told'
  BY <1>1, PeerRoles, ReadyStep
<1>4. Exchanging'
  BY <1>2 DEF Exchanging
<1>5. QED BY <1>3, <1>4 DEF Orderly

LEMMA SlaveDid ==
  ASSUME TypeOK, Orderly, NEW y, Acts(R1, y), Ready(R1, y),
         Calmly(nb[R2], y.n, Dds(chan'[R1]), chan'[R2], Aware(R1, y.n, y.d), Aware(R2, nb[R2], ls[R2]))
  PROVE  Orderly'
<1>1. y \in XType /\ Genuine /\ Started /\ Told
  BY DEF Ready, Sound, Orderly
<1>2. nb'[R1] = y.n /\ ls'[R1] = y.d /\ nb'[R2] = nb[R2] /\ ls'[R2] = ls[R2]
  BY <1>1, PeerRoles, ActsFields
<1>3. Genuine' /\ Started' /\ Told'
  BY <1>1, PeerRoles, ReadyStep
<1>4. Exchanging'
  BY <1>2 DEF Exchanging
<1>5. QED BY <1>3, <1>4 DEF Orderly

(* what r tells its peer of its network-LSA is not lost *)
StillTells(r, y) ==
  /\ nb[r].state = FULL => y.n.state = FULL
  /\ <<Net(r), TRUE>> \in ls[r].flood => <<Net(r), TRUE>> \in y.d.flood \/ Net(r) \in LsasOf(y.n.rxmt)
  /\ Net(r) \in LsasOf(nb[r].rxmt) => Net(r) \in LsasOf(y.n.rxmt) \/ Has(ls[Peer(r)], Net(r))

(* the state of the neighbour does not fall back, and does not run ahead *)
StateFits(r, y) ==
  /\ y.n.state >= EXSTART => adj[r]
  /\ y.n.state >= TWOWAY => nb[Peer(r)].state # DOWN
  /\ Dds(y.out) # {} \/ nb[r].state # DOWN => y.n.state # DOWN

(* a step that is no election and leaves the entries of the database alone *)
LEMMA SameReady ==
  ASSUME TypeOK, Orderly, NEW r \in Router, NEW y \in XType, adj'[r] = adj[r], dr'[r] = dr[r],
         y.d.db = ls[r].db, y.d.old = ls[r].old,
         y.n.ddsum \subseteq Says(Self(r)), y.n.rxmt \subseteq Says(Self(r)),
         \A l \in y.n.lsreq : l \in nb[r].lsreq \/ Has(ls[Peer(r)], l),
         \A p \in Pkts(y.out) : Fair(r, Self(r), p),
         StillTells(r, y), StateFits(r, y)
  PROVE  Ready(r, y)
<1>1. Sound(r, Self(r)) /\ Self(r).d = ls[r] /\ Self(r).n = nb[r]
  BY SoundSelf DEF Orderly
<1>2. Sound(r, y)
  BY <1>1, SoundSame
<1>3. Begun(r, nb[r], ls[r], nb[Peer(r)], adj[r], dr[r]) /\ Announced(r, nb[r], ls[r], ls[Peer(r)], dr[r])
  BY DEF Orderly, Started, Told
<1>4. Begun(r, y.n, y.d, nb[Peer(r)], adj'[r], dr'[r])
  BY <1>3 DEF Begun, Present, StateFits
<1>5. Announced(r, y.n, y.d, ls[Peer(r)], dr'[r])
  BY <1>3 DEF Announced, Present, StillTells
<1>6. QED BY <1>2, <1>4, <1>5 DEF Ready, StateFits

(* ... and to which nothing of the above happens *)
LEMMA SelfFits ==
  ASSUME TypeOK, Orderly, NEW r \in Router, NEW y, y.n.state = nb[r].state, Dds(y.out) # {} => nb[r].state # DOWN
  PROVE  StateFits(r, y)
<1>1. Begun(r, nb[r], ls[r], nb[Peer(r)], adj[r], dr[r])
  BY DEF Orderly, Started
<1>2. QED BY <1>1 DEF Begun, StateFits

(* the steps of the code, as steps above *)
LEMMA TickActs ==
  ASSUME TypeOK, NEW r \in Router, NEW y, Tick(r, y),
         UNCHANGED <<adj, dr>> \/ \E a, b \in BOOLEAN : adj' = [adj EXCEPT ![r] = a] /\ dr' = [dr EXCEPT ![r] = b]
  PROVE  Acts(r, y) /\ chan'[r] = chan[r]
<1>1. Peer(r) \in Router /\ Peer(r) # r
  BY PeerType
<1>2. adj \in [Router -> BOOLEAN] /\ dr \in [Router -> BOOLEAN] /\ chan \in [Router -> Seq(Pkt)]
  BY DEF TypeOK
<1>3. adj'[Peer(r)] = adj[Peer(r)] /\ dr'[Peer(r)] = dr[Peer(r)]
  BY <1>1, <1>2
<1>4. chan'[r] = chan[r] /\ chan'[Peer(r)] = chan[Peer(r)] \o y.out
  BY <1>1, <1>2 DEF Tick
<1>5. QED BY <1>3, <1>4 DEF Acts, Tick

LEMMA RxActs ==
  ASSUME TypeOK, NEW r \in Router, NEW y, Rx(r, y), chan[r] # <<>>, UNCHANGED <<adj, dr>>
  PROVE  Acts(r, y) /\ chan'[r] = Tail(chan[r])
<1>1. Peer(r) \in Router /\ Peer(r) # r
  BY PeerType
<1>2. chan \in [Router -> Seq(Pkt)]
  BY DEF TypeOK
<1>4. chan'[r] = Tail(chan[r]) /\ chan'[Peer(r)] = chan[Peer(r)] \o y.out
  BY <1>1, <1>2 DEF Rx
<1>5. QED BY <1>4 DEF Acts, Rx

(* a step of r that concerns neither the exchange nor the entries of its database *)
LEMMA QuietStep ==
  ASSUME TypeOK, Orderly, NEW r \in Router, NEW y \in XType, Acts(r, y), UNCHANGED <<adj, dr>>,
         y.d.db = ls[r].db, y.d.old = ls[r].old,
         y.n.state = nb[r].state, y.n.ddseq = nb[r].ddseq, y.n.ddsum = nb[r].ddsum, y.n.sent = nb[r].sent,
         y.n.more0 = nb[r].more0, y.n.lsreq = nb[r].lsreq, Building(y.n) => y.n.lastdd = nb[r].lastdd,
         y.n.rxmt \subseteq Says(Self(r)), StillTells(r, y),
         \A p \in Pkts(y.out) : p.t # "dd" /\ Fair(r, Self(r), p)
  PROVE  Orderly'
<1>1. Dds(y.out) = {}
  BY DEF Dds
<1>2. y.n.ddsum \subseteq Says(Self(r))
  BY DEF Says, Self
<1>3. StateFits(r, y)
  BY <1>1, SelfFits
<1>4. Ready(r, y)
  BY <1>2, <1>3, SameReady
<1>5. Idles(nb[r], y.n)
  BY DEF Idles
<1>6. Aware(r, nb[r], ls[r]) => Aware(r, y.n, y.d)
  BY DEF Aware, Has, Present
<1>7. QED BY <1>1, <1>4, <1>5, <1>6, IdlesStep

(* what keeps the lists still tells *)
LEMMA SameTells ==
  ASSUME NEW r \in Router, NEW y, y.n.state = nb[r].state, y.d.flood = ls[r].flood, y.n.rxmt = nb[r].rxmt
  PROVE  StillTells(r, y)
BY DEF StillTells

(* the packets a record is about to send, after one more *)
LEMMA SentOne ==
  ASSUME NEW x \in XType, NEW p \in Pkt, x.out = <<>>
  PROVE  /\ Send(x, p) \in XType /\ Send(x, p).n = x.n /\ Send(x, p).d = x.d
         /\ Send(x, p).out = <<p>> /\ Pkts(Send(x, p).out) = {p}
<1>1. x.out \in Seq(Pkt) /\ Append(x.out, p) = <<p>>
  BY DEF XType
<1>2. Send(x, p) = [x EXCEPT !.out = <<p>>]
  BY <1>1 DEF Send
<1>3. <<p>> \in Seq(Pkt)
  OBVIOUS
<1>4. Send(x, p) \in XType /\ Send(x, p).n = x.n /\ Send(x, p).d = x.d /\ Send(x, p).out = <<p>>
  BY <1>2, <1>3 DEF XType
<1>5. Pkts(Send(x, p).out) = {p}
  <2>1. Pkts(Send(x, p).out) = Pkts(<<>>) \union {p}
    BY SendPkts
  <2>2. QED BY <2>1, NothingSent
<1>6. QED BY <1>4, <1>5

(* repeated requests and updates; loss; packets freed *)
LEMMA CalmReqRxmt == ASSUME ExchangeInv, Orderly, NEW r \in Router, LsReqRxmt(r) PROVE Orderly'
<1> DEFINE x == Self(r)
           p == nb[r].lastreq
           y == Send(x, p)
<1>1. /\ x \in XType /\ NbInv(r, nb[r]) /\ nb[r] \in NbType /\ TypeOK /\ x.n = nb[r] /\ x.d = ls[r] /\ x.out = <<>>
  BY KnownSelf
<1>2. p \in ReqPkt /\ p.ids \subseteq nb[r].lsreq
  BY <1>1 DEF LsReqRxmt, NbInv, ArmedOf, NbType
<1>3. p \in Pkt /\ p.t = "req"
  BY <1>2 DEF Pkt, ReqPkt
<1>4. y \in XType /\ y.n = nb[r] /\ y.d = ls[r] /\ Pkts(y.out) = {p}
  BY <1>1, <1>3, SentOne
<1>5. Acts(r, y) /\ UNCHANGED <<adj, dr>>
  BY <1>1, TickActs DEF LsReqRxmt
<1>6. Fair(r, x, p) /\ p.t # "dd"
  BY <1>1, <1>2, <1>3 DEF Fair
<1>7. StillTells(r, y) /\ y.n.rxmt \subseteq Says(x)
  BY <1>1, <1>4, SameTells DEF Says
<1>8. QED BY <1>1, <1>4, <1>5, <1>6, <1>7, QuietStep

LEMMA CalmUpdRxmt == ASSUME ExchangeInv, Orderly, NEW r \in Router, LsUpdRxmt(r) PROVE Orderly'
<1> DEFINE x == Self(r)
           p == LsUpd(nb[r].rxmt)
           y == Send(x, p)
<1>1. /\ x \in XType /\ NbInv(r, nb[r]) /\ nb[r] \in NbType /\ TypeOK /\ x.n = nb[r] /\ x.d = ls[r] /\ x.out = <<>>
  BY KnownSelf
<1>2. p \in Pkt /\ p.t = "upd" /\ p.hs = nb[r].rxmt
  BY <1>1 DEF LsUpd, Pkt, NbType
<1>4. y \in XType /\ y.n = nb[r] /\ y.d = ls[r] /\ Pkts(y.out) = {p}
  BY <1>1, <1>2, SentOne
<1>5. Acts(r, y) /\ UNCHANGED <<adj, dr>>
  BY <1>1, TickActs DEF LsUpdRxmt
<1>6. Fair(r, x, p) /\ p.t # "dd"
  BY <1>1, <1>2 DEF Fair, Says
<1>7. StillTells(r, y) /\ y.n.rxmt \subseteq Says(x)
  BY <1>1, <1>4, SameTells DEF Says
<1>8. QED BY <1>1, <1>4, <1>5, <1>6, <1>7, QuietStep

LEMMA CalmFreeLast == ASSUME ExchangeInv, Orderly, NEW r \in Router, FreeLast(r) PROVE Orderly'
<1> DEFINE x == Self(r)
           y == [x EXCEPT !.n.lastdd = NoPkt, !.n.lastreq = NoPkt]
<1>1. /\ x \in XType /\ nb[r] \in NbType /\ TypeOK /\ x.n = nb[r] /\ x.d = ls[r] /\ x.out = <<>>
  BY KnownSelf
<1>2. /\ y \in XType /\ y.d = ls[r] /\ y.out = <<>> /\ y.n.state = nb[r].state /\ y.n.ddseq = nb[r].ddseq
      /\ y.n.ddsum = nb[r].ddsum /\ y.n.sent = nb[r].sent /\ y.n.more0 = nb[r].more0
      /\ y.n.lsreq = nb[r].lsreq /\ y.n.rxmt = nb[r].rxmt
  BY <1>1 DEF XType, NbType
<1>3. ~Building(y.n)
  BY <1>2 DEF FreeLast, Building, FULL, EXSTART, EXCHANGE
<1>5. Acts(r, y) /\ UNCHANGED <<adj, dr>>
  BY <1>1, TickActs DEF FreeLast
<1>7. StillTells(r, y) /\ y.n.rxmt \subseteq Says(x) /\ Pkts(y.out) = {}
  BY <1>1, <1>2, SameTells, NothingSent DEF Says
<1>8. QED BY <1>1, <1>2, <1>3, <1>5, <1>7, QuietStep

LEMMA CalmLose == ASSUME ExchangeInv, Orderly, NEW r \in Router, Lose(r) PROVE Orderly'
<1> DEFINE x == Self(r)
<1>1. /\ x \in XType /\ nb[r] \in NbType /\ TypeOK /\ x.n = nb[r] /\ x.d = ls[r] /\ x.out = <<>>
  BY KnownSelf
<1>2. /\ nb \in [Router -> NbType] /\ ls \in [Router -> LsType] /\ chan \in [Router -> Seq(Pkt)]
      /\ Peer(r) \in Router /\ Peer(r) # r
  BY <1>1, PeerType DEF TypeOK
<1>3. chan'[Peer(r)] = chan[Peer(r)] \o <<>>
  <2>1. chan[Peer(r)] \in Seq(Pkt) /\ chan'[Peer(r)] = chan[Peer(r)]
    BY <1>2 DEF Lose
  <2>2. QED BY <2>1
<1>4. nb' = [nb EXCEPT ![r] = x.n] /\ ls' = [ls EXCEPT ![r] = x.d]
  BY <1>1, <1>2 DEF Lose
<1>5. chan[r] # <<>> /\ chan'[r] = Tail(chan[r]) /\ UNCHANGED <<adj, dr>>
  BY <1>2 DEF Lose
<1>6. Acts(r, x)
  BY <1>1, <1>3, <1>4, <1>5 DEF Acts
<1>7. StillTells(r, x) /\ x.n.rxmt \subseteq Says(x) /\ Pkts(x.out) = {}
  BY <1>1, SameTells, NothingSent DEF Says
<1>8. QED BY <1>1, <1>5, <1>6, <1>7, QuietStep

(* the first packet read: what the peer may say *)
LEMMA ReadHead ==
  ASSUME ExchangeInv, Orderly, NEW r \in Router, chan[r] # <<>>
  PROVE  /\ Head(chan[r]) \in Pkt /\ chan[r] \in Seq(Pkt) /\ Head(chan[r]) \in Pkts(chan[r])
         /\ PktReal(Peer(r), ls[Peer(r)], ls[r], Head(chan[r]))
<1>1. Peer(r) \in Router /\ Peer(Peer(r)) = r
  BY PeerType, OwnLsas
<1>2. TypeOK
  BY KnownSelf
<1>3. chan[r] \in Seq(Pkt)
  BY <1>2 DEF TypeOK
<1>4. Head(chan[r]) \in Pkts(chan[r]) /\ Pkts(chan[r]) \subseteq Pkt
  BY <1>3, TailWire, DdsType
<1>5. \A p \in Pkts(chan[Peer(Peer(r))]) : PktReal(Peer(r), ls[Peer(r)], ls[Peer(Peer(r))], p)
  BY <1>1 DEF Orderly, Genuine
<1>6. QED BY <1>1, <1>3, <1>4, <1>5

(* an LSA in the database is found there *)
LEMMA FoundHas ==
  ASSUME NEW d \in LsType, NEW l \in Lsa, Has(d, l)
  PROVE  Found(d, l).seq > 0 /\ Found(d, l) \in Snapshot(d) /\ Found(d, l) \in Inst
<1>1. <<l, TRUE>> \in Key /\ <<l, FALSE>> \in Key
  BY KeyType
<1>2. QED BY <1>1, FoundType DEF Found, Has, Present, Snapshot

(* lsackRx: what the peer acknowledges it holds *)
LEMMA CalmAck == ASSUME ExchangeInv, Orderly, NEW r \in Router, LsAckRx(r) PROVE Orderly'
<1> DEFINE x == Self(r)
           p == Head(chan[r])
           ids == {h.l : h \in p.hs}
           y == IF x.n.state = FULL THEN [x EXCEPT !.n.rxmt = {j \in @ : j.l \notin ids}] ELSE x
<1>1. /\ x \in XType /\ nb[r] \in NbType /\ TypeOK /\ x.n = nb[r] /\ x.d = ls[r] /\ x.out = <<>>
  BY KnownSelf
<1>2. chan[r] # <<>> /\ p.t = "ack"
  BY DEF LsAckRx, Arrived
<1>3. PktReal(Peer(r), ls[Peer(r)], ls[r], p)
  BY <1>2, ReadHead
<1>4. \A h \in p.hs : Has(ls[Peer(r)], h.l)
  BY <1>2, <1>3 DEF PktReal, Sure
<1>5. /\ y \in XType /\ y.d = ls[r] /\ y.out = <<>> /\ y.n.state = nb[r].state /\ y.n.ddseq = nb[r].ddseq
      /\ y.n.ddsum = nb[r].ddsum /\ y.n.sent = nb[r].sent /\ y.n.more0 = nb[r].more0
      /\ y.n.lsreq = nb[r].lsreq /\ y.n.lastdd = nb[r].lastdd
      /\ y.n.rxmt \subseteq nb[r].rxmt /\ \A j \in nb[r].rxmt : j \in y.n.rxmt \/ j.l \in ids
  BY <1>1 DEF XType, NbType
<1>6. Acts(r, y) /\ UNCHANGED <<adj, dr>>
  <2>1. Rx(r, y)
    BY DEF LsAckRx
  <2>2. QED BY <2>1, <1>1, <1>2, RxActs DEF LsAckRx
<1>7. StillTells(r, y)
  BY <1>4, <1>5 DEF StillTells, LsasOf
<1>8. y.n.rxmt \subseteq Says(x) /\ Pkts(y.out) = {}
  BY <1>1, <1>5, NothingSent DEF Says
<1>9. QED
  <2> HIDE DEF x, y, p, ids
  <2>1. QED BY <1>1, <1>5, <1>6, <1>7, <1>8, QuietStep DEF x

(* lsrequestRx: the answer is what is found *)
LEMMA CalmReq == ASSUME ExchangeInv, Orderly, NEW r \in Router, LsReqRx(r) PROVE Orderly'
<1> DEFINE x == Self(r)
           ids == Head(chan[r]).ids
<1>1. /\ x \in XType /\ nb[r] \in NbType /\ TypeOK /\ x.n = nb[r] /\ x.d = ls[r] /\ x.out = <<>>
  BY KnownSelf
<1>2. chan[r] # <<>> /\ UNCHANGED <<adj, dr>> /\ Head(chan[r]).t = "req"
  BY DEF LsReqRx, Arrived
<1>3. CASE Rx(r, x)
  <2>1. Acts(r, x)
    BY <1>1, <1>2, <1>3, RxActs
  <2>2. StillTells(r, x) /\ x.n.rxmt \subseteq Says(x) /\ Pkts(x.out) = {}
    BY <1>1, SameTells, NothingSent DEF Says
  <2>3. QED BY <1>1, <1>2, <2>1, <2>2, QuietStep
<1>4. ASSUME NEW c \in Chunk(ids, UpdMax), \A l \in ids : Found(x.d, l).seq > 0,
             Rx(r, Send(x, LsUpd({Found(x.d, l) : l \in c})))
      PROVE  Orderly'
  <2> DEFINE hs == {Found(x.d, l) : l \in c}
             p == LsUpd(hs)
             y == Send(x, p)
  <2>1. ids \in SUBSET Lsa /\ c \subseteq ids
    BY <1>2, ReadHead, PktFields DEF Chunk
  <2>2. \A l \in c : Found(x.d, l) \in Inst /\ Found(x.d, l) \in Snapshot(x.d)
    <3>1. TAKE l \in c
    <3>2. l \in Lsa /\ Found(x.d, l).seq > 0
      BY <2>1, <1>4
    <3>3. Has(x.d, l) /\ x.d \in LsType
      BY <3>2, <1>1 DEF Found, Has, Present, XType
    <3>4. QED BY <3>2, <3>3, FoundHas
  <2>3. hs \subseteq Inst /\ hs \subseteq Says(x)
    BY <2>2 DEF Says
  <2>4. p \in Pkt /\ p.t = "upd" /\ p.hs = hs
    BY <2>3 DEF LsUpd, Pkt
  <2>5. y \in XType /\ y.n = nb[r] /\ y.d = ls[r] /\ Pkts(y.out) = {p}
    BY <1>1, <2>4, SentOne
  <2>6. Acts(r, y)
    BY <1>1, <1>2, <1>4, RxActs
  <2>7. Fair(r, x, p) /\ p.t # "dd"
    BY <2>3, <2>4 DEF Fair
  <2>8. StillTells(r, y) /\ y.n.rxmt \subseteq Says(x)
    BY <1>1, <2>5, SameTells DEF Says
  <2>9. QED BY <1>1, <1>2, <2>5, <2>6, <2>7, <2>8, QuietStep
<1>5. QED BY <1>3, <1>4 DEF LsReqRx

(* a request for an LSA that is not there does not arrive *)
LEMMA CalmNoBadReq == ASSUME ExchangeInv, Orderly, NEW r \in Router, BadLsReqRx(r) PROVE FALSE
<1>1. PICK l \in Head(chan[r]).ids : Found(ls[r], l).seq = 0
  BY DEF BadLsReqRx
<1>2. chan[r] # <<>> /\ Head(chan[r]).t = "req"
  BY DEF BadLsReqRx, Arrived
<1>3. l \in Lsa /\ Has(ls[r], l)
  BY <1>1, <1>2, ReadHead, PktFields DEF PktReal
<1>4. TypeOK
  BY KnownSelf
<1>5. ls[r] \in LsType
  BY <1>4 DEF TypeOK
<1>6. Found(ls[r], l).seq > 0
  BY <1>3, <1>5, FoundHas
<1>7. QED BY <1>1, <1>6

(* flushing an LSA that is not in the database *)
LEMMA FlushAbsent ==
  ASSUME NEW r \in Router, NEW x, Sound(r, x), NEW l \in Lsa, NEW isdr \in BOOLEAN, ~Present(x.d, <<l, TRUE>>),
         l[1] # "ext"
  PROVE  LET z == FlushLsa(x, <<l, TRUE>>, isdr)
         IN  z \in XType /\ z.n = x.n /\ z.out = x.out /\ z.d.db = x.d.db /\ z.d.old = x.d.old
<1> DEFINE k == <<l, TRUE>>
           z == FlushLsa(x, k, isdr)
<1>1. k \in Key /\ k[1] = l /\ x \in XType /\ Stock(r, x.n, x.d, ls[Peer(r)])
  BY KeyType DEF Sound
<1>2. x.d \in LsType /\ x.d.db \in [Key -> Inst] /\ x.d.old \in [Lsa -> Nat]
  BY <1>1 DEF XType, LsType
<1>3. x.d.db[k] = NoInst(l) /\ \A j \in Lsa : x.d.old[j] = 0
  <2>1. x.d.db[k].seq = 0
    BY <1>1, <1>2 DEF Present, Inst
  <2>2. QED BY <2>1, <1>1 DEF Stock
<1>4. z = [x EXCEPT !.d = lsadbRemove(x.d, {k})]
  BY <1>1 DEF FlushLsa, XType
<1>5. z \in XType
  BY <1>1, FlushTame DEF Tame
<1>6. z.n = x.n /\ z.out = x.out /\ z.d = lsadbRemove(x.d, {k})
  BY <1>1, <1>4 DEF XType
<1>7. z.d.db = [j \in Key |-> IF j \in {k} THEN NoInst(j[1]) ELSE x.d.db[j]]
  BY <1>2, <1>6 DEF lsadbRemove, LsType
<1>8. z.d.old = [j \in Lsa |-> IF <<j, TRUE>> \in {k} THEN 0 ELSE x.d.old[j]]
  BY <1>2, <1>6 DEF lsadbRemove, LsType
<1>9. z.d.db = x.d.db
  <2> HIDE DEF z, k
  <2>1. \A j \in Key : z.d.db[j] = x.d.db[j]
    BY <1>1, <1>3, <1>7
  <2>2. QED BY <2>1, <1>2, <1>7
<1>10. z.d.old = x.d.old
  BY <1>2, <1>3, <1>8
<1>11. QED BY <1>5, <1>6, <1>9, <1>10

(* lsa_originate_net_update: the network-LSA is there in Full, and else not *)
LEMMA NetUpdateSound ==
  ASSUME TypeOK, NEW r \in Router, NEW x, Sound(r, x), NEW isdr \in BOOLEAN,
         Announced(r, x.n, x.d, ls[Peer(r)], isdr)
  PROVE  LET z == NetUpdate(r, x, isdr)
         IN  /\ Sound(r, z) /\ Announced(r, z.n, z.d, ls[Peer(r)], isdr) /\ z.n = x.n /\ z.out = x.out
             /\ \A k \in Key : k # <<Net(r), TRUE>> => z.d.db[k] = x.d.db[k]
<1> DEFINE z == NetUpdate(r, x, isdr)
           kn == <<Net(r), TRUE>>
           e == Originate(x.d, Net(r), boot[r], FALSE)
<1>1. x \in XType /\ Net(r) \in Lsa /\ Net(r) \in Own(r) /\ kn \in Key /\ boot[r] \in Nat /\ z \in XType /\ Net(r)[1] # "ext"
  BY OwnLsas, KeyType, NetUpdateTame, ExtKey DEF Sound, TypeOK, Tame
<1>2. CASE isdr /\ x.n.state = FULL
  <2>1. z = [x EXCEPT !.d = e]
    BY <1>2, <1>1 DEF NetUpdate, XType
  <2>2. z.n = x.n /\ z.out = x.out /\ z.d = e
    BY <2>1, <1>1 DEF XType
  <2>3. Sound(r, z) /\ \A k \in Key : k # kn => z.d.db[k] = x.d.db[k]
    <3> HIDE DEF z
    <3> HIDE DEF e
    <3>1. Net(r) \in Own(r) /\ boot[r] \in Nat /\ z \in XType /\ z.n = x.n /\ z.out = x.out
      BY <1>1, <2>2
    <3>2. z.d = Originate(x.d, Net(r), boot[r], FALSE)
      BY <2>2 DEF e
    <3>3. QED BY <3>1, <3>2, OriginateKeeps, Zenon
  <2>4. kn \in e.flood \/ (Present(x.d, kn) /\ e.flood = x.d.flood)
    BY <1>1 DEF Originate, XType, LsType
  <2>5. Announced(r, z.n, z.d, ls[Peer(r)], isdr)
    BY <2>2, <2>4, <1>2 DEF Announced
  <2>6. QED BY <2>2, <2>3, <2>5
<1>3. CASE ~(isdr /\ x.n.state = FULL)
  <2>1. z = FlushLsa(x, kn, isdr) /\ ~Present(x.d, kn)
    BY <1>3 DEF NetUpdate, Announced
  <2>2. z.n = x.n /\ z.out = x.out /\ z.d.db = x.d.db /\ z.d.old = x.d.old
    <3> HIDE DEF z
    <3>1. QED BY <2>1, <1>1, FlushAbsent
  <2>3. Sound(r, z)
    BY <1>1, <2>2, SoundSame DEF Says
  <2>4. Announced(r, z.n, z.d, ls[Peer(r)], isdr)
    BY <2>1, <2>2 DEF Announced, Present
  <2>5. QED BY <2>2, <2>3, <2>4
<1>4. QED BY <1>2, <1>3

(* the timer branch of the main loop that serves network_lsa_update *)
LEMMA CalmNetUpdate == ASSUME ExchangeInv, Orderly, NEW r \in Router, NetLsaUpdate(r) PROVE Orderly'
<1> DEFINE x == Self(r)
           u == [x EXCEPT !.d.upd = FALSE]
           y == NetUpdate(r, u, dr[r])
<1>1. /\ x \in XType /\ nb[r] \in NbType /\ TypeOK /\ x.n = nb[r] /\ x.d = ls[r] /\ x.out = <<>>
  BY KnownSelf
<1>2. /\ u \in XType /\ u.n = nb[r] /\ u.out = <<>> /\ u.d.db = ls[r].db /\ u.d.old = ls[r].old
      /\ u.d.flood = ls[r].flood
  BY <1>1 DEF XType, LsType
<1>3. Sound(r, x) /\ dr[r] \in BOOLEAN
  BY <1>1, SoundSelf DEF Orderly, TypeOK
<1>4. Sound(r, u)
  BY <1>1, <1>2, <1>3, SoundSame, NothingSent DEF Says
<1>5. Begun(r, nb[r], ls[r], nb[Peer(r)], adj[r], dr[r]) /\ Announced(r, nb[r], ls[r], ls[Peer(r)], dr[r])
  BY DEF Orderly, Started, Told
<1>6. Announced(r, u.n, u.d, ls[Peer(r)], dr[r])
  BY <1>2, <1>5 DEF Announced, Present
<1>7. /\ Sound(r, y) /\ Announced(r, y.n, y.d, ls[Peer(r)], dr[r]) /\ y.n = u.n /\ y.out = u.out
      /\ \A k \in Key : k # <<Net(r), TRUE>> => y.d.db[k] = u.d.db[k]
  BY <1>1, <1>3, <1>4, <1>6, NetUpdateSound
<1>8. Acts(r, y) /\ UNCHANGED <<adj, dr>>
  BY <1>1, TickActs DEF NetLsaUpdate
<1>9. y.d.db[<<Rtr(r), TRUE>>] = ls[r].db[<<Rtr(r), TRUE>>]
  <2>1. <<Rtr(r), TRUE>> \in Key /\ <<Rtr(r), TRUE>> # <<Net(r), TRUE>>
    BY OwnLsas, KeyType
  <2>2. QED BY <2>1, <1>2, <1>7
<1>10. Dds(y.out) = {}
  BY <1>2, <1>7, NothingSent
<1>11. Begun(r, y.n, y.d, nb[Peer(r)], adj'[r], dr'[r])
  BY <1>2, <1>5, <1>7, <1>8, <1>9 DEF Begun, Present
<1>12. Ready(r, y)
  BY <1>2, <1>7, <1>8, <1>10, <1>11 DEF Ready
<1>13. Idles(nb[r], y.n)
  BY <1>2, <1>7 DEF Idles
<1>14. Aware(r, nb[r], ls[r]) => Aware(r, y.n, y.d)
  <2>1. Peer(r) \in Router /\ Rtr(Peer(r)) \in Lsa
    BY PeerType, OwnLsas
  <2>2. Has(ls[r], Rtr(Peer(r))) => Has(y.d, Rtr(Peer(r)))
    BY <2>1, <1>7 DEF Sound, Grows
  <2>3. QED BY <2>2, <1>2, <1>7 DEF Aware
<1>15. QED
  <2> HIDE DEF x, u, y
  <2>1. QED BY <1>1, <1>8, <1>10, <1>12, <1>13, <1>14, IdlesStep

(* an LSA is flooded: a router has its network-LSA in state DR only, so that  *)
(* one goes on the retransmission list                                        *)
LEMMA CalmFlood == ASSUME ExchangeInv, Orderly, NEW r \in Router, NEW k \in Key, FloodTimer(r, k) PROVE Orderly'
<1> DEFINE x == Self(r)
           u == [x EXCEPT !.d.flood = @ \ {k}]
           i == ls[r].db[k]
           y == Flood(u, k, i, dr[r])
           kn == <<Net(r), TRUE>>
<1>1. /\ x \in XType /\ nb[r] \in NbType /\ TypeOK /\ x.n = nb[r] /\ x.d = ls[r] /\ x.out = <<>>
  BY KnownSelf
<1>2. /\ u \in XType /\ u.n = nb[r] /\ u.out = <<>> /\ u.d.db = ls[r].db /\ u.d.old = ls[r].old
      /\ u.d.flood = ls[r].flood \ {k}
  BY <1>1 DEF XType, LsType
<1>3. Present(ls[r], k) /\ ls[r] \in LsType /\ i \in Inst
  BY <1>1 DEF FloodTimer, Idle, TypeOK, LsType
<1>4. Stock(r, nb[r], ls[r], ls[Peer(r)]) /\ Announced(r, nb[r], ls[r], ls[Peer(r)], dr[r])
  BY DEF Orderly, Genuine, Told
<1>5. i.l = k[1] /\ i \in Says(x)
  BY <1>1, <1>3, <1>4 DEF Stock, Says, Snapshot
<1>6. LsUpd({i}) \in Pkt /\ LsUpd({i}).t = "upd" /\ LsUpd({i}).hs = {i}
  BY <1>3 DEF LsUpd, Pkt
<1>7. Fair(r, x, LsUpd({i}))
  BY <1>5, <1>6 DEF Fair
<1>8. Acts(r, y) /\ UNCHANGED <<adj, dr>>
  <2>1. Tick(r, y)
    BY <1>1 DEF FloodTimer
  <2>2. QED BY <2>1, <1>1, TickActs DEF FloodTimer
<1>9. kn \in Key /\ kn[1] = Net(r)
  BY OwnLsas, KeyType
<1>10. CASE nb[r].state = FULL /\ (dr[r] \/ k \notin u.d.here)
  <2> DEFINE v == [u EXCEPT !.n.rxmt = {j \in @ : j.l # i.l} \union {i}]
  <2>1. y = Send(v, LsUpd({i}))
    BY <1>2, <1>10 DEF Flood
  <2>2. /\ v \in XType /\ v.d = u.d /\ v.out = <<>> /\ v.n.state = nb[r].state /\ v.n.ddseq = nb[r].ddseq
        /\ v.n.ddsum = nb[r].ddsum /\ v.n.sent = nb[r].sent /\ v.n.more0 = nb[r].more0
        /\ v.n.lsreq = nb[r].lsreq /\ v.n.lastdd = nb[r].lastdd
        /\ v.n.rxmt = {j \in nb[r].rxmt : j.l # i.l} \union {i}
    BY <1>1, <1>2, <1>3, Zenon DEF XType, NbType
  <2> HIDE DEF u, v, i, x, y
  <2>3. y \in XType /\ y.n = v.n /\ y.d = v.d /\ Pkts(y.out) = {LsUpd({i})}
    BY <2>1, <2>2, <1>6, SentOne
  <2>4. y.n.rxmt \subseteq Says(x)
    BY <2>2, <2>3, <1>1, <1>5 DEF Says
  <2>5. \A j \in nb[r].rxmt : j.l \in LsasOf(y.n.rxmt)
    BY <2>2, <2>3 DEF LsasOf
  <2>6. k = kn => Net(r) \in LsasOf(y.n.rxmt)
    BY <2>2, <2>3, <1>5, <1>9 DEF LsasOf
  <2>7. StillTells(r, y)
    BY <2>2, <2>3, <2>5, <2>6, <1>2 DEF StillTells, LsasOf
  <2>8. y.d.db = ls[r].db /\ y.d.old = ls[r].old
    BY <2>2, <2>3, <1>2
  <2>9. \A p \in Pkts(y.out) : p.t # "dd" /\ Fair(r, Self(r), p)
    BY <2>3, <1>6, <1>7 DEF x
  <2>10. /\ y.n.state = nb[r].state /\ y.n.ddseq = nb[r].ddseq /\ y.n.ddsum = nb[r].ddsum /\ y.n.sent = nb[r].sent
         /\ y.n.more0 = nb[r].more0 /\ y.n.lsreq = nb[r].lsreq /\ y.n.lastdd = nb[r].lastdd
    BY <2>2, <2>3
  <2>11. QED BY <1>1, <1>8, <2>3, <2>4, <2>7, <2>8, <2>9, <2>10, QuietStep DEF x
<1>11. CASE ~(nb[r].state = FULL /\ (dr[r] \/ k \notin u.d.here))
  <2>1. y = u
    BY <1>2, <1>11 DEF Flood
  <2>2. k # kn
    BY <1>3, <1>4, <1>11 DEF Announced
  <2> HIDE DEF u, i, x, y
  <2>3. StillTells(r, y) /\ y.n.rxmt \subseteq Says(x) /\ Pkts(y.out) = {}
    BY <2>1, <2>2, <1>1, <1>2, NothingSent DEF StillTells, Says
  <2>4. QED BY <1>1, <1>2, <1>8, <2>1, <2>3, QuietStep DEF x
<1>12. QED BY <1>10, <1>11

(* nothing is aged, superseded or foreign *)
LEMMA CalmNoAging ==
  ASSUME ExchangeInv, Orderly, NEW r \in Router
  PROVE  /\ \A k \in Key : ~AgeOut(r, k)
         /\ \A l \in Lsa : ~OldTimer(r, l) /\ ~ForeignFlush(r, l)
<1>1. Stock(r, nb[r], ls[r], ls[Peer(r)]) /\ Self(r).d = ls[r]
  BY KnownSelf DEF Orderly, Genuine
<1>2. ASSUME NEW k \in Key, AgeOut(r, k) PROVE FALSE
  BY <1>1, <1>2 DEF AgeOut, Stock, Real
<1>3. ASSUME NEW l \in Lsa, OldTimer(r, l) PROVE FALSE
  BY <1>1, <1>3 DEF OldTimer, Stock
<1>4. ASSUME NEW l \in Lsa, ForeignFlush(r, l) PROVE FALSE
  <2>1. <<l, FALSE>> \in Key /\ l \in Own(r) /\ Present(ls[r], <<l, FALSE>>)
    BY <1>4, KeyType DEF ForeignFlush, Own, Idle
  <2>2. QED BY <2>1, <1>1 DEF Stock
<1>5. QED BY <1>2, <1>3, <1>4

LEMMA CalmLsaTimers == ASSUME ExchangeInv, Orderly, NEW r \in Router, LsaTimers(r) PROVE Orderly'
BY CalmNoAging, CalmFlood, CalmNetUpdate DEF LsaTimers

(* the last DD packet is repeated *)
LEMMA CalmDdRxmt == ASSUME ExchangeInv, Orderly, NEW r \in Router, DdRxmt(r) PROVE Orderly'
<1> DEFINE x == Self(r)
           p == nb[r].lastdd
           y == Send(x, p)
<1>1. /\ x \in XType /\ NbInv(r, nb[r]) /\ nb[r] \in NbType /\ TypeOK /\ x.n = nb[r] /\ x.d = ls[r] /\ x.out = <<>>
      /\ Known(r, x)
  BY KnownSelf
<1>2. Building(nb[r]) /\ LastDdFits(nb[r]) /\ nb[r].sent \subseteq nb[r].ddsum
  BY <1>1 DEF DdRxmt, Building, Known, Held, NbInv, ListsOf
<1>3. p \in DdPkt /\ p \in Pkt /\ p.t = "dd"
  BY <1>1 DEF DdRxmt, NbType, DdPkt, Pkt
<1>4. p.hs \subseteq nb[r].ddsum
  <2>1. CASE nb[r].state = EXSTART
    BY <2>1, <1>2 DEF LastDdFits, Dd
  <2>2. CASE nb[r].state = EXCHANGE
    BY <2>2, <1>2, ExchangeDd
  <2>3. QED BY <2>1, <2>2, <1>2 DEF Building
<1>5. Fair(r, x, p)
  BY <1>1, <1>3, <1>4 DEF Fair, Says
<1>6. y \in XType /\ y.n = nb[r] /\ y.d = ls[r] /\ y.out = <<p>> /\ Pkts(y.out) = {p} /\ Dds(y.out) = {p}
  BY <1>1, <1>3, SentOne, ZenonT(60) DEF Dds
<1>7. Acts(r, y) /\ UNCHANGED <<adj, dr>> /\ chan'[r] = chan[r]
  BY <1>1, TickActs DEF DdRxmt
<1> HIDE DEF x, y
<1>8. StillTells(r, y) /\ StateFits(r, y)
  <2>1. nb[r].state # DOWN
    BY <1>2 DEF Building, EXSTART, EXCHANGE, DOWN
  <2>2. QED BY <1>1, <1>6, <2>1, SameTells, SelfFits
<1>9. Ready(r, y)
  <2>1. y.n.ddsum \subseteq Says(Self(r)) /\ y.n.rxmt \subseteq Says(Self(r))
    BY <1>1, <1>6 DEF Says, x
  <2>2. \A q \in Pkts(y.out) : Fair(r, Self(r), q)
    BY <1>5, <1>6 DEF x
  <2>3. QED BY <1>1, <1>6, <1>7, <1>8, <2>1, <2>2, SameReady
<1>10. Calmly(nb[R2], nb[R1], Dds(chan[R1]), chan[R2], Aware(R1, nb[R1], ls[R1]), Aware(R2, nb[R2], ls[R2]))
  BY DEF Orderly, Exchanging
<1>11. /\ Dds(chan'[Peer(r)]) = Dds(chan[Peer(r)]) \union {p} /\ chan[Peer(r)] \in Seq(Pkt) /\ y.out \in Seq(Pkt)
       /\ chan'[Peer(r)] = chan[Peer(r)] \o y.out
  BY <1>1, <1>6, <1>7, ActsFields DEF Acts
<1>12. nb[r].state = EXCHANGE => (nb[r].master <=> r = R2)
  BY <1>1, PeerRoles, IdAssumption DEF NbInv, LeaderOf, EXCHANGE, Router
<1>13. CASE r = R2
  <2>1. First \in Nat /\ nb[R2].ddseq \in Nat
    BY <1>13, <1>1, NbFields, SizeAssumption, PeerRoles DEF First
  <2>2. /\ Dds(chan'[R1]) = Dds(chan[R1]) \union {nb[R2].lastdd} /\ chan'[R2] = chan[R2]
        /\ Building(nb[R2]) /\ LastDdFits(nb[R2]) /\ (nb[R2].state = EXCHANGE => nb[R2].master)
    BY <1>13, <1>2, <1>7, <1>11, <1>12, PeerRoles
  <2>3. Calmly(nb[R2], nb[R1], Dds(chan'[R1]), chan[R2], Aware(R1, nb[R1], ls[R1]), Aware(R2, nb[R2], ls[R2]))
    BY <2>1, <2>2, <1>10, CalmMasterRepeats
  <2>4. y.n = nb[R2] /\ y.d = ls[R2]
    BY <1>6, <1>13
  <2>5. QED BY <2>2, <2>3, <2>4, <1>1, <1>7, <1>9, <1>13, MasterDid
<1>14. CASE r = R1
  <2>1. chan'[R2] = chan[R2] \o y.out /\ chan'[R1] = chan[R1] /\ chan[R2] \in Seq(Pkt) /\ y.out \in Seq(Pkt)
    BY <1>14, <1>7, <1>11, PeerRoles
  <2>2. y.n = nb[R1] /\ y.d = ls[R1]
    BY <1>6, <1>14
  <2>3. nb[R1].state \in Nat /\ nb[R2].state \in Nat
    BY <1>1, NbFields, PeerRoles DEF TypeOK
  <2>4. Calmly(nb[R2], nb[R1], Dds(chan[R1]), chan[R2] \o y.out, Aware(R1, nb[R1], ls[R1]), Aware(R2, nb[R2], ls[R2]))
    <3>1. CASE nb[R1].state = EXSTART
      <4>1. p.init
        BY <3>1, <1>2, <1>14 DEF LastDdFits, Dd
      <4>2. Replies(y.out) = {}
        BY <4>1, <1>6 DEF Replies
      <4>3. QED BY <3>1, <4>2, <2>1, <2>3, <1>10, CalmInit
    <3>2. CASE nb[R1].state = EXCHANGE
      <4>1. ~nb[R1].master /\ LastDdFits(nb[R1]) /\ Dds(y.out) = {nb[R1].lastdd}
        BY <3>2, <1>2, <1>6, <1>12, <1>14, PeerRoles
      <4>2. QED BY <3>2, <4>1, <2>1, <1>10, CalmSlaveRepeats
    <3>3. QED BY <3>1, <3>2, <1>2, <1>14 DEF Building
  <2>5. QED BY <2>1, <2>2, <2>4, <1>1, <1>7, <1>9, <1>14, SlaveDid
<1>15. QED BY <1>13, <1>14 DEF Router

(* one more packet *)
LEMMA SoundSend ==
  ASSUME NEW r \in Router, NEW x, Sound(r, x), NEW p \in Pkt, PktReal(r, x.d, ls[Peer(r)], p)
  PROVE  Sound(r, Send(x, p)) /\ Send(x, p).n = x.n /\ Send(x, p).d = x.d /\ Pkts(Send(x, p).out) = Pkts(x.out) \union {p}
<1>1. x \in XType
  BY DEF Sound
<1>2. Send(x, p) \in XType /\ Send(x, p).n = x.n /\ Send(x, p).d = x.d
  BY <1>1 DEF Send, XType
<1>3. Pkts(Send(x, p).out) = Pkts(x.out) \union {p}
  BY <1>1, SendPkts
<1>4. QED BY <1>2, <1>3 DEF Sound

(* the transition to Full: the DR originates its network-LSA *)
LEMMA GoFullSound ==
  ASSUME TypeOK, NEW r \in Router, NEW x, Sound(r, x), ~Present(x.d, <<Net(r), TRUE>>)
  PROVE  LET z == GoFull(r, x)
         IN  /\ Sound(r, z) /\ Announced(r, z.n, z.d, ls[Peer(r)], dr[r]) /\ Grows(x.d, z.d)
             /\ z.n = [x.n EXCEPT !.state = FULL] /\ z.out = x.out
             /\ z.d.db[<<Rtr(r), TRUE>>] = x.d.db[<<Rtr(r), TRUE>>]
<1> DEFINE z == GoFull(r, x)
           kn == <<Net(r), TRUE>>
           w == [x EXCEPT !.n.state = FULL]
<1>1. /\ x \in XType /\ Net(r) \in Own(r) /\ kn \in Key /\ boot[r] \in Nat /\ Net(r) \in Lsa
      /\ <<Rtr(r), TRUE>> \in Key /\ <<Rtr(r), TRUE>> # kn /\ dr[r] \in BOOLEAN
  BY OwnLsas, KeyType DEF Sound, TypeOK
<1>2. /\ w \in XType /\ w.n = [x.n EXCEPT !.state = FULL] /\ w.d = x.d /\ w.out = x.out
  BY <1>1 DEF XType, NbType
<1>3. w.n.ddsum = x.n.ddsum /\ w.n.rxmt = x.n.rxmt /\ w.n.lsreq = x.n.lsreq /\ w.n.state = FULL
  BY <1>1, <1>2 DEF XType, NbType
<1>4. Sound(r, w)
  <2> HIDE DEF w
  <2>1. QED BY <1>2, <1>3, SoundSame DEF Says
<1>5. z \in XType /\ z.n = w.n /\ z.out = w.out
  <2>1. z \in XType
    BY <1>1, GoFullFields
  <2>2. z.n = w.n /\ z.out = w.out
    BY <1>1 DEF GoFull, XType
  <2>3. QED BY <2>1, <2>2
<1>6. CASE dr[r]
  <2>1. z.d = Originate(w.d, Net(r), boot[r], FALSE)
    BY <1>1, <1>2, <1>6 DEF GoFull, XType
  <2>2. kn \in z.d.flood
    BY <2>1, <1>1, <1>2 DEF Originate, XType, LsType
  <2> HIDE DEF z, w
  <2>3. Sound(r, z) /\ Grows(w.d, z.d) /\ \A k \in Key : k # kn => z.d.db[k] = w.d.db[k]
    BY <1>1, <1>4, <1>5, <2>1, OriginateKeeps, ZenonT(60)
  <2>4. Announced(r, z.n, z.d, ls[Peer(r)], dr[r])
    BY <2>2, <1>3, <1>5, <1>6 DEF Announced
  <2>5. QED BY <2>3, <2>4, <1>1, <1>2, <1>5 DEF z
<1>7. CASE ~dr[r]
  <2>1. z = w
    BY <1>1, <1>7 DEF GoFull, XType
  <2>2. Grows(x.d, x.d)
    BY GrowsSelf
  <2>3. Announced(r, z.n, z.d, ls[Peer(r)], dr[r])
    <3> HIDE DEF z, w
    <3>1. QED BY <2>1, <1>2 DEF Announced
  <2>4. QED
    <3> HIDE DEF w
    <3>1. QED BY <2>1, <2>2, <2>3, <1>2, <1>4
<1>8. QED BY <1>6, <1>7, <1>1

(* lsupdateRx: before the state is looked at *)
Took(r, hs, y) ==
  /\ Sound(r, y) /\ Grows(ls[r], y.d) /\ \A l \in Lsa : y.d.db[<<l, TRUE>>] = ls[r].db[<<l, TRUE>>]
  /\ ls[r].flood \subseteq y.d.flood
  /\ y.n.state = nb[r].state /\ y.n.ddseq = nb[r].ddseq /\ y.n.ddsum = nb[r].ddsum /\ y.n.sent = nb[r].sent
  /\ y.n.more0 = nb[r].more0 /\ y.n.lastdd = nb[r].lastdd
  /\ y.n.lsreq = nb[r].lsreq \ {h.l : h \in hs}
  /\ y.n.rxmt = {j \in nb[r].rxmt : j.l \notin {h.l : h \in hs}}
  /\ Dds(y.out) = {} /\ (Aware(r, nb[r], ls[r]) => Aware(r, y.n, y.d))

LEMMA UpdTook ==
  ASSUME ExchangeInv, Orderly, NEW r \in Router, Arrived(r, "upd")
  PROVE  LET x == Self(r)
             hs == Head(chan[r]).hs
             ids == {h.l : h \in hs}
         IN  Took(r, hs, Send([x EXCEPT !.d = Store(@, hs), !.n.lsreq = @ \ ids,
                                        !.n.rxmt = {j \in @ : j.l \notin ids}], LsAck(hs)))
<1> DEFINE x == Self(r)
           hs == Head(chan[r]).hs
           ids == {h.l : h \in hs}
           u == [x EXCEPT !.d = Store(@, hs)]
           v == [x EXCEPT !.d = Store(@, hs), !.n.lsreq = @ \ ids, !.n.rxmt = {j \in @ : j.l \notin ids}]
           y == Send(v, LsAck(hs))
           g == ls[Peer(r)]
<1>1. /\ x \in XType /\ nb[r] \in NbType /\ TypeOK /\ x.n = nb[r] /\ x.d = ls[r] /\ x.out = <<>>
  BY KnownSelf
<1>2. chan[r] # <<>> /\ Head(chan[r]).t = "upd"
  BY DEF Arrived
<1>3. hs \in SUBSET Inst /\ \A h \in hs : Sure(Peer(r), g, ls[r], h)
  BY <1>2, ReadHead, PktFields DEF PktReal
<1>4. Sound(r, x)
  BY <1>1, SoundSelf DEF Orderly
<1>5. Store(ls[r], hs) \in LsType
  BY <1>1, <1>3, StoreType DEF TypeOK
<1>6. u \in XType /\ u.n = nb[r] /\ u.out = <<>> /\ u.d = Store(ls[r], hs)
  BY <1>1, <1>5 DEF XType
<1>7. /\ v \in XType /\ v.out = <<>> /\ v.d = Store(ls[r], hs)
      /\ v.n.state = nb[r].state /\ v.n.ddseq = nb[r].ddseq /\ v.n.ddsum = nb[r].ddsum /\ v.n.sent = nb[r].sent
      /\ v.n.more0 = nb[r].more0 /\ v.n.lastdd = nb[r].lastdd
      /\ v.n.lsreq = nb[r].lsreq \ ids /\ v.n.rxmt = {j \in nb[r].rxmt : j.l \notin ids}
  BY <1>1, <1>5, Zenon DEF XType, NbType
<1>8. LsAck(hs) \in Pkt /\ LsAck(hs).t = "ack" /\ LsAck(hs).hs = hs
  BY <1>3 DEF LsAck, Pkt
<1>9. ls[r].flood \subseteq Store(ls[r], hs).flood
  BY <1>1 DEF Store, XType, LsType
<1> HIDE DEF x, u, v, hs
<1>10. /\ Sound(r, u) /\ Grows(ls[r], u.d) /\ \A h \in hs : Sure(r, u.d, g, h)
       /\ \A l \in Lsa : u.d.db[<<l, TRUE>>] = ls[r].db[<<l, TRUE>>]
  <2>1. u.n = x.n /\ u.out = x.out /\ u.d = Store(x.d, hs)
    BY <1>1, <1>6
  <2>2. \A h \in hs : Sure(Peer(r), ls[Peer(r)], x.d, h)
    BY <1>1, <1>3
  <2>3. /\ Sound(r, u) /\ Grows(x.d, u.d) /\ \A h \in hs : Sure(r, u.d, ls[Peer(r)], h)
        /\ \A l \in Lsa : u.d.db[<<l, TRUE>>] = x.d.db[<<l, TRUE>>]
    BY <2>1, <2>2, <1>3, <1>4, <1>6, StoreSound
  <2>4. QED BY <2>3, <1>1
<1>11. Sound(r, v)
  <2>1. v.d.db = u.d.db /\ v.d.old = u.d.old /\ v.n.ddsum \subseteq Says(u) /\ v.n.rxmt \subseteq Says(u)
    BY <1>6, <1>7 DEF Says
  <2>2. \A l \in v.n.lsreq : l \in u.n.lsreq \/ Has(ls[Peer(r)], l)
    BY <1>6, <1>7
  <2>3. \A p \in Pkts(v.out) : p \in Pkts(u.out) \/ Fair(r, u, p)
    BY <1>7, NothingSent
  <2>4. QED BY <1>7, <1>10, <2>1, <2>2, <2>3, SoundSame
<1>12. PktReal(r, v.d, g, LsAck(hs))
  BY <1>6, <1>7, <1>8, <1>10 DEF PktReal
<1>13. Sound(r, y) /\ y.n = v.n /\ y.d = v.d /\ Pkts(y.out) = {LsAck(hs)}
  BY <1>7, <1>8, <1>11, <1>12, SoundSend, NothingSent, SMTT(30)
<1>14. Aware(r, nb[r], ls[r]) => Aware(r, y.n, y.d)
  <2> DEFINE l == Rtr(Peer(r))
  <2>1. l \in Lsa
    BY PeerType, OwnLsas
  <2>2. Has(ls[r], l) => Has(y.d, l)
    BY <2>1, <1>6, <1>7, <1>10, <1>13 DEF Grows
  <2>3. ASSUME l \in nb[r].lsreq, l \notin y.n.lsreq PROVE Has(y.d, l)
    <3>1. PICK h \in hs : h.l = l
      BY <2>3, <1>7, <1>13
    <3>2. QED BY <3>1, <1>6, <1>7, <1>10, <1>13 DEF Sure
  <2>4. QED BY <2>2, <2>3 DEF Aware
<1>15. Dds(y.out) = {}
  BY <1>8, <1>13 DEF Dds
<1> HIDE DEF y
<1>16. Took(r, hs, y)
  BY <1>6, <1>7, <1>9, <1>10, <1>13, <1>14, <1>15 DEF Took
<1>17. QED BY <1>16 DEF y, v, hs, x

(* lsupdateRx *)
LEMMA CalmUpd == ASSUME ExchangeInv, Orderly, NEW r \in Router, LsUpdRx(r) PROVE Orderly'
<1> DEFINE x == Self(r)
           hs == Head(chan[r]).hs
           ids == {h.l : h \in hs}
           y == Send([x EXCEPT !.d = Store(@, hs), !.n.lsreq = @ \ ids,
                               !.n.rxmt = {j \in @ : j.l \notin ids}], LsAck(hs))
           kn == <<Net(r), TRUE>>
           kr == <<Rtr(r), TRUE>>
<1>1. /\ x \in XType /\ nb[r] \in NbType /\ TypeOK /\ x.n = nb[r] /\ x.d = ls[r] /\ x.out = <<>>
  BY KnownSelf
<1>2. Arrived(r, "upd") /\ chan[r] # <<>> /\ Head(chan[r]).t = "upd" /\ UNCHANGED <<adj, dr>>
  BY Zenon DEF LsUpdRx, Arrived
<1>3. Took(r, hs, y)
  BY <1>2, UpdTook, ZenonT(60)
<1>4. \/ x.n.state < EXCHANGE /\ Rx(r, x)
      \/ x.n.state \in {EXCHANGE, FULL} /\ Rx(r, y)
      \/ x.n.state = LOADING /\ y.n.lsreq = {} /\ Rx(r, GoFull(r, y))
      \/ x.n.state = LOADING /\ y.n.lsreq # {} /\ \E c \in Chunk(y.n.lsreq, LsReqMax) : Rx(r, BuildReq(y, c))
  BY Zenon DEF LsUpdRx
<1>5. \A h \in hs : Has(ls[Peer(r)], h.l)
  BY <1>2, ReadHead DEF PktReal, Sure
<1> HIDE DEF x, y, hs
<1>6. /\ Rtr(r) \in Lsa /\ Net(r) \in Lsa /\ Rtr(Peer(r)) \in Lsa /\ dr[r] \in BOOLEAN
      /\ Begun(r, nb[r], ls[r], nb[Peer(r)], adj[r], dr[r]) /\ Announced(r, nb[r], ls[r], ls[Peer(r)], dr[r])
  BY <1>1, PeerType, OwnLsas DEF Orderly, Started, Told, TypeOK
<1>7. y.d.db[kn] = ls[r].db[kn] /\ y.d.db[kr] = ls[r].db[kr]
  BY <1>3, <1>6 DEF Took
<1>8. Announced(r, y.n, y.d, ls[Peer(r)], dr[r])
  <2>1. Net(r) \in LsasOf(nb[r].rxmt) => Net(r) \in LsasOf(y.n.rxmt) \/ Has(ls[Peer(r)], Net(r))
    BY <1>3, <1>5 DEF Took, LsasOf
  <2>2. QED BY <2>1, <1>3, <1>6, <1>7 DEF Announced, Present, Took
(* what a result z that follows y must satisfy *)
<1>9. ASSUME NEW z, Sound(r, z), Rx(r, z), Announced(r, z.n, z.d, ls[Peer(r)], dr[r]), Grows(y.d, z.d),
             z.d.db[kr] = y.d.db[kr], Dds(z.out) = {},
             z.n.state = y.n.state \/ (y.n.state = LOADING /\ z.n.state = FULL),
             z.n.ddseq = y.n.ddseq, z.n.ddsum = y.n.ddsum, z.n.sent = y.n.sent, z.n.more0 = y.n.more0,
             z.n.lastdd = y.n.lastdd, z.n.lsreq = y.n.lsreq
      PROVE  Orderly'
  <2>1. Acts(r, z)
    BY <1>1, <1>2, <1>9, RxActs
  <2>2. Begun(r, z.n, z.d, nb[Peer(r)], adj'[r], dr'[r])
    <3>1. z.n.state = nb[r].state \/ (nb[r].state = LOADING /\ z.n.state = FULL)
      BY <1>3, <1>9 DEF Took
    <3>2. z.d.db[kr] = ls[r].db[kr]
      BY <1>7, <1>9
    <3>3. QED BY <3>1, <3>2, <1>2, <1>6 DEF Begun, Present, LOADING, FULL, EXSTART, TWOWAY
  <2>3. Ready(r, z)
    <3>1. nb[r].state # DOWN => z.n.state # DOWN
      BY <1>3, <1>9 DEF Took, FULL, DOWN
    <3>2. QED BY <3>1, <2>2, <1>2, <1>9 DEF Ready
  <2>4. Idles(nb[r], z.n)
    BY <1>3, <1>9 DEF Idles, Took
  <2>5. Aware(r, nb[r], ls[r]) => Aware(r, z.n, z.d)
    BY <1>3, <1>6, <1>9 DEF Took, Aware, Grows
  <2>6. QED BY <2>1, <2>3, <2>4, <2>5, <1>1, <1>9, IdlesStep
<1>10. CASE Rx(r, x)
  <2>1. Acts(r, x)
    BY <1>1, <1>2, <1>10, RxActs
  <2>2. StillTells(r, x) /\ x.n.rxmt \subseteq Says(x) /\ Pkts(x.out) = {}
    BY <1>1, SameTells, NothingSent DEF Says
  <2>3. QED BY <1>1, <1>2, <2>1, <2>2, QuietStep DEF x
<1>11. CASE Rx(r, y)
  BY <1>3, <1>8, <1>9, <1>11, GrowsSelf DEF Took
<1>12. CASE x.n.state = LOADING /\ Rx(r, GoFull(r, y))
  <2> DEFINE z == GoFull(r, y)
  <2>1. ~Present(y.d, kn) /\ Sound(r, y)
    BY <1>1, <1>3, <1>6, <1>7, <1>12 DEF Announced, Present, Took, LOADING, FULL
  <2>2. /\ Sound(r, z) /\ Announced(r, z.n, z.d, ls[Peer(r)], dr[r]) /\ Grows(y.d, z.d)
        /\ z.n = [y.n EXCEPT !.state = FULL] /\ z.out = y.out /\ z.d.db[kr] = y.d.db[kr]
    BY <2>1, <1>1, GoFullSound
  <2>3. /\ z.n.state = FULL /\ z.n.ddseq = y.n.ddseq /\ z.n.ddsum = y.n.ddsum /\ z.n.sent = y.n.sent
        /\ z.n.more0 = y.n.more0 /\ z.n.lastdd = y.n.lastdd /\ z.n.lsreq = y.n.lsreq
    BY <2>1, <2>2 DEF Sound, XType, NbType
  <2>4. y.n.state = LOADING /\ Dds(z.out) = {}
    BY <1>1, <1>3, <1>12, <2>2 DEF Took
  <2> HIDE DEF z
  <2>5. QED BY <2>2, <2>3, <2>4, <1>9, <1>12 DEF z
<1>13. ASSUME NEW c \in Chunk(y.n.lsreq, LsReqMax), Rx(r, BuildReq(y, c)) PROVE Orderly'
  <2> DEFINE v == [y EXCEPT !.n.lastreq = LsReq(c)]
             z == Send(v, LsReq(c))
  <2>1. y \in XType /\ Sound(r, y) /\ c \subseteq y.n.lsreq /\ c \subseteq Lsa /\ z = BuildReq(y, c)
    BY <1>3 DEF Took, Sound, XType, NbType, Chunk, BuildReq
  <2>2. LsReq(c) \in Pkt /\ LsReq(c) \in ReqPkt /\ LsReq(c).t = "req" /\ LsReq(c).ids = c
    BY <2>1 DEF LsReq, ReqPkt, Pkt
  <2>3. /\ v \in XType /\ v.d = y.d /\ v.out = y.out /\ v.n.state = y.n.state /\ v.n.ddseq = y.n.ddseq
        /\ v.n.ddsum = y.n.ddsum /\ v.n.sent = y.n.sent /\ v.n.more0 = y.n.more0 /\ v.n.lastdd = y.n.lastdd
        /\ v.n.lsreq = y.n.lsreq /\ v.n.rxmt = y.n.rxmt
    BY <2>1, <2>2 DEF XType, NbType
  <2> HIDE DEF v
  <2>4. Sound(r, v)
    BY <2>1, <2>3, SoundSame DEF Says
  <2>5. PktReal(r, v.d, ls[Peer(r)], LsReq(c))
    BY <2>1, <2>2 DEF PktReal, Sound, Stock
  <2>6. Sound(r, z) /\ z.n = v.n /\ z.d = v.d /\ Pkts(z.out) = Pkts(y.out) \union {LsReq(c)}
    BY <2>2, <2>3, <2>4, <2>5, SoundSend
  <2> HIDE DEF z
  <2>7. Dds(z.out) = {}
    BY <2>2, <2>6, <1>3 DEF Took, Dds
  <2>8. Announced(r, z.n, z.d, ls[Peer(r)], dr[r]) /\ Grows(y.d, z.d)
    BY <2>3, <2>6, <1>8, GrowsSelf DEF Announced
  <2>9. QED BY <2>1, <2>3, <2>6, <2>7, <2>8, <1>9, <1>13
<1>14. QED BY <1>4, <1>10, <1>11, <1>12, <1>13

(* ------------------------- the adjacency starts -------------------------- *)
(* r after a hello or a DD packet, before it starts an adjacency *)
InState(r, st) == [Self(r) EXCEPT !.n.state = st]

Meets(r, st) ==
  \/ st = nb[r].state
  \/ nb[r].state < TWOWAY /\ (st = INIT \/ (st = TWOWAY /\ nb[Peer(r)].state # DOWN))

LEMMA InStateSound ==
  ASSUME ExchangeInv, Orderly, NEW r \in Router, NEW st, Meets(r, st)
  PROVE  LET h == InState(r, st)
         IN  /\ Sound(r, h) /\ h.d = ls[r] /\ h.out = <<>> /\ h.n.state = st
             /\ h.n.ddseq = nb[r].ddseq /\ h.n.ddsum = nb[r].ddsum /\ h.n.sent = nb[r].sent
             /\ h.n.more0 = nb[r].more0 /\ h.n.lsreq = nb[r].lsreq /\ h.n.rxmt = nb[r].rxmt
             /\ h.n.lastdd = nb[r].lastdd
             /\ st >= TWOWAY => nb[Peer(r)].state # DOWN
             /\ nb[r].state # DOWN => st # DOWN
             /\ st = nb[r].state \/ (st < EXSTART /\ nb[r].state < EXSTART)
<1> DEFINE x == Self(r)
           h == InState(r, st)
<1>1. /\ x \in XType /\ nb[r] \in NbType /\ TypeOK /\ x.n = nb[r] /\ x.d = ls[r] /\ x.out = <<>>
  BY KnownSelf
<1>2. st \in {DOWN, INIT, TWOWAY, EXSTART, EXCHANGE, LOADING, FULL} /\ nb[r].state \in Nat
  BY <1>1, NbFields DEF Meets, NbType
<1>3. /\ h \in XType /\ h.d = ls[r] /\ h.out = <<>> /\ h.n.state = st
      /\ h.n.ddseq = nb[r].ddseq /\ h.n.ddsum = nb[r].ddsum /\ h.n.sent = nb[r].sent
      /\ h.n.more0 = nb[r].more0 /\ h.n.lsreq = nb[r].lsreq /\ h.n.rxmt = nb[r].rxmt
      /\ h.n.lastdd = nb[r].lastdd
  BY <1>1, <1>2 DEF InState, XType, NbType
<1> HIDE DEF h, x
<1>4. Sound(r, x)
  BY <1>1, SoundSelf DEF Orderly, x
<1>5. Sound(r, h)
  <2>1. h.d.db = x.d.db /\ h.d.old = x.d.old /\ h.n.ddsum \subseteq Says(x) /\ h.n.rxmt \subseteq Says(x)
    BY <1>1, <1>3 DEF Says
  <2>2. \A l \in h.n.lsreq : l \in x.n.lsreq \/ Has(ls[Peer(r)], l)
    BY <1>1, <1>3
  <2>3. \A p \in Pkts(h.out) : p \in Pkts(x.out) \/ Fair(r, x, p)
    BY <1>3, NothingSent
  <2>4. QED BY <1>3, <1>4, <2>1, <2>2, <2>3, SoundSame
<1>6. st >= TWOWAY => nb[Peer(r)].state # DOWN
  <2>1. Begun(r, nb[r], ls[r], nb[Peer(r)], adj[r], dr[r])
    BY DEF Orderly, Started
  <2>2. QED BY <2>1, <1>2 DEF Begun, Meets, INIT, TWOWAY
<1>7. /\ nb[r].state # DOWN => st # DOWN
      /\ st = nb[r].state \/ (st < EXSTART /\ nb[r].state < EXSTART)
  BY <1>2 DEF Meets, INIT, TWOWAY, DOWN, EXSTART
<1>8. QED BY <1>3, <1>5, <1>6, <1>7 DEF h

(* start_adj *)
LEMMA StartAdjSound ==
  ASSUME ExchangeInv, Orderly, NEW r \in Router, NEW st, Meets(r, st), st < EXSTART
  PROVE  LET z == StartAdj(r, InState(r, st))
         IN  /\ Sound(r, z) /\ z.d = ls[r] /\ z.n.state = EXSTART /\ z.n.ddseq = DdBase(nb[r], Time(r)) + 1
             /\ z.n.lsreq = nb[r].lsreq /\ LastDdFits(z.n) /\ z.n.lastdd.init /\ Dds(z.out) = {z.n.lastdd}
             /\ Pkts(z.out) = {z.n.lastdd} /\ z.out = <<z.n.lastdd>> /\ nb[r].state < EXSTART
             /\ z.n.ddsum = nb[r].ddsum /\ z.n.sent = nb[r].sent
<1> DEFINE h == InState(r, st)
           z == StartAdj(r, h)
<1>1. /\ Sound(r, h) /\ h.d = ls[r] /\ h.out = <<>> /\ h.n.ddseq = nb[r].ddseq /\ h.n.lsreq = nb[r].lsreq
      /\ h.n.ddsum = nb[r].ddsum /\ h.n.sent = nb[r].sent
      /\ st = nb[r].state \/ (st < EXSTART /\ nb[r].state < EXSTART)
  BY InStateSound
<1>2. TypeOK /\ h \in XType
  BY <1>1, KnownSelf DEF Sound
<1> HIDE DEF h
<1>3. /\ z \in XType /\ z.d = h.d /\ z.n.state = EXSTART /\ z.n.ddseq = DdBase(h.n, Time(r)) + 1
      /\ z.n.ddsum = h.n.ddsum /\ z.n.rxmt = h.n.rxmt /\ z.n.lsreq = h.n.lsreq
      /\ z.n.lastdd = Dd(TRUE, TRUE, TRUE, z.n.ddseq, {})
      /\ Pkts(z.out) = Pkts(h.out) \union {z.n.lastdd} /\ z.n.sent = h.n.sent
  BY <1>2, StartAdjFields
<1>4. z.out = <<z.n.lastdd>>
  <2> DEFINE t == (IF h.n.ddseq = 0 THEN Time(r) ELSE h.n.ddseq) + 1
             u == [h EXCEPT !.n.state = EXSTART, !.n.ddseq = t, !.n.master = TRUE]
             p == Dd(TRUE, TRUE, TRUE, t, {})
             v == [u EXCEPT !.n.lastdd = p, !.n.sent = @]
  <2>1. t \in Nat
    BY <1>2, TimeType DEF XType, NbType
  <2>2. z = BuildDd(u, TRUE, TRUE, {})
    BY DEF StartAdj
  <2> HIDE DEF t
  <2>3. u \in XType /\ u.out = <<>> /\ u.n.state = EXSTART /\ u.n.ddseq = t
    BY <1>1, <1>2, <2>1 DEF XType, NbType
  <2> HIDE DEF u
  <2>4. z = Send(v, p)
    BY <2>2, <2>3 DEF BuildDd
  <2>5. p \in DdPkt /\ p \in Pkt
    BY <2>1 DEF Dd, DdPkt, Pkt
  <2>6. v \in XType /\ v.out = <<>> /\ v.n.lastdd = p
    BY <2>3, <2>5 DEF XType, NbType
  <2> HIDE DEF v, p, z
  <2>7. QED BY <2>4, <2>5, <2>6, SentOne
<1> HIDE DEF z
<1>5. z.n.lastdd.init /\ z.n.lastdd.t = "dd" /\ z.n.lastdd.hs = {}
  BY <1>3 DEF Dd
<1>6. LastDdFits(z.n)
  BY <1>3 DEF LastDdFits, EXSTART, EXCHANGE
<1>7. Fair(r, h, z.n.lastdd)
  BY <1>5 DEF Fair
<1>8. Sound(r, z)
  BY <1>1, <1>3, <1>7, SoundSame DEF Says
<1>9. Pkts(z.out) = {z.n.lastdd} /\ Dds(z.out) = {z.n.lastdd}
  BY <1>1, <1>3, <1>5, NothingSent DEF Dds
<1>10. DdBase(h.n, Time(r)) = DdBase(nb[r], Time(r))
  BY <1>1 DEF DdBase
<1>11. QED BY <1>1, <1>3, <1>4, <1>5, <1>6, <1>8, <1>9, <1>10 DEF z, h

(* the adjacency starts: the first packet is sent *)
LEMMA CalmBegins ==
  ASSUME ExchangeInv, Unfailed, Orderly, NEW r \in Router, NEW y, Acts(r, y), Ready(r, y),
         nb[r].state < EXSTART, y.n.state = EXSTART, y.n.ddseq = DdBase(nb[r], Time(r)) + 1,
         LastDdFits(y.n), Dds(y.out) = {y.n.lastdd}, y.n.lastdd.init,
         Aware(r, nb[r], ls[r]) => Aware(r, y.n, y.d)
  PROVE  Orderly'
<1>1. TypeOK /\ y \in XType
  BY KnownSelf DEF Ready, Sound
<1>2. /\ Dds(chan'[r]) \subseteq Dds(chan[r]) /\ Thins(chan[r], chan'[r])
      /\ Dds(chan'[Peer(r)]) = Dds(chan[Peer(r)]) \union Dds(y.out)
      /\ y.n \in NbType /\ nb[r] \in NbType /\ nb[Peer(r)] \in NbType
      /\ chan[Peer(r)] \in Seq(Pkt) /\ y.out \in Seq(Pkt)
  BY <1>1, ActsFields
<1>3. y.n.state \in Nat /\ nb[r].state \in Nat /\ nb[Peer(r)].state \in Nat
  BY <1>2, NbFields
<1>4. Calmly(nb[R2], nb[R1], Dds(chan[R1]), chan[R2], Aware(R1, nb[R1], ls[R1]), Aware(R2, nb[R2], ls[R2]))
  BY DEF Orderly, Exchanging
<1>5. CASE r = R2
  <2>1. y.n.ddseq = First
    <3>1. nb[R2].ddseq = 0
      BY <1>4, <1>5 DEF Calmly, Once
    <3>2. Time(R2) = Epoch[R2]
      BY SizeAssumption, PeerRoles DEF Time, Unfailed
    <3>3. QED BY <3>1, <3>2, <1>5 DEF DdBase, First
  <2>2. Dds(chan'[R1]) \subseteq Dds(chan[R1]) \union {y.n.lastdd} /\ Thins(chan[R2], chan'[R2])
    BY <1>2, <1>5, PeerRoles
  <2>3. nb[R2].state \in Nat /\ nb[R1].state \in Nat /\ nb[R2].state < EXSTART
    BY <1>3, <1>5, PeerRoles
  <2>4. Calmly(y.n, nb[R1], Dds(chan'[R1]), chan'[R2], Aware(R1, nb[R1], ls[R1]), Aware(R2, nb[R2], ls[R2]))
    BY <1>4, <2>1, <2>2, <2>3, CalmStart
  <2>5. Idles(y.n, y.n) /\ Idles(nb[R1], nb[R1]) /\ Thins(chan'[R2], chan'[R2])
    BY DEF Idles, Thins
  <2>6. Calmly(y.n, nb[R1], Dds(chan'[R1]), chan'[R2], Aware(R1, nb[R1], ls[R1]), Aware(R2, y.n, y.d))
    BY <1>3, <1>5, <2>3, <2>4, <2>5, CalmIdle
  <2>7. QED BY <2>6, <1>1, <1>5, MasterDid
<1>6. CASE r = R1
  <2>1. chan'[R2] = chan[R2] \o y.out /\ Dds(chan'[R1]) \subseteq Dds(chan[R1]) /\ chan[R2] \in Seq(Pkt)
    BY <1>2, <1>6, PeerRoles DEF Acts
  <2>2. nb[R2].state \in Nat /\ nb[R1].state \in Nat /\ nb[R1].state <= EXSTART
    BY <1>3, <1>6, PeerRoles DEF EXSTART
  <2>3. Replies(y.out) = {}
    BY DEF Replies
  <2>4. Calmly(nb[R2], y.n, Dds(chan'[R1]), chan'[R2], Aware(R1, nb[R1], ls[R1]), Aware(R2, nb[R2], ls[R2]))
    BY <1>2, <1>4, <2>1, <2>2, <2>3, CalmInit
  <2>5. Idles(y.n, y.n) /\ Idles(nb[R2], nb[R2]) /\ Thins(chan'[R2], chan'[R2])
    BY DEF Idles, Thins
  <2>6. Calmly(nb[R2], y.n, Dds(chan'[R1]), chan'[R2], Aware(R1, y.n, y.d), Aware(R2, nb[R2], ls[R2]))
    BY <1>3, <1>6, <2>2, <2>4, <2>5, CalmIdle
  <2>7. QED BY <2>6, <1>1, <1>6, SlaveDid
<1>7. QED BY <1>5, <1>6 DEF Router

(* What helloRx and the first part of dbdescRx leave: the neighbour is not    *)
(* dropped, since the peer has not forgotten this router                      *)
Met(r, h) ==
  \/ \E st : Meets(r, st) /\ h = InState(r, st)
  \/ adj[r] /\ nb[r].state < TWOWAY /\ nb[Peer(r)].state # DOWN /\ h = StartAdj(r, InState(r, INIT))

LEMMA InStateSelf ==
  ASSUME TypeOK, NEW r \in Router PROVE InState(r, nb[r].state) = Self(r) /\ Meets(r, nb[r].state)
<1>1. Self(r) \in XType /\ Self(r).n = nb[r] /\ nb[r] \in NbType
  BY SelfType DEF Self, TypeOK
<1>2. QED BY <1>1 DEF InState, Meets, XType, NbType

LEMMA HelloMet == ASSUME ExchangeInv, Orderly, NEW r \in Router PROVE Met(r, HelloReceived(r))
<1> DEFINE x == Self(r)
           y == IF x.n.state = DOWN THEN InState(r, INIT) ELSE x
<1>1. /\ x \in XType /\ nb[r] \in NbType /\ TypeOK /\ x.n = nb[r] /\ nb[r].state \in Nat
  BY KnownSelf, NbFields
<1>2. InState(r, nb[r].state) = x /\ Meets(r, nb[r].state)
  BY <1>1, InStateSelf
<1>3. HelloReceived(r) = IF HelloSeen(r) THEN TwoWayReceived(r, y) ELSE OneWay(r, y)
  BY DEF HelloReceived, InState
<1>4. InState(r, INIT).n.state = INIT
  BY <1>1 DEF InState, XType, NbType
<1>5. CASE ~HelloSeen(r)
  <2>1. nb[r].state < TWOWAY
    <3>1. Begun(r, nb[r], ls[r], nb[Peer(r)], adj[r], dr[r])
      BY DEF Orderly, Started
    <3>2. ~(nb[r].state >= TWOWAY)
      BY <3>1, <1>5 DEF Begun, HelloSeen
    <3>3. QED BY <3>2, <1>1 DEF TWOWAY
  <2>2. Meets(r, INIT)
    BY <2>1 DEF Meets
  <2>3. y.n.state < TWOWAY /\ y.n.state \in Nat /\ \E st : Meets(r, st) /\ y = InState(r, st)
    BY <1>1, <1>2, <1>4, <2>1, <2>2 DEF INIT, TWOWAY
  <2> HIDE DEF y
  <2>4. OneWay(r, y) = y
    BY <2>3, <1>1 DEF OneWay, TWOWAY
  <2>5. QED BY <2>3, <2>4, <1>3, <1>5 DEF Met
<1>6. CASE HelloSeen(r)
  <2>1. CASE nb[r].state = DOWN \/ nb[r].state = INIT
    <3>1. y = InState(r, INIT) /\ nb[r].state < TWOWAY
      BY <2>1, <1>1, <1>2 DEF DOWN, INIT, TWOWAY
    <3>2. TwoWayReceived(r, y) = IF adj[r] THEN StartAdj(r, y) ELSE [y EXCEPT !.n.state = TWOWAY]
      BY <3>1, <1>4 DEF TwoWayReceived
    <3>3. [InState(r, INIT) EXCEPT !.n.state = TWOWAY] = InState(r, TWOWAY)
      BY <1>1 DEF InState, XType, NbType
    <3>4. Meets(r, TWOWAY)
      BY <3>1, <1>6 DEF Meets, HelloSeen
    <3>5. QED BY <3>1, <3>2, <3>3, <3>4, <1>3, <1>6 DEF Met, HelloSeen
  <2>2. CASE nb[r].state # DOWN /\ nb[r].state # INIT
    <3>1. y = x
      BY <2>2, <1>1
    <3>2. TwoWayReceived(r, y) = x
      BY <3>1, <2>2, <1>1 DEF TwoWayReceived
    <3>3. QED BY <3>2, <1>2, <1>3, <1>6 DEF Met
  <2>3. QED BY <2>1, <2>2
<1>7. QED BY <1>5, <1>6

LEMMA ReceiverMet == ASSUME ExchangeInv, Orderly, NEW r \in Router, Arrived(r, "dd") PROVE Met(r, DdReceiver(r))
<1> DEFINE x == Self(r)
<1>1. /\ x \in XType /\ nb[r] \in NbType /\ TypeOK /\ x.n = nb[r] /\ nb[r].state \in Nat
  BY KnownSelf, NbFields
<1>2. InState(r, nb[r].state) = x /\ Meets(r, nb[r].state)
  BY <1>1, InStateSelf
<1>3. nb[Peer(r)].state # DOWN
  <2>1. Head(chan[r]) \in Dds(chan[r])
    BY DdHead
  <2>2. Peer(r) \in Router /\ Peer(Peer(r)) = r
    BY PeerType, OwnLsas
  <2>3. QED BY <2>1, <2>2 DEF Orderly, Started
<1>4. CASE nb[r].state = INIT
  <2>1. x = InState(r, INIT) /\ nb[r].state < TWOWAY
    BY <1>2, <1>4 DEF INIT, TWOWAY
  <2>2. DdReceiver(r) = IF adj[r] THEN StartAdj(r, InState(r, INIT)) ELSE InState(r, TWOWAY)
    BY <2>1, <1>1, <1>4 DEF DdReceiver, TwoWayReceived, InState
  <2>3. Meets(r, TWOWAY)
    BY <2>1, <1>3 DEF Meets
  <2>4. QED BY <2>1, <2>2, <2>3, <1>3 DEF Met
<1>5. CASE nb[r].state # INIT
  BY <1>1, <1>2, <1>5 DEF DdReceiver, TwoWayReceived, Met
<1>6. QED BY <1>4, <1>5

(* nothing more than that happens *)
LEMMA MetStep ==
  ASSUME ExchangeInv, Unfailed, Orderly, NEW r \in Router, NEW h, Met(r, h), Acts(r, h), UNCHANGED <<adj, dr>>
  PROVE  Orderly'
<1>1. TypeOK /\ nb[r] \in NbType /\ nb[r].state \in Nat
  BY KnownSelf, NbFields
<1>2. Begun(r, nb[r], ls[r], nb[Peer(r)], adj[r], dr[r]) /\ Announced(r, nb[r], ls[r], ls[Peer(r)], dr[r])
  BY DEF Orderly, Started, Told
<1>3. ASSUME NEW st, Meets(r, st), h = InState(r, st) PROVE Orderly'
  <2>1. /\ Sound(r, h) /\ h.d = ls[r] /\ h.out = <<>> /\ h.n.state = st
        /\ h.n.ddseq = nb[r].ddseq /\ h.n.ddsum = nb[r].ddsum /\ h.n.sent = nb[r].sent
        /\ h.n.more0 = nb[r].more0 /\ h.n.lsreq = nb[r].lsreq /\ h.n.rxmt = nb[r].rxmt
        /\ h.n.lastdd = nb[r].lastdd
        /\ st >= TWOWAY => nb[Peer(r)].state # DOWN
        /\ nb[r].state # DOWN => st # DOWN
        /\ st = nb[r].state \/ (st < EXSTART /\ nb[r].state < EXSTART)
    BY <1>3, InStateSound
  <2>2. Dds(h.out) = {}
    BY <2>1, NothingSent
  <2>3. Begun(r, h.n, h.d, nb[Peer(r)], adj'[r], dr'[r])
    BY <2>1, <1>1, <1>2, <1>3 DEF Begun, Meets, INIT, TWOWAY, EXSTART
  <2>4. Announced(r, h.n, h.d, ls[Peer(r)], dr'[r])
    BY <2>1, <1>2 DEF Announced, EXSTART, FULL
  <2>5. Ready(r, h)
    BY <2>1, <2>2, <2>3, <2>4 DEF Ready
  <2>6. Idles(nb[r], h.n)
    BY <2>1 DEF Idles
  <2>7. Aware(r, nb[r], ls[r]) => Aware(r, h.n, h.d)
    BY <2>1 DEF Aware
  <2>8. QED BY <2>2, <2>5, <2>6, <2>7, <1>1, IdlesStep
<1>4. CASE adj[r] /\ nb[r].state < TWOWAY /\ nb[Peer(r)].state # DOWN /\ h = StartAdj(r, InState(r, INIT))
  <2>1. Meets(r, INIT) /\ INIT < EXSTART
    BY <1>4 DEF Meets, INIT, EXSTART
  <2>2. /\ Sound(r, h) /\ h.d = ls[r] /\ h.n.state = EXSTART /\ h.n.ddseq = DdBase(nb[r], Time(r)) + 1
        /\ h.n.lsreq = nb[r].lsreq /\ LastDdFits(h.n) /\ h.n.lastdd.init /\ Dds(h.out) = {h.n.lastdd}
        /\ nb[r].state < EXSTART
    BY <2>1, <1>4, StartAdjSound
  <2>3. Begun(r, h.n, h.d, nb[Peer(r)], adj'[r], dr'[r])
    BY <2>2, <1>2, <1>4 DEF Begun
  <2>4. Announced(r, h.n, h.d, ls[Peer(r)], dr'[r])
    BY <2>2, <1>1, <1>2, <1>4 DEF Announced, TWOWAY, FULL
  <2>5. Ready(r, h)
    BY <2>2, <2>3, <2>4 DEF Ready, EXSTART, DOWN
  <2>6. Aware(r, nb[r], ls[r]) => Aware(r, h.n, h.d)
    BY <2>2 DEF Aware
  <2>7. QED BY <2>2, <2>5, <2>6, CalmBegins
<1>5. QED BY <1>3, <1>4 DEF Met

LEMMA CalmHello == ASSUME ExchangeInv, Unfailed, Orderly, NEW r \in Router, HelloRx(r) PROVE Orderly'
<1>1. TypeOK
  BY KnownSelf
<1>2. Acts(r, HelloReceived(r)) /\ UNCHANGED <<adj, dr>>
  BY <1>1, TickActs DEF HelloRx
<1>3. QED BY <1>2, HelloMet, MetStep

LEMMA CalmIgnored == ASSUME ExchangeInv, Unfailed, Orderly, NEW r \in Router, DdRxIgnored(r) PROVE Orderly'
<1>1. TypeOK /\ Arrived(r, "dd") /\ chan[r] # <<>> /\ UNCHANGED <<adj, dr>> /\ Rx(r, DdReceiver(r))
  BY KnownSelf DEF DdRxIgnored, Arrived
<1>2. Acts(r, DdReceiver(r))
  BY <1>1, RxActs
<1>3. QED BY <1>1, <1>2, ReceiverMet, MetStep

(* -------------------------- the first election --------------------------- *)
(* what the election leaves of h: the router-LSA is originated, the network-  *)
(* LSA is not, since no neighbour is Full yet                                 *)
Elected(r, h, isdr, z) ==
  /\ Sound(r, z) /\ Announced(r, z.n, z.d, ls[Peer(r)], isdr) /\ Present(z.d, <<Rtr(r), TRUE>>)
  /\ z.n = h.n /\ z.out = h.out

LEMMA UpdSound ==
  ASSUME NEW r \in Router, NEW h, NEW isdr \in BOOLEAN, NEW z, Elected(r, h, isdr, z), NEW b \in BOOLEAN
  PROVE  Elected(r, h, isdr, [z EXCEPT !.d.upd = b])
<1> DEFINE y == [z EXCEPT !.d.upd = b]
<1>1. z \in XType /\ Sound(r, z)
  BY DEF Elected, Sound
<1>2. y \in XType /\ y.n = z.n /\ y.out = z.out /\ y.d.db = z.d.db /\ y.d.old = z.d.old /\ y.d.flood = z.d.flood
  BY <1>1 DEF XType, LsType
<1> HIDE DEF y
<1>3. Sound(r, y)
  BY <1>1, <1>2, SoundSame DEF Says
<1>4. Announced(r, y.n, y.d, ls[Peer(r)], isdr) /\ Present(y.d, <<Rtr(r), TRUE>>)
  BY <1>2 DEF Elected, Announced, Present
<1>5. QED BY <1>2, <1>3, <1>4 DEF Elected, y

LEMMA NetUpdateElected ==
  ASSUME TypeOK, NEW r \in Router, NEW h, NEW isdr \in BOOLEAN, NEW z, Elected(r, h, isdr, z)
  PROVE  Elected(r, h, isdr, NetUpdate(r, z, isdr))
<1> DEFINE y == NetUpdate(r, z, isdr)
<1>1. Sound(r, z) /\ Announced(r, z.n, z.d, ls[Peer(r)], isdr)
  BY DEF Elected
<1>2. /\ Sound(r, y) /\ Announced(r, y.n, y.d, ls[Peer(r)], isdr) /\ y.n = z.n /\ y.out = z.out
      /\ \A k \in Key : k # <<Net(r), TRUE>> => y.d.db[k] = z.d.db[k]
  BY <1>1, NetUpdateSound
<1> HIDE DEF y
<1>3. <<Rtr(r), TRUE>> \in Key /\ <<Rtr(r), TRUE>> # <<Net(r), TRUE>>
  BY OwnLsas, KeyType
<1>4. Present(y.d, <<Rtr(r), TRUE>>)
  BY <1>2, <1>3 DEF Elected, Present
<1>5. QED BY <1>2, <1>4 DEF Elected, y

LEMMA ElectSound ==
  ASSUME ExchangeInv, Orderly, NEW r \in Router, ~adj[r], NEW st, Meets(r, st),
         NEW isdr \in BOOLEAN, NEW changed \in BOOLEAN
  PROVE  LET h == InState(r, st)
             x == IF st = TWOWAY THEN StartAdj(r, h) ELSE h
         IN  /\ Elected(r, x, isdr, Elect(r, h, isdr, changed))
             /\ Elected(r, x, isdr, TimerElect(r, h, isdr, changed))
<1> DEFINE h == InState(r, st)
           x == IF st = TWOWAY THEN StartAdj(r, h) ELSE h
           d3 == Originate(x.d, Rtr(r), boot[r], changed)
           x3 == [x EXCEPT !.d = d3]
           y3 == [x EXCEPT !.d = IF isdr THEN [d3 EXCEPT !.upd = TRUE] ELSE d3]
<1>1. TypeOK /\ nb[r].state \in Nat /\ boot[r] \in Nat /\ Rtr(r) \in Own(r) /\ Rtr(r) \in Lsa
  BY KnownSelf, NbFields, OwnLsas DEF TypeOK
<1>2. Begun(r, nb[r], ls[r], nb[Peer(r)], adj[r], dr[r]) /\ Announced(r, nb[r], ls[r], ls[Peer(r)], dr[r])
  BY DEF Orderly, Started, Told
<1>3. nb[r].state < EXSTART /\ ~Present(ls[r], <<Rtr(r), TRUE>>)
  BY <1>1, <1>2 DEF Begun, EXSTART
<1>4. ~Present(ls[r], <<Net(r), TRUE>>)
  BY <1>2, <1>3 DEF Announced, EXSTART, FULL
<1>5. Sound(r, h) /\ h.d = ls[r] /\ h.n.state = st /\ st < EXSTART
  BY <1>3, InStateSound
<1>6. Sound(r, x) /\ x.d = ls[r]
  BY <1>5, StartAdjSound
<1>7. Elect(r, h, isdr, changed) = NetUpdate(r, y3, isdr)
  <2> HIDE DEF h
  <2>1. h.n.state # FULL
    BY <1>5 DEF FULL, EXSTART
  <2>2. QED BY <2>1, <1>5 DEF Elect
<1> HIDE DEF x, h
<1>8. x \in XType /\ d3 \in LsType
  <2>1. x \in XType
    BY <1>6 DEF Sound
  <2>2. x.d \in LsType
    BY <2>1 DEF XType
  <2>3. QED BY <2>1, <2>2, <1>1, OriginateType
<1>9. x3 \in XType /\ x3.n = x.n /\ x3.out = x.out /\ x3.d = d3
  <2> HIDE DEF d3
  <2>1. QED BY <1>8 DEF XType
<1>10. Elected(r, x, isdr, x3)
  <2>2. ~Present(x.d, <<Rtr(r), TRUE>>)
    BY <1>3, <1>6
  <2> HIDE DEF x3, d3
  <2>3. /\ Sound(r, x3) /\ Present(x3.d, <<Rtr(r), TRUE>>)
        /\ \A k \in Key : k # <<Rtr(r), TRUE>> => x3.d.db[k] = x.d.db[k]
    <3>1. /\ Rtr(r) \in Own(r) /\ boot[r] \in Nat /\ Sound(r, x) /\ x3 \in XType /\ x3.n = x.n /\ x3.out = x.out
          /\ x3.d = Originate(x.d, Rtr(r), boot[r], FALSE)
      <4>1. Originate(x.d, Rtr(r), boot[r], changed) = Originate(x.d, Rtr(r), boot[r], FALSE)
        BY <2>2 DEF Originate
      <4>2. QED BY <4>1, <1>1, <1>6, <1>9 DEF d3
    <3>2. QED BY <3>1, OriginateKeeps, Zenon
  <2>4. <<Net(r), TRUE>> \in Key /\ <<Rtr(r), TRUE>> # <<Net(r), TRUE>>
    BY OwnLsas, KeyType
  <2>5. ~Present(x3.d, <<Net(r), TRUE>>)
    BY <2>3, <2>4, <1>4, <1>6 DEF Present
  <2>6. QED BY <2>3, <2>5, <1>9 DEF Elected, Announced
<1>11. Elected(r, x, isdr, y3)
  <2>1. CASE ~isdr
    <3>1. y3 = x3
      BY <2>1
    <3>2. QED BY <3>1, <1>10
  <2>2. CASE isdr
    <3>1. y3 = [x3 EXCEPT !.d.upd = TRUE]
      <4> HIDE DEF d3
      <4>1. QED BY <2>2, <1>8 DEF XType
    <3> HIDE DEF x3, y3
    <3>2. TRUE \in BOOLEAN
      OBVIOUS
    <3>3. Elected(r, x, isdr, [x3 EXCEPT !.d.upd = TRUE])
      BY <1>10, <3>2, UpdSound, Zenon
    <3>4. QED BY <3>1, <3>3
  <2>3. QED BY <2>1, <2>2
<1> DEFINE e == Elect(r, h, isdr, changed)
<1>12. Elected(r, x, isdr, e)
  <2> HIDE DEF y3
  <2>1. QED BY <1>1, <1>7, <1>11, NetUpdateElected
<1> HIDE DEF e
<1>13. Elected(r, x, isdr, TimerElect(r, h, isdr, changed))
  <2>1. TimerElect(r, h, isdr, changed) = IF e.d.upd THEN NetUpdate(r, [e EXCEPT !.d.upd = FALSE], isdr) ELSE e
    BY DEF TimerElect, e
  <2>2. FALSE \in BOOLEAN
    OBVIOUS
  <2> DEFINE v == [e EXCEPT !.d.upd = FALSE]
  <2>3. Elected(r, x, isdr, v)
    BY <1>12, <2>2, UpdSound, Zenon
  <2> HIDE DEF v
  <2>4. Elected(r, x, isdr, NetUpdate(r, v, isdr))
    BY <1>1, <2>3, NetUpdateElected
  <2>5. QED BY <2>1, <2>4, <1>12 DEF v
<1>14. QED BY <1>12, <1>13 DEF x, h, e

(* the election, with what the hello left *)
LEMMA ElectedStep ==
  ASSUME ExchangeInv, Unfailed, Orderly, NEW r \in Router, ~adj[r], NEW st, Meets(r, st), NEW isdr \in Role[r],
         NEW z, Elected(r, IF st = TWOWAY THEN StartAdj(r, InState(r, st)) ELSE InState(r, st), isdr, z),
         Acts(r, z), adj'[r] = TRUE, dr'[r] = isdr
  PROVE  Orderly'
<1> DEFINE h == InState(r, st)
<1>1. TypeOK /\ nb[r] \in NbType /\ nb[r].state \in Nat /\ Rtr(Peer(r)) \in Lsa
  BY KnownSelf, NbFields, OwnLsas, PeerType
<1>2. Begun(r, nb[r], ls[r], nb[Peer(r)], adj[r], dr[r])
  BY DEF Orderly, Started
<1>3. nb[r].state < EXSTART
  BY <1>1, <1>2 DEF Begun, EXSTART
<1>4. Sound(r, z) /\ Announced(r, z.n, z.d, ls[Peer(r)], dr'[r]) /\ Present(z.d, <<Rtr(r), TRUE>>) /\ Grows(ls[r], z.d)
  BY DEF Elected, Sound
<1>5. /\ h.out = <<>> /\ h.n.state = st
      /\ h.n.ddseq = nb[r].ddseq /\ h.n.ddsum = nb[r].ddsum /\ h.n.sent = nb[r].sent
      /\ h.n.more0 = nb[r].more0 /\ h.n.lsreq = nb[r].lsreq
      /\ h.n.lastdd = nb[r].lastdd
      /\ st >= TWOWAY => nb[Peer(r)].state # DOWN
      /\ nb[r].state # DOWN => st # DOWN
      /\ st = nb[r].state \/ (st < EXSTART /\ nb[r].state < EXSTART)
  BY InStateSound
<1>6. Has(ls[r], Rtr(Peer(r))) => Has(z.d, Rtr(Peer(r)))
  BY <1>1, <1>4 DEF Grows
<1>7. CASE st = TWOWAY
  <2> DEFINE x == StartAdj(r, h)
  <2>1. /\ x.n.state = EXSTART /\ x.n.ddseq = DdBase(nb[r], Time(r)) + 1
        /\ x.n.lsreq = nb[r].lsreq /\ LastDdFits(x.n) /\ x.n.lastdd.init /\ Dds(x.out) = {x.n.lastdd}
    BY <1>7, StartAdjSound DEF TWOWAY, EXSTART
  <2>2. z.n = x.n /\ z.out = x.out
    BY <1>7 DEF Elected
  <2> HIDE DEF x, h
  <2>3. Begun(r, z.n, z.d, nb[Peer(r)], adj'[r], dr'[r])
    BY <2>1, <2>2, <1>4, <1>5, <1>7 DEF Begun, TWOWAY
  <2>4. Ready(r, z)
    BY <2>1, <2>2, <2>3, <1>4 DEF Ready, EXSTART, DOWN
  <2>5. Aware(r, nb[r], ls[r]) => Aware(r, z.n, z.d)
    BY <2>1, <2>2, <1>6 DEF Aware
  <2>6. QED BY <2>1, <2>2, <2>4, <2>5, <1>3, CalmBegins
<1>8. CASE st # TWOWAY
  <2>1. z.n = h.n /\ z.out = <<>>
    BY <1>8, <1>5 DEF Elected
  <2> HIDE DEF h
  <2>2. Begun(r, z.n, z.d, nb[Peer(r)], adj'[r], dr'[r])
    BY <2>1, <1>4, <1>5 DEF Begun
  <2>3. Dds(z.out) = {}
    BY <2>1, NothingSent
  <2>4. Ready(r, z)
    BY <2>1, <2>2, <2>3, <1>4, <1>5 DEF Ready
  <2>5. Aware(r, nb[r], ls[r]) => Aware(r, z.n, z.d)
    BY <2>1, <1>5, <1>6 DEF Aware
  <2>6. Idles(nb[r], z.n)
    BY <2>1, <1>5 DEF Idles
  <2>7. QED BY <2>3, <2>4, <2>5, <2>6, <1>1, IdlesStep
<1>9. QED BY <1>7, <1>8

LEMMA CalmWait ==
  ASSUME ExchangeInv, Unfailed, Orderly, NEW r \in Router, NEW isdr \in Role[r], NEW changed \in BOOLEAN,
         WaitTimer(r, isdr, changed)
  PROVE  Orderly'
<1> DEFINE z == TimerElect(r, Self(r), isdr, changed)
           st == nb[r].state
<1>1. TypeOK /\ isdr \in BOOLEAN /\ ~adj[r] /\ Tick(r, z) /\ r \in DOMAIN adj /\ r \in DOMAIN dr
  BY KnownSelf, SizeAssumption DEF WaitTimer, TypeOK
<1>2. adj' = [adj EXCEPT ![r] = TRUE] /\ dr' = [dr EXCEPT ![r] = isdr] /\ TRUE \in BOOLEAN
  BY DEF WaitTimer
<1>3. InState(r, st) = Self(r) /\ Meets(r, st)
  BY <1>1, InStateSelf
<1>4. Elected(r, IF st = TWOWAY THEN StartAdj(r, InState(r, st)) ELSE InState(r, st), isdr, z)
  BY <1>1, <1>3, ElectSound
<1> HIDE DEF z, st
<1>5. Acts(r, z)
  BY <1>1, <1>2, TickActs
<1>6. adj'[r] = TRUE /\ dr'[r] = isdr
  BY <1>1, <1>2
<1>7. QED BY <1>1, <1>3, <1>4, <1>5, <1>6, ElectedStep

LEMMA CalmElect ==
  ASSUME ExchangeInv, Unfailed, Orderly, NEW r \in Router, NEW isdr \in Role[r], NEW changed \in BOOLEAN,
         HelloRxElect(r, isdr, changed), env'["change"] = 0
  PROVE  Orderly'
<1> DEFINE z == Elect(r, HelloReceived(r), isdr, changed)
<1>1. TypeOK /\ isdr \in BOOLEAN /\ Tick(r, z) /\ r \in DOMAIN adj /\ r \in DOMAIN dr
  BY KnownSelf, SizeAssumption DEF HelloRxElect, TypeOK
<1>2. adj' = [adj EXCEPT ![r] = TRUE] /\ dr' = [dr EXCEPT ![r] = isdr] /\ TRUE \in BOOLEAN
  BY DEF HelloRxElect
<1>3. ~adj[r]
  <2>1. SUFFICES ASSUME adj[r] PROVE FALSE
    OBVIOUS
  <2>2. dr[r] \in Role[r]
    BY <2>1 DEF Orderly, Started, Begun
  <2>3. env' = [env EXCEPT !["change"] = @ + 1]
    BY <2>1, <2>2 DEF HelloRxElect, Spend
  <2>4. env \in [Budget -> Nat] /\ "change" \in Budget
    BY <1>1 DEF TypeOK, Budget
  <2>5. QED BY <2>3, <2>4
<1>4. PICK st : Meets(r, st) /\ HelloReceived(r) = InState(r, st)
  BY <1>3, HelloMet DEF Met
<1>5. Elected(r, IF st = TWOWAY THEN StartAdj(r, InState(r, st)) ELSE InState(r, st), isdr, z)
  BY <1>1, <1>3, <1>4, ElectSound
<1> HIDE DEF z
<1>6. Acts(r, z)
  BY <1>1, <1>2, TickActs
<1>7. adj'[r] = TRUE /\ dr'[r] = isdr
  BY <1>1, <1>2
<1>8. QED BY <1>3, <1>4, <1>5, <1>6, <1>7, ElectedStep

(* ------------------------ the exchange in progress ----------------------- *)
(* nothing on the wire surprises the receiver (nfsmSeqNumberMismatch) *)
LEMMA CalmNoMismatch == ASSUME ExchangeInv, Answers, Orderly, NEW r \in Router, DdRxMismatch(r) PROVE FALSE
<1> DEFINE p == Head(chan[r])
<1>1. Mismatches(nb[r], p) /\ Arrived(r, "dd")
  BY DEF DdRxMismatch
<1>2. p \in Dds(chan[r])
  BY <1>1, DdHead
<1>3. nb[r].state >= EXCHANGE
  <2>1. nb[r].state \in Nat
    BY KnownSelf, NbFields
  <2>2. QED BY <2>1, <1>1 DEF Mismatches, EXCHANGE, LOADING
<1>4. LeaderOf(r, nb[r])
  BY KnownSelf DEF NbInv
<1>5. First \in Nat /\ chan[R2] \in Seq(Pkt)
  <2>1. TypeOK
    BY KnownSelf
  <2>2. QED BY <2>1, SizeAssumption DEF First, TypeOK, Router
<1>6. /\ nb[R2].state >= EXCHANGE /\ nb[R2].master => \A q \in Dds(chan[R2]) : ~Mismatches(nb[R2], q)
      /\ nb[R1].state >= EXCHANGE /\ ~nb[R1].master => \A q \in Dds(chan[R1]) : ~Mismatches(nb[R1], q)
  BY <1>5, CalmMatches DEF Orderly, Exchanging, ExchangeInv, Exchange, Answers
<1>7. CASE r = R1
  <2>1. ~(R1 > Peer(R1))
    BY IdAssumption DEF Peer
  <2>2. QED BY <2>1, <1>1, <1>2, <1>3, <1>4, <1>6, <1>7 DEF LeaderOf
<1>8. CASE r = R2
  <2>1. R2 > Peer(R2)
    BY IdAssumption DEF Peer
  <2>2. QED BY <2>1, <1>1, <1>2, <1>3, <1>4, <1>6, <1>8 DEF LeaderOf
<1>9. QED BY <1>7, <1>8 DEF Router

(* the receiver of a DD packet that it can take *)
Receives(r, x) ==
  /\ Sound(r, x) /\ Good(r, x) /\ x.d = ls[r] /\ x.n.lsreq = nb[r].lsreq
  /\ adj[r] /\ dr[r] \in Role[r] /\ nb[Peer(r)].state # DOWN
  /\ Present(ls[r], <<Rtr(r), TRUE>>) /\ ~Present(ls[r], <<Net(r), TRUE>>)
  /\ \/ x = Self(r) /\ Building(nb[r])
     \/ x.n.state = EXSTART /\ nb[r].state < EXSTART /\ x.n.lastdd.init /\ x.n.lastdd.t = "dd" /\ x.out = <<x.n.lastdd>>

LEMMA ReceiverReceives ==
  ASSUME ExchangeInv, Orderly, NEW r \in Router, Arrived(r, "dd"), Building(DdReceiver(r).n)
  PROVE  Receives(r, DdReceiver(r))
<1> DEFINE x == DdReceiver(r)
<1>1. TypeOK /\ nb[r] \in NbType /\ nb[r].state \in Nat /\ Self(r).n = nb[r] /\ Self(r).d = ls[r]
  BY KnownSelf, NbFields
<1>2. Begun(r, nb[r], ls[r], nb[Peer(r)], adj[r], dr[r]) /\ Announced(r, nb[r], ls[r], ls[Peer(r)], dr[r])
  BY DEF Orderly, Started, Told
<1>3. Good(r, x) /\ Met(r, x)
  BY ReceiverKinds, ReceiverMet
<1>4. ASSUME NEW st, Meets(r, st), x = InState(r, st) PROVE Receives(r, x)
  <2>1. /\ Sound(r, x) /\ x.d = ls[r] /\ x.n.state = st /\ x.n.lsreq = nb[r].lsreq
        /\ st = nb[r].state \/ (st < EXSTART /\ nb[r].state < EXSTART)
    BY <1>4, InStateSound
  <2>2. st \in {EXSTART, EXCHANGE} /\ st = nb[r].state
    BY <2>1 DEF Building, EXSTART, EXCHANGE
  <2>3. x = Self(r)
    BY <2>2, <1>1, <1>4, InStateSelf
  <2>4. Building(nb[r])
    BY <2>2 DEF Building
  <2>5. adj[r] /\ dr[r] \in Role[r] /\ nb[Peer(r)].state # DOWN /\ Present(ls[r], <<Rtr(r), TRUE>>) /\ ~Present(ls[r], <<Net(r), TRUE>>)
    BY <2>2, <1>2 DEF Begun, Announced, EXSTART, EXCHANGE, TWOWAY, FULL
  <2>6. QED BY <2>1, <2>3, <2>4, <2>5, <1>3 DEF Receives
<1>5. CASE adj[r] /\ nb[r].state < TWOWAY /\ nb[Peer(r)].state # DOWN /\ x = StartAdj(r, InState(r, INIT))
  <2>1. Meets(r, INIT) /\ INIT < EXSTART
    BY <1>5 DEF Meets, INIT, EXSTART
  <2>2. /\ Sound(r, x) /\ x.d = ls[r] /\ x.n.state = EXSTART
        /\ x.n.lsreq = nb[r].lsreq /\ LastDdFits(x.n) /\ x.n.lastdd.init /\ x.out = <<x.n.lastdd>>
        /\ nb[r].state < EXSTART
    BY <2>1, <1>5, StartAdjSound
  <2>3. x.n.lastdd.t = "dd"
    BY <2>2 DEF LastDdFits, Dd
  <2>4. dr[r] \in Role[r] /\ Present(ls[r], <<Rtr(r), TRUE>>) /\ ~Present(ls[r], <<Net(r), TRUE>>)
    BY <1>1, <1>2, <1>5 DEF Begun, Announced, TWOWAY, FULL
  <2>5. QED BY <2>2, <2>3, <2>4, <1>3, <1>5 DEF Receives
<1>6. QED BY <1>3, <1>4, <1>5 DEF Met

(* what dbdescRx accepts is real, and is had or asked for *)
LEMMA AcceptedSound ==
  ASSUME NEW r \in Router, NEW x, Receives(r, x), NEW p \in DdPkt, Accepts(r, x.n, p),
         PktReal(Peer(r), ls[Peer(r)], ls[r], p), p.t = "dd"
  PROVE  LET z == Accepted(r, x, p)
         IN  /\ Sound(r, z) /\ z.d = ls[r]
             /\ Rtr(Peer(r)) \in LsasOf(p.hs) => Aware(r, z.n, z.d)
             /\ Aware(r, nb[r], ls[r]) => Aware(r, z.n, z.d)
             /\ x.n.state = EXSTART => Rtr(r) \in LsasOf(z.n.ddsum)
             /\ x.n.state = EXCHANGE => z.n.more0 = x.n.more0
<1> DEFINE z == Accepted(r, x, p)
<1>1. Sound(r, x) /\ Good(r, x) /\ x.d = ls[r] /\ x.n.lsreq = nb[r].lsreq /\ x \in XType /\ x.d \in LsType
  BY DEF Receives, Good, XType
<1>2. TookDd(r, x, p, z)
  BY <1>1, AcceptedFields
<1>3. x.n.state = EXCHANGE => z.n.more0 = x.n.more0
  <2>1. SUFFICES ASSUME x.n.state = EXCHANGE PROVE z.n.more0 = x.n.more0
    OBVIOUS
  <2>2. ~NegotiatesSlave(r, x.n, p) /\ ~NegotiatesMaster(r, x.n, p)
    BY <2>1 DEF NegotiatesSlave, NegotiatesMaster, EXSTART, EXCHANGE
  <2> DEFINE W == Wanted(x.d, p.hs)
             u == [x EXCEPT !.n.ddsum = @ \ x.n.sent, !.n.sent = {}]
  <2>3. z = [u EXCEPT !.n.lsreq = @ \union W]
    BY <2>2 DEF Accepted
  <2> HIDE DEF z, W
  <2>4. QED BY <2>3, <1>1 DEF XType, NbType
<1> HIDE DEF z
<1>4. /\ z \in XType /\ z.d = ls[r] /\ z.out = x.out /\ z.n.rxmt = {}
      /\ z.n.lsreq = nb[r].lsreq \union Wanted(ls[r], p.hs)
  BY <1>1, <1>2 DEF TookDd, Between
<1>5. z.n.ddsum \subseteq Says(x)
  <2>1. x.n.state \in {EXSTART, EXCHANGE}
    BY <1>2 DEF TookDd
  <2>2. QED BY <2>1, <1>2 DEF TookDd, Says
<1>6. \A h \in p.hs : Sure(Peer(r), ls[Peer(r)], ls[r], h)
  BY DEF PktReal
<1>7. \A l \in z.n.lsreq : l \in x.n.lsreq \/ Has(ls[Peer(r)], l)
  BY <1>1, <1>4, <1>6 DEF Wanted, Sure
<1>8. Sound(r, z)
  BY <1>1, <1>4, <1>5, <1>7, SoundSame
<1>9. ASSUME Rtr(Peer(r)) \in LsasOf(p.hs) PROVE Aware(r, z.n, z.d)
  <2>1. PICK i \in p.hs : i.l = Rtr(Peer(r))
    BY <1>9 DEF LsasOf
  <2>2. i.seq > 0
    BY <2>1, <1>6 DEF Sure, Real
  <2>3. CASE Found(ls[r], i.l) # i
    BY <2>1, <2>3, <1>4 DEF Wanted, Aware
  <2>4. CASE Found(ls[r], i.l) = i
    BY <2>1, <2>2, <2>4, <1>4 DEF Found, Aware, Has, Present
  <2>5. QED BY <2>3, <2>4
<1>10. Aware(r, nb[r], ls[r]) => Aware(r, z.n, z.d)
  BY <1>4 DEF Aware
<1>11. ASSUME x.n.state = EXSTART PROVE Rtr(r) \in LsasOf(z.n.ddsum)
  <2> DEFINE k == <<Rtr(r), TRUE>>
  <2>1. z.n.ddsum = Snapshot(ls[r])
    BY <1>1, <1>2, <1>11 DEF TookDd
  <2>2. k \in Key /\ k[1] = Rtr(r) /\ Present(ls[r], k)
    BY OwnLsas, KeyType DEF Receives
  <2>3. ls[r].db[k].l = Rtr(r)
    BY <2>2, <1>1 DEF Sound, Stock
  <2>4. ls[r].db[k] \in Snapshot(ls[r])
    BY <2>2 DEF Snapshot
  <2>5. QED BY <2>1, <2>3, <2>4 DEF LsasOf
<1>12. QED BY <1>3, <1>4, <1>8, <1>9, <1>10, <1>11 DEF z

(* dbdescBuildPkt sends what was to be described *)
BuiltDd(r, x, more, c, z) ==
  /\ Sound(r, z) /\ z.d = x.d /\ z.out = Append(x.out, z.n.lastdd) /\ Pkts(z.out) = Pkts(x.out) \union {z.n.lastdd}
  /\ z.n.state = EXCHANGE /\ z.n.ddseq = x.n.ddseq /\ z.n.master = x.n.master /\ z.n.more0 = x.n.more0
  /\ z.n.lsreq = x.n.lsreq /\ z.n.ddsum = x.n.ddsum /\ LastDdFits(z.n)
  /\ z.n.lastdd = Dd(FALSE, more, x.n.master, x.n.ddseq, c) /\ z.n.lastdd.t = "dd" /\ z.n.lastdd \in Pkt

LEMMA BuiltSound ==
  ASSUME NEW r \in Router, NEW x, Sound(r, x), x.n.state = EXCHANGE, NEW more \in BOOLEAN, NEW c \in SUBSET x.n.ddsum,
         ~more => x.n.ddsum = {}, NEW z, z = BuildDd(x, more, x.n.master, c)
  PROVE  BuiltDd(r, x, more, c, z)
<1> DEFINE ms == x.n.master
           p == Dd(FALSE, more, ms, x.n.ddseq, c)
           y == [x EXCEPT !.n.lastdd = p, !.n.sent = c]
<1>1. x \in XType /\ x.n \in NbType /\ x.out \in Seq(Pkt)
  BY DEF Sound, XType
<1>0. /\ p \in Pkt /\ z \in XType
      /\ z.n.lastdd = p => \E mm \in BOOLEAN : z.n.lastdd = Dd(FALSE, mm, ms, x.n.ddseq, c) /\ (~mm => x.n.ddsum = {})
  <2>1. /\ ms \in BOOLEAN /\ c \in SUBSET Inst /\ x.n.ddseq \in Nat /\ FALSE \in BOOLEAN
    BY <1>1 DEF NbType
  <2> HIDE DEF ms
  <2>2. p \in Pkt
    BY <2>1, PktType
  <2>3. BuildDd(x, more, ms, c) \in XType
    BY <1>1, <2>1, BuildDdType
  <2>4. z.n.lastdd = p => \E mm \in BOOLEAN : z.n.lastdd = Dd(FALSE, mm, ms, x.n.ddseq, c) /\ (~mm => x.n.ddsum = {})
    BY Zenon
  <2>5. QED BY <2>2, <2>3, <2>4 DEF ms
<1>2. z = Send(y, p)
  BY DEF BuildDd, EXSTART, EXCHANGE
<1>3. p.t = "dd" /\ p.hs = c
  BY DEF Dd
<1> HIDE DEF p
<1>4. /\ z.out = Append(x.out, p) /\ z.n.more0 = x.n.more0 /\ z.d = x.d /\ z.n.lsreq = x.n.lsreq /\ z.n.lastdd = p
      /\ z.n.master = x.n.master /\ z.n.sent = c /\ z.n.ddsum = x.n.ddsum /\ z.n.rxmt = x.n.rxmt /\ z.n.state = EXCHANGE /\ z.n.ddseq = x.n.ddseq
  <2>1. y.out = x.out /\ y.d = x.d /\ y.n = [x.n EXCEPT !.lastdd = p, !.sent = c]
    BY <1>1 DEF XType
  <2>2. z.n = y.n /\ z.d = y.d /\ z.out = Append(y.out, p)
    BY <1>1, <1>2 DEF Send, XType
  <2> HIDE DEF y
  <2>3. QED BY <2>1, <2>2, <1>1 DEF NbType
<1>5. p \in Pkt
  BY <1>0
<1>6. Pkts(z.out) = Pkts(x.out) \union {p}
  <2>1. <<p>> \in Seq(Pkt) /\ x.out \o <<p>> = Append(x.out, p)
    BY <1>1, <1>5
  <2>2. Pkts(<<p>>) = {p}
    BY DEF Pkts
  <2>3. Pkts(x.out \o <<p>>) = Pkts(x.out) \union Pkts(<<p>>)
    BY <2>1, <1>1, SentWire
  <2>4. QED BY <2>1, <2>2, <2>3, <1>4
<1>7. Fair(r, x, p)
  BY <1>3 DEF Fair, Says
<1>8. Sound(r, z)
  <2>1. z.n.ddsum \subseteq Says(x) /\ z.n.rxmt \subseteq Says(x)
    BY <1>4 DEF Says
  <2>2. \A q \in Pkts(z.out) : q \in Pkts(x.out) \/ Fair(r, x, q)
    BY <1>6, <1>7
  <2>3. QED BY <2>1, <2>2, <1>0, <1>4, SoundSame
<1>9. LastDdFits(z.n)
  <2>1. z.n.state # EXSTART
    BY <1>4 DEF EXSTART, EXCHANGE
  <2>2. ms = z.n.master /\ x.n.ddseq = z.n.ddseq /\ c = z.n.sent /\ x.n.ddsum = z.n.ddsum
    BY <1>4
  <2> HIDE DEF ms
  <2>3. \E mm \in BOOLEAN : z.n.lastdd = Dd(FALSE, mm, z.n.master, z.n.ddseq, z.n.sent) /\ (~mm => z.n.ddsum = {})
    BY <2>2, <1>0, <1>4, Zenon
  <2>4. QED BY <2>1, <2>3, Zenon DEF LastDdFits
<1>10. QED BY <1>3, <1>4, <1>5, <1>6, <1>8, <1>9 DEF p, BuiltDd

(* nfsmExchangeDone *)
LEMMA DoneSound ==
  ASSUME TypeOK, NEW r \in Router, NEW x, Sound(r, x), ~Present(x.d, <<Net(r), TRUE>>), NEW c \in SUBSET x.n.lsreq
  PROVE  LET z == ExchangeDone(r, x, c)
         IN  /\ Sound(r, z) /\ Announced(r, z.n, z.d, ls[Peer(r)], dr[r]) /\ Grows(x.d, z.d)
             /\ z.n.state \in {LOADING, FULL} /\ z.n.ddseq = x.n.ddseq /\ z.n.ddsum = x.n.ddsum
             /\ z.n.lsreq = x.n.lsreq /\ z.d.db[<<Rtr(r), TRUE>>] = x.d.db[<<Rtr(r), TRUE>>]
             /\ z.out = x.out \/ z.out = Append(x.out, LsReq(c))
<1> DEFINE y == [x EXCEPT !.n.lastdd = NoPkt]
           z == ExchangeDone(r, x, c)
<1>1. x \in XType /\ x.n \in NbType /\ x.out \in Seq(Pkt)
  BY DEF Sound, XType
<1>2. /\ y \in XType /\ y.n.state = x.n.state /\ y.n.ddseq = x.n.ddseq /\ y.n.ddsum = x.n.ddsum /\ y.n.rxmt = x.n.rxmt
      /\ y.n.lsreq = x.n.lsreq /\ y.d = x.d /\ y.out = x.out
  BY <1>1 DEF XType, NbType
<1>3. CASE x.n.lsreq = {}
  <2>1. z = GoFull(r, y)
    BY <1>3 DEF ExchangeDone
  <2> HIDE DEF y
  <2>2. Sound(r, y)
    BY <1>2, SoundSame DEF Says
  <2> HIDE DEF z
  <2>0. ~Present(y.d, <<Net(r), TRUE>>)
    BY <1>2
  <2>3. /\ Sound(r, z) /\ Announced(r, z.n, z.d, ls[Peer(r)], dr[r]) /\ Grows(x.d, z.d)
        /\ z.n = [y.n EXCEPT !.state = FULL] /\ z.out = x.out
        /\ z.d.db[<<Rtr(r), TRUE>>] = x.d.db[<<Rtr(r), TRUE>>]
    <3> DEFINE g == GoFull(r, y)
    <3>1. /\ Sound(r, g) /\ Announced(r, g.n, g.d, ls[Peer(r)], dr[r]) /\ Grows(y.d, g.d)
          /\ g.n = [y.n EXCEPT !.state = FULL] /\ g.out = y.out
          /\ g.d.db[<<Rtr(r), TRUE>>] = y.d.db[<<Rtr(r), TRUE>>]
      BY <2>2, <2>0, GoFullSound
    <3> HIDE DEF g
    <3>2. g = z
      BY <2>1 DEF g
    <3>3. QED BY <3>1, <3>2, <1>2
  <2>4. z.n.state = FULL /\ z.n.ddseq = y.n.ddseq /\ z.n.ddsum = y.n.ddsum /\ z.n.lsreq = y.n.lsreq
    BY <2>3, <1>2 DEF XType, NbType
  <2>5. QED BY <2>3, <2>4, <1>2 DEF z
<1>4. CASE x.n.lsreq # {}
  <2> DEFINE w == [y EXCEPT !.n.state = LOADING]
             v == [w EXCEPT !.n.lastreq = LsReq(c)]
  <2>1. z = Send(v, LsReq(c))
    BY <1>4 DEF ExchangeDone, BuildReq
  <2>2. LsReq(c) \in ReqPkt /\ LsReq(c).t = "req" /\ LsReq(c).ids = c
    BY <1>1 DEF LsReq, ReqPkt, NbType
  <2> HIDE DEF y
  <2>3. /\ v \in XType /\ v.n.state = LOADING /\ v.n.ddseq = x.n.ddseq /\ v.n.ddsum = x.n.ddsum /\ v.n.rxmt = x.n.rxmt
        /\ v.n.lsreq = x.n.lsreq /\ v.d = x.d /\ v.out = x.out
    BY <1>2, <2>2 DEF XType, NbType
  <2> HIDE DEF v, w
  <2>4. Sound(r, v)
    BY <2>3, SoundSame DEF Says
  <2>5. LsReq(c) \in Pkt /\ PktReal(r, v.d, ls[Peer(r)], LsReq(c))
    <3>1. \A l \in c : Has(ls[Peer(r)], l)
      BY DEF Sound, Stock
    <3>2. QED BY <2>2, <3>1 DEF Pkt, PktReal
  <2>6. Sound(r, z) /\ z.n = v.n /\ z.d = v.d
    BY <2>1, <2>4, <2>5, SoundSend
  <2>7. z.out = Append(x.out, LsReq(c))
    BY <2>1, <2>3 DEF Send, XType
  <2> HIDE DEF z
  <2>8. QED BY <2>3, <2>6, <2>7, GrowsSelf DEF z, Announced
<1>5. QED BY <1>3, <1>4

(* what the receiver is left with is in order, but for the exchange itself *)
LEMMA DdReady ==
  ASSUME TypeOK, NEW r \in Router, NEW x, Receives(r, x), NEW z, Sound(r, z), UNCHANGED <<adj, dr>>,
         Announced(r, z.n, z.d, ls[Peer(r)], dr[r]), z.n.state \in {EXCHANGE, LOADING, FULL},
         z.d.db[<<Rtr(r), TRUE>>] = ls[r].db[<<Rtr(r), TRUE>>]
  PROVE  Ready(r, z)
<1>1. /\ adj'[r] = adj[r] /\ dr'[r] = dr[r] /\ adj[r] \in BOOLEAN
      /\ Present(z.d, <<Rtr(r), TRUE>>) /\ adj[r] /\ dr[r] \in Role[r] /\ nb[Peer(r)].state # DOWN
  BY DEF TypeOK, Receives, Present
<1>2. z.n.state # DOWN
  BY DEF EXCHANGE, LOADING, FULL, DOWN
<1>3. QED BY <1>1, <1>2 DEF Ready, Begun

(* other fields of the neighbour change *)
LEMMA SoundNb ==
  ASSUME NEW r \in Router, NEW x, Sound(r, x), NEW z \in XType, z.d = x.d, z.out = x.out,
         z.n.ddsum = x.n.ddsum, z.n.rxmt = x.n.rxmt, z.n.lsreq = x.n.lsreq
  PROVE  Sound(r, z)
<1>1. z.n.ddsum \subseteq Says(x) /\ z.n.rxmt \subseteq Says(x)
  BY DEF Says
<1>2. z.d.db = x.d.db /\ z.d.old = x.d.old
  OBVIOUS
<1>3. \A l \in z.n.lsreq : l \in x.n.lsreq \/ Has(ls[Peer(r)], l)
  OBVIOUS
<1>4. \A p \in Pkts(z.out) : p \in Pkts(x.out) \/ Fair(r, x, p)
  OBVIOUS
<1>5. QED BY <1>1, <1>2, <1>3, <1>4, SoundSame, Zenon

(* dbdescRx of the master *)
LEMMA CalmMaster == ASSUME ExchangeInv, Answers, Orderly, NEW r \in Router, DdRxMaster(r) PROVE Orderly'
<1> DEFINE w == chan[R2]
           p == Head(w)
           x == Accepted(R2, Self(R2), p)
<1>1. /\ Arrived(r, "dd") /\ UNCHANGED <<adj, dr>> /\ Accepts(r, DdReceiver(r).n, Head(chan[r]))
      /\ Accepted(r, DdReceiver(r), Head(chan[r])).n.master
  BY Zenon DEF DdRxMaster
<1>2. r = R2
  <2>1. Head(chan[r]) \in DdPkt
    BY <1>1, DdHead
  <2>2. QED BY <1>1, <2>1, LeaderId
<1>3. /\ w # <<>> /\ w \in Seq(Pkt) /\ p \in DdPkt /\ p \in Dds(w) /\ p.t = "dd" /\ R2 \in Router
      /\ PktReal(R1, ls[R1], ls[R2], p) /\ Peer(R2) = R1 /\ Peer(R1) = R2 /\ R1 \in Router
  BY <1>1, <1>2, DdHead, PeerRoles, ReadHead
<1>4. /\ DdReceiver(R2) = Self(R2) /\ Building(nb[R2])
      /\ p \in Replies(w) /\ p.seq = nb[R2].ddseq /\ ~NegotiatesSlave(R2, nb[R2], p)
  BY <1>1, <1>2, <1>3, MasterAwaits
<1>5. /\ TypeOK /\ nb[R2] \in NbType /\ nb[R1] \in NbType /\ nb[R1].state \in Nat /\ nb[R2].ddseq \in Nat
      /\ Self(R2).n = nb[R2] /\ Self(R2).d = ls[R2] /\ Self(R2).out = <<>> /\ First \in Nat
  <2>1. /\ TypeOK /\ nb[R2] \in NbType /\ nb[R1] \in NbType
        /\ Self(R2).n = nb[R2] /\ Self(R2).d = ls[R2] /\ Self(R2).out = <<>>
    BY <1>3, KnownSelf
  <2>2. QED BY <2>1, NbFields, SizeAssumption DEF First, Router
<1>6. Receives(R2, Self(R2)) /\ Accepts(R2, nb[R2], p)
  <2>1. Building(DdReceiver(R2).n)
    BY <1>4, <1>5
  <2>2. QED BY <2>1, <1>1, <1>2, <1>3, <1>4, <1>5, ReceiverReceives
<1>7. /\ Sound(R2, x) /\ x.d = ls[R2]
      /\ Rtr(R1) \in LsasOf(p.hs) => Aware(R2, x.n, x.d)
      /\ Aware(R2, nb[R2], ls[R2]) => Aware(R2, x.n, x.d)
      /\ nb[R2].state = EXSTART => Rtr(R2) \in LsasOf(x.n.ddsum)
      /\ nb[R2].state = EXCHANGE => x.n.more0 = nb[R2].more0
  BY <1>3, <1>5, <1>6, AcceptedSound
<1>8. TookDd(R2, Self(R2), p, x) /\ x.n.master
  BY <1>1, <1>2, <1>3, <1>4, LeaderId
<1>9. IF x.n.more0 /\ ~p.more
      THEN \E c \in Chunk(x.n.lsreq, LsReqMax) :
             Rx(R2, ExchangeDone(R2, [x EXCEPT !.n.more0 = FALSE], c))
      ELSE \E c \in Chunk(x.n.ddsum, DdMax) :
             Rx(R2, BuildDd([x EXCEPT !.n.ddseq = @ + 1, !.n.more0 = @ \/ x.n.ddsum = {}],
                            x.n.ddsum # {}, TRUE, c))
  BY <1>2, <1>4, Zenon DEF DdRxMaster
<1> HIDE DEF x, p, w
<1>10. /\ x \in XType /\ x.n.state = EXCHANGE /\ x.out = <<>> /\ x.n.master = TRUE /\ x.n.ddseq = nb[R2].ddseq
       /\ nb[R2].state = EXSTART => x.n.more0 = FALSE
       /\ nb[R2].state = EXCHANGE => x.n.ddsum = nb[R2].ddsum \ nb[R2].sent
  <2>1. /\ x \in XType /\ x.n.state = EXCHANGE /\ x.out = <<>> /\ x.n.ddseq = nb[R2].ddseq
        /\ nb[R2].state = EXSTART => x.n.more0 = FALSE
        /\ nb[R2].state = EXCHANGE => x.n.ddsum = nb[R2].ddsum \ nb[R2].sent
    BY <1>4, <1>5, <1>8 DEF TookDd, Between
  <2>2. QED BY <2>1, <1>8 DEF XType, NbType
<1>11. /\ Calmly(nb[R2], nb[R1], Dds(chan[R1]), w, Aware(R1, nb[R1], ls[R1]), Aware(R2, nb[R2], ls[R2]))
       /\ Led(nb[R2], nb[R1], Dds(chan[R1]), Replies(w), DdBase(nb[R2], Time(R2)), Covered(R1, nb[R1], ls[R1]))
       /\ Paired(nb[R2], nb[R1], Dds(chan[R1]), Replies(w), Covered(R2, nb[R2], ls[R2]), chan[R1])
  BY DEF Orderly, Exchanging, ExchangeInv, Exchange, Answers, w
<1>12. ASSUME NEW z, Rx(R2, z), Sound(R2, z)
       PROVE  /\ Acts(R2, z) /\ chan'[R2] = Tail(w)
              /\ Dds(chan'[R1]) = Dds(chan[R1]) \union Dds(z.out)
  <2>1. Acts(R2, z) /\ chan'[R2] = Tail(w)
    BY <1>1, <1>3, <1>5, <1>12, RxActs DEF w
  <2>2. QED BY <2>1, <1>3, <1>5, <1>12, ActsFields DEF Sound
<1>13. CASE x.n.more0 /\ ~p.more
  <2> DEFINE y == [x EXCEPT !.n.more0 = FALSE]
  <2>1. PICK c \in Chunk(x.n.lsreq, LsReqMax) : Rx(R2, ExchangeDone(R2, y, c))
    BY <1>9, <1>13
  <2>2. /\ y \in XType /\ y.n.ddseq = x.n.ddseq /\ y.n.ddsum = x.n.ddsum /\ y.n.rxmt = x.n.rxmt
        /\ y.n.lsreq = x.n.lsreq /\ y.d = x.d /\ y.out = x.out
    BY <1>10 DEF XType, NbType
  <2> HIDE DEF y
  <2>3. c \in SUBSET y.n.lsreq
    BY <2>2, ChunkSubset
  <2>4. Sound(R2, y)
    BY <2>2, <1>3, <1>7, SoundNb
  <2>5. ~Present(y.d, <<Net(R2), TRUE>>)
    BY <2>2, <1>6, <1>7 DEF Receives
  <2> DEFINE z == ExchangeDone(R2, y, c)
  <2>6. /\ Sound(R2, z) /\ Announced(R2, z.n, z.d, ls[R1], dr[R2]) /\ Grows(y.d, z.d)
        /\ z.n.state \in {LOADING, FULL} /\ z.n.ddseq = y.n.ddseq
        /\ z.n.lsreq = y.n.lsreq /\ z.d.db[<<Rtr(R2), TRUE>>] = y.d.db[<<Rtr(R2), TRUE>>]
        /\ z.out = y.out \/ z.out = Append(y.out, LsReq(c))
    BY <2>3, <2>4, <2>5, <1>3, <1>5, DoneSound
  <2>7. Rx(R2, z)
    BY <2>1
  <2> HIDE DEF z
  <2>8. Dds(z.out) = {}
    <3>1. z.out = <<>> \/ z.out = <<LsReq(c)>>
      BY <2>2, <2>6, <1>10
    <3>2. Dds(<<LsReq(c)>>) = {}
      BY DEF Dds, Pkts, LsReq
    <3>3. QED BY <3>1, <3>2, NothingSent
  <2>9. nb[R2].state = EXCHANGE
    BY <1>4, <1>10, <1>13 DEF Building
  <2>10. Ready(R2, z)
    <3>1. z.d.db[<<Rtr(R2), TRUE>>] = ls[R2].db[<<Rtr(R2), TRUE>>]
      BY <2>2, <2>6, <1>7
    <3>2. z.n.state \in {EXCHANGE, LOADING, FULL}
      BY <2>6
    <3>3. QED BY <3>1, <3>2, <2>6, <1>1, <1>3, <1>5, <1>6, DdReady
  <2>11. Aware(R2, nb[R2], ls[R2]) => Aware(R2, z.n, z.d)
    <3>1. Rtr(R1) \in Lsa
      BY <1>3, KeyType
    <3>2. Has(x.d, Rtr(R1)) => Has(z.d, Rtr(R1))
      BY <2>2, <2>6, <3>1 DEF Grows
    <3>3. QED BY <3>2, <2>2, <2>6, <1>3, <1>7 DEF Aware
  <2>12. Acts(R2, z) /\ chan'[R2] = Tail(w) /\ Dds(chan'[R1]) = Dds(chan[R1])
    BY <2>6, <2>7, <2>8, <1>12
  <2>13. Calmly(z.n, nb[R1], Dds(chan[R1]), Tail(w), Aware(R1, nb[R1], ls[R1]), Aware(R2, z.n, z.d))
    <3>1. p = Head(w) /\ z.n.ddseq = nb[R2].ddseq
      BY <2>2, <2>6, <1>10 DEF p
    <3>2. Head(w) \in Replies(w) /\ Head(w).seq = nb[R2].ddseq /\ ~Head(w).more
      BY <3>1, <1>4, <1>13
    <3> DEFINE a == Aware(R1, nb[R1], ls[R1])
               b == Aware(R2, nb[R2], ls[R2])
               b2 == Aware(R2, z.n, z.d)
               ds == Dds(chan[R1])
    <3>3. /\ Calmly(nb[R2], nb[R1], ds, w, a, b) /\ (b => b2) /\ w \in Seq(Pkt) /\ w # <<>>
          /\ nb[R1].state \in Nat /\ nb[R2].state = EXCHANGE /\ z.n.state \in {LOADING, FULL}
      BY <2>6, <2>9, <2>11, <1>3, <1>5, <1>11
    <3> HIDE DEF a, b, b2, ds
    <3>4. Calmly(z.n, nb[R1], ds, Tail(w), a, b2)
      BY <3>1, <3>2, <3>3, CalmConcludes
    <3>5. QED BY <3>4 DEF a, b2, ds
  <2>14. QED BY <2>10, <2>12, <2>13, <1>5, MasterDid
<1>14. CASE ~(x.n.more0 /\ ~p.more)
  <2> DEFINE m == x.n.more0 \/ x.n.ddsum = {}
             y == [x EXCEPT !.n.ddseq = @ + 1, !.n.more0 = m]
             more == x.n.ddsum # {}
  <2>1. PICK c \in Chunk(x.n.ddsum, DdMax) : Rx(R2, BuildDd(y, more, TRUE, c))
    BY <1>9, <1>14
  <2>2. c \in SUBSET x.n.ddsum /\ m \in BOOLEAN /\ more \in BOOLEAN /\ (~more => x.n.ddsum = {} /\ m)
        /\ nb[R2].ddseq + 1 \in Nat
    BY <1>5, ChunkSubset
  <2> HIDE DEF m, more
  <2>3. /\ y \in XType /\ y.n.ddseq = nb[R2].ddseq + 1 /\ y.n.ddsum = x.n.ddsum /\ y.n.rxmt = x.n.rxmt
        /\ y.n.lsreq = x.n.lsreq /\ y.d = x.d /\ y.out = <<>> /\ y.n.state = EXCHANGE /\ y.n.more0 = m
        /\ y.n.master = TRUE
    BY <1>10, <2>2 DEF XType, NbType
  <2> HIDE DEF y
  <2>4. Sound(R2, y)
    BY <2>3, <1>3, <1>7, <1>10, SoundNb
  <2> DEFINE z == BuildDd(y, more, y.n.master, c)
  <2>5. Rx(R2, z)
    BY <2>1, <2>3
  <2>6. BuiltDd(R2, y, more, c, z)
    <3>1. c \in SUBSET y.n.ddsum /\ (~more => y.n.ddsum = {})
      BY <2>2, <2>3
    <3>2. QED BY <3>1, <2>2, <2>3, <2>4, <1>3, BuiltSound
  <2> HIDE DEF z
  <2>7. /\ Sound(R2, z) /\ z.n.more0 = m /\ z.d = ls[R2] /\ z.n.master = TRUE
        /\ z.n.lsreq = x.n.lsreq /\ z.n.lastdd = Dd(FALSE, more, TRUE, nb[R2].ddseq + 1, c)
        /\ z.n.ddsum = x.n.ddsum /\ z.n.state = EXCHANGE /\ z.n.ddseq = nb[R2].ddseq + 1
        /\ Pkts(z.out) = {z.n.lastdd} /\ LastDdFits(z.n)
    BY <2>3, <2>6, <1>7, NothingSent DEF BuiltDd
  <2>8. /\ z.n.lastdd.t = "dd" /\ (z.n.lastdd.more \/ z.n.more0) /\ LastDdFits(z.n)
    <3>1. z.n.lastdd.t = "dd" /\ z.n.lastdd.more = more
      BY <2>7 DEF Dd
    <3>2. QED BY <3>1, <2>2, <2>7
  <2>9. Dds(z.out) = {z.n.lastdd}
    BY <2>7, <2>8 DEF Dds
  <2>10. Ready(R2, z)
    <3>1. Announced(R2, z.n, z.d, ls[R1], dr[R2])
      BY <2>7, <1>6 DEF Announced, Receives
    <3>2. QED BY <3>1, <2>7, <1>1, <1>3, <1>5, <1>6, DdReady
  <2>11. Acts(R2, z) /\ chan'[R2] = Tail(w) /\ Dds(chan'[R1]) = Dds(chan[R1]) \union {z.n.lastdd}
    BY <2>5, <2>7, <2>9, <1>12
  <2>12. Calmly(z.n, nb[R1], Dds(chan'[R1]), Tail(w), Aware(R1, nb[R1], ls[R1]), Aware(R2, z.n, z.d))
    <3> DEFINE a == Aware(R1, nb[R1], ls[R1])
               b == Aware(R2, nb[R2], ls[R2])
               b2 == Aware(R2, z.n, z.d)
               ds == Dds(chan[R1])
               ds2 == Dds(chan'[R1])
               hi == DdBase(nb[R2], Time(R2))
               c1 == Covered(R1, nb[R1], ls[R1])
               c2 == Covered(R2, nb[R2], ls[R2])
    <3>1. b2 <=> Aware(R2, x.n, x.d)
      BY <2>7, <1>7 DEF Aware
    <3>2. /\ Calmly(nb[R2], nb[R1], ds, w, a, b) /\ Led(nb[R2], nb[R1], ds, Replies(w), hi, c1)
          /\ Paired(nb[R2], nb[R1], ds, Replies(w), c2, chan[R1]) /\ w \in Seq(Pkt) /\ w # <<>>
      BY <1>3, <1>11
    <3>3. Head(w) \in Replies(w) /\ Head(w).seq = nb[R2].ddseq /\ Building(nb[R2]) /\ First \in Nat
      BY <1>4, <1>5 DEF p
    <3>4. z.n.state = EXCHANGE /\ z.n.ddseq = nb[R2].ddseq + 1 /\ LastDdFits(z.n) /\ z.n.master
          /\ (z.n.lastdd.more \/ z.n.more0)
      BY <2>7, <2>8
    <3>5. /\ nb[R2].state = EXSTART => Rtr(R2) \in LsasOf(z.n.ddsum)
          /\ nb[R2].state = EXCHANGE => z.n.ddsum = nb[R2].ddsum \ nb[R2].sent /\ ~(nb[R2].more0 /\ ~Head(w).more)
      BY <2>7, <1>7, <1>10, <1>14 DEF p
    <3>6. ds2 = ds \union {z.n.lastdd} /\ (b => b2) /\ (Rtr(R1) \in LsasOf(Head(w).hs) => b2)
      BY <3>1, <2>11, <1>7 DEF p
    <3> HIDE DEF a, b, b2, ds, ds2, hi, c1, c2
    <3>7. Calmly(z.n, nb[R1], ds2, Tail(w), a, b2)
      BY <3>2, <3>3, <3>4, <3>5, <3>6, CalmContinues
    <3>8. QED BY <3>7 DEF a, b2, ds2
  <2>13. QED BY <2>10, <2>11, <2>12, <1>5, MasterDid
<1>15. QED BY <1>13, <1>14

(* short wires *)
LEMMA AppendPair == \A i, n : Append(<<>>, n) = <<n>> /\ Append(<<i>>, n) = <<i, n>>
<1>1. SUFFICES ASSUME NEW i, NEW n PROVE Append(<<>>, n) = <<n>> /\ Append(<<i>>, n) = <<i, n>>
  OBVIOUS
<1>2. Append(<<>>, n) = <<n>>
  OBVIOUS
<1>3. <<i>> \in Seq({i, n}) /\ <<i, n>> \in Seq({i, n}) /\ n \in {i, n}
  OBVIOUS
<1>4. Append(<<i>>, n) \in Seq({i, n}) /\ Len(Append(<<i>>, n)) = 2
  BY <1>3
<1>5. Append(<<i>>, n)[1] = i /\ Append(<<i>>, n)[2] = n
  BY <1>3
<1>6. Append(<<i>>, n) = <<i, n>>
  <2> DEFINE s == Append(<<i>>, n)
             t == <<i, n>>
  <2>1. Len(s) = 2 /\ s[1] = i /\ s[2] = n /\ s \in Seq({i, n})
    BY <1>4, <1>5
  <2>2. Len(t) = 2 /\ t[1] = i /\ t[2] = n /\ t \in Seq({i, n})
    BY <1>3
  <2> HIDE DEF s, t
  <2>3. \A j \in 1..Len(s) : s[j] = t[j]
    BY <2>1, <2>2
  <2>4. s = t
    BY <2>1, <2>2, <2>3, SeqEqual
  <2>5. QED BY <2>4 DEF s, t
<1>7. QED BY <1>2, <1>6

(* what the slave puts on the wire: its answer, after its first packet or     *)
(* before its first request                                                   *)
LEMMA AnswerWire ==
  ASSUME NEW n, n.t = "dd", NEW i, i.t = "dd", i.init, NEW q, q.t # "dd"
  PROVE  /\ Dds(<<n>>) = {n} /\ Dds(<<n, q>>) = {n} /\ Dds(<<i, n>>) = {i, n}
         /\ \A v : Single(<<n>>, v) /\ Single(<<n, q>>, v)
         /\ InitsFirst(<<n>>) /\ InitsFirst(<<i, n>>)
<1>1. DOMAIN <<n>> = {1} /\ DOMAIN <<n, q>> = {1, 2} /\ DOMAIN <<i, n>> = {1, 2}
  OBVIOUS
<1>2. <<n>>[1] = n /\ <<n, q>>[1] = n /\ <<n, q>>[2] = q /\ <<i, n>>[1] = i /\ <<i, n>>[2] = n
  OBVIOUS
<1>3. Pkts(<<n>>) = {n} /\ Pkts(<<n, q>>) = {n, q} /\ Pkts(<<i, n>>) = {i, n}
  BY DEF Pkts
<1>4. Dds(<<n>>) = {n} /\ Dds(<<n, q>>) = {n} /\ Dds(<<i, n>>) = {i, n}
  BY <1>3 DEF Dds
<1>5. ASSUME NEW v PROVE Single(<<n>>, v) /\ Single(<<n, q>>, v)
  BY <1>1, <1>2 DEF Single
<1>6. InitsFirst(<<n>>) /\ InitsFirst(<<i, n>>)
  BY <1>1, <1>2 DEF InitsFirst
<1>7. QED BY <1>4, <1>5, <1>6

(* dbdescRx of the slave: what both branches start from *)
LEMMA CalmSlave == ASSUME ExchangeInv, Answers, Orderly, NEW r \in Router, DdRxSlave(r) PROVE Orderly'
<1> DEFINE p == Head(chan[R1])
           h == DdReceiver(R1)
           x == Accepted(R1, h, p)
           y == [x EXCEPT !.n.ddseq = p.seq]
           more == x.n.ddsum # {} \/ p.more
           z(c) == BuildDd(y, more, FALSE, c)
           w == chan[R2]
           ds == Dds(chan[R1])
           a == Aware(R1, nb[R1], ls[R1])
           b == Aware(R2, nb[R2], ls[R2])
<1>1. /\ Arrived(r, "dd") /\ UNCHANGED <<adj, dr>> /\ Accepts(r, DdReceiver(r).n, Head(chan[r]))
      /\ ~Accepted(r, DdReceiver(r), Head(chan[r])).n.master
  BY DEF DdRxSlave
<1>2. r = R1
  <2>1. Head(chan[r]) \in DdPkt
    BY <1>1, DdHead
  <2>2. QED BY <1>1, <2>1, LeaderId DEF Router
<1>3. /\ chan[R1] # <<>> /\ p \in DdPkt /\ p \in ds /\ p.t = "dd" /\ p.seq \in Nat /\ R1 \in Router
      /\ PktReal(R2, ls[R2], ls[R1], p) /\ Peer(R1) = R2 /\ Peer(R2) = R1 /\ R2 \in Router
  BY <1>1, <1>2, DdHead, PeerRoles, ReadHead
<1>4. /\ TypeOK /\ nb[R2] \in NbType /\ nb[R1] \in NbType /\ nb[R1].state \in Nat /\ nb[R2].state \in Nat
      /\ nb[R1].ddseq \in Nat /\ w \in Seq(Pkt)
      /\ Self(R1).n = nb[R1] /\ Self(R1).d = ls[R1] /\ Self(R1).out = <<>> /\ First \in Nat
  <2>1. /\ TypeOK /\ nb[R2] \in NbType /\ nb[R1] \in NbType
        /\ Self(R1).n = nb[R1] /\ Self(R1).d = ls[R1] /\ Self(R1).out = <<>>
    BY <1>3, KnownSelf
  <2>2. QED BY <2>1, <1>3, NbFields, SizeAssumption DEF First, Router, TypeOK
<1>5. Accepts(R1, h.n, p) /\ TookDd(R1, h, p, x) /\ x.n.master = FALSE
  <2>1. Accepts(R1, h.n, p) /\ TookDd(R1, h, p, x) /\ ~x.n.master
    BY <1>1, <1>2, <1>3, LeaderId
  <2> HIDE DEF x
  <2>2. x.n.master \in BOOLEAN
    BY <2>1 DEF TookDd, Between, XType, NbType
  <2>3. QED BY <2>1, <2>2
<1>6. Receives(R1, h)
  <2>1. Building(h.n)
    <3> HIDE DEF h, x
    <3>1. QED BY <1>5 DEF TookDd, Building
  <2>2. QED BY <2>1, <1>1, <1>2, <1>3, ReceiverReceives
<1>7. \E c \in Chunk(x.n.ddsum, DdMax) :
        IF ~p.more /\ x.n.ddsum = {}
        THEN \E q \in Chunk(x.n.lsreq, LsReqMax) : Rx(R1, ExchangeDone(R1, z(c), q))
        ELSE Rx(R1, z(c))
  BY <1>2, ZenonT(60) DEF DdRxSlave
<1>8. /\ Sound(R1, x) /\ x.d = ls[R1]
      /\ Rtr(R2) \in LsasOf(p.hs) => Aware(R1, x.n, x.d)
      /\ a => Aware(R1, x.n, x.d)
      /\ h.n.state = EXSTART => Rtr(R1) \in LsasOf(x.n.ddsum)
  <2> HIDE DEF h
  <2>1. QED BY <1>3, <1>5, <1>6, AcceptedSound
<1>9. /\ Calmly(nb[R2], nb[R1], ds, w, a, b)
      /\ Led(nb[R2], nb[R1], ds, Replies(w), DdBase(nb[R2], Time(R2)), Covered(R1, nb[R1], ls[R1]))
      /\ LastDdFits(nb[R2]) /\ nb[R2].sent \subseteq nb[R2].ddsum
  <2>1. LastDdFits(nb[R2]) /\ nb[R2].sent \subseteq nb[R2].ddsum
    BY <1>3, KnownSelf DEF Known, Held, NbInv, ListsOf
  <2>2. QED BY <2>1 DEF Orderly, Exchanging, ExchangeInv, Exchange, w, ds, a, b
<1> HIDE DEF h, p
<1>10. NegotiatesSlave(R1, h.n, p) \/ NextInSequence(h.n, p)
  <2>1. ~(Peer(R1) < R1)
    BY IdAssumption DEF Peer
  <2>2. QED BY <2>1, <1>5 DEF Accepts, NegotiatesMaster
<1> HIDE DEF x
<1>11. PICK c \in Chunk(x.n.ddsum, DdMax) :
         IF ~p.more /\ x.n.ddsum = {}
         THEN \E q \in Chunk(x.n.lsreq, LsReqMax) : Rx(R1, ExchangeDone(R1, z(c), q))
         ELSE Rx(R1, z(c))
  BY <1>7
<1>12. /\ x \in XType /\ x.n.state = EXCHANGE /\ x.out = h.out /\ x.n.ddsum \in SUBSET Inst /\ x.n.lsreq \in SUBSET Lsa
       /\ x.n.lsreq = nb[R1].lsreq \union Wanted(ls[R1], p.hs)
  <2>1. h.d = ls[R1] /\ h.n.lsreq = nb[R1].lsreq
    BY <1>6 DEF Receives
  <2>2. QED BY <2>1, <1>5 DEF TookDd, Between, XType, NbType
<1>13. /\ y \in XType /\ y.n.ddseq = p.seq /\ y.n.ddsum = x.n.ddsum /\ y.n.rxmt = x.n.rxmt
       /\ y.n.lsreq = x.n.lsreq /\ y.d = x.d /\ y.out = x.out /\ y.n.state = EXCHANGE /\ y.n.master = FALSE
  BY <1>3, <1>5, <1>12 DEF XType, NbType
<1> HIDE DEF y
<1>14. Sound(R1, y)
  BY <1>3, <1>8, <1>13, SoundNb
<1>15. more \in BOOLEAN /\ (~more => x.n.ddsum = {} /\ ~p.more) /\ (more => x.n.ddsum # {} \/ p.more)
  OBVIOUS
<1> DEFINE v == BuildDd(y, more, y.n.master, c)
<1>16. v = z(c)
  BY <1>13
<1> HIDE DEF more
<1>17. BuiltDd(R1, y, more, c, v)
  <2>1. c \in SUBSET y.n.ddsum /\ (~more => y.n.ddsum = {})
    BY <1>13, <1>15, ChunkSubset
  <2>2. QED BY <2>1, <1>3, <1>13, <1>14, <1>15, BuiltSound
<1> HIDE DEF v
<1>18. /\ Sound(R1, v) /\ v.d = ls[R1] /\ v.out = Append(h.out, v.n.lastdd)
       /\ v.n.state = EXCHANGE /\ v.n.ddseq = p.seq /\ v.n.master = FALSE
       /\ v.n.lsreq = x.n.lsreq /\ v.n.ddsum = x.n.ddsum /\ LastDdFits(v.n)
       /\ v.n.lastdd = Dd(FALSE, more, FALSE, p.seq, c) /\ v.n.lastdd.t = "dd" /\ v.n.lastdd \in Pkt
  BY <1>8, <1>12, <1>13, <1>17 DEF BuiltDd
<1>19. ~v.n.lastdd.init /\ ~v.n.lastdd.ms /\ v.n.lastdd.seq = p.seq /\ v.n.lastdd.more = more
  BY <1>18 DEF Dd
<1>20. ASSUME NEW u, Rx(R1, u), Sound(R1, u)
       PROVE  /\ Acts(R1, u) /\ chan'[R2] = w \o u.out /\ u.out \in Seq(Pkt)
              /\ Dds(chan'[R1]) \subseteq ds
  <2>1. Acts(R1, u) /\ chan'[R2] = w \o u.out
    BY <1>1, <1>2, <1>3, <1>4, <1>20, RxActs DEF Acts
  <2>2. QED BY <2>1, <1>3, <1>4, <1>20, ActsFields DEF Sound
<1>21. Announced(R1, v.n, v.d, ls[R2], dr[R1]) /\ Present(ls[R1], <<Rtr(R1), TRUE>>) /\ ~Present(v.d, <<Net(R1), TRUE>>)
  BY <1>6, <1>18 DEF Announced, Receives
<1>22. ASSUME Rx(R1, v) PROVE Ready(R1, v)
  BY <1>1, <1>3, <1>4, <1>6, <1>18, <1>21, DdReady
<1> HIDE DEF ds, w, a, b
(* the first packet of the master *)
<1>23. CASE NegotiatesSlave(R1, h.n, p)
  <2>1. p.init /\ p.more /\ p.hs = {} /\ h.n.state = EXSTART
    BY <1>23 DEF NegotiatesSlave
  <2>2. Rx(R1, v) /\ more
    BY <2>1, <1>11, <1>16 DEF more
  <2>3. nb[R1].state < EXCHANGE
    BY <2>1, <1>4, <1>6 DEF Receives, EXSTART, EXCHANGE
  <2>4. x.n.lsreq = nb[R1].lsreq
    <3>1. Wanted(ls[R1], p.hs) = {}
      BY <2>1 DEF Wanted
    <3>2. QED BY <3>1, <1>12
  <2>5. Aware(R1, v.n, v.d) = a
    BY <2>4, <1>18 DEF Aware, a
  <2>6. InitsFirst(v.out) /\ Replies(v.out) \subseteq {v.n.lastdd}
    <3>1. LsReq({}).t # "dd"
      BY DEF LsReq
    <3>2. CASE h.out = <<>>
      <4>1. v.out = <<v.n.lastdd>>
        BY <3>2, <1>18
      <4> DEFINE i == Dd(TRUE, TRUE, TRUE, 0, {})
      <4>2. i.t = "dd" /\ i.init
        BY DEF Dd
      <4> HIDE DEF i
      <4>3. InitsFirst(v.out) /\ Dds(v.out) = {v.n.lastdd}
        BY <4>1, <4>2, <3>1, <1>18, AnswerWire
      <4>4. QED BY <4>3 DEF Replies
    <3>3. CASE h.out = <<h.n.lastdd>> /\ h.n.lastdd.t = "dd" /\ h.n.lastdd.init
      <4>1. v.out = <<h.n.lastdd, v.n.lastdd>>
        <5>1. v.out = Append(<<h.n.lastdd>>, v.n.lastdd)
          BY <3>3, <1>18
        <5>2. Append(<<h.n.lastdd>>, v.n.lastdd) = <<h.n.lastdd, v.n.lastdd>>
          BY AppendPair, Zenon
        <5>3. QED BY <5>1, <5>2, Zenon
      <4>2. InitsFirst(v.out) /\ Dds(v.out) = {h.n.lastdd, v.n.lastdd}
        <5> DEFINE i == h.n.lastdd
                   n == v.n.lastdd
                   q == LsReq({})
        <5>1. n.t = "dd" /\ i.t = "dd" /\ i.init /\ q.t # "dd"
          BY <3>1, <3>3, <1>18
        <5> HIDE DEF i, n, q
        <5>2. InitsFirst(<<i, n>>) /\ Dds(<<i, n>>) = {i, n}
          BY <5>1, AnswerWire
        <5>3. QED BY <5>2, <4>1 DEF i, n
      <4>3. QED BY <4>2, <3>3 DEF Replies
    <3>4. QED BY <3>2, <3>3, <1>4, <1>6 DEF Receives
  <2>7. Acts(R1, v) /\ chan'[R2] = w \o v.out /\ v.out \in Seq(Pkt) /\ Dds(chan'[R1]) \subseteq ds
    BY <2>2, <1>18, <1>20
  <2>8. Rtr(R1) \in LsasOf(v.n.ddsum) /\ v.n.lastdd.more
    BY <2>1, <2>2, <1>8, <1>18, <1>19
  <2> DEFINE ds2 == Dds(chan'[R1])
  <2>9. ds2 \subseteq ds /\ v.out \in Seq(Pkt) /\ p \in ds /\ w \in Seq(Pkt) /\ Calmly(nb[R2], nb[R1], ds, w, a, b)
    BY <2>7, <1>3, <1>4, <1>9
  <2> HIDE DEF ds2
  <2>10. Calmly(nb[R2], v.n, ds2, w \o v.out, a, b)
    BY <2>1, <2>3, <2>6, <2>8, <2>9, <1>4, <1>18, CalmFollows
  <2>11. Calmly(nb[R2], v.n, Dds(chan'[R1]), chan'[R2], Aware(R1, v.n, v.d), Aware(R2, nb[R2], ls[R2]))
    BY <2>5, <2>7, <2>10 DEF a, b, ds2
  <2>12. QED BY <2>2, <2>7, <2>11, <1>4, <1>22, SlaveDid
<1>24. ASSUME NextInSequence(h.n, p)
       PROVE  /\ h = Self(R1) /\ h.out = <<>> /\ nb[R1].state = EXCHANGE /\ ~p.init /\ p.seq = nb[R1].ddseq + 1
              /\ v.n.ddsum = nb[R1].ddsum \ nb[R1].sent /\ v.out = <<v.n.lastdd>>
  <2>1. h.n.state = EXCHANGE
    BY <1>24 DEF NextInSequence
  <2>2. h = Self(R1)
    BY <2>1, <1>6 DEF Receives, EXSTART, EXCHANGE
  <2>3. ~nb[R1].master
    BY <2>1, <2>2, <1>4, SlaveFollowing DEF EXCHANGE
  <2>4. x.n.ddsum = nb[R1].ddsum \ nb[R1].sent
    BY <2>1, <2>2, <1>4, <1>5 DEF TookDd
  <2>5. ~p.init /\ p.seq = nb[R1].ddseq + 1
    BY <2>2, <2>3, <1>4, <1>24 DEF NextInSequence
  <2>6. h.out = <<>> /\ nb[R1].state = EXCHANGE
    BY <2>1, <2>2, <1>4
  <2>7. v.out = <<v.n.lastdd>>
    BY <2>6, <1>18, AppendPair
  <2>8. QED BY <2>2, <2>4, <2>5, <2>6, <2>7, <1>18
(* what follows the slave's answer does not matter *)
<1>25. ASSUME NextInSequence(h.n, p), NEW u, Ready(R1, u), Rx(R1, u), NEW q, q.t # "dd",
              u.out = <<v.n.lastdd>> \/ u.out = <<v.n.lastdd, q>>,
              u.n.state \in {EXCHANGE, LOADING, FULL}, u.n.ddseq = p.seq, u.n.ddsum = v.n.ddsum,
              u.n.state = EXCHANGE => more /\ u.n.lastdd.more,
              u.n.state # EXCHANGE => ~more, u.n.lsreq = v.n.lsreq, Grows(v.d, u.d)
       PROVE  Orderly'
  <2> DEFINE a2 == Aware(R1, u.n, u.d)
             ds2 == Dds(chan'[R1])
             hi == DdBase(nb[R2], Time(R2))
             c1 == Covered(R1, nb[R1], ls[R1])
  <2>1. Sound(R1, u)
    BY <1>25 DEF Ready
  <2>2. Acts(R1, u) /\ chan'[R2] = w \o u.out /\ u.out \in Seq(Pkt) /\ ds2 \subseteq ds
    BY <2>1, <1>20, <1>25
  <2>3. (a => a2) /\ (Rtr(R2) \in LsasOf(p.hs) => a2)
    <3>1. Rtr(R2) \in Lsa
      BY <1>3, KeyType
    <3>2. Has(x.d, Rtr(R2)) => Has(u.d, Rtr(R2))
      BY <3>1, <1>8, <1>18, <1>25 DEF Grows
    <3>3. Aware(R1, x.n, x.d) => a2
      BY <3>2, <1>3, <1>18, <1>25 DEF Aware
    <3>4. QED BY <3>3, <1>8
  <2>4. Dds(u.out) = {v.n.lastdd} /\ Single(u.out, p.seq)
    <3> DEFINE i == Dd(TRUE, TRUE, TRUE, 0, {})
    <3>1. i.t = "dd" /\ i.init
      BY DEF Dd
    <3> HIDE DEF i
    <3> DEFINE n == v.n.lastdd
    <3>2. n.t = "dd" /\ q.t # "dd" /\ (u.out = <<n>> \/ u.out = <<n, q>>)
      BY <1>18, <1>25
    <3> HIDE DEF n
    <3>3. Dds(<<n>>) = {n} /\ Dds(<<n, q>>) = {n} /\ Single(<<n>>, p.seq) /\ Single(<<n, q>>, p.seq)
      BY <3>1, <3>2, AnswerWire
    <3>4. QED BY <3>2, <3>3 DEF n
  <2>5. u.n.state # EXCHANGE => ~v.n.lastdd.more /\ ~p.more /\ u.n.ddsum = {}
    BY <1>15, <1>18, <1>19, <1>25
  <2>6. u.n.state = EXCHANGE => v.n.lastdd.more /\ u.n.lastdd.more
    BY <1>19, <1>25
  <2>7. nb[R1].state = EXCHANGE /\ ~p.init /\ p.seq = nb[R1].ddseq + 1 /\ u.n.ddsum = nb[R1].ddsum \ nb[R1].sent
    BY <1>24, <1>25
  <2>8. Calmly(nb[R2], nb[R1], ds, w, a, b) /\ Led(nb[R2], nb[R1], ds, Replies(w), hi, c1)
    BY <1>9
  <2> HIDE DEF a2, ds2, hi, c1
  <2>9. Calmly(nb[R2], u.n, ds2, w \o u.out, a2, b)
    <3>1. /\ u.n.state \in {EXCHANGE, LOADING, FULL} /\ u.n.ddseq = p.seq /\ u.out \in Seq(Pkt) /\ ds2 \subseteq ds
          /\ p \in ds /\ w \in Seq(Pkt) /\ First \in Nat /\ LastDdFits(nb[R2]) /\ nb[R2].sent \subseteq nb[R2].ddsum
      BY <2>2, <1>3, <1>4, <1>9, <1>25
    <3>2. QED BY <3>1, <2>3, <2>4, <2>5, <2>6, <2>7, <2>8, <1>19, CalmAnswers
  <2>10. Calmly(nb[R2], u.n, Dds(chan'[R1]), chan'[R2], Aware(R1, u.n, u.d), Aware(R2, nb[R2], ls[R2]))
    BY <2>2, <2>9 DEF a2, b, ds2
  <2>11. QED BY <2>2, <2>10, <1>4, <1>25, SlaveDid
<1>26. CASE NextInSequence(h.n, p) /\ more
  <2>1. Rx(R1, v)
    BY <1>11, <1>15, <1>16, <1>26
  <2>2. LsReq({}).t # "dd" /\ v.out = <<v.n.lastdd>>
    BY <1>24, <1>26 DEF LsReq
  <2>3. QED BY <2>1, <2>2, <1>18, <1>19, <1>22, <1>25, <1>26, GrowsSelf
<1>27. CASE NextInSequence(h.n, p) /\ ~more
  <2>1. PICK q \in Chunk(x.n.lsreq, LsReqMax) : Rx(R1, ExchangeDone(R1, v, q))
    BY <1>11, <1>15, <1>16, <1>27
  <2>2. q \in SUBSET v.n.lsreq
    BY <1>18, ChunkSubset
  <2> DEFINE u == ExchangeDone(R1, v, q)
  <2>3. /\ Sound(R1, u) /\ Announced(R1, u.n, u.d, ls[R2], dr[R1]) /\ Grows(v.d, u.d)
        /\ u.n.state \in {LOADING, FULL} /\ u.n.ddseq = v.n.ddseq /\ u.n.ddsum = v.n.ddsum
        /\ u.n.lsreq = v.n.lsreq /\ u.d.db[<<Rtr(R1), TRUE>>] = v.d.db[<<Rtr(R1), TRUE>>]
        /\ u.out = v.out \/ u.out = Append(v.out, LsReq(q))
    BY <2>2, <1>3, <1>4, <1>18, <1>21, DoneSound, ZenonT(60)
  <2>4. Rx(R1, u)
    BY <2>1
  <2> HIDE DEF u
  <2>5. v.out = <<v.n.lastdd>> /\ LsReq(q).t # "dd"
    BY <1>24, <1>27 DEF LsReq
  <2>6. u.out = <<v.n.lastdd>> \/ u.out = <<v.n.lastdd, LsReq(q)>>
    BY <2>3, <2>5
  <2>7. Ready(R1, u)
    <3>1. u.d.db[<<Rtr(R1), TRUE>>] = ls[R1].db[<<Rtr(R1), TRUE>>] /\ u.n.state \in {EXCHANGE, LOADING, FULL}
      BY <2>3, <1>18
    <3>2. QED BY <3>1, <2>3, <1>1, <1>3, <1>4, <1>6, DdReady
  <2>8. u.n.state # EXCHANGE /\ u.n.state \in {EXCHANGE, LOADING, FULL} /\ u.n.ddseq = p.seq
    BY <2>3, <1>18 DEF EXCHANGE, LOADING, FULL
  <2>9. QED BY <2>3, <2>4, <2>5, <2>6, <2>7, <2>8, <1>25, <1>27
<1>28. QED BY <1>10, <1>23, <1>26, <1>27

(* ------------------------------ every step ------------------------------- *)
(* the counters of the environment only grow *)
LEMMA EnvSteps == ASSUME [Next]_vars PROVE UNCHANGED env \/ TimerDue \/ \E w \in Budget : Spend(w)
<1>1. {"loss", "boot", "dead", "change"} \subseteq Budget
  BY DEF Budget
<1>2. CASE UNCHANGED vars
  BY <1>2 DEF vars
<1>3. ASSUME NEW r \in Router, HelloRx(r) \/ Receive(r) PROVE UNCHANGED env
  BY <1>3, Zenon DEF HelloRx, Receive, DdRxIgnored, DdRxMismatch, DdRxMaster, DdRxSlave, LsReqRx, BadLsReqRx, LsUpdRx, LsAckRx
<1>4. ASSUME NEW r \in Router, Timer(r) PROVE TimerDue
  BY <1>4 DEF Timer, Rxmt, DdRxmt, LsReqRxmt, LsUpdRxmt, FreeLast, LsaTimers, NetLsaUpdate, AgeOut, FloodTimer,
              OldTimer, ForeignFlush
<1>5. ASSUME NEW r \in Router, Election(r) PROVE UNCHANGED env
  BY <1>5 DEF Election, WaitTimer
<1>6. ASSUME NEW r \in Router, Environment(r) PROVE UNCHANGED env \/ \E w \in Budget : Spend(w)
  BY <1>1, <1>6 DEF Environment, HelloRxElect, InactivityTimer, Refresh, Learn, Restart, Lose
<1>7. QED BY <1>2, <1>3, <1>4, <1>5, <1>6 DEF Next

(* what is calm has been calm *)
LEMMA CalmBefore == ASSUME TypeOK, [Next]_vars, Calm' PROVE Calm
<1>1. env \in [Budget -> Nat] /\ {"boot", "dead", "early", "change"} \subseteq Budget
  BY DEF TypeOK, Budget
<1>2. UNCHANGED env \/ \E w \in Budget : env' = [env EXCEPT ![w] = @ + 1]
  <2>1. "early" \in Budget
    BY DEF Budget
  <2>2. TimerDue => UNCHANGED env \/ Spend("early")
    BY DEF TimerDue
  <2>3. UNCHANGED env \/ \E w \in Budget : Spend(w)
    BY <2>1, <2>2, EnvSteps
  <2>4. QED BY <2>3 DEF Spend
<1>3. \A w \in Budget : env'[w] = 0 => env[w] = 0
  BY <1>1, <1>2
<1>4. QED BY <1>1, <1>3 DEF Calm, Unfailed

LEMMA ChangeCounts == ASSUME TypeOK, Spend("change") PROVE ~Calm'
<1>1. env \in [Budget -> Nat] /\ "change" \in Budget
  BY DEF TypeOK, Budget
<1>2. env'["change"] = env["change"] + 1 /\ env["change"] \in Nat
  BY <1>1 DEF Spend
<1>3. QED BY <1>2 DEF Calm

(* nothing disturbs the exchange while nothing fails or changes *)
LEMMA NextOrderly == ASSUME ExchangeInv, Answers, Orderly, [Next]_vars, Calm' PROVE Orderly'
<1>1. TypeOK /\ Unfailed /\ Unfailed' /\ env'["change"] = 0
  <2>1. TypeOK
    BY KnownSelf, PeerRoles
  <2>2. QED BY <2>1, CalmBefore DEF Calm
<1>2. CASE UNCHANGED vars
  BY <1>2 DEF vars, Orderly, Genuine, Started, Told, Exchanging
<1>3. ASSUME NEW r \in Router, HelloRx(r) PROVE Orderly'
  BY <1>1, <1>3, CalmHello
<1>4. ASSUME NEW r \in Router, Receive(r) PROVE Orderly'
  BY <1>1, <1>4, CalmIgnored, CalmNoMismatch, CalmMaster, CalmSlave, CalmReq, CalmNoBadReq, CalmUpd, CalmAck DEF Receive
<1>5. ASSUME NEW r \in Router, Timer(r) PROVE Orderly'
  BY <1>5, CalmDdRxmt, CalmReqRxmt, CalmUpdRxmt, CalmFreeLast, CalmLsaTimers DEF Timer, Rxmt
<1>6. ASSUME NEW r \in Router, Election(r) PROVE Orderly'
  BY <1>1, <1>6, CalmWait DEF Election
<1>7. ASSUME NEW r \in Router, Environment(r) PROVE Orderly'
  <2>1. ASSUME NEW isdr \in Role[r], NEW changed \in BOOLEAN, HelloRxElect(r, isdr, changed) PROVE Orderly'
    BY <1>1, <2>1, CalmElect
  <2>2. ASSUME NEW changed \in BOOLEAN, InactivityTimer(r, changed) PROVE FALSE
    BY <1>1, <2>2, FailureCounts DEF InactivityTimer
  <2>3. ASSUME NEW l \in Lsa, Refresh(r, l) PROVE FALSE
    BY <1>1, <2>3, ChangeCounts DEF Refresh
  <2>4. ASSUME NEW e \in Ext, Learn(r, e) PROVE FALSE
    BY <1>1, <2>4, ChangeCounts DEF Learn
  <2>5. ASSUME Restart(r) PROVE FALSE
    BY <1>1, <2>5, FailureCounts DEF Restart
  <2>6. ASSUME Lose(r) PROVE Orderly'
    BY <2>6, CalmLose
  <2>7. QED BY <1>7, <2>1, <2>2, <2>3, <2>4, <2>5, <2>6 DEF Environment
<1>8. QED BY <1>2, <1>3, <1>4, <1>5, <1>6, <1>7 DEF Next

(* an entry of the database that a router boots with *)
LEMMA BootEntry ==
  ASSUME NEW r \in Router, NEW k \in Key
  PROVE  /\ BootLs(r).db[k].l = k[1] /\ BootLs(r).db[k].val = 0 /\ ~BootLs(r).db[k].max
         /\ k[1][1] = "ext" /\ ~k[2] => BootLs(r).db[k].seq = ExtSeq[r][k[1][2]]
         /\ ~(k[1][1] = "ext" /\ ~k[2]) => BootLs(r).db[k].seq = 0
         /\ BootLs(r).db[k].seq = 0 => BootLs(r).db[k] = NoInst(k[1])
<1>1. \A t : [NoInst(k[1]) EXCEPT !.seq = t].l = k[1] /\ [NoInst(k[1]) EXCEPT !.seq = t].val = 0
             /\ ~[NoInst(k[1]) EXCEPT !.seq = t].max /\ [NoInst(k[1]) EXCEPT !.seq = t].seq = t
  BY DEF NoInst
<1>2. /\ NoInst(k[1]).l = k[1] /\ NoInst(k[1]).val = 0 /\ ~NoInst(k[1]).max /\ NoInst(k[1]).seq = 0
      /\ NoInst(k[1]) \in Inst
  BY KeyType DEF NoInst, Inst
<1> DEFINE i == BootLs(r).db[k]
           s == ExtSeq[r][k[1][2]]
<1>3. i = IF k[1][1] = "ext" /\ ~k[2] THEN [NoInst(k[1]) EXCEPT !.seq = s] ELSE NoInst(k[1])
  BY DEF BootLs
<1>4. i \in Inst
  BY BootType DEF LsType
<1> HIDE DEF i, s
<1>5. /\ i.l = k[1] /\ i.val = 0 /\ ~i.max
      /\ k[1][1] = "ext" /\ ~k[2] => i.seq = s
      /\ ~(k[1][1] = "ext" /\ ~k[2]) => i.seq = 0
  BY <1>1, <1>2, <1>3
<1>6. ASSUME i.seq = 0 PROVE i = NoInst(k[1])
  BY <1>2, <1>4, <1>5, <1>6 DEF Inst
<1>7. QED BY <1>5, <1>6 DEF i, s

(* the external LSAs are real *)
LEMMA BootStock == ASSUME NEW r \in Router PROVE Stock(r, NoNb, BootLs(r), BootLs(Peer(r)))
<1> DEFINE d == BootLs(r)
           g == BootLs(Peer(r))
<1>1. \A k \in Key : d.db[k].seq = 0 => d.db[k] = NoInst(k[1])
  BY BootEntry
<1>2. ASSUME NEW k \in Key, Present(d, k)
      PROVE  Real(r, d, g, d.db[k]) /\ d.db[k].l = k[1] /\ (k[2] <=> k[1] \in Own(r))
  <2> DEFINE i == d.db[k]
  <2>1. k[1][1] = "ext" /\ ~k[2] /\ k[1] \in Lsa /\ i.seq > 0
    BY <1>2, BootEntry, KeyType DEF Present
  <2>2. PICK e \in Ext : k[1] = ExtLsa(e)
    BY <2>1, ExtKey
  <2>3. k[1][2] = e
    BY <2>2 DEF ExtLsa
  <2>4. i.l = k[1] /\ i.seq = ExtSeq[r][e] /\ i.val = 0 /\ ~i.max
    BY <2>1, <2>3, BootEntry
  <2> HIDE DEF i, d, g
  <2>5. Peer(r) \in Router
    BY PeerType
  <2>6. k[1] \notin Own(r) /\ k[1] \notin Own(Peer(r))
    BY <2>1, <2>5, OwnLsas
  <2>7. ASSUME NEW f \in Ext, i.l = ExtLsa(f)
        PROVE  i.val = 0 /\ (i.seq <= ExtSeq[R1][f] \/ i.seq <= ExtSeq[R2][f])
    <3>1. f = e
      BY <2>2, <2>4, <2>7 DEF ExtLsa
    <3>2. ExtSeq[r][e] \in Nat
      BY ExtSeqNat
    <3>3. QED BY <3>1, <3>2, <2>4 DEF Router
  <2>8. Real(r, d, g, i)
    BY <2>1, <2>4, <2>6, <2>7 DEF Real
  <2>9. QED BY <2>1, <2>4, <2>6, <2>8 DEF i
<1>3. \A l \in Lsa : d.old[l] = 0
  BY DEF BootLs
<1> HIDE DEF d, g
<1>4. NoNb.ddsum = {} /\ NoNb.rxmt = {} /\ NoNb.lsreq = {}
  BY DEF NoNb
<1>5. Stock(r, NoNb, d, g)
  BY <1>1, <1>2, <1>3, <1>4 DEF Stock
<1>6. QED BY <1>5 DEF d, g

(* the routers start with nothing but the external LSAs *)
LEMMA InitOrderly == Init => Orderly
<1> SUFFICES ASSUME Init PROVE Orderly
  OBVIOUS
<1>1. \A r \in Router : /\ nb[r] = NoNb /\ ls[r] = BootLs(r) /\ chan[r] = <<>> /\ adj[r] = FALSE /\ dr[r] = FALSE
                        /\ Peer(r) \in Router
  BY PeerType DEF Init
<1>2. Genuine
  BY <1>1, BootStock, NothingSent DEF Genuine
<1>3. \A r \in Router : ~Present(ls[r], <<Rtr(r), TRUE>>) /\ ~Present(ls[r], <<Net(r), TRUE>>)
  <2>1. SUFFICES ASSUME NEW r \in Router PROVE ~Present(ls[r], <<Rtr(r), TRUE>>) /\ ~Present(ls[r], <<Net(r), TRUE>>)
    OBVIOUS
  <2>2. <<Rtr(r), TRUE>> \in Key /\ <<Net(r), TRUE>> \in Key /\ <<Rtr(r), TRUE>>[2] /\ <<Net(r), TRUE>>[2]
    BY KeyType
  <2>3. \A k \in Key : k[2] => BootLs(r).db[k].seq = 0
    BY BootEntry
  <2>4. BootLs(r).db[<<Rtr(r), TRUE>>].seq = 0 /\ BootLs(r).db[<<Net(r), TRUE>>].seq = 0
    BY <2>2, <2>3
  <2>5. ls[r].db[<<Rtr(r), TRUE>>].seq = 0 /\ ls[r].db[<<Net(r), TRUE>>].seq = 0
    BY <2>4, <1>1
  <2>6. QED BY <2>5 DEF Present
<1>4. NoNb.state = 0 /\ NoNb.rxmt = {}
  BY DEF NoNb, DOWN
<1>5. Told
  BY <1>3 DEF Told, Announced
<1>6. Started
  <2>1. SUFFICES ASSUME NEW r \in Router
                 PROVE  /\ Begun(r, nb[r], ls[r], nb[Peer(r)], adj[r], dr[r])
                        /\ Dds(chan[Peer(r)]) # {} => nb[r].state # DOWN
    BY DEF Started
  <2>2. nb[r].state = 0 /\ adj[r] = FALSE /\ ~Present(ls[r], <<Rtr(r), TRUE>>) /\ Dds(chan[Peer(r)]) = {}
    BY <1>1, <1>3, <1>4, NothingSent
  <2>3. QED BY <2>2 DEF Begun, TWOWAY, EXSTART
<1>7. Exchanging
  <2>1. nb[R1] = NoNb /\ nb[R2] = NoNb /\ chan[R1] = <<>> /\ chan[R2] = <<>>
    BY <1>1 DEF Router
  <2>2. InitsFirst(<<>>)
    BY DEF InitsFirst
  <2>3. Once(NoNb, NoNb, {}, <<>>)
    BY <2>2, NothingSent DEF Once, NoNb, DOWN, EXSTART, EXCHANGE
  <2>4. Done(NoNb, NoNb, <<>>)
    BY NothingSent DEF Done, NoNb, DOWN, EXSTART, EXCHANGE, LOADING
  <2>5. \A a : SlaveLearns(NoNb, NoNb, a) /\ MasterLearns(NoNb, NoNb, a)
    BY DEF SlaveLearns, MasterLearns, NoNb, DOWN, EXSTART, EXCHANGE, LOADING
  <2>6. QED BY <2>1, <2>3, <2>4, <2>5, NothingSent DEF Exchanging, Calmly
<1>8. QED BY <1>2, <1>5, <1>6, <1>7 DEF Orderly

(* ------------------- agreement of the two databases ---------------------- *)
(* an LSA that a router does not have *)
LEMMA AbsentFound ==
  ASSUME Genuine, TypeOK, NEW r \in Router, NEW l \in Lsa
  PROVE  /\ l \in Own(r) => Found(ls[r], l) = ls[r].db[<<l, TRUE>>]
         /\ l \notin Own(r) => Found(ls[r], l) = ls[r].db[<<l, FALSE>>]
         /\ ~Has(ls[r], l) => Found(ls[r], l) = NoInst(l)
         /\ Has(ls[r], l) => Real(r, ls[r], ls[Peer(r)], Found(ls[r], l)) /\ Found(ls[r], l).l = l
<1> DEFINE d == ls[r]
           t == <<l, TRUE>>
           f == <<l, FALSE>>
<1>1. t \in Key /\ f \in Key /\ t[1] = l /\ f[1] = l /\ t[2] = TRUE /\ f[2] = FALSE
  BY KeyType
<1>2. Stock(r, nb[r], d, ls[Peer(r)])
  BY DEF Genuine
<1>3. d.db[t].seq \in Nat /\ d.db[f].seq \in Nat
  BY <1>1 DEF TypeOK, LsType, Inst
<1>4. Found(d, l) = IF Present(d, t) THEN d.db[t] ELSE d.db[f]
  BY DEF Found
<1>5. Has(d, l) <=> Present(d, t) \/ Present(d, f)
  BY DEF Has
<1> HIDE DEF d, t, f
<1>6. /\ Present(d, t) => Real(r, d, ls[Peer(r)], d.db[t]) /\ d.db[t].l = l /\ l \in Own(r)
      /\ Present(d, f) => Real(r, d, ls[Peer(r)], d.db[f]) /\ d.db[f].l = l /\ l \notin Own(r)
      /\ d.db[t].seq = 0 => d.db[t] = NoInst(l)
      /\ d.db[f].seq = 0 => d.db[f] = NoInst(l)
  BY <1>1, <1>2 DEF Stock
<1>7. /\ ~Present(d, t) => d.db[t] = NoInst(l)
      /\ ~Present(d, f) => d.db[f] = NoInst(l)
  BY <1>3, <1>6 DEF Present
<1>8. QED BY <1>4, <1>5, <1>6, <1>7 DEF d, t, f

(* the peer has the router-LSA and the network-LSA of a router, or there is none *)
LEMMA OwnKnown ==
  ASSUME ExchangeInv, Orderly, Settled, NEW r \in Router, NEW l \in Own(r), Has(ls[r], l)
  PROVE  Has(ls[Peer(r)], l)
<1>1. TypeOK /\ Genuine /\ l \in Lsa /\ Peer(r) \in Router /\ Peer(Peer(r)) = r
  BY KnownSelf, PeerRoles, OwnLsas, PeerType DEF Orderly
<1>2. \A q \in Router : nb[q].state = FULL /\ nb[q].rxmt = {} /\ ls[q].flood = {}
  BY DEF Settled
<1>3. \A q \in Router : nb[q].lsreq = {}
  BY <1>2, KnownSelf DEF NbInv, ListsOf, Known
<1>4. CASE l = Rtr(r)
  <2>1. Aware(R1, nb[R1], ls[R1]) /\ Aware(R2, nb[R2], ls[R2])
    BY <1>2 DEF Orderly, Exchanging, Calmly, SlaveLearns, MasterLearns, Router, LOADING, FULL
  <2>2. Aware(Peer(r), nb[Peer(r)], ls[Peer(r)])
    BY <2>1, <1>1 DEF Router
  <2>3. QED BY <1>1, <1>3, <1>4, <2>2 DEF Aware
<1>5. CASE l = Net(r)
  <2>1. Present(ls[r], <<l, TRUE>>)
    <3>1. Found(ls[r], l) = ls[r].db[<<l, TRUE>>] /\ Real(r, ls[r], ls[Peer(r)], Found(ls[r], l))
      BY <1>1, AbsentFound
    <3>2. QED BY <3>1 DEF Real, Present
  <2>2. Announced(r, nb[r], ls[r], ls[Peer(r)], dr[r])
    BY DEF Orderly, Told
  <2>3. LsasOf({}) = {}
    BY DEF LsasOf
  <2>4. QED BY <1>2, <1>5, <2>1, <2>2, <2>3 DEF Announced
<1>6. QED BY <1>4, <1>5 DEF Own

(* the two agree on what one of them originates *)
LEMMA OwnAgree ==
  ASSUME ExchangeInv, Orderly, Settled, NEW r \in Router, NEW l \in Own(r)
  PROVE  Found(ls[r], l) = Found(ls[Peer(r)], l)
<1>1. TypeOK /\ Genuine /\ l \in Lsa /\ Peer(r) \in Router /\ Peer(Peer(r)) = r /\ l \notin Own(Peer(r))
  BY KnownSelf, PeerRoles, OwnLsas, PeerType DEF Orderly
<1>2. CASE Has(ls[Peer(r)], l)
  <2>1. Real(Peer(r), ls[Peer(r)], ls[r], Found(ls[Peer(r)], l)) /\ Found(ls[Peer(r)], l).l = l
    BY <1>1, <1>2, AbsentFound
  <2>2. Found(ls[Peer(r)], l) = ls[r].db[<<l, TRUE>>]
    BY <2>1, <1>1 DEF Real
  <2>3. Found(ls[r], l) = ls[r].db[<<l, TRUE>>]
    BY <1>1, AbsentFound
  <2>4. QED BY <2>2, <2>3
<1>3. CASE ~Has(ls[Peer(r)], l)
  <2>1. ~Has(ls[r], l)
    BY <1>3, OwnKnown
  <2>2. QED BY <1>1, <1>3, <2>1, AbsentFound
<1>4. QED BY <1>2, <1>3

(* what a Full router has of an external LSA: the newer of the two instances  *)
(* that the routers booted with                                               *)
LEMMA ExtFound ==
  ASSUME ExchangeInv, Answers, Orderly, Settled, NEW r \in Router, NEW e \in Ext
  PROVE  \E s \in Nat : /\ Found(ls[r], ExtLsa(e)) = [l |-> ExtLsa(e), seq |-> s, val |-> 0, max |-> FALSE]
                        /\ s >= ExtSeq[R1][e] /\ s >= ExtSeq[R2][e]
                        /\ s <= ExtSeq[R1][e] \/ s <= ExtSeq[R2][e]
<1> DEFINE i == Found(ls[r], ExtLsa(e))
<1>1. TypeOK /\ Genuine /\ ExtLsa(e) \in Lsa /\ Peer(r) \in Router /\ <<ExtLsa(e), FALSE>> \in Key
  BY KnownSelf, PeerRoles, ExtKey, PeerType DEF Orderly
<1>2. GoodDb(r, ls[r])
  BY KnownSelf DEF Known, Held
<1>3. i = ls[r].db[<<ExtLsa(e), FALSE>>]
  BY <1>2, FoundExt
<1>4. i \in Inst /\ i.seq >= ExtSeq[r][e]
  <2>1. ls[r].db \in [Key -> Inst]
    BY <1>1 DEF TypeOK, LsType
  <2>2. ls[r].db[<<ExtLsa(e), FALSE>>].seq >= ExtSeq[r][e]
    BY <1>2 DEF GoodDb
  <2>3. QED BY <1>1, <1>3, <2>1, <2>2
<1>5. i.seq >= ExtSeq[Peer(r)][e]
  <2>1. nb[r].state = FULL
    BY DEF Settled
  <2>2. HasPeerDatabase(r)
    BY SlaveHas, MasterHas DEF Router
  <2>3. QED BY <2>1, <2>2 DEF HasPeerDatabase, ExtLsa
<1>6. ExtSeq[R1][e] \in Nat /\ ExtSeq[R2][e] \in Nat
  BY ExtSeqNat DEF Router
<1>7. i.seq >= ExtSeq[R1][e] /\ i.seq >= ExtSeq[R2][e]
  BY <1>4, <1>5, PeerRoles DEF Router, Peer
<1>8. i.l = ExtLsa(e) /\ i.val = 0 /\ i.max = FALSE /\ (i.seq <= ExtSeq[R1][e] \/ i.seq <= ExtSeq[R2][e])
  <2>1. CASE Has(ls[r], ExtLsa(e))
    <3>1. Real(r, ls[r], ls[Peer(r)], i) /\ i.l = ExtLsa(e)
      BY <1>1, <2>1, AbsentFound
    <3> HIDE DEF i
    <3>2. i.max \in BOOLEAN
      BY <1>4 DEF Inst
    <3>3. QED BY <3>1, <3>2 DEF Real
  <2>2. CASE ~Has(ls[r], ExtLsa(e))
    <3>1. i = NoInst(ExtLsa(e))
      BY <1>1, <2>2, AbsentFound
    <3> HIDE DEF i
    <3>2. i.l = ExtLsa(e) /\ i.val = 0 /\ i.max = FALSE /\ i.seq = 0
      BY <3>1 DEF NoInst
    <3>3. QED BY <3>2, <1>6
  <2>3. QED BY <2>1, <2>2
<1> HIDE DEF i
<1>9. i.seq \in Nat /\ i = [l |-> ExtLsa(e), seq |-> i.seq, val |-> 0, max |-> FALSE]
  BY <1>4, <1>8 DEF Inst
<1>10. QED BY <1>7, <1>8, <1>9 DEF i

(* the agreement of two settled routers *)
LEMMA SettledSame ==
  ASSUME ExchangeInv, Answers, Orderly, Settled, NEW l \in Lsa PROVE Found(ls[R1], l) = Found(ls[R2], l)
<1>1. R1 \in Router /\ R2 \in Router /\ Peer(R1) = R2 /\ Peer(R2) = R1
  BY PeerRoles DEF Router
<1>2. CASE l[1] = "ext"
  <2>1. PICK e \in Ext : l = ExtLsa(e)
    BY <1>2, ExtKey
  <2>2. PICK s \in Nat : /\ Found(ls[R1], l) = [l |-> ExtLsa(e), seq |-> s, val |-> 0, max |-> FALSE]
                         /\ s >= ExtSeq[R1][e] /\ s >= ExtSeq[R2][e]
                         /\ s <= ExtSeq[R1][e] \/ s <= ExtSeq[R2][e]
    BY <1>1, <2>1, ExtFound
  <2>3. PICK t \in Nat : /\ Found(ls[R2], l) = [l |-> ExtLsa(e), seq |-> t, val |-> 0, max |-> FALSE]
                         /\ t >= ExtSeq[R1][e] /\ t >= ExtSeq[R2][e]
                         /\ t <= ExtSeq[R1][e] \/ t <= ExtSeq[R2][e]
    BY <1>1, <2>1, ExtFound
  <2>4. ExtSeq[R1][e] \in Nat /\ ExtSeq[R2][e] \in Nat
    BY <1>1, ExtSeqNat
  <2>5. s = t
    BY <2>2, <2>3, <2>4
  <2>6. QED BY <2>2, <2>3, <2>5
<1>3. CASE l[1] # "ext"
  <2>1. l \in Own(R1) \/ l \in Own(R2)
    BY <1>1, <1>3, OwnLsas
  <2>2. QED BY <1>1, <2>1, OwnAgree
<1>4. QED BY <1>2, <1>3

(* Two routers that met, of which neither failed and whose LSAs did not       *)
(* change, hold the same instance of every LSA once both are Full and neither *)
(* has anything left to flood, to send again or to read: whatever packets     *)
(* were lost, whichever timers fired early, in every order of elections,      *)
(* hellos, exchanges, requests and floods, and for every database they boot   *)
(* with.  Nothing is asked of the clocks or of which router may fail.         *)
THEOREM UndisturbedAgreed == Spec => []UndisturbedAgree
<1>1. Init => CalmInv
  BY InitInv, InitExchange, InitOrderly DEF CalmInv
<1>2. CalmInv /\ [Next]_vars => CalmInv'
  <2>1. SUFFICES ASSUME CalmInv, [Next]_vars PROVE CalmInv'
    OBVIOUS
  <2>2. IInv' /\ TypeOK
    BY <2>1, NextInv DEF CalmInv, IInv
  <2>3. ASSUME Calm' PROVE ExchangeInv' /\ Answers' /\ Orderly'
    <3>1. Calm /\ Unfailed'
      BY <2>1, <2>2, <2>3, CalmBefore DEF Calm
    <3>2. ExchangeInv /\ Answers /\ Orderly
      BY <2>1, <3>1 DEF CalmInv
    <3>3. ExchangeInv' /\ Answers'
      BY <2>1, <3>1, <3>2, NextUnfailed
    <3>4. QED BY <2>1, <2>3, <3>2, <3>3, NextOrderly
  <2>4. QED BY <2>2, <2>3 DEF CalmInv
<1>3. CalmInv => UndisturbedAgree
  <2>1. SUFFICES ASSUME CalmInv, Calm, Settled PROVE \A l \in Lsa : Found(ls[R1], l) = Found(ls[R2], l)
    BY DEF UndisturbedAgree, SettledAgree, Calm, Unfailed
  <2>2. ExchangeInv /\ Answers /\ Orderly
    BY <2>1 DEF CalmInv
  <2>3. QED BY <2>1, <2>2, SettledSame
<1> QED BY <1>1, <1>2, <1>3, PTL DEF Spec

=============================================================================
