------------------------- MODULE OspfElectionProofs -------------------------
(***************************************************************************)
(* Proofs about the election of the Designated Router, for any number of   *)
(* routers, any priorities and any dead interval.                          *)
(*                                                                         *)
(* The core is about drbdr.c alone: whatever the ballot, the two rounds do *)
(* not leave the router both Designated Router and Backup.  One round may: *)
(* when nobody claims to be Designated Router, the Backup is promoted.     *)
(* The second round is then held, because the router's own position has    *)
(* changed, and it ends well for one of two reasons: the router now counts *)
(* as a Designated Router and cannot be Backup, or it has given up its     *)
(* claim to be Backup in favour of a router that still claims it.          *)
(***************************************************************************)
EXTENDS OspfElection, FiniteSetTheorems, TLAPS

(***************************************************************************)
(* Numbers.                                                                *)
(***************************************************************************)
LEMMA LeastNumber ==
  ASSUME NEW S \in SUBSET Nat, S # {}
  PROVE  \E k \in S : \A j \in S : k <= j
<1> DEFINE R == {ss \in Nat \X Nat : ss[1] < ss[2]}
<1>1. IsWellFoundedOn(R, Nat)
  BY NatLessThanWellFounded DEF OpToRel
<1> HIDE DEF R
<1>2. PICK k \in S : \A j \in S : ~(<<j, k>> \in R)
  BY <1>1, WFMin
<1>3. ASSUME NEW j \in S PROVE k <= j
  <2>1. k \in Nat /\ j \in Nat /\ <<j, k>> \notin R
    BY <1>2
  <2>2. j < k => <<j, k>> \in R
    BY <2>1 DEF R
  <2> QED
    BY <2>1, <2>2
<1> QED
  BY <1>3

(***************************************************************************)
(* The ballot.                                                             *)
(***************************************************************************)
Vote == [prio : Nat, dr : Id, bdr : Id]

IsBallot(c) ==
    /\ DOMAIN c \in SUBSET Router
    /\ \A s \in DOMAIN c : c[s] \in Vote

\* s is ranked before o, or is o.
Before(c, s, o) ==
    \/ c[s].prio > c[o].prio
    \/ c[s].prio = c[o].prio /\ s >= o

\* A set of candidates has a best one.
LEMMA HasBest ==
  ASSUME NEW c, IsBallot(c), NEW S \in SUBSET (DOMAIN c), S # {}
  PROVE  \E s \in S : \A o \in S : Before(c, s, o)
<1> DEFINE D == DOMAIN c
           Good(X) == \E s \in X : \A o \in X : Before(c, s, o)
           bad == {k \in Nat : \E X \in SUBSET D : X # {} /\ Cardinality(X) = k /\ ~Good(X)}
<1>1. IsFiniteSet(Router) /\ Router \subseteq Nat
  BY ElectionAssumption
<1>2. \A X \in SUBSET D : IsFiniteSet(X) /\ Cardinality(X) \in Nat
  BY <1>1, FS_Subset, FS_CardinalityType DEF IsBallot
<1>3. \A s \in D : s \in Nat /\ c[s].prio \in Nat
  BY <1>1 DEF IsBallot, Vote
<1>4. ASSUME bad # {} PROVE FALSE
  <2>1. PICK k \in bad : \A j \in bad : k <= j
    BY <1>4, LeastNumber
  <2>2. PICK X \in SUBSET D : X # {} /\ Cardinality(X) = k /\ ~Good(X)
    OBVIOUS
  <2>3. PICK x \in X : TRUE
    BY <2>2
  <2> DEFINE Y == X \ {x}
  <2>4. Y \in SUBSET D /\ Cardinality(Y) = k - 1 /\ k - 1 \in Nat
    <3>1. Cardinality(Y) = k - 1
      BY <1>2, <2>2, FS_RemoveElement
    <3> QED
      BY <1>2, <3>1
  <2>5. k - 1 \notin bad
    BY <2>1, <2>4
  <2>6. Y = {} \/ Good(Y)
    BY <2>4, <2>5
  <2>7. CASE Y = {}
    <3>1. \A o \in X : o = x
      BY <2>7
    <3>2. Before(c, x, x)
      BY <1>3 DEF Before
    <3> QED
      BY <2>2, <3>1, <3>2
  <2>8. CASE Good(Y)
    <3>1. PICK s \in Y : \A o \in Y : Before(c, s, o)
      BY <2>8
    <3>2. CASE Before(c, s, x)
      BY <2>2, <3>1, <3>2
    <3>3. CASE ~Before(c, s, x)
      <4>1. x \in Nat /\ c[x].prio \in Nat /\ s \in Nat /\ c[s].prio \in Nat
        BY <1>3
      <4>2. ASSUME NEW o \in Y PROVE Before(c, x, o)
        <5>1. o \in Nat /\ c[o].prio \in Nat /\ Before(c, s, o)
          BY <1>3, <3>1
        <5> QED
          BY <3>3, <4>1, <5>1 DEF Before
      <4>3. Before(c, x, x)
        BY <4>1 DEF Before
      <4> QED
        BY <2>2, <4>2, <4>3
    <3> QED
      BY <3>2, <3>3
  <2> QED
    BY <2>6, <2>7, <2>8
<1>5. Cardinality(S) \in Nat /\ Cardinality(S) \notin bad
  BY <1>2, <1>4
<1> QED
  BY <1>5

\* The winner of a ballot without candidates is 0, of any other one of them.
LEMMA BestMember ==
  ASSUME NEW c, IsBallot(c), NEW S \in SUBSET (DOMAIN c)
  PROVE  /\ S = {} => Best(c, S) = 0
         /\ S # {} => Best(c, S) \in S
<1>1. CASE S = {}
  BY <1>1 DEF Best
<1>2. CASE S # {}
  <2>1. \E s \in S : \A o \in S : \/ c[s].prio > c[o].prio
                                  \/ c[s].prio = c[o].prio /\ s >= o
    BY <1>2, HasBest DEF Before
  <2>2. Best(c, S) = CHOOSE s \in S : \A o \in S :
            \/ c[s].prio > c[o].prio
            \/ c[s].prio = c[o].prio /\ s >= o
    BY <1>2 DEF Best
  <2>3. Best(c, S) \in S
    BY <2>1, <2>2
  <2> QED
    BY <1>2, <2>3
<1> QED
  BY <1>1, <1>2

\* What a round of steps 2 and 3 elects.
LEMMA RoundElects ==
  ASSUME NEW c, IsBallot(c), NEW in \in SUBSET (DOMAIN c)
  PROVE  LET v == step2and3(c, in)
             drs == {s \in DOMAIN c : c[s].dr = s}
         IN  /\ v.in = {s \in in : c[s].dr # s}
             /\ v.bdr # 0 => v.bdr \in v.in
             /\ (\E s \in v.in : c[s].bdr = s) => v.bdr # 0 /\ c[v.bdr].bdr = v.bdr
             /\ drs # {} => v.dr \in drs
             /\ drs = {} => v.dr = v.bdr
             /\ v.dr \in Id /\ v.bdr \in Id
<1> DEFINE left == {s \in in : c[s].dr # s}
           claim == {s \in left : c[s].bdr = s}
           pick == IF claim # {} THEN claim ELSE left
           bdr == Best(c, pick)
           drs == {s \in DOMAIN c : c[s].dr = s}
           v == step2and3(c, in)
<1>1. /\ v.dr = IF drs # {} THEN Best(c, drs) ELSE bdr
      /\ v.bdr = bdr /\ v.in = left
  BY DEF step2and3
<1>2. left \in SUBSET (DOMAIN c) /\ claim \in SUBSET left /\ pick \in SUBSET left
      /\ drs \in SUBSET (DOMAIN c)
  OBVIOUS
<1>3. 0 \notin Router /\ DOMAIN c \in SUBSET Router
  BY ElectionAssumption DEF IsBallot
<1>4. /\ pick = {} => bdr = 0
      /\ pick # {} => bdr \in pick
  <2>1. pick \in SUBSET (DOMAIN c)
    BY <1>2
  <2> HIDE DEF pick
  <2> QED
    BY <2>1, BestMember
<1>5. drs # {} => Best(c, drs) \in drs
  BY <1>2, BestMember
<1>6. bdr # 0 => bdr \in left
  BY <1>2, <1>4
<1>7. ASSUME NEW s \in left, c[s].bdr = s PROVE bdr # 0 /\ c[bdr].bdr = bdr
  <2>1. s \in claim
    BY <1>7
  <2>2. pick = claim /\ bdr \in claim
    BY <1>4, <2>1
  <2> QED
    BY <1>2, <1>3, <2>2
<1>8. v.dr \in Id /\ v.bdr \in Id
  BY <1>1, <1>2, <1>3, <1>5, <1>6 DEF Id
<1> QED
  BY <1>1, <1>5, <1>6, <1>7, <1>8

\* The priorities a router may have, and the 0 of one not heard of, are numbers.
LEMMA PriosAreNumbers ==
  /\ PrioValue \subseteq Nat /\ 0 \in PrioValue
  /\ \A r \in Router : Prio[r] \subseteq PrioValue
<1> DEFINE U == {Prio[r] : r \in Router}
<1>1. \A r \in Router : Prio[r] \subseteq Nat
  BY ElectionAssumption
<1>2. \A X \in U : X \subseteq Nat
  BY <1>1
<1>3. \A r \in Router : Prio[r] \in U
  OBVIOUS
<1>4. PrioValue = (UNION U) \cup {0}
  BY DEF PrioValue
<1> HIDE DEF U
<1>5. \A p : p \in PrioValue <=> p = 0 \/ \E X \in U : p \in X
  BY <1>4
<1>6. \A p \in PrioValue : p \in Nat
  BY <1>2, <1>5
<1>7. ASSUME NEW r \in Router PROVE Prio[r] \subseteq PrioValue
  <2>1. \A p \in Prio[r] : p \in PrioValue
    BY <1>3, <1>5
  <2> QED
    BY <2>1
<1>8. PrioValue \subseteq Nat /\ 0 \in PrioValue
  BY <1>5, <1>6
<1> QED
  BY <1>7, <1>8

\* drbdrElection starts from a ballot on which the router has its own claims.
LEMMA BallotTyped ==
  ASSUME NEW r \in Router, NEW n \in Net, NEW b \in [Router -> Nbr]
  PROVE  /\ IsBallot(Ballot(r, n, b))
         /\ r \in DOMAIN Ballot(r, n, b) =>
                Ballot(r, n, b)[r].dr = n.dr /\ Ballot(r, n, b)[r].bdr = n.bdr
<1> DEFINE c == Ballot(r, n, b)
<1>1. DOMAIN c = Candidates(r, n, b)
  BY DEF Ballot
<1>2. DOMAIN c \in SUBSET Router
  BY <1>1 DEF Candidates
<1>3. ASSUME NEW s \in DOMAIN c
      PROVE  c[s] = IF s = r THEN [prio |-> n.prio, dr |-> n.dr, bdr |-> n.bdr]
                    ELSE [prio |-> b[s].prio, dr |-> b[s].dr, bdr |-> b[s].bdr]
  BY <1>1 DEF Ballot
<1> HIDE DEF c
<1>4. n.prio \in Nat /\ n.dr \in Id /\ n.bdr \in Id
  BY PriosAreNumbers DEF Net
<1>5. \A s \in Router : b[s].prio \in Nat /\ b[s].dr \in Id /\ b[s].bdr \in Id
  BY PriosAreNumbers DEF Nbr
<1>6. \A s \in DOMAIN c : c[s] \in Vote
  BY <1>2, <1>3, <1>4, <1>5 DEF Vote
<1> QED
  BY <1>2, <1>3, <1>6 DEF IsBallot, c

\* The two rounds do not make the router Designated Router and Backup: when it
\* is elected Backup, another router is elected Designated Router.
LEMMA NotBoth ==
  ASSUME NEW r \in Router, NEW n \in Net, NEW b \in [Router -> Nbr]
  PROVE  LET v == Votes(r, n, b) IN
         /\ v.dr \in Id /\ v.bdr \in Id
         /\ v.bdr = r => v.dr # 0 /\ v.dr # r
<1> DEFINE c == Ballot(r, n, b)
           first == step2and3(c, DOMAIN c)
           drs == {s \in DOMAIN c : c[s].dr = s}
           again == r \in DOMAIN c /\ first.dr # 0 /\ first.bdr # 0 /\ Changes(r, n, first)
           c2 == [c EXCEPT ![r].dr = first.dr, ![r].bdr = first.bdr]
           second == step2and3(c2, first.in)
<1>0. r # 0 /\ 0 \notin Router
  BY ElectionAssumption
<1>1. /\ IsBallot(c)
      /\ r \in DOMAIN c => c[r].dr = n.dr /\ c[r].bdr = n.bdr
  BY BallotTyped
<1>2. Votes(r, n, b) = IF again THEN second ELSE first
  BY DEF Votes
<1> HIDE DEF c
<1>3. /\ first.in = {s \in DOMAIN c : c[s].dr # s}
      /\ first.bdr # 0 => first.bdr \in first.in
      /\ (\E s \in first.in : c[s].bdr = s) => first.bdr # 0 /\ c[first.bdr].bdr = first.bdr
      /\ drs # {} => first.dr \in drs
      /\ drs = {} => first.dr = first.bdr
      /\ first.dr \in Id /\ first.bdr \in Id
  BY <1>1, RoundElects
<1> HIDE DEF first
<1>4. DOMAIN c \in SUBSET Router
  BY <1>1 DEF IsBallot
<1>5. CASE ~again
  <2>1. ASSUME first.bdr = r PROVE first.dr # 0 /\ first.dr # r
    <3>1. r \in DOMAIN c /\ c[r].dr # r
      BY <1>0, <1>3, <2>1
    <3>2. CASE drs # {}
      BY <1>0, <1>3, <1>4, <3>1, <3>2
    <3>3. CASE drs = {}
      <4>1. first.dr = r /\ n.dr # r
        BY <1>1, <1>3, <2>1, <3>1, <3>3
      <4>2. Changes(r, n, first)
        BY <4>1 DEF Changes
      <4> QED
        BY <1>0, <1>5, <2>1, <3>1, <4>1, <4>2
    <3> QED
      BY <3>2, <3>3
  <2> QED
    BY <1>2, <1>3, <1>5, <2>1
<1>6. CASE again
  <2>0. r \in DOMAIN c /\ first.dr # 0 /\ first.bdr # 0 /\ Changes(r, n, first)
    BY <1>6
  <2>1. /\ DOMAIN c2 = DOMAIN c
        /\ \A s \in DOMAIN c : s # r => c2[s] = c[s]
        /\ c2[r] = [[c[r] EXCEPT !.dr = first.dr] EXCEPT !.bdr = first.bdr]
    BY <2>0
  <2>2. c2[r] \in Vote /\ c2[r].dr = first.dr /\ c2[r].bdr = first.bdr
    <3>1. c[r] \in Vote /\ first.dr \in Id /\ first.bdr \in Id
      BY <1>1, <1>3, <2>0 DEF IsBallot
    <3> HIDE DEF first, c2
    <3> QED
      BY <2>1, <3>1 DEF Vote
  <2> HIDE DEF c2
  <2>3. IsBallot(c2)
    BY <1>1, <2>1, <2>2 DEF IsBallot
  <2>4. first.in \in SUBSET (DOMAIN c2)
    BY <1>3, <2>1
  <2> DEFINE drs2 == {s \in DOMAIN c2 : c2[s].dr = s}
  <2>5. /\ second.in = {s \in first.in : c2[s].dr # s}
        /\ second.bdr # 0 => second.bdr \in second.in
        /\ (\E s \in second.in : c2[s].bdr = s) =>
              second.bdr # 0 /\ c2[second.bdr].bdr = second.bdr
        /\ drs2 # {} => second.dr \in drs2
        /\ second.dr \in Id /\ second.bdr \in Id
    BY <2>3, <2>4, RoundElects
  <2> HIDE DEF second
  <2>6. ASSUME second.bdr = r PROVE second.dr # 0 /\ second.dr # r
    <3>1. r \in first.in /\ c2[r].dr # r
      BY <1>0, <2>5, <2>6
    <3>2. c[r].dr # r /\ first.dr # r
      BY <1>3, <2>2, <3>1
    <3>3. CASE drs2 # {}
      BY <1>0, <1>4, <2>1, <2>5, <3>1, <3>3
    <3>4. CASE drs2 = {}
      <4>1. drs = {}
        BY <2>1, <3>2, <3>4
      <4>2. first.dr = first.bdr /\ first.bdr # r
        BY <1>3, <3>2, <4>1
      <4>3. n.dr # r /\ n.bdr = r
        BY <1>1, <2>0, <3>2, <4>2 DEF Changes
      <4>4. c[r].bdr = r
        BY <1>1, <2>0, <4>3
      <4>5. first.bdr \in first.in /\ c[first.bdr].bdr = first.bdr
        BY <1>3, <2>0, <3>1, <4>4
      <4>6. first.bdr \in second.in /\ c2[first.bdr].bdr = first.bdr
        BY <1>3, <2>1, <2>5, <4>2, <4>5
      <4>7. c2[second.bdr].bdr = second.bdr
        BY <2>5, <4>6
      <4> QED
        BY <2>2, <2>6, <4>2, <4>7
    <3> QED
      BY <3>3, <3>4
  <2> QED
    BY <1>2, <1>6, <2>5, <2>6
<1> QED
  BY <1>5, <1>6

\* The router is not both in its own structure.
Single(r, n) == n.dr = r => n.bdr # r

\* drbdrElection leaves a well formed network structure with a running state.
LEMMA ElectionKeeps ==
  ASSUME NEW r \in Router, NEW n \in Net, NEW b \in [Router -> Nbr]
  PROVE  drbdrElection(r, n, b) \in Net /\ Single(r, drbdrElection(r, n, b))
<1> DEFINE v == Votes(r, n, b)
           d == IF v.dr # 0 THEN v.dr ELSE n.dr
           m == [n EXCEPT !.dr = IF v.dr # 0 THEN v.dr ELSE @, !.bdr = v.bdr]
           e == drbdrElection(r, n, b)
<1>1. v.dr \in Id /\ v.bdr \in Id /\ (v.bdr = r => v.dr # 0 /\ v.dr # r)
  BY NotBoth
<1>2. e = [m EXCEPT !.state = NewState(r, m)]
  BY DEF drbdrElection
<1>3. NewState(r, m) \in NetState
  BY DEF NewState, NetState
<1> HIDE DEF v
<1>4. m = [[n EXCEPT !.dr = d] EXCEPT !.bdr = v.bdr]
  OBVIOUS
<1>5. d \in Id
  BY <1>1 DEF Net
<1> HIDE DEF d, e
<1>6. m \in Net /\ m.dr = d /\ m.bdr = v.bdr
  BY <1>1, <1>4, <1>5 DEF Net
<1> HIDE DEF m
<1>7. e \in Net /\ e.dr = d /\ e.bdr = v.bdr
  BY <1>2, <1>3, <1>6 DEF Net
<1>8. Single(r, e)
  BY <1>1, <1>7 DEF Single, d
<1> QED
  BY <1>7, <1>8 DEF e

\* The interface events that hold an election leave a router in one office at most.
LEMMA EventsKeep ==
  ASSUME NEW r \in Router, NEW n \in Net, NEW b \in [Router -> Nbr], Single(r, n)
  PROVE  /\ netfsmNeighborChange(r, n, b) \in Net /\ Single(r, netfsmNeighborChange(r, n, b))
         /\ netfsmBackupSeen(r, n, b) \in Net /\ Single(r, netfsmBackupSeen(r, n, b))
         /\ WaitTimer(r, n, b) \in Net /\ Single(r, WaitTimer(r, n, b))
<1> DEFINE e == drbdrElection(r, n, b)
<1>1. e \in Net /\ Single(r, e)
  BY ElectionKeeps
<1>2. Dead \in Nat \ {0}
  BY ElectionAssumption
<1>3. netfsmNeighborChange(r, n, b) \in {e, n} /\ netfsmBackupSeen(r, n, b) \in {e, n}
  BY DEF netfsmNeighborChange, netfsmBackupSeen
<1> HIDE DEF e
<1>4. [e EXCEPT !.wait = 0] \in Net /\ Single(r, [e EXCEPT !.wait = 0])
  BY <1>1, <1>2 DEF Net, Single
<1>5. n.wait > 1 => [n EXCEPT !.wait = @ - 1] \in Net /\ Single(r, [n EXCEPT !.wait = @ - 1])
  BY <1>2 DEF Net, Single
<1>6. WaitTimer(r, n, b) \in Net /\ Single(r, WaitTimer(r, n, b))
  BY <1>4, <1>5 DEF WaitTimer, e
<1> QED
  BY <1>1, <1>3, <1>6

(***************************************************************************)
(* The timers of the neighbours.                                           *)
(***************************************************************************)

\* A neighbour that is known has time left.
Ticking(b) == \A s \in Router : b[s].state # "Down" => b[s].timer > 0

\* The structures of r before the timers of its neighbours have run.
TimersStart(r) == [n |-> WaitTimer(r, net[r], nbr[r]), b |-> Ticked(nbr[r])]

\* g describes the first k timers.
IsRun(r, order, k, g) ==
    g = [i \in 0..k |-> IF i = 0 THEN TimersStart(r)
                        ELSE InactivityTimer(r, g[i - 1], order[i])]

\* The timers can be run one after the other to the end of the list.
LEMMA RunExists ==
  ASSUME NEW r, NEW order, NEW n \in Nat
  PROVE  \E g : IsRun(r, order, n, g)
<1> DEFINE bad == {k \in Nat : ~\E g : IsRun(r, order, k, g)}
<1>1. ASSUME bad # {} PROVE FALSE
  <2>1. PICK k \in bad : \A j \in bad : k <= j
    BY <1>1, LeastNumber
  <2>2. k \in Nat /\ ~\E g : IsRun(r, order, k, g)
    OBVIOUS
  <2> HIDE DEF bad
  <2>3. CASE k = 0
    <3> DEFINE g == [i \in 0..0 |-> TimersStart(r)]
    <3>1. IsRun(r, order, 0, g)
      BY DEF IsRun
    <3> QED
      BY <2>2, <2>3, <3>1
  <2>4. CASE k > 0
    <3>1. k - 1 \in Nat /\ k - 1 \notin bad
      BY <2>1, <2>2, <2>4
    <3>2. PICK h : IsRun(r, order, k - 1, h)
      BY <3>1 DEF bad
    <3> DEFINE g == [i \in 0..k |-> IF i = k THEN InactivityTimer(r, h[k - 1], order[k])
                                    ELSE h[i]]
    <3>3. ASSUME NEW i \in 0..k
          PROVE  g[i] = IF i = 0 THEN TimersStart(r)
                        ELSE InactivityTimer(r, g[i - 1], order[i])
      <4>1. \A j \in 0..(k - 1) : h[j] = IF j = 0 THEN TimersStart(r)
                                          ELSE InactivityTimer(r, h[j - 1], order[j])
        BY <3>2 DEF IsRun
      <4>2. \A j \in 0..(k - 1) : g[j] = h[j]
        BY <2>2
      <4>3. CASE i = k
        <5>1. g[k] = InactivityTimer(r, h[k - 1], order[k])
          BY <2>2
        <5>2. g[k - 1] = h[k - 1]
          BY <2>2, <2>4, <4>2
        <5> QED
          BY <2>4, <4>3, <5>1, <5>2
      <4>4. CASE i # k /\ i = 0
        <5>1. i \in 0..(k - 1)
          BY <2>2, <4>4
        <5> QED
          BY <4>1, <4>2, <4>4, <5>1
      <4>5. CASE i # k /\ i # 0
        <5>1. i \in 0..(k - 1) /\ i - 1 \in 0..(k - 1)
          BY <2>2, <4>5
        <5>2. g[i - 1] = h[i - 1] /\ g[i] = h[i]
          BY <4>2, <5>1
        <5> QED
          BY <4>1, <4>5, <5>1, <5>2
      <4> QED
        BY <4>3, <4>4, <4>5
    <3>4. g = [i \in 0..k |-> g[i]]
      OBVIOUS
    <3> HIDE DEF g
    <3>5. IsRun(r, order, k, g)
      BY <3>3, <3>4 DEF IsRun
    <3> QED
      BY <2>2, <3>5
  <2> QED
    BY <2>2, <2>3, <2>4
<1>2. n \notin bad
  BY <1>1
<1> QED
  BY <1>2

\* networkTimeout runs them all.
LEMMA TimersAreRun ==
  ASSUME NEW r, NEW order, Len(order) \in Nat
  PROVE  \E g : IsRun(r, order, Len(order), g) /\ TimersRun(r, order) = g[Len(order)]
<1> DEFINE g == CHOOSE y : y = [i \in 0..Len(order) |->
                    IF i = 0 THEN TimersStart(r) ELSE InactivityTimer(r, y[i - 1], order[i])]
<1>1. TimersRun(r, order) = g[Len(order)]
  BY DEF TimersRun, TimersStart
<1>2. \E y : y = [i \in 0..Len(order) |->
                    IF i = 0 THEN TimersStart(r) ELSE InactivityTimer(r, y[i - 1], order[i])]
  <2>1. PICK y : IsRun(r, order, Len(order), y)
    BY RunExists
  <2> QED
    BY <2>1 DEF IsRun
<1>3. IsRun(r, order, Len(order), g)
  BY <1>2 DEF IsRun
<1> QED
  BY <1>1, <1>3

\* What is left after some of them: their neighbours are forgotten, and the
\* network structure has been through an election or is as it was.
LEMMA RunKeeps ==
  ASSUME NEW r \in Router, NEW n \in Net, Single(r, n), NEW b \in [Router -> Nbr],
         TimersStart(r) = [n |-> n, b |-> b],
         NEW order \in Seq(Router), NEW g, IsRun(r, order, Len(order), g)
  PROVE  \A k \in 0..Len(order) :
            /\ g[k].n \in Net /\ Single(r, g[k].n)
            /\ g[k].b \in [Router -> Nbr]
            /\ \A s \in Router :
                  g[k].b[s] = IF \E j \in 1..k : order[j] = s THEN NoNbr ELSE b[s]
<1> DEFINE P(k) == /\ g[k].n \in Net /\ Single(r, g[k].n)
                   /\ g[k].b \in [Router -> Nbr]
                   /\ \A s \in Router :
                        g[k].b[s] = IF \E j \in 1..k : order[j] = s THEN NoNbr ELSE b[s]
           bad == {k \in Nat : k <= Len(order) /\ ~P(k)}
<1>0. Len(order) \in Nat /\ \A j \in 1..Len(order) : order[j] \in Router
  OBVIOUS
<1>1. \A i \in 0..Len(order) :
         g[i] = IF i = 0 THEN [n |-> n, b |-> b] ELSE InactivityTimer(r, g[i - 1], order[i])
  BY DEF IsRun
<1>2. ASSUME bad # {} PROVE FALSE
  <2>1. PICK k \in bad : \A j \in bad : k <= j
    BY <1>2, LeastNumber
  <2>2. k \in Nat /\ k <= Len(order) /\ ~P(k)
    OBVIOUS
  <2>3. CASE k = 0
    <3>1. g[0].n = n /\ g[0].b = b
      BY <1>0, <1>1
    <3>2. 1..0 = {}
      OBVIOUS
    <3>3. P(0)
      BY <3>1, <3>2
    <3> QED
      BY <2>2, <2>3, <3>3
  <2>4. CASE k > 0
    <3>1. k - 1 \in Nat /\ k - 1 \notin bad /\ k - 1 <= Len(order)
      BY <1>0, <2>1, <2>2, <2>4
    <3>2. P(k - 1)
      BY <3>1
    <3> DEFINE x == g[k - 1]
               s == order[k]
               nb == [x.b EXCEPT ![s] = NoNbr]
    <3>3. s \in Router /\ k \in 0..Len(order)
      BY <1>0, <2>2, <2>4
    <3>4. g[k] = InactivityTimer(r, x, s)
      BY <1>1, <2>4, <3>3
    <3>5. g[k].n = netfsmNeighborChange(r, x.n, nb) /\ g[k].b = nb
      BY <3>4 DEF InactivityTimer
    <3>6. NoNbr \in Nbr
      BY ElectionAssumption, PriosAreNumbers DEF NoNbr, Nbr, Id
    <3>7. nb \in [Router -> Nbr]
      BY <3>2, <3>6
    <3>8. g[k].n \in Net /\ Single(r, g[k].n)
      <4> HIDE DEF nb, x
      <4> QED
        BY <3>2, <3>5, <3>7, EventsKeep DEF x
    <3>9. ASSUME NEW t \in Router
          PROVE  g[k].b[t] = IF \E j \in 1..k : order[j] = t THEN NoNbr ELSE b[t]
      <4>1. g[k].b[t] = IF t = s THEN NoNbr ELSE x.b[t]
        BY <3>2, <3>3, <3>5
      <4>2. x.b[t] = IF \E j \in 1..(k - 1) : order[j] = t THEN NoNbr ELSE b[t]
        BY <3>2
      <4>3. (\E j \in 1..k : order[j] = t) <=> t = s \/ \E j \in 1..(k - 1) : order[j] = t
        BY <2>2, <2>4
      <4> QED
        BY <4>1, <4>2, <4>3
    <3>10. P(k)
      BY <3>5, <3>7, <3>8, <3>9
    <3> QED
      BY <2>2, <3>10
  <2> QED
    BY <2>2, <2>3, <2>4
<1>3. \A k \in 0..Len(order) : P(k)
  <2>1. \A k \in 0..Len(order) : k \in Nat /\ k <= Len(order) /\ k \notin bad
    BY <1>0, <1>2
  <2> HIDE DEF P
  <2> QED
    BY <2>1
<1> QED
  BY <1>3, Zenon

\* Every element of a set is in each of its orders.
LEMMA OrderCovers ==
  ASSUME NEW S, IsFiniteSet(S), NEW s \in SetToSeqs(S)
  PROVE  s \in Seq(S) /\ \A x \in S : \E i \in 1..Len(s) : s[i] = x
<1> DEFINE n == Cardinality(S)
<1>1. n \in Nat
  BY FS_CardinalityType
<1>2. s \in [1..n -> S] /\ \A i, j \in 1..n : i # j => s[i] # s[j]
  BY DEF SetToSeqs
<1>3. IsFiniteSet(1..n) /\ Cardinality(1..n) = n
  BY <1>1, FS_Interval
<1>4. s \in Injection(1..n, S)
  BY <1>2 DEF Injection, IsInjective
<1>5. s \in Surjection(1..n, S)
  BY <1>3, <1>4, FS_Injection
<1>6. \A x \in S : \E i \in 1..n : s[i] = x
  BY <1>5 DEF Surjection
<1>7. s \in Seq(S) /\ Len(s) = n
  BY <1>1, <1>2
<1> QED
  BY <1>6, <1>7

ElectInv ==
    /\ TypeOK
    /\ NeverBoth
    /\ \A r \in Router : Ticking(nbr[r])

\* The structures of a router, as a step finds them and has to leave them.
LEMMA OfRouter ==
  ASSUME ElectInv, NEW r \in Router
  PROVE  /\ net[r] \in Net /\ Single(r, net[r])
         /\ nbr[r] \in [Router -> Nbr] /\ Ticking(nbr[r])
         /\ \A s \in Router : nbr[r][s] \in Nbr
BY DEF ElectInv, TypeOK, NeverBoth, Single

\* A step that changes the structures of one router only, and keeps them good.
LEMMA ToRouter ==
  ASSUME ElectInv, NEW r \in Router, NEW n \in Net, Single(r, n),
         NEW b \in [Router -> Nbr], Ticking(b),
         net' = [net EXCEPT ![r] = n], nbr' = [nbr EXCEPT ![r] = b]
  PROVE  /\ net' \in [Router -> Net] /\ nbr' \in [Router -> [Router -> Nbr]]
         /\ NeverBoth' /\ \A s \in Router : Ticking(nbr[s])'
<1>1. net' \in [Router -> Net] /\ nbr' \in [Router -> [Router -> Nbr]]
  BY DEF ElectInv, TypeOK
<1>2. \A s \in Router : net'[s] = IF s = r THEN n ELSE net[s]
  BY DEF ElectInv, TypeOK
<1>3. \A s \in Router : nbr'[s] = IF s = r THEN b ELSE nbr[s]
  BY DEF ElectInv, TypeOK
<1>4. NeverBoth'
  BY <1>2 DEF ElectInv, NeverBoth, Single
<1>5. ASSUME NEW s \in Router PROVE Ticking(nbr[s])'
  <2>1. Ticking(nbr'[s])
    BY <1>3 DEF ElectInv
  <2> QED
    BY <2>1 DEF Ticking
<1> QED
  BY <1>1, <1>4, <1>5

\* The neighbours one interval later, before the silent ones are removed.
LEMMA TickedTyped ==
  ASSUME NEW b \in [Router -> Nbr], Ticking(b)
  PROVE  /\ Ticked(b) \in [Router -> Nbr]
         /\ \A s \in Router :
              s \notin Silent(b) /\ Ticked(b)[s].state # "Down" => Ticked(b)[s].timer > 0
<1>1. Dead \in Nat
  BY ElectionAssumption
<1>2. ASSUME NEW s \in Router
      PROVE  /\ Ticked(b)[s] \in Nbr
             /\ s \notin Silent(b) /\ Ticked(b)[s].state # "Down" => Ticked(b)[s].timer > 0
  <2>1. b[s] \in Nbr /\ b[s].timer \in 0..Dead
    BY DEF Nbr
  <2>2. CASE b[s].state = "Down"
    BY <2>1, <2>2 DEF Ticked
  <2>3. CASE b[s].state # "Down"
    <3>1. Ticked(b)[s] = [b[s] EXCEPT !.timer = @ - 1]
      BY <2>3 DEF Ticked
    <3>2. b[s].timer > 0
      BY <2>3 DEF Ticking
    <3>3. Ticked(b)[s] \in Nbr /\ Ticked(b)[s].timer = b[s].timer - 1
      BY <1>1, <2>1, <3>1, <3>2 DEF Nbr
    <3>4. s \notin Silent(b) => b[s].timer > 1
      BY <1>1, <2>1, <2>3 DEF Silent
    <3> QED
      BY <1>1, <2>1, <3>3, <3>4
  <2> QED
    BY <2>2, <2>3
<1>3. Ticked(b) = [s \in Router |-> Ticked(b)[s]]
  BY DEF Ticked
<1> QED
  BY <1>2, <1>3

\* networkTimeout: the structures of r afterwards.
LEMMA TimersKeep ==
  ASSUME ElectInv, NEW r \in Router, NEW order \in SetToSeqs(Silent(nbr[r]))
  PROVE  LET x == TimersRun(r, order) IN
         /\ x.n \in Net /\ Single(r, x.n)
         /\ x.b \in [Router -> Nbr] /\ Ticking(x.b)
<1> DEFINE n == WaitTimer(r, net[r], nbr[r])
           b == Ticked(nbr[r])
           x == TimersRun(r, order)
           k == Len(order)
<1>1. n \in Net /\ Single(r, n)
  BY OfRouter, EventsKeep
<1>2. /\ b \in [Router -> Nbr]
      /\ \A s \in Router : s \notin Silent(nbr[r]) /\ b[s].state # "Down" => b[s].timer > 0
  BY OfRouter, TickedTyped
<1>3. IsFiniteSet(Silent(nbr[r])) /\ Silent(nbr[r]) \in SUBSET Router
  BY ElectionAssumption, FS_Subset DEF Silent
<1>4. /\ order \in Seq(Silent(nbr[r]))
      /\ \A s \in Silent(nbr[r]) : \E i \in 1..k : order[i] = s
  BY <1>3, OrderCovers
<1>5. order \in Seq(Router) /\ k \in Nat
  BY <1>3, <1>4
<1>6. PICK g : IsRun(r, order, k, g) /\ x = g[k]
  BY <1>5, TimersAreRun
<1>7. TimersStart(r) = [n |-> n, b |-> b]
  BY DEF TimersStart
<1> HIDE DEF n, b, x, k
<1>8. \A i \in 0..k :
            /\ g[i].n \in Net /\ Single(r, g[i].n)
            /\ g[i].b \in [Router -> Nbr]
            /\ \A s \in Router :
                  g[i].b[s] = IF \E j \in 1..i : order[j] = s THEN NoNbr ELSE b[s]
  BY <1>1, <1>2, <1>5, <1>6, <1>7, RunKeeps DEF k
<1>9. /\ x.n \in Net /\ Single(r, x.n)
      /\ x.b \in [Router -> Nbr]
      /\ \A s \in Router : x.b[s] = IF \E j \in 1..k : order[j] = s THEN NoNbr ELSE b[s]
  <2>1. k \in 0..k
    BY <1>5
  <2> QED
    BY <1>6, <1>8, <2>1
<1>10. Ticking(x.b)
  BY <1>2, <1>4, <1>9 DEF Ticking, NoNbr
<1> QED
  BY <1>9, <1>10 DEF x

\* helloRx: the structures of r afterwards.
LEMMA HelloKeeps ==
  ASSUME ElectInv, NEW r \in Router, NEW s \in Router, NEW p \in Hello
  PROVE  LET x == HelloRead(r, s, p) IN
         /\ x.n \in Net /\ Single(r, x.n)
         /\ x.b \in [Router -> Nbr] /\ Ticking(x.b)
<1> DEFINE b == [nbr[r] EXCEPT ![s] = Heard(r, p)]
           x == HelloRead(r, s, p)
<1>1. /\ net[r] \in Net /\ Single(r, net[r])
      /\ nbr[r] \in [Router -> Nbr] /\ Ticking(nbr[r])
  BY OfRouter
<1>2. Dead \in Nat \ {0}
  BY ElectionAssumption
<1>3. Heard(r, p) \in Nbr /\ Heard(r, p).timer = Dead
  BY <1>2 DEF Heard, Hello, Nbr
<1>4. b \in [Router -> Nbr] /\ Ticking(b)
  BY <1>1, <1>2, <1>3 DEF Ticking
<1>5. x.b = b /\ x.n \in {net[r], netfsmBackupSeen(r, net[r], b), netfsmNeighborChange(r, net[r], b)}
  BY DEF HelloRead
<1> HIDE DEF b, x
<1>6. x.n \in Net /\ Single(r, x.n)
  BY <1>1, <1>4, <1>5, EventsKeep
<1> QED
  BY <1>4, <1>5, <1>6 DEF x

\* At the start no router holds an office and no inactivity timer runs.
LEMMA ElectInvInit == Init => ElectInv
<1> SUFFICES ASSUME Init PROVE ElectInv
  OBVIOUS
<1>1. /\ Dead \in Nat \ {0} /\ MaxDown \in Nat /\ MaxCmd \in Nat /\ MaxLoss \in Nat
      /\ 0 \notin Router
  BY ElectionAssumption
<1>2. NoNbr \in Nbr
  BY <1>1, PriosAreNumbers DEF NoNbr, Nbr, Id
<1>3. \A p \in PrioValue : DownNet(p) \in Net /\ DownNet(p).dr = 0
  BY <1>1 DEF DownNet, Net, NetState, Id
<1>4. TypeOK
  BY <1>1, <1>2, <1>3 DEF Init, TypeOK
<1>5. NeverBoth
  <2> SUFFICES ASSUME NEW r \in Router PROVE net[r].dr # r
    BY DEF NeverBoth
  <2>1. \E p \in PrioValue : net[r] = DownNet(p)
    BY DEF Init
  <2> QED
    BY <1>1, <1>3, <2>1
<1>6. \A r \in Router : Ticking(nbr[r])
  BY DEF Init, Ticking, NoNbr
<1> QED
  BY <1>4, <1>5, <1>6 DEF ElectInv

\* Every step keeps the invariant of the election.
LEMMA ElectInvStep == ElectInv /\ [Next]_vars => ElectInv'
<1> SUFFICES ASSUME ElectInv, [Next]_vars PROVE ElectInv'
  OBVIOUS
<1> USE DEF env
<1>0. TypeOK
  BY DEF ElectInv
<1>a. /\ Dead \in Nat \ {0} /\ MaxDown \in Nat /\ MaxCmd \in Nat /\ MaxLoss \in Nat
      /\ 0 \notin Router
  BY ElectionAssumption
<1>1. ASSUME NEW r \in Router, InterfaceUp(r) PROVE ElectInv'
  <2> DEFINE n == [[net[r] EXCEPT !.state = "Waiting"] EXCEPT !.wait = Dead]
  <2>1. net' = [net EXCEPT ![r] = n]
    BY <1>0, <1>1 DEF InterfaceUp, TypeOK
  <2>2. n \in Net /\ Single(r, n)
    <3>1. net[r] \in Net /\ Single(r, net[r])
      BY OfRouter
    <3>2. n \in Net
      <4> DEFINE m == [net[r] EXCEPT !.state = "Waiting"]
      <4>1. m \in Net
        BY <3>1 DEF Net, NetState
      <4>2. Dead \in 0..Dead /\ n = [m EXCEPT !.wait = Dead]
        BY <1>a
      <4> HIDE DEF m, n
      <4> QED
        BY <4>1, <4>2 DEF Net
    <3>3. n.dr = net[r].dr /\ n.bdr = net[r].bdr
      BY <3>1 DEF Net
    <3> QED
      BY <3>1, <3>2, <3>3 DEF Single
  <2>3. nbr' = [nbr EXCEPT ![r] = nbr[r]]
    BY <1>0, <1>1 DEF InterfaceUp, TypeOK
  <2> HIDE DEF n
  <2>4. /\ net' \in [Router -> Net] /\ nbr' \in [Router -> [Router -> Nbr]]
        /\ NeverBoth' /\ \A s \in Router : Ticking(nbr[s])'
    BY <2>1, <2>2, <2>3, OfRouter, ToRouter
  <2>5. TypeOK'
    BY <1>0, <1>1, <2>4 DEF InterfaceUp, TypeOK
  <2> QED
    BY <2>4, <2>5 DEF ElectInv
<1>2. ASSUME NEW r \in Router, InterfaceDown(r) PROVE ElectInv'
  <2> DEFINE n == DownNet(net[r].prio)
             b == [s \in Router |-> NoNbr]
  <2>1. net' = [net EXCEPT ![r] = n] /\ nbr' = [nbr EXCEPT ![r] = b]
    BY <1>0, <1>2 DEF InterfaceDown, TypeOK
  <2>2. n \in Net /\ Single(r, n)
    BY <1>a, OfRouter DEF DownNet, Net, NetState, Id, Single
  <2>3. b \in [Router -> Nbr] /\ Ticking(b)
    BY <1>a, PriosAreNumbers DEF NoNbr, Nbr, Id, Ticking
  <2> HIDE DEF n, b
  <2>4. /\ net' \in [Router -> Net] /\ nbr' \in [Router -> [Router -> Nbr]]
        /\ NeverBoth' /\ \A s \in Router : Ticking(nbr[s])'
    BY <2>1, <2>2, <2>3, ToRouter
  <2>5. wire' \in [Router -> [Router -> Hello \cup {NoHello}]]
    BY <1>0, <1>2 DEF InterfaceDown, TypeOK
  <2>6. TypeOK'
    BY <1>0, <1>2, <1>a, <2>4, <2>5 DEF InterfaceDown, TypeOK
  <2> QED
    BY <2>4, <2>6 DEF ElectInv
<1>3. ASSUME NEW r \in Router, networkTimeout(r) PROVE ElectInv'
  <2>0. PICK y \in {TimersRun(r, order) : order \in SetToSeqs(Silent(nbr[r]))} :
            /\ net' = [net EXCEPT ![r] = y.n]
            /\ nbr' = [nbr EXCEPT ![r] = y.b]
            /\ wire' = [wire EXCEPT ![r] =
                [s \in Router |-> IF s \in Live \ {r} THEN helloBuildPkt(y.n, y.b)
                                  ELSE NoHello]]
    BY <1>3 DEF networkTimeout
  <2>1. PICK order \in SetToSeqs(Silent(nbr[r])) : y = TimersRun(r, order)
    OBVIOUS
  <2> DEFINE x == TimersRun(r, order)
  <2>2. /\ x.n \in Net /\ Single(r, x.n)
        /\ x.b \in [Router -> Nbr] /\ Ticking(x.b)
    BY TimersKeep
  <2>3. /\ net' = [net EXCEPT ![r] = x.n] /\ nbr' = [nbr EXCEPT ![r] = x.b]
        /\ wire' = [wire EXCEPT ![r] =
                [s \in Router |-> IF s \in Live \ {r} THEN helloBuildPkt(x.n, x.b)
                                  ELSE NoHello]]
    BY <2>0, <2>1
  <2> HIDE DEF x
  <2>4. /\ net' \in [Router -> Net] /\ nbr' \in [Router -> [Router -> Nbr]]
        /\ NeverBoth' /\ \A s \in Router : Ticking(nbr[s])'
    BY <2>2, <2>3, ToRouter
  <2>5. helloBuildPkt(x.n, x.b) \in Hello
    BY <2>2 DEF helloBuildPkt, Hello, Net
  <2>6. wire' \in [Router -> [Router -> Hello \cup {NoHello}]]
    BY <1>0, <2>3, <2>5 DEF TypeOK
  <2>7. TypeOK'
    BY <1>0, <1>3, <2>4, <2>6 DEF networkTimeout, TypeOK
  <2> QED
    BY <2>4, <2>7 DEF ElectInv
<1>4. ASSUME NEW r \in Router, NEW p \in Prio[r], SetPriority(r, p) PROVE ElectInv'
  <2> DEFINE n == [net[r] EXCEPT !.prio = p]
  <2>1. net' = [net EXCEPT ![r] = n] /\ nbr' = [nbr EXCEPT ![r] = nbr[r]]
    BY <1>0, <1>4 DEF SetPriority, TypeOK
  <2>2. p \in PrioValue
    BY PriosAreNumbers
  <2>3. n \in Net /\ Single(r, n)
    BY <2>2, OfRouter DEF Net, Single
  <2> HIDE DEF n
  <2>4. /\ net' \in [Router -> Net] /\ nbr' \in [Router -> [Router -> Nbr]]
        /\ NeverBoth' /\ \A s \in Router : Ticking(nbr[s])'
    BY <2>1, <2>3, OfRouter, ToRouter
  <2>5. TypeOK'
    BY <1>0, <1>4, <1>a, <2>4 DEF SetPriority, TypeOK
  <2> QED
    BY <2>4, <2>5 DEF ElectInv
<1>5. ASSUME NEW r \in Router, NEW s \in Router, helloRx(r, s) PROVE ElectInv'
  <2> DEFINE x == HelloRead(r, s, wire[s][r])
  <2>1. /\ net' = [net EXCEPT ![r] = x.n] /\ nbr' = [nbr EXCEPT ![r] = x.b]
        /\ wire' = [wire EXCEPT ![s][r] = NoHello]
    BY <1>5 DEF helloRx
  <2>2. wire[s][r] \in Hello
    BY <1>0, <1>5 DEF helloRx, TypeOK
  <2>3. /\ x.n \in Net /\ Single(r, x.n)
        /\ x.b \in [Router -> Nbr] /\ Ticking(x.b)
    BY <2>2, HelloKeeps
  <2> HIDE DEF x
  <2>4. /\ net' \in [Router -> Net] /\ nbr' \in [Router -> [Router -> Nbr]]
        /\ NeverBoth' /\ \A t \in Router : Ticking(nbr[t])'
    BY <2>1, <2>3, ToRouter
  <2>5. wire' \in [Router -> [Router -> Hello \cup {NoHello}]]
    BY <1>0, <2>1 DEF TypeOK
  <2>6. TypeOK'
    BY <1>0, <1>5, <2>4, <2>5 DEF helloRx, TypeOK
  <2> QED
    BY <2>4, <2>6 DEF ElectInv
<1>6. ASSUME NEW r \in Router, NEW s \in Router, HelloLost(r, s) PROVE ElectInv'
  <2>1. wire' \in [Router -> [Router -> Hello \cup {NoHello}]]
    BY <1>0, <1>6 DEF HelloLost, TypeOK
  <2>2. TypeOK'
    BY <1>0, <1>6, <1>a, <2>1 DEF HelloLost, TypeOK
  <2>3. UNCHANGED <<net, nbr>>
    BY <1>6 DEF HelloLost
  <2> QED
    BY <2>2, <2>3 DEF ElectInv, NeverBoth, Ticking
<1>7. CASE Interval \/ UNCHANGED vars
  <2>1. UNCHANGED <<net, nbr, wire, downs, cmds, lost>> /\ (done' = {} \/ done' = done)
    BY <1>7 DEF Interval, vars
  <2>2. TypeOK'
    BY <1>0, <2>1 DEF TypeOK
  <2> QED
    BY <2>1, <2>2 DEF ElectInv, NeverBoth, Ticking
<1> QED
  BY <1>1, <1>2, <1>3, <1>4, <1>5, <1>6, <1>7 DEF Next

\* The invariant of the election holds in every state.
LEMMA ElectInvAlways == Spec => []ElectInv
BY ElectInvInit, ElectInvStep, PTL DEF Spec

-----------------------------------------------------------------------------
(***************************************************************************)
(* The structures of the routers keep their types; in particular an        *)
(* inactivity timer never counts below zero, because the timer that runs   *)
(* out removes its neighbour in the same networkTimeout.                   *)
(***************************************************************************)
THEOREM ElectionTyped == Spec => []TypeOK
<1>1. ElectInv => TypeOK
  BY DEF ElectInv
<1> QED
  BY <1>1, ElectInvAlways, PTL

(***************************************************************************)
(* "no router will declare itself both Backup Designated Router and        *)
(* Designated Router" (drbdr.c, step 4), for any number of routers and in  *)
(* every state, settled or not: hellos lost, interfaces that come and go,  *)
(* priorities that change.                                                 *)
(***************************************************************************)
THEOREM ElectionNeverBoth == Spec => []NeverBoth
<1>1. ElectInv => NeverBoth
  BY DEF ElectInv
<1> QED
  BY <1>1, ElectInvAlways, PTL
=============================================================================
