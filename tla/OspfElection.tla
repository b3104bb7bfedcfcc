---------------------------- MODULE OspfElection ----------------------------
(***************************************************************************)
(* The election of the Designated Router and of its Backup on a broadcast  *)
(* network: hello packets (hello.c), the interface state machine and its   *)
(* timers (network_fsm.c), and the ballot (drbdr.c).                       *)
(*                                                                         *)
(* Time passes in hello intervals.  In an interval every router runs its   *)
(* timers once and sends a hello, in any order; a hello arrives before the *)
(* interval ends or is lost.  Router ids and interface addresses are the   *)
(* same numbers, 0 stands for 0.0.0.0.  Adjacencies and LSAs, which follow *)
(* from the result, are in OspfAdjacency.                                  *)
(***************************************************************************)
EXTENDS Integers, FiniteSets, Sequences, SequencesExt

CONSTANTS
    Router,         \* router ids
    Prio,           \* Prio[r]: values `ip ospf priority` may give r
    Dead,           \* dead interval, in hello intervals
    MaxDown,        \* bound on interfaces going down
    MaxCmd,         \* bound on priority commands
    MaxLoss         \* bound on lost hellos

ASSUME ElectionAssumption ==
    /\ Router \subseteq Nat \ {0} /\ IsFiniteSet(Router)
    /\ Prio \in [Router -> SUBSET Nat] /\ \A r \in Router : Prio[r] # {}
    /\ Dead \in Nat \ {0} /\ {MaxDown, MaxCmd, MaxLoss} \subseteq Nat

VARIABLES
    net,            \* net[r]: the OspfNetwork structure of r
    nbr,            \* nbr[r][s]: the OspfNeighbor structure of s at r
    wire,           \* wire[s][r]: the hello of s on its way to r
    done,           \* routers whose timers ran in this interval
    downs,          \* interfaces gone down,
    cmds,           \* priority commands and
    lost            \* hellos lost so far

env == <<downs, cmds, lost>>
vars == <<net, nbr, wire, done, env>>

Id == Router \cup {0}
NetState == {"Down", "Waiting", "DR", "Backup", "DROther"}
PrioValue == (UNION {Prio[r] : r \in Router}) \cup {0}

Net == [state : NetState, dr : Id, bdr : Id, prio : PrioValue, wait : 0..Dead]
Nbr == [state : {"Down", "Init", "2Way"}, prio : PrioValue, dr : Id, bdr : Id,
        timer : 0..Dead]
Hello == [prio : PrioValue, dr : Id, bdr : Id, seen : SUBSET Router]
NoHello == [prio |-> 0, dr |-> 0, bdr |-> 0, seen |-> {0}]
NoNbr == [state |-> "Down", prio |-> 0, dr |-> 0, bdr |-> 0, timer |-> 0]

Live == {r \in Router : net[r].state # "Down"}

-----------------------------------------------------------------------------
(***************************************************************************)
(* drbdr.c.  A ballot has the routers with a dr_election_sum, what they    *)
(* declare, and "in", the ones whose bdr_election_sum is not zero.  The    *)
(* sum orders routers by priority, then by router id.                      *)
(***************************************************************************)
Best(c, S) ==
    IF S = {} THEN 0
    ELSE CHOOSE s \in S : \A o \in S :
            \/ c[s].prio > c[o].prio
            \/ c[s].prio = c[o].prio /\ s >= o

step2and3(c, in) ==
    LET left == {s \in in : c[s].dr # s}
        claim == {s \in left : c[s].bdr = s}
        bdr == Best(c, IF claim # {} THEN claim ELSE left)
        drs == {s \in DOMAIN c : c[s].dr = s}
    IN  [dr |-> IF drs # {} THEN Best(c, drs) ELSE bdr, bdr |-> bdr, in |-> left]

\* The list: 2-Way neighbours and the router itself, with a priority.
Candidates(r, n, b) ==
    {s \in Router \ {r} : b[s].state = "2Way" /\ b[s].prio > 0}
        \cup {s \in {r} : n.prio > 0}

Ballot(r, n, b) ==
    [s \in Candidates(r, n, b) |->
        IF s = r THEN [prio |-> n.prio, dr |-> n.dr, bdr |-> n.bdr]
        ELSE [prio |-> b[s].prio, dr |-> b[s].dr, bdr |-> b[s].bdr]]

\* The router is newly, or no longer, Designated Router or Backup.
Changes(r, n, v) == (v.dr = r) # (n.dr = r) \/ (v.bdr = r) # (n.bdr = r)

\* Mutant: steps 2 and 3 are not repeated.
VotesOnce(r, n, b) ==
    LET c == Ballot(r, n, b) IN step2and3(c, DOMAIN c)

Votes(r, n, b) ==
    LET c == Ballot(r, n, b)
        first == step2and3(c, DOMAIN c)
    IN  IF r \in DOMAIN c /\ first.dr # 0 /\ first.bdr # 0 /\ Changes(r, n, first)
        THEN step2and3([c EXCEPT ![r].dr = first.dr, ![r].bdr = first.bdr],
                       first.in)
        ELSE first

NewState(r, n) ==
    IF n.dr = r THEN "DR" ELSE IF n.bdr = r THEN "Backup" ELSE "DROther"

\* drbdrElection, and the interface state its callers set
drbdrElection(r, n, b) ==
    LET v == Votes(r, n, b)
        m == [n EXCEPT !.dr = IF v.dr # 0 THEN v.dr ELSE @, !.bdr = v.bdr]
    IN  [m EXCEPT !.state = NewState(r, m)]

netfsmNeighborChange(r, n, b) ==
    IF n.state \in {"DR", "Backup", "DROther"} THEN drbdrElection(r, n, b) ELSE n

netfsmBackupSeen(r, n, b) ==
    IF n.state = "Waiting" THEN drbdrElection(r, n, b) ELSE n

-----------------------------------------------------------------------------
DownNet(p) == [state |-> "Down", dr |-> 0, bdr |-> 0, prio |-> p, wait |-> 0]

Init ==
    /\ net \in [Router -> {DownNet(p) : p \in PrioValue}]
    /\ \A r \in Router : net[r].prio \in Prio[r]
    /\ nbr = [r \in Router |-> [s \in Router |-> NoNbr]]
    /\ wire = [r \in Router |-> [s \in Router |-> NoHello]]
    /\ done = {}
    /\ downs = 0 /\ cmds = 0 /\ lost = 0

InterfaceUp(r) ==
    /\ net[r].state = "Down"
    /\ net' = [net EXCEPT ![r].state = "Waiting", ![r].wait = Dead]
    /\ UNCHANGED <<nbr, wire, done, env>>

\* The process dies, or netfsmInterfaceDown: nobody is told.
InterfaceDown(r) ==
    /\ r \in Live
    /\ downs < MaxDown /\ downs' = downs + 1
    /\ net' = [net EXCEPT ![r] = DownNet(@.prio)]
    /\ nbr' = [nbr EXCEPT ![r] = [s \in Router |-> NoNbr]]
    /\ wire' = [s \in Router |-> [wire[s] EXCEPT ![r] = NoHello]]
    /\ UNCHANGED <<done, cmds, lost>>

\* `ip ospf priority`: the next hello tells it, no election is held.
SetPriority(r, p) ==
    /\ cmds < MaxCmd /\ cmds' = cmds + 1
    /\ p # net[r].prio
    /\ net' = [net EXCEPT ![r].prio = p]
    /\ UNCHANGED <<nbr, wire, done, downs, lost>>

(***************************************************************************)
(* networkTimeout, once in a hello interval: the wait timer, the timers of *)
(* the neighbours in the order of their list, and the hello.               *)
(***************************************************************************)
WaitTimer(r, n, b) ==
    IF n.state # "Waiting" THEN n
    ELSE IF n.wait > 1 THEN [n EXCEPT !.wait = @ - 1]
    ELSE [drbdrElection(r, n, b) EXCEPT !.wait = 0]

\* Mutant: no election is held.
InactivityTimerOnly(r, x, s) == [n |-> x.n, b |-> [x.b EXCEPT ![s] = NoNbr]]

\* nfsmInactivityTimer: the neighbour is removed and an election held.
InactivityTimer(r, x, s) ==
    LET b == [x.b EXCEPT ![s] = NoNbr]
    IN  [n |-> netfsmNeighborChange(r, x.n, b), b |-> b]

Silent(b) == {s \in Router : b[s].state # "Down" /\ b[s].timer <= 1}
Ticked(b) == [s \in Router |-> IF b[s].state = "Down" THEN b[s]
                               ELSE [b[s] EXCEPT !.timer = @ - 1]]

helloBuildPkt(n, b) ==
    [prio |-> n.prio, dr |-> n.dr, bdr |-> n.bdr,
     seen |-> {s \in Router : b[s].state # "Down"}]

\* What the timers leave of r's structures, for an order of the list.
TimersRun(r, order) ==
    LET x[i \in 0..Len(order)] ==
            IF i = 0
            THEN [n |-> WaitTimer(r, net[r], nbr[r]), b |-> Ticked(nbr[r])]
            ELSE InactivityTimer(r, x[i - 1], order[i])
    IN  x[Len(order)]

networkTimeout(r) ==
    /\ r \in Live \ done
    /\ \E x \in {TimersRun(r, order) : order \in SetToSeqs(Silent(nbr[r]))} :
        /\ net' = [net EXCEPT ![r] = x.n]
        /\ nbr' = [nbr EXCEPT ![r] = x.b]
        /\ wire' = [wire EXCEPT ![r] =
                [s \in Router |-> IF s \in Live \ {r} THEN helloBuildPkt(x.n, x.b)
                                  ELSE NoHello]]
    /\ done' = done \cup {r}
    /\ UNCHANGED env

(***************************************************************************)
(* helloRx: what the neighbour declares is stored; a hello that does not   *)
(* list this router ends here, unless the neighbour was (Backup)           *)
(* Designated Router; the last event scheduled wins.                       *)
(***************************************************************************)
\* Mutant: only new claims count, not those given up.
EventClaims(n, s, old, p) ==
    CASE n.state = "Waiting" /\ p.bdr = s                -> "BackupSeen"
      [] p.bdr = s /\ old.bdr # s                        -> "NeighborChange"
      [] n.state = "Waiting" /\ p.bdr = 0 /\ p.dr = s    -> "BackupSeen"
      [] (p.dr = s /\ old.dr # s) \/ p.prio # old.prio   -> "NeighborChange"
      [] OTHER                                           -> "none"

Event(n, s, old, p) ==
    CASE n.state = "Waiting" /\ p.bdr = s                -> "BackupSeen"
      [] (p.bdr = s) # (old.bdr = s)                     -> "NeighborChange"
      [] n.state = "Waiting" /\ p.bdr = 0 /\ p.dr = s    -> "BackupSeen"
      [] (p.dr = s) # (old.dr = s) \/ p.prio # old.prio  -> "NeighborChange"
      [] OTHER                                           -> "none"

\* Mutant: the inactivity timer is started one interval too long.
HeardLong(r, p) ==
    [state |-> IF r \in p.seen THEN "2Way" ELSE "Init",
     prio |-> p.prio, dr |-> p.dr, bdr |-> p.bdr, timer |-> Dead + 1]

Heard(r, p) ==
    [state |-> IF r \in p.seen THEN "2Way" ELSE "Init",
     prio |-> p.prio, dr |-> p.dr, bdr |-> p.bdr, timer |-> Dead]

\* r's structures after the hello p of s
HelloRead(r, s, p) ==
    LET old == nbr[r][s]
        b == [nbr[r] EXCEPT ![s] = Heard(r, p)]
        stop == r \notin p.seen /\ old.dr # s /\ old.bdr # s
        e == IF stop THEN "none" ELSE Event(net[r], s, old, p)
    IN  [n |-> CASE e = "BackupSeen"     -> netfsmBackupSeen(r, net[r], b)
                 [] e = "NeighborChange" -> netfsmNeighborChange(r, net[r], b)
                 [] OTHER                -> net[r],
         b |-> b]

helloRx(r, s) ==
    /\ wire[s][r] # NoHello
    /\ \E x \in {HelloRead(r, s, wire[s][r])} :
        /\ net' = [net EXCEPT ![r] = x.n]
        /\ nbr' = [nbr EXCEPT ![r] = x.b]
    /\ wire' = [wire EXCEPT ![s][r] = NoHello]
    /\ UNCHANGED <<done, env>>

HelloLost(r, s) ==
    /\ lost < MaxLoss
    /\ wire[s][r] # NoHello
    /\ wire' = [wire EXCEPT ![s][r] = NoHello]
    /\ lost' = lost + 1
    /\ UNCHANGED <<net, nbr, done, downs, cmds>>

Interval ==
    /\ Live # {} /\ Live \subseteq done
    /\ \A r, s \in Router : wire[s][r] = NoHello
    /\ done' = {}
    /\ UNCHANGED <<net, nbr, wire, env>>

Next ==
    \/ \E r \in Router : InterfaceUp(r) \/ InterfaceDown(r) \/ networkTimeout(r)
    \/ \E r \in Router : \E p \in Prio[r] : SetPriority(r, p)
    \/ \E r, s \in Router : helloRx(r, s) \/ HelloLost(r, s)
    \/ Interval

Spec == Init /\ [][Next]_vars

\* The steps that run r's timers, and those that take its hello off the wire.
TimersDue(r) == r \in Live \ done /\ done' = done \cup {r}
HelloTaken(r, s) ==
    wire[s][r] # NoHello /\ wire' = [wire EXCEPT ![s][r] = NoHello]

\* Timers run and hellos arrive or are lost.
FairSpec ==
    /\ Spec
    /\ \A r \in Router : WF_done(TimersDue(r))
    /\ \A r, s \in Router : WF_wire(HelloTaken(r, s))
    /\ WF_vars(Interval)

-----------------------------------------------------------------------------
TypeOK ==
    /\ net \in [Router -> Net]
    /\ nbr \in [Router -> [Router -> Nbr]]
    /\ wire \in [Router -> [Router -> Hello \cup {NoHello}]]
    /\ done \subseteq Router
    /\ downs \in 0..MaxDown /\ cmds \in 0..MaxCmd /\ lost \in 0..MaxLoss

(***************************************************************************)
(* "no router will declare itself both Backup Designated Router and        *)
(* Designated Router" (drbdr.c, step 4).                                   *)
(***************************************************************************)
NeverBoth == \A r \in Router : net[r].dr = r => net[r].bdr # r

Agree == \A r, s \in Live : net[r].dr = net[s].dr /\ net[r].bdr = net[s].bdr

(***************************************************************************)
(* However routers come and go, those that stay settle on one Designated   *)
(* Router and one Backup, as long as no hello is lost and priorities stay. *)
(***************************************************************************)
Settles == [](lost = 0 /\ cmds = 0) => <>[]Agree

\* d and b are in office, and the others know.
Office(d, b) ==
    /\ b \in Live
    /\ \A r \in Live : net[r].dr = d /\ net[r].bdr = b

(***************************************************************************)
(* "an orderly transition from Backup Designated Router to Designated      *)
(* Router, when the current Designated Router fails" (drbdr.c): when the   *)
(* Designated Router is gone, or back before it was missed, its Backup     *)
(* takes the office unless it fails as well or is made ineligible.         *)
(***************************************************************************)
BackupTakesOver ==
    \A d, b \in Router : d # b =>
        (Office(d, b) /\ d \notin Live)
            ~> (net[b].state = "DR" \/ b \notin Live \/ net[b].prio = 0)

(***************************************************************************)
(* "The following neighbor changes lead to the NeighborChange event [...]  *)
(* Bidirectional communication has been established to a neighbor"         *)
(* (network_fsm.c): lost hellos do not leave two Designated Routers.       *)
(***************************************************************************)
OneDr == <>[](\A r, s \in Live : net[r].state = "DR" /\ net[s].state = "DR" => r = s)
=============================================================================
