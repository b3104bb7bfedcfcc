----------------------------- MODULE Supervisor -----------------------------
(***************************************************************************)
(* Process supervision in rcp100 (services/exec/proc_mon.c, the timer      *)
(* branch of services/exec/main.c, and rcp_init() and the timer branch of  *)
(* the daemons, which are alike in rip, ospf, router, dhcp, dns, acl and   *)
(* netmon).                                                                *)
(*                                                                         *)
(* Every daemon has an entry in shared memory with its pid, the counter    *)
(* wproc that its timer branch increments and the copy wmonitor that the   *)
(* services process takes every ten seconds: two equal copies in a row     *)
(* mean that the daemon is dead or stuck, and it is killed and started     *)
(* again.  A daemon that starts adds its commands to the shared command    *)
(* tree under a named semaphore, and fills its entry before it releases it.*)
(*                                                                         *)
(* Operating system processes are slots of Instance; an instance that has  *)
(* ended is "none".  Time passes in supervision periods.                   *)
(***************************************************************************)
EXTENDS Integers, FiniteSets

CONSTANTS
    Proc,        \* the monitored daemons
    Exits,       \* those that exit to be restarted (rcpdns)
    MaxInst,     \* bound: processes of one daemon at a time
    Wrap,        \* the counters are unsigned and wrap here (2^32 in the code)
    MaxBeats,    \* bound: timer branches in one supervision period
    MaxFaults    \* bound: crashes, hangs, exits and restart commands

ASSUME ConstantsOK ==
    /\ Exits \subseteq Proc
    /\ MaxInst \in Nat \ {0} /\ MaxBeats \in Nat \ {0} /\ MaxFaults \in Nat
    \* a counter cannot go all the way round within a period
    /\ Wrap \in Nat /\ MaxBeats + 1 < Wrap

VARIABLES
    wproc,       \* RcpProcStats.wproc: 0 is "not monitored"
    wmonitor,    \* RcpProcStats.wmonitor
    pid,         \* RcpProcStats.pid, 0 before the first start
    noLogging,   \* RcpProcStats.no_logging
    st,          \* the instances of each daemon
    sem,         \* the instance that holds the semaphore
    beats,       \* history: signs of life of each daemon in this period
    blamed,      \* history: reported as not responding while it responded
    faults

vars == <<wproc, wmonitor, pid, noLogging, st, sem, beats, blamed, faults>>

Instance == 1..MaxInst
Free == <<>>
Abandoned == "abandoned"

Stages ==
    { "none",     \* no such process
      "start",    \* running, waiting for the semaphore
      "init",     \* holds the semaphore, adding its commands
      "named",    \* holds the semaphore, its pid is in the entry
      "up",       \* in its loop
      "stuck" }   \* in its loop, the timer branch does not run

TypeOK ==
    /\ wproc \in [Proc -> 0..Wrap - 1]
    /\ wmonitor \in [Proc -> 0..Wrap - 1]
    /\ pid \in [Proc -> 0..MaxInst]
    /\ noLogging \in [Proc -> BOOLEAN]
    /\ st \in [Proc -> [Instance -> Stages]]
    /\ sem \in {Free, <<Abandoned>>} \cup (Proc \X Instance)
    /\ beats \in [Proc -> 0..MaxBeats]
    /\ blamed \subseteq Proc
    /\ faults \in 0..MaxFaults

Init ==
    /\ wproc = [p \in Proc |-> 0]
    /\ wmonitor = [p \in Proc |-> 0]
    /\ pid = [p \in Proc |-> 0]
    /\ noLogging = [p \in Proc |-> FALSE]
    \* start.sh starts every daemon
    /\ st = [p \in Proc |-> [i \in Instance |-> IF i = 1 THEN "start" ELSE "none"]]
    /\ sem = Free
    /\ beats = [p \in Proc |-> 0]
    /\ blamed = {}
    /\ faults = 0

-----------------------------------------------------------------------------
(* The start of a daemon: rcp_init() *)

Holds(p, i) == sem = <<p, i>>

\* sem_wait()
Enter(p, i) ==
    /\ st[p][i] = "start"
    /\ sem = Free
    /\ sem' = <<p, i>>
    /\ st' = [st EXCEPT ![p][i] = "init"]
    /\ UNCHANGED <<wproc, wmonitor, pid, noLogging, beats, blamed, faults>>

\* module_initialize_commands() and rcpProcStats() have succeeded
Name(p, i) ==
    /\ st[p][i] = "init"
    /\ pid' = [pid EXCEPT ![p] = i]
    /\ st' = [st EXCEPT ![p][i] = "named"]
    /\ UNCHANGED <<wproc, wmonitor, noLogging, sem, beats, blamed, faults>>

\* wproc = 1, sem_post()
Post(p, i) ==
    /\ st[p][i] = "named"
    /\ wproc' = [wproc EXCEPT ![p] = 1]
    /\ sem' = Free
    /\ st' = [st EXCEPT ![p][i] = "up"]
    /\ beats' = [beats EXCEPT ![p] = 1]
    /\ UNCHANGED <<wmonitor, pid, noLogging, blamed, faults>>

\* Mutant: the counter is wider than its entry.
BeatWide(p) ==
    /\ \E i \in Instance : st[p][i] = "up"
    /\ beats[p] < MaxBeats
    /\ wproc' = [wproc EXCEPT ![p] = @ + 1]
    /\ beats' = [beats EXCEPT ![p] = @ + 1]
    /\ UNCHANGED <<wmonitor, pid, noLogging, st, sem, blamed, faults>>

\* wproc++ in the timer branch
Beat(p) ==
    /\ \E i \in Instance : st[p][i] = "up"
    /\ beats[p] < MaxBeats
    /\ wproc' = [wproc EXCEPT ![p] = (@ + 1) % Wrap]
    /\ beats' = [beats EXCEPT ![p] = @ + 1]
    /\ UNCHANGED <<wmonitor, pid, noLogging, st, sem, blamed, faults>>

-----------------------------------------------------------------------------
(* What goes wrong *)

\* A process that ends holding the semaphore does not release it.
Ends(p, i) ==
    /\ st' = [st EXCEPT ![p][i] = "none"]
    /\ sem' = IF Holds(p, i) THEN <<Abandoned>> ELSE sem

Fault ==
    /\ faults < MaxFaults
    /\ faults' = faults + 1

\* A crash, or exit(1) on one of rcp_init()'s error paths.
Crash(p, i) ==
    /\ Fault
    /\ st[p][i] # "none"
    /\ Ends(p, i)
    /\ UNCHANGED <<wproc, wmonitor, pid, noLogging, beats, blamed>>

\* The timer branch stops running: select() always finds something to read,
\* or a handler does not return.
Stick(p, i) ==
    /\ Fault
    /\ st[p][i] = "up"
    /\ st' = [st EXCEPT ![p][i] = "stuck"]
    /\ UNCHANGED <<wproc, wmonitor, pid, noLogging, sem, beats, blamed>>

Unstick(p, i) ==
    /\ st[p][i] = "stuck"
    /\ st' = [st EXCEPT ![p][i] = "up"]
    /\ UNCHANGED <<wproc, wmonitor, pid, noLogging, sem, beats, blamed, faults>>

\* force_restart of the dns proxy
Exit(p, i) ==
    /\ Fault
    /\ p \in Exits
    /\ st[p][i] = "up"
    /\ wproc' = [wproc EXCEPT ![p] = IF wmonitor[p] # 0 THEN wmonitor[p] ELSE @]
    /\ noLogging' = [noLogging EXCEPT ![p] = TRUE]
    /\ Ends(p, i)
    /\ UNCHANGED <<wmonitor, pid, beats, blamed>>

\* kill() of the recorded process, whatever it is doing
Killed(p) ==
    IF pid[p] = 0 THEN UNCHANGED <<st, sem>> ELSE Ends(p, pid[p])

\* restart process <p>
CliRestartProcess(p) ==
    /\ Fault
    /\ pid[p] # 0
    /\ Killed(p)
    /\ UNCHANGED <<wproc, wmonitor, pid, noLogging, beats, blamed>>

-----------------------------------------------------------------------------
(* rcp_monitor_procs(), every ten seconds *)

Working(p) == \E i \in Instance : st[p][i] = "up"

Unresponsive(p) == wproc[p] # 0 /\ wproc[p] = wmonitor[p]

AfterKill(p) == [i \in Instance |-> IF i = pid[p] THEN "none" ELSE st[p][i]]

\* Mutant: the old process is not killed.
RestartedBeside(p) ==
    LET free == {i \in Instance \ {pid[p]} : st[p][i] = "none"}
    IN IF free = {} THEN st[p]
       ELSE [st[p] EXCEPT ![CHOOSE i \in free : TRUE] = "start"]

\* Mutant: the start script is not run.
KilledOnly(p) == AfterKill(p)

\* kill(), and system() of the start script in the background; a new process
\* takes a pid that is not the recorded one, as long as MaxInst leaves one.
Restarted(p) ==
    LET killed == AfterKill(p)
        free == {i \in Instance \ {pid[p]} : killed[i] = "none"}
    IN IF free = {} THEN killed
       ELSE [killed EXCEPT ![CHOOSE i \in free : TRUE] = "start"]

\* A daemon starts in less than a period unless it cannot get the semaphore,
\* and a timer branch that is not stuck runs in every period.
PeriodOver ==
    /\ \A p \in Proc, i \in Instance :
          /\ st[p][i] \notin {"init", "named"}
          /\ st[p][i] = "start" => sem = <<Abandoned>>
    /\ \A p \in Proc : Working(p) => beats[p] > 0

\* Mutant: the reset before the restart stands.
CopiedOrReset(p) == IF Unresponsive(p) THEN 0 ELSE IF wproc[p] # 0 THEN wproc[p] ELSE wmonitor[p]

\* What the check leaves in wmonitor, also after a restart.
Copied(p) == IF wproc[p] # 0 THEN wproc[p] ELSE wmonitor[p]

rcp_monitor_procs ==
    /\ PeriodOver
    /\ st' = [p \in Proc |-> IF Unresponsive(p) THEN Restarted(p) ELSE st[p]]
    /\ noLogging' = [p \in Proc |-> noLogging[p] /\ ~Unresponsive(p)]
    /\ blamed' = {p \in Proc : Unresponsive(p) /\ ~noLogging[p] /\ Working(p)}
    /\ wmonitor' = [p \in Proc |-> Copied(p)]
    /\ beats' = [p \in Proc |-> 0]
    /\ UNCHANGED <<wproc, pid, sem, faults>>

Next ==
    \/ \E p \in Proc, i \in Instance :
          Enter(p, i) \/ Name(p, i) \/ Post(p, i) \/ Crash(p, i) \/ Stick(p, i)
          \/ Unstick(p, i) \/ Exit(p, i)
    \/ \E p \in Proc : Beat(p) \/ CliRestartProcess(p)
    \/ rcp_monitor_procs

Spec == Init /\ [][Next]_vars

\* The operating system schedules every process, the semaphore is fair to a
\* process that waits for it again and again, and the timer of the services
\* process runs: its loop forces a timeout when it falls behind the clock.
Fairness ==
    /\ \A p \in Proc, i \in Instance :
          SF_vars(Enter(p, i)) /\ WF_vars(Name(p, i)) /\ WF_vars(Post(p, i))
    /\ \A p \in Proc : WF_vars(Beat(p) /\ beats[p] = 0)
    /\ WF_vars(rcp_monitor_procs)

FairSpec == Spec /\ Fairness

-----------------------------------------------------------------------------
(* What supervision promises *)

\* A monitored daemon that gave no sign of life since the last check, because
\* it is dead, stuck or has not come up, is one that the next check restarts,
\* and one that has exited to be restarted is, too, after the first check.
\* The counters are all the check has: the history says what they should tell.
SilenceNoticed ==
    \A p \in Proc :
        /\ beats[p] = 0 /\ wproc[p] # 0 => Unresponsive(p)
        /\ noLogging[p] /\ ~Working(p) /\ wmonitor[p] # 0 => Unresponsive(p)

Running(p) == {i \in Instance : st[p][i] # "none"}

\* A daemon never runs twice: a check that starts a process has killed the one
\* before, which is the one recorded.  Once a process has ended with the
\* semaphore every check adds a process that waits for it.
OneInstance ==
    sem # <<Abandoned>> => \A p \in Proc : Cardinality(Running(p)) <= 1

\* Every monitored daemon works again and again, however it fails, unless
\* a process has ended with the semaphore.  A counter that has just wrapped to
\* 0 says "not monitored".
Recovers ==
    \A p \in Proc : []<>(Working(p) \/ wproc[p] = 0 \/ sem = <<Abandoned>>)

\* proc_mon.c:51: "process %s not responding, restarting..." is said of a
\* daemon that does not respond.
BlameJustified == blamed = {}

=============================================================================
