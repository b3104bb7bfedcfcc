-------------------------- MODULE SupervisorProofs --------------------------
(* Proofs about Supervisor for every set of daemons, every number of          *)
(* processes, every width of the counters and every number of faults.         *)
(*                                                                             *)
(* ProcInv is inductive: the semaphore belongs to the process that initializes *)
(* itself, the process recorded in an entry is the one that has filled it, at  *)
(* most one process of a daemon is past sem_wait(), and, until a process has   *)
(* ended with the semaphore, no other one runs.  The counters follow: what    *)
(* SilenceNoticed says of them needs that a daemon that has exited to be       *)
(* restarted has no process left that could end without a trace.               *)
EXTENDS Supervisor, FiniteSetTheorems, TLAPS

Past(p, i) == st[p][i] \notin {"none", "start"}

(* The processes of the daemons and the semaphore. *)
HolderInit ==
    \A p \in Proc, i \in Instance : st[p][i] \in {"init", "named"} => sem = <<p, i>>

RecordedPid ==
    \A p \in Proc, i \in Instance : st[p][i] \in {"named", "up", "stuck"} => pid[p] = i

OnePast ==
    \A p \in Proc, i, j \in Instance : Past(p, i) /\ Past(p, j) => i = j

OneRuns ==
    sem # <<Abandoned>> =>
        \A p \in Proc, i, j \in Instance : st[p][i] # "none" /\ st[p][j] # "none" => i = j

ExitedGone ==
    \A p \in Proc : noLogging[p] =>
        \A i \in Instance : ~Past(p, i) /\ (sem # <<Abandoned>> => st[p][i] = "none")

Table == HolderInit /\ RecordedPid /\ OnePast /\ OneRuns /\ ExitedGone

ProcInv == TypeOK /\ Table

(* The three kinds of values of the semaphore differ. *)
LEMMA SemValues ==
  /\ Free # <<Abandoned>>
  /\ \A p \in Proc, i \in Instance : <<p, i>> # Free /\ <<p, i>> # <<Abandoned>>
  /\ \A p, q \in Proc, i, j \in Instance : <<p, i>> = <<q, j>> => p = q /\ i = j
BY DEF Free, Abandoned

\* The table is well typed before the first start.
LEMMA InitTyped == Init => TypeOK
BY ConstantsOK DEF Init, TypeOK, Instance, Stages

(* What happens to the instances in each kind of step. *)
LEMMA StageStep ==
  ASSUME TypeOK, NEW p \in Proc, NEW i \in Instance, NEW s \in Stages,
         st' = [st EXCEPT ![p][i] = s]
  PROVE  /\ st' \in [Proc -> [Instance -> Stages]]
         /\ st'[p][i] = s
         /\ \A q \in Proc, j \in Instance : <<q, j>> # <<p, i>> => st'[q][j] = st[q][j]
<1>1. st \in [Proc -> [Instance -> Stages]]
  BY DEF TypeOK
<1>2. st' = [st EXCEPT ![p] = [st[p] EXCEPT ![i] = s]]
  BY <1>1
<1>3. [st[p] EXCEPT ![i] = s] \in [Instance -> Stages]
  BY <1>1
<1> QED BY <1>1, <1>2, <1>3

\* The check kills the recorded process and starts one; it leaves the others alone.
LEMMA RestartedTyped ==
  ASSUME TypeOK, NEW p \in Proc
  PROVE  /\ Restarted(p) \in [Instance -> Stages]
         /\ \A i \in Instance : Restarted(p)[i] # "none" =>
               \/ i # pid[p] /\ Restarted(p)[i] = st[p][i]
               \/ Restarted(p)[i] = "start"
         /\ (\A i \in Instance \ {pid[p]} : st[p][i] = "none") =>
               \A i, j \in Instance : Restarted(p)[i] # "none" /\ Restarted(p)[j] # "none" => i = j
<1> DEFINE free == {i \in Instance \ {pid[p]} : AfterKill(p)[i] = "none"}
           c == CHOOSE i \in free : TRUE
<1>1. st[p] \in [Instance -> Stages]
  BY DEF TypeOK
<1>2. AfterKill(p) \in [Instance -> Stages]
  BY <1>1 DEF AfterKill, Stages
<1>3. CASE free = {}
  <2>1. Restarted(p) = AfterKill(p)
    BY <1>3 DEF Restarted
  <2> QED BY <1>1, <1>2, <2>1 DEF AfterKill
<1>4. CASE free # {}
  <2>1. Restarted(p) = [AfterKill(p) EXCEPT ![c] = "start"]
    BY <1>4 DEF Restarted
  <2>2. c \in free
    BY <1>4
  <2>3. c \in Instance
    BY <2>2
  <2> HIDE DEF c
  <2>4. Restarted(p) \in [Instance -> Stages]
    BY <1>2, <2>1, <2>3 DEF Stages
  <2>5. \A i \in Instance : Restarted(p)[i] = IF i = c THEN "start" ELSE AfterKill(p)[i]
    BY <1>2, <2>1, <2>3
  <2>6. \A i \in Instance : AfterKill(p)[i] = IF i = pid[p] THEN "none" ELSE st[p][i]
    BY DEF AfterKill
  <2> QED BY <2>4, <2>5, <2>6
<1> QED BY <1>3, <1>4

(* A step that changes the stage of one instance and, with it, the semaphore. *)
LEMMA TypeStep == TypeOK /\ [Next]_vars => TypeOK'
<1> SUFFICES ASSUME TypeOK, [Next]_vars PROVE TypeOK'
  OBVIOUS
<1> USE ConstantsOK
<1>1. ASSUME NEW p \in Proc, NEW i \in Instance, Enter(p, i) PROVE TypeOK'
  <2>1. st' \in [Proc -> [Instance -> Stages]]
    BY <1>1, StageStep DEF Enter, Stages
  <2> QED BY <1>1, <2>1 DEF Enter, TypeOK
<1>2. ASSUME NEW p \in Proc, NEW i \in Instance, Name(p, i) PROVE TypeOK'
  <2>1. st' \in [Proc -> [Instance -> Stages]]
    BY <1>2, StageStep DEF Name, Stages
  <2>2. pid' \in [Proc -> 0..MaxInst]
    BY <1>2 DEF Name, TypeOK, Instance
  <2> QED BY <1>2, <2>1, <2>2 DEF Name, TypeOK
<1>3. ASSUME NEW p \in Proc, NEW i \in Instance, Post(p, i) PROVE TypeOK'
  <2>1. st' \in [Proc -> [Instance -> Stages]]
    BY <1>3, StageStep DEF Post, Stages
  <2>2. wproc' \in [Proc -> 0..Wrap - 1] /\ beats' \in [Proc -> 0..MaxBeats]
    BY <1>3 DEF Post, TypeOK
  <2> QED BY <1>3, <2>1, <2>2 DEF Post, TypeOK
<1>4. ASSUME NEW p \in Proc, NEW i \in Instance, Crash(p, i) PROVE TypeOK'
  <2>1. st' \in [Proc -> [Instance -> Stages]]
    BY <1>4, StageStep DEF Crash, Ends, Stages
  <2>2. faults' \in 0..MaxFaults
    BY <1>4 DEF Crash, Fault, TypeOK
  <2> QED BY <1>4, <2>1, <2>2 DEF Crash, Ends, TypeOK
<1>5. ASSUME NEW p \in Proc, NEW i \in Instance, Stick(p, i) PROVE TypeOK'
  <2>1. st' \in [Proc -> [Instance -> Stages]]
    BY <1>5, StageStep DEF Stick, Stages
  <2>2. faults' \in 0..MaxFaults
    BY <1>5 DEF Stick, Fault, TypeOK
  <2> QED BY <1>5, <2>1, <2>2 DEF Stick, TypeOK
<1>6. ASSUME NEW p \in Proc, NEW i \in Instance, Unstick(p, i) PROVE TypeOK'
  <2>1. st' \in [Proc -> [Instance -> Stages]]
    BY <1>6, StageStep DEF Unstick, Stages
  <2> QED BY <1>6, <2>1 DEF Unstick, TypeOK
<1>7. ASSUME NEW p \in Proc, NEW i \in Instance, Exit(p, i) PROVE TypeOK'
  <2>1. st' \in [Proc -> [Instance -> Stages]]
    BY <1>7, StageStep DEF Exit, Ends, Stages
  <2>2. faults' \in 0..MaxFaults
    BY <1>7 DEF Exit, Fault, TypeOK
  <2>3. wproc' \in [Proc -> 0..Wrap - 1] /\ noLogging' \in [Proc -> BOOLEAN]
    BY <1>7 DEF Exit, TypeOK
  <2> QED BY <1>7, <2>1, <2>2, <2>3 DEF Exit, Ends, TypeOK
<1>8. ASSUME NEW p \in Proc, Beat(p) PROVE TypeOK'
  <2>1. (wproc[p] + 1) % Wrap \in 0..Wrap - 1
    BY DEF TypeOK
  <2>2. wproc' \in [Proc -> 0..Wrap - 1]
    BY <1>8, <2>1 DEF Beat, TypeOK
  <2>3. beats' \in [Proc -> 0..MaxBeats]
    BY <1>8 DEF Beat, TypeOK
  <2> QED BY <1>8, <2>2, <2>3 DEF Beat, TypeOK
<1>9. ASSUME NEW p \in Proc, CliRestartProcess(p) PROVE TypeOK'
  <2>1. pid[p] \in Instance
    BY <1>9 DEF CliRestartProcess, TypeOK, Instance
  <2>2. st' \in [Proc -> [Instance -> Stages]]
    BY <1>9, <2>1, StageStep DEF CliRestartProcess, Killed, Ends, Stages
  <2>3. faults' \in 0..MaxFaults
    BY <1>9 DEF CliRestartProcess, Fault, TypeOK
  <2> QED BY <1>9, <2>1, <2>2, <2>3 DEF CliRestartProcess, Killed, Ends, TypeOK
<1>10. CASE rcp_monitor_procs
  <2>1. st' \in [Proc -> [Instance -> Stages]]
    BY <1>10, RestartedTyped DEF rcp_monitor_procs, TypeOK
  <2>2. noLogging' \in [Proc -> BOOLEAN]
    <3>1. \A p \in Proc : (noLogging[p] /\ ~Unresponsive(p)) \in BOOLEAN
      OBVIOUS
    <3> QED BY <1>10, <3>1, Zenon DEF rcp_monitor_procs
  <2>3. wmonitor' \in [Proc -> 0..Wrap - 1] /\ beats' \in [Proc -> 0..MaxBeats]
    BY <1>10 DEF rcp_monitor_procs, Copied, TypeOK
  <2>4. blamed' \subseteq Proc
    BY <1>10 DEF rcp_monitor_procs
  <2> QED BY <1>10, <2>1, <2>2, <2>3, <2>4 DEF rcp_monitor_procs, TypeOK
<1>11. CASE UNCHANGED vars
  BY <1>11 DEF vars, TypeOK
<1> QED BY <1>1, <1>2, <1>3, <1>4, <1>5, <1>6, <1>7, <1>8, <1>9, <1>10, <1>11 DEF Next

(* An instance that ends: what it leaves behind. *)
LEMMA EndsKeeps ==
  ASSUME ProcInv, NEW p \in Proc, NEW i \in Instance, Ends(p, i), UNCHANGED pid,
         \A q \in Proc : noLogging'[q] => noLogging[q] \/ (q = p /\ Past(p, i))
  PROVE  Table'
<1>1. /\ st'[p][i] = "none"
      /\ \A q \in Proc, j \in Instance : <<q, j>> # <<p, i>> => st'[q][j] = st[q][j]
  BY StageStep DEF ProcInv, Table, Ends, Stages
<1>2. \A q \in Proc, j \in Instance : st'[q][j] # "none" => st'[q][j] = st[q][j] /\ <<q, j>> # <<p, i>>
  BY <1>1
<1>3. sem' = IF sem = <<p, i>> THEN <<Abandoned>> ELSE sem
  BY DEF Ends, Holds
<1>4. HolderInit'
  BY <1>2, <1>3 DEF ProcInv, Table, HolderInit
<1>5. RecordedPid'
  BY <1>2 DEF ProcInv, Table, RecordedPid
<1>6. OnePast'
  BY <1>2 DEF ProcInv, Table, OnePast, Past
<1>7. sem' # <<Abandoned>> => sem # <<Abandoned>>
  BY <1>3
<1>8. OneRuns'
  BY <1>2, <1>7 DEF ProcInv, Table, OneRuns
<1>9. ExitedGone'
  <2> SUFFICES ASSUME NEW q \in Proc, noLogging'[q], NEW j \in Instance
               PROVE  ~Past(q, j)' /\ (sem' # <<Abandoned>> => st'[q][j] = "none")
    BY DEF ExitedGone
  <2>1. CASE noLogging[q]
    BY <2>1, <1>2, <1>7 DEF ProcInv, Table, ExitedGone, Past
  <2>2. CASE q = p /\ Past(p, i)
    BY <2>2, <1>1, <1>2, <1>7 DEF ProcInv, Table, OnePast, OneRuns, Past
  <2> QED BY <2>1, <2>2
<1> QED BY <1>4, <1>5, <1>6, <1>8, <1>9 DEF Table

(* ProcInv is inductive. *)
LEMMA ProcInit == Init => ProcInv
<1> SUFFICES ASSUME Init PROVE ProcInv
  OBVIOUS
<1>1. \A p \in Proc, i \in Instance : st[p][i] = IF i = 1 THEN "start" ELSE "none"
  BY DEF Init
<1> QED BY <1>1, InitTyped
      DEF Init, ProcInv, Table, HolderInit, RecordedPid, OnePast, OneRuns, ExitedGone, Past

\* Every step keeps the invariant of the process table.
LEMMA ProcStep == ProcInv /\ [Next]_vars => ProcInv'
<1> SUFFICES ASSUME ProcInv, [Next]_vars PROVE ProcInv'
  OBVIOUS
<1>0. TypeOK /\ TypeOK'
  BY TypeStep DEF ProcInv
<1>1. ASSUME NEW p \in Proc, NEW i \in Instance, Enter(p, i) PROVE Table'
  <2>1. /\ st'[p][i] = "init"
        /\ \A q \in Proc, j \in Instance : <<q, j>> # <<p, i>> => st'[q][j] = st[q][j]
    BY <1>0, <1>1, StageStep DEF Enter, Stages
  <2>2. sem = Free /\ sem' = <<p, i>> /\ st[p][i] = "start" /\ pid' = pid /\ noLogging' = noLogging
    BY <1>1 DEF Enter
  <2>3. \A q \in Proc, j \in Instance : st[q][j] \notin {"init", "named"}
    BY <2>2, SemValues DEF ProcInv, Table, HolderInit
  <2>4. HolderInit'
    BY <2>1, <2>2, <2>3 DEF HolderInit
  <2>5. RecordedPid'
    BY <2>1, <2>2 DEF ProcInv, Table, RecordedPid
  <2>6. \A j \in Instance : st[p][j] # "none" => j = i
    BY <2>2, SemValues DEF ProcInv, Table, OneRuns
  <2>7. OnePast' /\ OneRuns'
    BY <2>1, <2>2, <2>6, SemValues DEF ProcInv, Table, OnePast, OneRuns, Past
  <2>8. ~noLogging[p]
    BY <2>2, SemValues DEF ProcInv, Table, ExitedGone
  <2>9. ExitedGone'
    BY <2>1, <2>2, <2>8, SemValues DEF ProcInv, Table, ExitedGone, Past
  <2> QED BY <2>4, <2>5, <2>7, <2>9 DEF Table
<1>2. ASSUME NEW p \in Proc, NEW i \in Instance, Name(p, i) PROVE Table'
  <2>1. /\ st'[p][i] = "named"
        /\ \A q \in Proc, j \in Instance : <<q, j>> # <<p, i>> => st'[q][j] = st[q][j]
    BY <1>0, <1>2, StageStep DEF Name, Stages
  <2>2. st[p][i] = "init" /\ sem' = sem /\ noLogging' = noLogging
        /\ pid'[p] = i /\ \A q \in Proc : q # p => pid'[q] = pid[q]
    BY <1>0, <1>2 DEF Name, TypeOK
  <2>3. \A j \in Instance : Past(p, j) => j = i
    BY <2>2 DEF ProcInv, Table, OnePast, Past
  <2>4. HolderInit' /\ RecordedPid'
    BY <2>1, <2>2, <2>3 DEF ProcInv, Table, HolderInit, RecordedPid, Past
  <2>5. OnePast' /\ OneRuns'
    BY <2>1, <2>2 DEF ProcInv, Table, OnePast, OneRuns, Past
  <2>6. ExitedGone'
    BY <2>1, <2>2 DEF ProcInv, Table, ExitedGone, Past
  <2> QED BY <2>4, <2>5, <2>6 DEF Table
<1>3. ASSUME NEW p \in Proc, NEW i \in Instance, Post(p, i) PROVE Table'
  <2>1. /\ st'[p][i] = "up"
        /\ \A q \in Proc, j \in Instance : <<q, j>> # <<p, i>> => st'[q][j] = st[q][j]
    BY <1>0, <1>3, StageStep DEF Post, Stages
  <2>2. st[p][i] = "named" /\ sem' = Free /\ noLogging' = noLogging /\ pid' = pid
    BY <1>3 DEF Post
  <2>3. sem = <<p, i>> /\ sem # <<Abandoned>>
    BY <2>2, SemValues DEF ProcInv, Table, HolderInit
  <2>4. HolderInit' /\ RecordedPid'
    BY <2>1, <2>2, <2>3, SemValues DEF ProcInv, Table, HolderInit, RecordedPid
  <2>5. OnePast' /\ OneRuns'
    BY <2>1, <2>2, <2>3 DEF ProcInv, Table, OnePast, OneRuns, Past
  <2>6. ExitedGone'
    BY <2>1, <2>2, <2>3 DEF ProcInv, Table, ExitedGone, Past
  <2> QED BY <2>4, <2>5, <2>6 DEF Table
<1>4. ASSUME NEW p \in Proc, NEW i \in Instance, Crash(p, i) PROVE Table'
  <2>1. Ends(p, i) /\ UNCHANGED pid /\ noLogging' = noLogging
    BY <1>4 DEF Crash
  <2>2. \A q \in Proc : noLogging'[q] => noLogging[q] \/ (q = p /\ Past(p, i))
    BY <2>1
  <2> QED BY <2>1, <2>2, EndsKeeps
<1>5. ASSUME NEW p \in Proc, NEW i \in Instance, Stick(p, i) \/ Unstick(p, i) PROVE Table'
  <2>1. /\ st'[p][i] \in {"up", "stuck"}
        /\ \A q \in Proc, j \in Instance : <<q, j>> # <<p, i>> => st'[q][j] = st[q][j]
    BY <1>0, <1>5, StageStep DEF Stick, Unstick, Stages
  <2>2. st[p][i] \in {"up", "stuck"} /\ sem' = sem /\ noLogging' = noLogging /\ pid' = pid
    BY <1>5 DEF Stick, Unstick
  <2> QED BY <2>1, <2>2
        DEF ProcInv, Table, HolderInit, RecordedPid, OnePast, OneRuns, ExitedGone, Past
<1>6. ASSUME NEW p \in Proc, NEW i \in Instance, Exit(p, i) PROVE Table'
  <2>1. Ends(p, i) /\ UNCHANGED pid /\ Past(p, i)
    BY <1>6 DEF Exit, Past
  <2>2. \A q \in Proc : q # p => noLogging'[q] = noLogging[q]
    BY <1>0, <1>6 DEF Exit, TypeOK
  <2> QED BY <2>1, <2>2, EndsKeeps
<1>7. ASSUME NEW p \in Proc, Beat(p) PROVE Table'
  BY <1>7 DEF Beat, ProcInv, Table, HolderInit, RecordedPid, OnePast, OneRuns, ExitedGone, Past
<1>8. ASSUME NEW p \in Proc, CliRestartProcess(p) PROVE Table'
  <2>1. pid[p] \in Instance
    BY <1>0, <1>8, ConstantsOK DEF CliRestartProcess, TypeOK, Instance
  <2>2. Ends(p, pid[p]) /\ UNCHANGED pid /\ noLogging' = noLogging
    BY <1>8 DEF CliRestartProcess, Killed
  <2>3. \A q \in Proc : noLogging'[q] => noLogging[q] \/ (q = p /\ Past(p, pid[p]))
    BY <2>2
  <2> QED BY <2>1, <2>2, <2>3, EndsKeeps
<1>9. ASSUME rcp_monitor_procs PROVE Table'
  <2>1. \A p \in Proc : st'[p] = IF Unresponsive(p) THEN Restarted(p) ELSE st[p]
    BY <1>9 DEF rcp_monitor_procs
  <2>2. sem' = sem /\ pid' = pid /\ \A p \in Proc : noLogging'[p] => noLogging[p] /\ ~Unresponsive(p)
    BY <1>9 DEF rcp_monitor_procs
  <2>3. \A p \in Proc, i \in Instance :
           st[p][i] \notin {"init", "named"} /\ (st[p][i] = "start" => sem = <<Abandoned>>)
    BY <1>9 DEF rcp_monitor_procs, PeriodOver
  <2>4. \A p \in Proc, i \in Instance : Past(p, i) => i = pid[p]
    BY <1>0, <2>3 DEF ProcInv, Table, RecordedPid, Past, TypeOK, Stages
  <2>5. \A p \in Proc, i \in Instance : Past(p, i)' => st'[p][i] = st[p][i] /\ Past(p, i)
    BY <1>0, <2>1, <2>4, RestartedTyped DEF Past
  <2>6. HolderInit' /\ RecordedPid' /\ OnePast'
    BY <2>2, <2>5 DEF ProcInv, Table, HolderInit, RecordedPid, OnePast, Past
  <2>7. OneRuns'
    <3> SUFFICES ASSUME sem # <<Abandoned>>, NEW p \in Proc
                 PROVE  \A i, j \in Instance : st'[p][i] # "none" /\ st'[p][j] # "none" => i = j
      BY <2>2 DEF OneRuns
    <3>1. \A i \in Instance \ {pid[p]} : st[p][i] = "none"
      BY <1>0, <2>3, <2>4 DEF Past
    <3> QED BY <1>0, <2>1, <3>1, RestartedTyped
  <2>8. ExitedGone'
    BY <2>1, <2>2 DEF ProcInv, Table, ExitedGone, Past
  <2> QED BY <2>6, <2>7, <2>8 DEF Table
<1>10. ASSUME UNCHANGED vars PROVE Table'
  BY <1>10 DEF vars, ProcInv, Table, HolderInit, RecordedPid, OnePast, OneRuns, ExitedGone, Past
<1>11. Table'
  BY <1>1, <1>2, <1>3, <1>4, <1>5, <1>6, <1>7, <1>8, <1>9, <1>10 DEF Next
<1> QED BY <1>0, <1>11 DEF ProcInv

(* ---------------------------- theorems ---------------------------------- *)

(* rcp_monitor_procs() kills the process it replaces: as long as no process *)
(* has ended with the semaphore no daemon runs twice.                       *)
THEOREM ProcOnce == Spec => []OneInstance
<1>1. ProcInv => OneInstance
  <2> SUFFICES ASSUME ProcInv, sem # <<Abandoned>>, NEW p \in Proc
               PROVE  Cardinality(Running(p)) <= 1
    BY DEF OneInstance
  <2>1. CASE Running(p) = {}
    BY <2>1, FS_EmptySet
  <2>2. CASE Running(p) # {}
    <3>1. PICK i \in Instance : i \in Running(p)
      BY <2>2 DEF Running
    <3>2. Running(p) = {i}
      BY <3>1 DEF Running, ProcInv, Table, OneRuns
    <3> QED BY <3>2, FS_Singleton
  <2> QED BY <2>1, <2>2
<1> QED BY <1>1, ProcInit, ProcStep, PTL DEF Spec

(* The counters of the shared memory tell the check of the next period that *)
(* a daemon was silent, or that it has exited to be restarted.              *)
THEOREM SilentRestarted == Spec => [](TypeOK /\ SilenceNoticed)
<1>1. Init => SilenceNoticed
  BY DEF Init, SilenceNoticed
<1>2. ProcInv /\ SilenceNoticed /\ [Next]_vars => SilenceNoticed'
  <2> SUFFICES ASSUME ProcInv, SilenceNoticed, [Next]_vars, NEW q \in Proc
               PROVE  /\ beats'[q] = 0 /\ wproc'[q] # 0 => Unresponsive(q)'
                      /\ noLogging'[q] /\ ~Working(q)' /\ wmonitor'[q] # 0 => Unresponsive(q)'
    BY DEF SilenceNoticed
  <2> DEFINE Goal == /\ beats'[q] = 0 /\ wproc'[q] # 0 => Unresponsive(q)'
                     /\ noLogging'[q] /\ ~Working(q)' /\ wmonitor'[q] # 0 => Unresponsive(q)'
  <2>0. TypeOK /\ ExitedGone
    BY DEF ProcInv, Table
  <2>1. /\ beats[q] = 0 /\ wproc[q] # 0 => Unresponsive(q)
        /\ noLogging[q] /\ ~Working(q) /\ wmonitor[q] # 0 => Unresponsive(q)
    BY DEF SilenceNoticed
  <2>2. noLogging[q] => ~Working(q)
    BY <2>0 DEF ExitedGone, Working, Past
  <2>3. ASSUME UNCHANGED <<wproc, wmonitor, noLogging, beats>> PROVE Goal
    BY <2>1, <2>2, <2>3 DEF Unresponsive
  <2>4. ASSUME NEW p \in Proc, NEW i \in Instance, Post(p, i) PROVE Goal
    <3>1. \A r \in Proc : beats'[r] = IF r = p THEN 1 ELSE beats[r]
      BY <2>0, <2>4 DEF Post, TypeOK
    <3>2. \A r \in Proc : r # p => wproc'[r] = wproc[r]
      BY <2>0, <2>4 DEF Post, TypeOK
    <3>3. wmonitor' = wmonitor /\ noLogging' = noLogging /\ Past(p, i)
      BY <2>4 DEF Post, Past
    <3>4. ~noLogging[p]
      BY <2>0, <3>3 DEF ExitedGone
    <3> QED BY <2>1, <2>2, <3>1, <3>2, <3>3, <3>4 DEF Unresponsive
  <2>5. ASSUME NEW p \in Proc, Beat(p) PROVE Goal
    <3>1. \A r \in Proc : beats'[r] = IF r = p THEN beats[r] + 1 ELSE beats[r]
      BY <2>0, <2>5 DEF Beat, TypeOK
    <3>2. \A r \in Proc : r # p => wproc'[r] = wproc[r]
      BY <2>0, <2>5 DEF Beat, TypeOK
    <3>3. wmonitor' = wmonitor /\ noLogging' = noLogging /\ beats[p] + 1 # 0
      BY <2>0, <2>5, ConstantsOK DEF Beat, TypeOK
    <3>4. ~noLogging[p]
      BY <2>0, <2>5 DEF ExitedGone, Past, Beat
    <3> QED BY <2>1, <2>2, <3>1, <3>2, <3>3, <3>4 DEF Unresponsive
  <2>6. ASSUME NEW p \in Proc, NEW i \in Instance, Exit(p, i) PROVE Goal
    <3>1. \A r \in Proc : wproc'[r] = IF r = p /\ wmonitor[p] # 0 THEN wmonitor[p] ELSE wproc[r]
      BY <2>0, <2>6 DEF Exit, TypeOK
    <3>2. \A r \in Proc : r # p => noLogging'[r] = noLogging[r]
      BY <2>0, <2>6 DEF Exit, TypeOK
    <3>3. wmonitor' = wmonitor /\ beats' = beats
      BY <2>6 DEF Exit
    <3> QED BY <2>1, <2>2, <3>1, <3>2, <3>3 DEF Unresponsive
  <2>7. CASE rcp_monitor_procs
    <3>1. wproc' = wproc /\ wmonitor'[q] = (IF wproc[q] # 0 THEN wproc[q] ELSE wmonitor[q])
      BY <2>7 DEF rcp_monitor_procs, Copied
    <3>2. noLogging'[q] => noLogging[q]
      BY <2>7 DEF rcp_monitor_procs
    <3> QED BY <2>1, <2>2, <3>1, <3>2 DEF Unresponsive
  <2>8. ASSUME NEW p \in Proc, NEW i \in Instance,
               Enter(p, i) \/ Name(p, i) \/ Crash(p, i) \/ Stick(p, i) \/ Unstick(p, i)
        PROVE  Goal
    BY <2>3, <2>8 DEF Enter, Name, Crash, Stick, Unstick
  <2>9. ASSUME NEW p \in Proc, CliRestartProcess(p) PROVE Goal
    BY <2>3, <2>9 DEF CliRestartProcess
  <2>10. CASE UNCHANGED vars
    BY <2>3, <2>10 DEF vars
  <2> QED BY <2>4, <2>5, <2>6, <2>7, <2>8, <2>9, <2>10 DEF Next
<1>3. ProcInv => TypeOK
  BY DEF ProcInv
<1> QED BY <1>1, <1>2, <1>3, ProcInit, ProcStep, PTL DEF Spec

(* The process table, the heartbeat counters and the states of the processes  *)
(* are well typed.                                                            *)
THEOREM ProcTyped == Spec => []TypeOK
<1>1. ProcInv => TypeOK
  BY DEF ProcInv
<1> QED BY <1>1, ProcInit, ProcStep, PTL DEF Spec

=============================================================================
