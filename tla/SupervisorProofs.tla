-------------------------- MODULE SupervisorProofs --------------------------
(* Proofs about Supervisor for any devices, commands and pids.             *)
EXTENDS Supervisor, TLAPS

USE DEF db, disk, host, local, Goto

(***************************************************************************)
(* Next, taken apart once for the proofs below.                            *)
(***************************************************************************)
LEMMA NextCases ==
  ASSUME Next
  PROVE  \/ \E a \in Actor : StopStep(a)
         \/ StartStep \/ StartRaises \/ StopRaises
         \/ BootCheck \/ Discard \/ Top \/ Poll \/ Shutdown
         \/ Boot \/ Reboot \/ BootFails \/ Crash \/ Sigterm \/ Sigusr1
         \/ \E p \in Pid : EngineBinds(p) \/ EngineExit(p) \/ EngineDies(p)
         \/ \E c \in Client : \/ Edit(c) \/ EditCheck(c) \/ Request(c)
                              \/ StartLab(c) \/ CreateDevice(c) \/ CreateRaises(c)
                              \/ StartMark(c) \/ Reload(c) \/ Stop(c)
                              \/ Disable(c) \/ Abort(c)
BY DEF Next, DaemonStep, ClientStep, NewCommand, EngineStep, Disturbance, Actor

-----------------------------------------------------------------------------
(* Type correctness.                                                       *)

\* A container that goes leaves no process and no bound address.
LEMMA ContainerGoneType ==
  ASSUME NEW l \in DownPc, ContainerGone(l)
  PROVE  /\ proc' \in [Pid -> ProcState] /\ serving' \in [Pid -> SUBSET Device]
         /\ bound' \subseteq Device
         /\ pc' \in [Actor -> DaemonPc \cup ClientPc]
         /\ pc'[Daemon] \in DaemonPc /\ \A c \in Client : pc'[c] \in ClientPc
         /\ target' \in [Actor -> Pid \cup {NoPid}]
         /\ ctx' \in Context /\ seen' \in BOOLEAN /\ fresh' \in Pid \cup {NoPid}
         /\ warnings' \subseteq Device /\ stopping' \in BOOLEAN
BY DaemonAssumption
DEF ContainerGone, Actor, DaemonPc, ClientPc, DownPc, StopPc, StartPc, ProcState, Context, DaemonAssumption

\* Each kind of step keeps the types: a stop by daemon or command,
LEMMA StopStepType ==
  ASSUME TypeOK, NEW a \in Actor, StopStep(a)
  PROVE  TypeOK'
<1> USE NoPidAssumption, BlankAssumption, DaemonAssumption
        DEF TypeOK, Actor, DaemonPc, ClientPc, DownPc, StopPc, StartPc, ProcState, Context, Slip
<1>1. CASE StopRead(a)
  BY <1>1 DEF StopRead, Exists, Live
<1>2. CASE StopGone(a)
  BY <1>2 DEF StopGone
<1>3. CASE StopTimeout(a)
  BY <1>3 DEF StopTimeout, Exists
<1>4. CASE StopExists(a)
  BY <1>4 DEF StopExists, AfterStop
<1>5. CASE StopUnlink(a)
  BY <1>5 DEF StopUnlink, AfterStop
<1>6. CASE StopUnlinkRaises(a)
  <2>1. CASE a # Daemon
    <3>1. /\ pc' = [pc EXCEPT ![a] = "idle"] /\ slips' = slips \cup {"aborted"}
          /\ UNCHANGED <<db, disk, host, target, local>>
      BY <1>6, <2>1 DEF StopUnlinkRaises
    <3>2. a \in Client
      BY <2>1
    <3> QED BY <3>1, <3>2
  <2>3. CASE a = Daemon /\ ctx = "restart"
    BY <1>6, <2>3, ZenonT(40) DEF StopUnlinkRaises
  <2>2. CASE a = Daemon /\ ctx # "restart"
    <3>1. Ended \in DownPc /\ ContainerGone(Ended)
      BY <1>6, <2>2 DEF StopUnlinkRaises, Ended
    <3> QED BY <1>6, <2>2, <3>1, ContainerGoneType DEF StopUnlinkRaises
  <2> QED BY <2>1, <2>2, <2>3
<1> QED BY <1>1, <1>2, <1>3, <1>4, <1>5, <1>6 DEF StopStep

\* the daemon's start of the engine,
LEMMA StartStepType ==
  ASSUME TypeOK, StartStep \/ StartRaises \/ StopRaises
  PROVE  TypeOK'
<1> USE NoPidAssumption, BlankAssumption, DaemonAssumption
        DEF TypeOK, Actor, DaemonPc, ClientPc, DownPc, StopPc, StartPc, ProcState, Context, Slip
<1>1. CASE Reconcile
  BY <1>1 DEF Reconcile, Reachable, Reaped
<1>2. CASE Spawn
  <2>1. PICK p \in Pid : /\ fresh' = p
                         /\ proc' = [Reaped EXCEPT ![p] = "starting"]
                         /\ \/ serving' = [serving EXCEPT ![p] = Reachable \cap bound]
                            \/ serving' = [serving EXCEPT ![p] = {}]
    BY <1>2 DEF Spawn
  <2>2. proc' \in [Pid -> ProcState] /\ serving' \in [Pid -> SUBSET Device]
    BY <2>1 DEF Reaped, Reachable
  <2>3. slips' \subseteq Slip
    BY <1>2 DEF Spawn
  <2>4. /\ pc' = [pc EXCEPT ![Daemon] = "settle"]
        /\ UNCHANGED <<db, disk, bound, target, ctx, seen, warnings, stopping>>
    BY <1>2 DEF Spawn
  <2> QED BY <2>1, <2>2, <2>3, <2>4
<1>3. CASE SettleOpen
  BY <1>3 DEF SettleOpen
<1>4. CASE SettleWrite
  BY <1>4 DEF SettleWrite
<1>5. CASE SettleDead
  BY <1>5 DEF SettleDead, Caught
<1>6. CASE Record
  BY <1>6 DEF Record
<1>7. CASE StartRaises
  BY <1>7 DEF StartRaises, Caught, Reachable, Reaped
<1>8. CASE StopRaises
  BY <1>8 DEF StopRaises, Caught, StopPc
<1> QED BY <1>1, <1>2, <1>3, <1>4, <1>5, <1>6, <1>7, <1>8 DEF StartStep

\* its loop, and what happens to the daemon from outside,
LEMMA DaemonStepType ==
  ASSUME TypeOK, BootCheck \/ Discard \/ Top \/ Poll \/ Shutdown
                 \/ Boot \/ Reboot \/ BootFails \/ Crash \/ Sigterm \/ Sigusr1
  PROVE  TypeOK'
<1> USE NoPidAssumption, BlankAssumption, DaemonAssumption
        DEF TypeOK, Actor, DaemonPc, ClientPc, DownPc, StopPc, StartPc, ProcState, Context, Slip
<1>1. CASE BootCheck
  BY <1>1 DEF BootCheck
<1>2. CASE Discard
  BY <1>2 DEF Discard
<1>3. CASE Top
  BY <1>3 DEF Top
<1>4. CASE Poll
  BY <1>4, ZenonT(40) DEF Poll
<1>5. CASE Shutdown
  BY <1>5, ContainerGoneType DEF Shutdown
<1>6. CASE Boot \/ Reboot \/ BootFails
  <2>1. \/ enabled' = enabled /\ last_error' = last_error /\ flag' = flag
        \/ enabled' = TRUE /\ last_error' = {} /\ flag' \in {flag, TRUE}
    BY <1>6 DEF Boot, Reboot, BootFails, EnterDaemon, AutoStart
  <2>2. enabled' \in BOOLEAN /\ last_error' \subseteq Device \cup {"exception"} /\ flag' \in BOOLEAN
    BY <2>1
  <2>3. inventory' \in [Device -> Reachability] /\ UNCHANGED <<pidfile, host, target, local, slips>>
    BY <1>6 DEF Boot, Reboot, BootFails, EnterDaemon, AutoStart
  <2>4. \E l \in DownPc \cup {"boot"} : pc' = [pc EXCEPT ![Daemon] = l]
    BY <1>6 DEF Boot, Reboot, BootFails, EnterDaemon
  <2> QED BY <2>2, <2>3, <2>4
<1>7. CASE Crash
  <2>1. Ended \in DownPc
    BY DEF Ended
  <2> QED BY <1>7, <2>1, ContainerGoneType DEF Crash
<1>8. CASE Sigterm
  BY <1>8 DEF Sigterm
<1>9. CASE Sigusr1
  BY <1>9 DEF Sigusr1
<1> QED BY <1>1, <1>2, <1>3, <1>4, <1>5, <1>6, <1>7, <1>8, <1>9

\* the engine process itself,
LEMMA EngineStepType ==
  ASSUME TypeOK, NEW p \in Pid, EngineBinds(p) \/ EngineExit(p) \/ EngineDies(p)
  PROVE  TypeOK'
BY NoPidAssumption
DEF TypeOK, ProcState, Slip, EngineBinds, EngineExit, EngineDies, Ends

\* and the commands of the operator.
LEMMA ClientStepType ==
  ASSUME TypeOK, NEW c \in Client,
         \/ Edit(c) \/ EditCheck(c) \/ Request(c)
         \/ StartLab(c) \/ CreateDevice(c) \/ CreateRaises(c)
         \/ StartMark(c) \/ Reload(c) \/ Stop(c) \/ Disable(c) \/ Abort(c)
  PROVE  TypeOK'
<1> USE NoPidAssumption, BlankAssumption, DaemonAssumption
        DEF TypeOK, Actor, DaemonPc, ClientPc, DownPc, StopPc, StartPc, Reachability, Slip
<1>1. CASE Edit(c)
  BY <1>1 DEF Edit
<1>2. CASE EditCheck(c)
  BY <1>2 DEF EditCheck
<1>3. CASE Request(c)
  BY <1>3 DEF Request
<1>4. CASE StartLab(c)
  BY <1>4 DEF StartLab
<1>5. CASE CreateDevice(c)
  BY <1>5 DEF CreateDevice
<1>6. CASE CreateRaises(c)
  BY <1>6 DEF CreateRaises
<1>7. CASE StartMark(c)
  BY <1>7 DEF StartMark
<1>8. CASE Reload(c)
  BY <1>8 DEF Reload
<1>9. CASE Stop(c)
  BY <1>9 DEF Stop
<1>10. CASE Disable(c)
  BY <1>10 DEF Disable
<1>11. CASE Abort(c)
  BY <1>11 DEF Abort
<1> QED BY <1>1, <1>2, <1>3, <1>4, <1>5, <1>6, <1>7, <1>8, <1>9, <1>10, <1>11

\* The types hold in the beginning,
LEMMA InitType == Init => TypeOK
<1> SUFFICES ASSUME Init PROVE TypeOK
  OBVIOUS
<1>1. /\ pc \in [Actor -> DaemonPc \cup ClientPc]
      /\ pc[Daemon] \in DaemonPc
      /\ \A c \in Client : pc[c] \in ClientPc
  BY DaemonAssumption DEF Init, Actor, DaemonPc, ClientPc, DownPc
<1>2. /\ inventory \in [Device -> Reachability]
      /\ proc \in [Pid -> ProcState]
      /\ serving \in [Pid -> SUBSET Device]
      /\ target \in [Actor -> Pid \cup {NoPid}]
  BY DEF Init, Reachability, ProcState
<1>3. ctx \in Context /\ slips \subseteq Slip
  BY DEF Init, Context
<1> QED BY <1>1, <1>2, <1>3 DEF Init, TypeOK

\* and so in every step.
LEMMA NextType ==
  ASSUME TypeOK, [Next]_vars
  PROVE  TypeOK'
<1>1. CASE Next
  BY <1>1, NextCases, StopStepType, StartStepType, DaemonStepType, EngineStepType,
     ClientStepType
<1>2. CASE UNCHANGED vars
  BY <1>2 DEF vars, TypeOK
<1> QED BY <1>1, <1>2

\* Every variable keeps its type, whatever the daemon, the commands and the
\* processes do and wherever the container dies.
THEOREM TypeCorrect == Spec => []TypeOK
BY InitType, NextType, PTL DEF Spec

-----------------------------------------------------------------------------
(* Which process may be live, given where the daemon stands.               *)

Tracked ==
  /\ TypeOK
  /\ FreshIsSettling
  /\ NothingBeforeStart
  /\ Quieted
  /\ NoOrphan

\* Nothing runs in the beginning.
LEMMA InitTracked == Init => Tracked
BY InitType, NoPidAssumption, BlankAssumption, DaemonAssumption
DEF Init, Tracked, FreshIsSettling, NothingBeforeStart, Quieted, NoOrphan, Lost, Live, Actor

\* When the container goes, no process is left to lose.
LEMMA ContainerGoneTracked ==
  ASSUME TypeOK, NEW l \in DownPc, ContainerGone(l), TypeOK'
  PROVE  (FreshIsSettling /\ NothingBeforeStart /\ Quieted /\ NoOrphan)'
BY NoPidAssumption, BlankAssumption, DaemonAssumption
DEF ContainerGone, DownPc, Actor, FreshIsSettling, NothingBeforeStart, Quieted,
    NoOrphan, Lost, Live, TypeOK

\* A stop deletes the pid file only after the process has ended,
LEMMA StopStepTracked ==
  ASSUME Tracked, NEW a \in Actor, StopStep(a), TypeOK'
  PROVE  Tracked'
<1> USE NoPidAssumption, BlankAssumption, DaemonAssumption
        DEF Tracked, TypeOK, Actor, FreshIsSettling, NothingBeforeStart, Empty, Quieted,
            NoOrphan, Lost, Live, DownPc
<1>1. CASE StopRead(a)
  BY <1>1 DEF StopRead, Exists
<1>2. CASE StopGone(a)
  BY <1>2 DEF StopGone
<1>3. CASE StopTimeout(a)
  BY <1>3 DEF StopTimeout, Exists
<1>4. CASE StopExists(a)
  BY <1>4 DEF StopExists, AfterStop
<1>5. CASE StopUnlink(a)
  BY <1>5 DEF StopUnlink, AfterStop
<1>6. CASE StopUnlinkRaises(a)
  <2>1. CASE a # Daemon
    BY <1>6, <2>1 DEF StopUnlinkRaises
  <2>2. CASE a = Daemon /\ ctx = "restart"
    BY <1>6, <2>2 DEF StopUnlinkRaises
  <2>3. CASE a = Daemon /\ ctx # "restart"
    <3>1. Ended \in DownPc /\ ContainerGone(Ended)
      BY <1>6, <2>3 DEF StopUnlinkRaises, Ended
    <3> QED BY <3>1, ContainerGoneTracked
  <2> QED BY <2>1, <2>2, <2>3
<1> QED BY <1>1, <1>2, <1>3, <1>4, <1>5, <1>6 DEF StopStep

\* a start writes it for the process it has made,
LEMMA StartStepTracked ==
  ASSUME Tracked, StartStep \/ StartRaises \/ StopRaises, TypeOK'
  PROVE  Tracked'
<1> USE NoPidAssumption, BlankAssumption, DaemonAssumption
        DEF Tracked, TypeOK, Actor, FreshIsSettling, NothingBeforeStart, Empty, Quieted,
            NoOrphan, Lost, Live, DownPc
<1>1. CASE Reconcile
  BY <1>1 DEF Reconcile, Reaped
<1>2. CASE Spawn
  BY <1>2 DEF Spawn, Reaped, Unused
<1>3. CASE SettleOpen
  BY <1>3 DEF SettleOpen
<1>4. CASE SettleWrite
  BY <1>4 DEF SettleWrite
<1>5. CASE SettleDead
  BY <1>5 DEF SettleDead, Caught
<1>6. CASE Record
  BY <1>6 DEF Record
<1>7. CASE StartRaises
  BY <1>7 DEF StartRaises, Caught, Reachable, Reaped
<1>8. CASE StopRaises
  BY <1>8 DEF StopRaises, Caught, StopPc
<1> QED BY <1>1, <1>2, <1>3, <1>4, <1>5, <1>6, <1>7, <1>8 DEF StartStep

\* the loop makes no process,
LEMMA DaemonStepTracked ==
  ASSUME Tracked, TypeOK',
         BootCheck \/ Discard \/ Top \/ Poll \/ Shutdown
         \/ Boot \/ Reboot \/ BootFails \/ Crash \/ Sigterm \/ Sigusr1
  PROVE  Tracked'
<1> USE NoPidAssumption, BlankAssumption, DaemonAssumption
        DEF Tracked, TypeOK, Actor, FreshIsSettling, NothingBeforeStart, Empty, Quieted,
            NoOrphan, Lost, Live, DownPc
<1>1. CASE BootCheck
  BY <1>1 DEF BootCheck
<1>2. CASE Discard
  BY <1>2 DEF Discard
<1>3. CASE Top
  BY <1>3 DEF Top
<1>4. CASE Poll
  BY <1>4 DEF Poll
<1>5. CASE Shutdown
  BY <1>5, ContainerGoneTracked DEF Shutdown
<1>6. CASE Boot \/ Reboot
  BY <1>6 DEF Boot, Reboot, EnterDaemon, AutoStart
<1>10. CASE BootFails
  BY <1>10 DEF BootFails, AutoStart, Up
<1>7. CASE Crash
  <2>1. Ended \in DownPc
    BY DEF Ended
  <2> QED BY <1>7, <2>1, ContainerGoneTracked DEF Crash
<1>8. CASE Sigterm
  BY <1>8 DEF Sigterm
<1>9. CASE Sigusr1
  BY <1>9 DEF Sigusr1
<1> QED BY <1>1, <1>2, <1>3, <1>4, <1>5, <1>6, <1>7, <1>8, <1>9, <1>10

\* an engine that ends leaves nothing to lose,
LEMMA EngineStepTracked ==
  ASSUME Tracked, TypeOK', NEW p \in Pid,
         EngineBinds(p) \/ EngineExit(p) \/ EngineDies(p)
  PROVE  Tracked'
<1> USE NoPidAssumption, BlankAssumption, DaemonAssumption
        DEF Tracked, TypeOK, FreshIsSettling, NothingBeforeStart, Empty, Quieted, NoOrphan,
            Lost, Live, Ends, Actor, DownPc, ProcState
<1>1. CASE EngineBinds(p)
  BY <1>1 DEF EngineBinds
<1>2. CASE EngineExit(p)
  BY <1>2 DEF EngineExit
<1>3. CASE EngineDies(p)
  BY <1>3 DEF EngineDies
<1> QED BY <1>1, <1>2, <1>3

\* A command touches neither a process nor the pid file, outside stop_snmpsim().
LEMMA ClientStepFrame ==
  ASSUME TypeOK, NEW c \in Client,
         \/ Edit(c) \/ EditCheck(c) \/ Request(c)
         \/ StartLab(c) \/ CreateDevice(c) \/ CreateRaises(c)
         \/ StartMark(c) \/ Reload(c) \/ Stop(c) \/ Disable(c) \/ Abort(c)
  PROVE  /\ UNCHANGED <<pidfile, host, local>>
         /\ pc'[Daemon] = pc[Daemon]
         /\ slips \subseteq slips'
BY DaemonAssumption
DEF TypeOK, Actor, Edit, EditCheck, Request, StartLab, CreateDevice, CreateRaises,
    StartMark, Reload, Stop, Disable, Abort

\* and what a command changes of the processes it changes by a stop.
LEMMA ClientStepTracked ==
  ASSUME Tracked, TypeOK', NEW c \in Client,
         \/ Edit(c) \/ EditCheck(c) \/ Request(c)
         \/ StartLab(c) \/ CreateDevice(c) \/ CreateRaises(c)
         \/ StartMark(c) \/ Reload(c) \/ Stop(c) \/ Disable(c) \/ Abort(c)
  PROVE  Tracked'
<1>1. /\ UNCHANGED <<pidfile, host, local>>
      /\ pc'[Daemon] = pc[Daemon]
      /\ slips \subseteq slips'
  BY ClientStepFrame DEF Tracked
<1> QED BY <1>1
        DEF Tracked, FreshIsSettling, NothingBeforeStart, Empty, Quieted, NoOrphan, Lost, Live

\* Together: every step keeps Tracked.
LEMMA NextTracked ==
  ASSUME Tracked, [Next]_vars
  PROVE  Tracked'
<1>1. TypeOK'
  BY NextType DEF Tracked
<1>2. CASE Next
  BY <1>1, <1>2, NextCases, StopStepTracked, StartStepTracked, DaemonStepTracked,
     EngineStepTracked, ClientStepTracked
<1>3. CASE UNCHANGED vars
  BY <1>1, <1>3
  DEF vars, Tracked, FreshIsSettling, NothingBeforeStart, Empty, Quieted, NoOrphan, Lost, Live
<1> QED BY <1>2, <1>3

(***************************************************************************)
(* However stop commands, restarts, signals, crashes and slow engines      *)
(* interleave, an engine that nobody has told to end is named by           *)
(* snmpsim.pid or is the one start_snmpsim() is waiting for, until some    *)
(* stop_snmpsim() removes the file of an engine it did not stop or some    *)
(* start_snmpsim() raises before it has written the pid of its own.        *)
(***************************************************************************)
THEOREM OrphanFree == Spec => []NoOrphan
<1>1. Spec => []Tracked
  BY InitTracked, NextTracked, PTL DEF Spec
<1>2. Tracked => NoOrphan
  BY DEF Tracked
<1> QED BY <1>1, <1>2, PTL

-----------------------------------------------------------------------------
(* How far what a live engine serves may lag behind the inventory.         *)

\* Nothing has been read in the beginning.
LEMMA InitCurrent == Init => CurrentOrOwed
BY NoPidAssumption, BlankAssumption, DaemonAssumption DEF Init, CurrentOrOwed

\* A step after which some command still runs, or the flag is up, owes a reload.
LEMMA OwedSuffices == Owed' => CurrentOrOwed'
BY DEF CurrentOrOwed

\* In most places the daemon makes no claim about what is served.
LEMMA ElsewhereCurrent ==
  ASSUME pc'[Daemon] \notin {"spawn", "settle", "write", "record", "discard", "top", "poll"}
  PROVE  CurrentOrOwed'
BY DEF CurrentOrOwed, Current

\* Without a container nothing has been read that could be out of date.
LEMMA ContainerGoneCurrent ==
  ASSUME NEW l \in DownPc, ContainerGone(l)
  PROVE  CurrentOrOwed'
BY ElsewhereCurrent DEF ContainerGone, DownPc, Actor

\* A stopped engine serves nothing that could be out of date.
LEMMA StopStepCurrent ==
  ASSUME IInv, NEW a \in Actor, StopStep(a), Tracked'
  PROVE  CurrentOrOwed'
<1> USE NoPidAssumption, BlankAssumption, DaemonAssumption
        DEF IInv, TypeOK, Actor, DownPc
<1>1. CASE StopUnlinkRaises(a)
  <2>1. CASE a # Daemon
    BY <1>1, <2>1 DEF StopUnlinkRaises, CurrentOrOwed
  <2>2. CASE a = Daemon /\ ctx = "restart"
    BY <1>1, <2>2 DEF StopUnlinkRaises, CurrentOrOwed, Current, Live
  <2>3. CASE a = Daemon /\ ctx # "restart"
    <3>1. Ended \in DownPc /\ ContainerGone(Ended)
      BY <1>1, <2>3 DEF StopUnlinkRaises, Ended
    <3> QED BY <3>1, ContainerGoneCurrent
  <2> QED BY <2>1, <2>2, <2>3
<1>2. CASE a = Daemon /\ ~StopUnlinkRaises(a)
  <2>1. CASE StopRead(a)
    <3>1. pc'[Daemon] \in {"stop_wait", "stop_exists"}
      BY <1>2, <2>1 DEF StopRead
    <3> QED BY <3>1, ElsewhereCurrent
  <2>2. CASE StopGone(a) \/ StopTimeout(a)
    <3>1. pc'[Daemon] = "stop_exists"
      BY <1>2, <2>2 DEF StopGone, StopTimeout
    <3> QED BY <3>1, ElsewhereCurrent
  <2>3. CASE StopExists(a) \/ StopUnlink(a)
    <3>1. AfterStop(a) \in {"reconcile", "disable", "top"}
      BY <1>2 DEF AfterStop
    <3>2. pc'[Daemon] = "stop_unlink" \/ (pc'[Daemon] = AfterStop(a) /\ pidfile' = NoPid)
      <4>1. CASE StopUnlink(a)
        BY <1>2, <4>1 DEF StopUnlink
      <4>2. CASE StopExists(a) /\ pidfile = NoPid
        BY <1>2, <4>2 DEF StopExists
      <4>3. CASE StopExists(a) /\ pidfile # NoPid
        BY <1>2, <4>3 DEF StopExists
      <4> QED BY <2>3, <4>1, <4>2, <4>3
    <3> QED BY <3>1, <3>2, ElsewhereCurrent DEF CurrentOrOwed, Current, Live
  <2> QED BY <1>2, <2>1, <2>2, <2>3 DEF StopStep
<1>3. CASE a # Daemon /\ ~StopUnlinkRaises(a)
  <2>1. a \in Client
    BY <1>3
  <2>2. pc'[a] \in {"stop_wait", "stop_exists", "stop_unlink", "disable"}
    BY <1>3
    DEF StopStep, StopRead, StopGone, StopTimeout, StopExists, StopUnlink, AfterStop
  <2> QED BY <2>1, <2>2, OwedSuffices DEF Owed
<1> QED BY <1>1, <1>2, <1>3

\* A start serves the rows it has read; an edit since then has asked for a reload.
LEMMA StartStepCurrent ==
  ASSUME IInv, StartStep \/ StartRaises \/ StopRaises
  PROVE  CurrentOrOwed'
<1> USE NoPidAssumption, BlankAssumption, DaemonAssumption
        DEF IInv, TypeOK, Actor, CurrentOrOwed, Current, Owed, Reachable, Live
<1>1. CASE Reconcile
  BY <1>1 DEF Reconcile
<1>2. CASE Spawn
  BY <1>2 DEF Spawn
<1>3. CASE SettleOpen
  BY <1>3 DEF SettleOpen
<1>4. CASE SettleWrite
  BY <1>4 DEF SettleWrite, Quieted
<1>5. CASE SettleDead
  BY <1>5 DEF SettleDead, Caught, Accounted
<1>6. CASE Record
  BY <1>6 DEF Record, Accounted
<1>7. CASE StartRaises
  BY <1>7 DEF StartRaises, Caught, Accounted
<1>8. CASE StopRaises
  BY <1>8 DEF StopRaises, Caught, Accounted
<1> QED BY <1>1, <1>2, <1>3, <1>4, <1>5, <1>6, <1>7, <1>8 DEF StartStep

\* The loop takes up a request only to serve it.
LEMMA DaemonStepCurrent ==
  ASSUME IInv, BootCheck \/ Discard \/ Top \/ Poll \/ Shutdown
               \/ Boot \/ Reboot \/ BootFails \/ Crash \/ Sigterm \/ Sigusr1
  PROVE  CurrentOrOwed'
<1> USE NoPidAssumption, BlankAssumption, DaemonAssumption DEF IInv, TypeOK, Actor
<1>1. CASE BootCheck
  BY <1>1 DEF BootCheck, CurrentOrOwed, Current, Live, NothingBeforeStart, Empty
<1>2. CASE Discard
  BY <1>2 DEF Discard, CurrentOrOwed, Current, Owed, Live, Accounted, Reachable
<1>3. CASE Top
  BY <1>3 DEF Top, CurrentOrOwed, Current, Owed, Live, Accounted, Reachable
<1>4. CASE Poll
  BY <1>4 DEF Poll, CurrentOrOwed, Current, Owed, Live, Accounted, Reachable, Exists
<1>5. CASE Shutdown
  BY <1>5, ContainerGoneCurrent DEF Shutdown, DownPc
<1>6. CASE Boot \/ Reboot
  BY <1>6, ElsewhereCurrent DEF Boot, Reboot, EnterDaemon
<1>10. CASE BootFails
  BY <1>10, ElsewhereCurrent DEF BootFails, DownPc
<1>7. CASE Crash
  <2>1. Ended \in DownPc
    BY DEF Ended, DownPc
  <2> QED BY <1>7, <2>1, ContainerGoneCurrent DEF Crash
<1>8. CASE Sigterm
  BY <1>8 DEF Sigterm, CurrentOrOwed, Current, Owed, Live, Accounted, Reachable
<1>9. CASE Sigusr1
  BY <1>9, OwedSuffices DEF Sigusr1, Owed
<1> QED BY <1>1, <1>2, <1>3, <1>4, <1>5, <1>6, <1>7, <1>8, <1>9, <1>10

\* An engine that ends no longer serves anything.
LEMMA EngineStepCurrent ==
  ASSUME IInv, NEW p \in Pid, EngineBinds(p) \/ EngineExit(p) \/ EngineDies(p)
  PROVE  CurrentOrOwed'
<1> USE NoPidAssumption
    DEF IInv, TypeOK, ProcState, CurrentOrOwed, Current, Owed, Reachable, Live,
        Accounted, Ends, FreshIsSettling
<1>1. CASE EngineBinds(p)
  BY <1>1 DEF EngineBinds
<1>2. CASE EngineExit(p)
  BY <1>2 DEF EngineExit
<1>3. CASE EngineDies(p)
  BY <1>3 DEF EngineDies
<1> QED BY <1>1, <1>2, <1>3

\* An edit is followed by its own request.
LEMMA ClientStepCurrent ==
  ASSUME IInv, NEW c \in Client,
         \/ Edit(c) \/ EditCheck(c) \/ Request(c)
         \/ StartLab(c) \/ CreateDevice(c) \/ CreateRaises(c)
         \/ StartMark(c) \/ Reload(c) \/ Stop(c) \/ Disable(c) \/ Abort(c)
  PROVE  CurrentOrOwed'
<1> USE DaemonAssumption DEF IInv, TypeOK, Actor
<1>1. CASE Edit(c)
  BY <1>1, OwedSuffices DEF Edit, Owed
<1>2. CASE EditCheck(c)
  <2>1. CASE enabled
    BY <1>2, <2>1, OwedSuffices DEF EditCheck, Owed
  <2>2. CASE ~enabled
    BY <1>2, <2>2 DEF EditCheck, CurrentOrOwed
  <2> QED BY <2>1, <2>2
<1>3. CASE Request(c)
  BY <1>3, OwedSuffices DEF Request, Owed
<1>4. CASE StartLab(c)
  BY <1>4, OwedSuffices DEF StartLab, Owed
<1>5. CASE CreateDevice(c)
  BY <1>5, OwedSuffices DEF CreateDevice, Owed
<1>6. CASE CreateRaises(c) \/ Abort(c)
  BY <1>6 DEF CreateRaises, Abort, CurrentOrOwed
<1>7. CASE StartMark(c)
  BY <1>7, OwedSuffices DEF StartMark, Owed
<1>8. CASE Reload(c)
  BY <1>8, OwedSuffices DEF Reload, Owed
<1>9. CASE Stop(c)
  BY <1>9, OwedSuffices DEF Stop, Owed
<1>10. CASE Disable(c)
  BY <1>10 DEF Disable, CurrentOrOwed
<1> QED BY <1>1, <1>2, <1>3, <1>4, <1>5, <1>6, <1>7, <1>8, <1>9, <1>10

\* Together: every step keeps the invariant.
LEMMA NextIInv ==
  ASSUME IInv, [Next]_vars
  PROVE  IInv'
<1>1. Tracked /\ Tracked'
  BY NextTracked DEF IInv, Tracked
<1>2. CASE Next
  BY <1>1, <1>2, NextCases, StopStepCurrent, StartStepCurrent, DaemonStepCurrent,
     EngineStepCurrent, ClientStepCurrent DEF IInv, Tracked
<1>3. CASE UNCHANGED vars
  BY <1>1, <1>3
  DEF vars, IInv, Tracked, CurrentOrOwed, Current, Owed, Reachable, Live, Accounted
<1> QED BY <1>2, <1>3

\* The invariant the next theorem follows from: the two claims above, together.
THEOREM Inductive == Spec => []IInv
<1>1. Init => IInv
  BY InitTracked, InitCurrent DEF IInv, Tracked
<1> QED BY <1>1, NextIInv, PTL DEF Spec

(***************************************************************************)
(* However commands, restarts and crashes interleave, the daemon never     *)
(* rests beside an enabled engine that serves another lab than the         *)
(* inventory's without a reload on its way or a last_error that says why,  *)
(* as long as no request was discarded at start-up, no stop was undone, no *)
(* command died half way and the aliases could be listed.                  *)
(***************************************************************************)
THEOREM DriftIsAnnounced == Spec => []NoSilentDrift
<1>1. IInv => NoSilentDrift
  BY DEF IInv, NoSilentDrift, CurrentOrOwed, Current
<1> QED BY <1>1, Inductive, PTL

-----------------------------------------------------------------------------
(* Supervisor implements EngineService.                                    *)

LiveEngines == {p \in Pid : Live(p)}

\* The three ways in which a step of Supervisor is one of EngineService.
LEMMA OnlyEnds ==
  ASSUME LiveEngines' \subseteq LiveEngines,
         \A p \in LiveEngines' : serving'[p] = serving[p],
         UNCHANGED inventory, Lost' <=> Lost
  PROVE  Service!Next
BY DEF Service!Next, Service!End, LiveEngines, Reachable

\* A step that touches no process is one of the service's, or none.
LEMMA OnlyLab ==
  ASSUME UNCHANGED <<proc, serving>>, Lost' <=> Lost
  PROVE  Service!Next
<1>1. LiveEngines' = LiveEngines
  BY DEF LiveEngines, Live
<1> QED BY <1>1 DEF Service!Next, Service!ChangeLab, LiveEngines

\* A step after which an engine may have been lost, and that changes nothing else.
LEMMA LoseOrLab ==
  ASSUME UNCHANGED <<inventory, serving>>, LiveEngines' = LiveEngines,
         Lost' \/ slips' = slips
  PROVE  Service!Next
BY DEF Service!Next, Service!Lose, Service!ChangeLab, LiveEngines, Reachable, Lost

\* A stop is the service's,
LEMMA StopStepService ==
  ASSUME Tracked, NEW a \in Actor, StopStep(a)
  PROVE  Service!Next
<1> USE DEF Tracked, TypeOK, Live, LiveEngines, Lost
<1>1. CASE StopRead(a)
  BY <1>1, OnlyEnds, NoPidAssumption DEF StopRead, Exists
<1>2. CASE StopGone(a) \/ StopExists(a)
  BY <1>2, OnlyEnds DEF StopGone, StopExists
<1>3. CASE StopTimeout(a)
  BY <1>3, OnlyEnds DEF StopTimeout
<1>4. CASE StopUnlink(a)
  <2>1. UNCHANGED <<inventory, proc, serving>>
    BY <1>4 DEF StopUnlink
  <2>2. CASE Live(pidfile)
    <3>1. Lost'
      BY <1>4, <2>2 DEF StopUnlink
    <3> QED BY <2>1, <3>1 DEF Service!Next, Service!Lose, Reachable
  <2>3. CASE ~Live(pidfile)
    BY <1>4, <2>1, <2>3, OnlyEnds DEF StopUnlink
  <2> QED BY <2>2, <2>3
<1>5. CASE StopUnlinkRaises(a)
  BY <1>5, OnlyEnds DEF StopUnlinkRaises, ContainerGone
<1> QED BY <1>1, <1>2, <1>3, <1>4, <1>5 DEF StopStep

\* The one step that starts an engine starts it when no other is left.
LEMMA SpawnService ==
  ASSUME Tracked, Spawn
  PROVE  Service!Next
<1>1. PICK p \in Pid :
        /\ Unused(p)
        /\ proc' = [Reaped EXCEPT ![p] = "starting"]
        /\ \/ serving' = [serving EXCEPT ![p] = Reachable \cap bound]
           \/ serving' = [serving EXCEPT ![p] = {}]
  BY DEF Spawn
<1>2. UNCHANGED inventory /\ Lost' = Lost
  BY DEF Spawn, Lost
<1>3. p \notin LiveEngines
  BY <1>1 DEF Unused, Reaped, LiveEngines, Live
<1>4. LiveEngines' = LiveEngines \cup {p}
  BY <1>1, NoPidAssumption DEF Reaped, LiveEngines, Live, Tracked, TypeOK
<1>5. LiveEngines = {} \/ Lost
  <2>1. ~Live(pidfile) /\ fresh = NoPid
    BY DEF Spawn, Tracked, Quieted, FreshIsSettling
  <2> QED BY <2>1, NoPidAssumption DEF Tracked, NoOrphan, LiveEngines, Live
<1>6. serving'[p] \subseteq Reachable /\ \A q \in LiveEngines : serving'[q] = serving[q]
  BY <1>1, <1>3 DEF Tracked, TypeOK, LiveEngines
<1>7. Service!Start(p)
  BY <1>2, <1>3, <1>4, <1>5, <1>6 DEF Service!Start, LiveEngines, Reachable
<1> QED BY <1>2, <1>6, <1>7 DEF Service!Next, LiveEngines

\* and so is a start;
LEMMA StartStepService ==
  ASSUME Tracked, StartStep \/ StartRaises \/ StopRaises
  PROVE  Service!Next
<1> USE DEF Tracked, TypeOK, Live, LiveEngines, Lost
<1>1. CASE Reconcile
  BY <1>1, OnlyEnds DEF Reconcile, Reaped
<1>2. CASE Spawn
  BY <1>2, SpawnService
<1>3. CASE SettleOpen \/ Record
  BY <1>3, OnlyLab DEF SettleOpen, Record, Lost
<1>4. CASE SettleDead
  BY <1>4, OnlyEnds DEF SettleDead, Caught
<1>5. CASE SettleWrite
  <2>1. UNCHANGED <<inventory, proc, serving>>
    BY <1>5 DEF SettleWrite
  <2>2. Lost' \/ slips' = slips
    BY <1>5 DEF SettleWrite, Lost
  <2> QED BY <2>1, <2>2, LoseOrLab
<1>6. CASE StartRaises
  <2>1. UNCHANGED <<inventory, serving>> /\ LiveEngines' = LiveEngines
    BY <1>6 DEF StartRaises, Caught, Reaped
  <2>2. Lost' \/ slips' = slips
    BY <1>6 DEF StartRaises, Lost
  <2> QED BY <2>1, <2>2, LoseOrLab
<1>7. CASE StopRaises
  BY <1>7, OnlyLab DEF StopRaises, Caught, Lost
<1> QED BY <1>1, <1>2, <1>3, <1>4, <1>5, <1>6, <1>7 DEF StartStep

\* the loop of the daemon,
LEMMA DaemonStepService ==
  ASSUME Tracked, BootCheck \/ Discard \/ Top \/ Poll \/ Shutdown
                  \/ Boot \/ Reboot \/ BootFails \/ Crash \/ Sigterm \/ Sigusr1
  PROVE  Service!Next
<1>1. CASE BootCheck \/ Discard \/ Top \/ Poll \/ Sigterm \/ Sigusr1
  BY <1>1, OnlyLab DEF BootCheck, Discard, Top, Poll, Sigterm, Sigusr1, Lost
<1>2. CASE Boot \/ Reboot \/ BootFails
  BY <1>2, OnlyLab DEF Boot, Reboot, BootFails, EnterDaemon, Lost
<1>3. CASE Shutdown \/ Crash
  BY <1>3, OnlyEnds DEF Shutdown, Crash, ContainerGone, LiveEngines, Live, Lost
<1> QED BY <1>1, <1>2, <1>3

\* the engine process
LEMMA EngineStepService ==
  ASSUME Tracked, NEW p \in Pid, EngineBinds(p) \/ EngineExit(p) \/ EngineDies(p)
  PROVE  Service!Next
<1> USE DEF Tracked, TypeOK, Live, LiveEngines, Ends, Lost
<1>1. CASE EngineBinds(p)
  BY <1>1, OnlyEnds DEF EngineBinds
<1>2. CASE EngineExit(p) \/ EngineDies(p)
  BY <1>2, OnlyEnds DEF EngineExit, EngineDies
<1> QED BY <1>1, <1>2

\* and the commands take only steps the service allows.
LEMMA ClientStepService ==
  ASSUME Tracked, NEW c \in Client,
         \/ Edit(c) \/ EditCheck(c) \/ Request(c)
         \/ StartLab(c) \/ CreateDevice(c) \/ CreateRaises(c)
         \/ StartMark(c) \/ Reload(c) \/ Stop(c) \/ Disable(c) \/ Abort(c)
  PROVE  Service!Next
<1>1. UNCHANGED <<proc, serving>>
  BY ClientStepFrame DEF Tracked
<1>2. slips' = slips \/ slips' = slips \cup {"aborted"}
  BY DEF Edit, EditCheck, Request, StartLab, CreateDevice, CreateRaises,
         StartMark, Reload, Stop, Disable, Abort
<1> QED BY <1>1, <1>2, OnlyLab DEF Lost

(***************************************************************************)
(* For any number of commands and processes: the daemon never starts an    *)
(* engine beside one that nobody has told to end, starts it for devices    *)
(* that are reachable at that moment, and nothing changes what it serves,  *)
(* until some stop_snmpsim() removes the file of an engine it did not stop *)
(* or some start_snmpsim() raises before it has written the pid of its     *)
(* own.                                                                    *)
(***************************************************************************)
THEOREM ImplementsService == Spec => OneEngine
<1>1. Init => Service!Init
  BY NoPidAssumption DEF Init, Service!Init, Live, Lost
<1>2. ASSUME Tracked, [Next]_vars
      PROVE  [Service!Next]_<<Reachable, LiveEngines, serving, Lost>>
  <2>1. CASE Next
    BY <1>2, <2>1, NextCases, StopStepService, StartStepService, DaemonStepService,
       EngineStepService, ClientStepService
  <2>2. CASE UNCHANGED vars
    BY <2>2 DEF vars, Reachable, LiveEngines, Live, Lost
  <2> QED BY <1>2, <2>1, <2>2
<1>3. Spec => []Tracked
  BY InitTracked, NextTracked, PTL DEF Spec
<1> QED BY <1>1, <1>2, <1>3, PTL DEF Spec, OneEngine, Service!Spec, LiveEngines

=============================================================================
