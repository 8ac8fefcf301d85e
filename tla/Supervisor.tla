----------------------------- MODULE Supervisor -----------------------------
(***************************************************************************)
(* How the lab keeps one SNMPSim process alive and up to date.             *)
(*                                                                         *)
(* The daemon of simulator/engine/supervisor.py is PID 1 of the container. *)
(* It shares three things with the commands an operator runs through       *)
(* `docker compose exec`: the SQLite database (the Device rows and the     *)
(* singleton SimulationState row), two files of the run directory (the     *)
(* reload flag and snmpsim.pid) and the SNMPSim processes themselves.  No  *)
(* lock protects any of them.  Every step below is one access, or a run of *)
(* accesses between which nothing observable can be interleaved.           *)
(*                                                                         *)
(* Abstractions.  A device is its reachability; what is written to its     *)
(* data files is left to LabFiles, and configure_netflow(), which writes   *)
(* every field of the SimulationState row back, to Netflow: it does not    *)
(* run here. The NetFlow tick changes no variable of this module and is    *)
(* part of the pause in the loop.  The wall clock is left out, so a sleep  *)
(* is a point where anybody else may run and a wait that can time out may  *)
(* time out whenever it has not succeeded.  The kernel does not reuse a    *)
(* pid that somebody still remembers.                                      *)
(***************************************************************************)
EXTENDS Naturals, FiniteSets

CONSTANTS
  Device,   \* the device ids the lab can allocate
  Client,   \* operator commands that may be running at the same time
  Pid,      \* pids of SNMPSim processes
  NoPid,    \* no pid: an absent snmpsim.pid, or a command that read none
  Blank,    \* what snmpsim.pid says between open() and write()
  Daemon    \* the supervisor, the other actor

ASSUME NoPidAssumption  == NoPid \notin Pid
ASSUME BlankAssumption  == Blank \notin Pid \cup {NoPid}
ASSUME DaemonAssumption == Daemon \notin Client

VARIABLES
  inventory,  \* Device rows: absent, or present with a reachability
  enabled,    \* SimulationState.engine_enabled
  last_error, \* SimulationState.last_error: the devices whose IP it says could
              \* not be added, "exception" standing for any other text
  flag,       \* whether the reload flag file exists
  pidfile,    \* what snmpsim.pid says
  bound,      \* devices whose IP is an alias of the container's NIC
  proc,       \* SNMPSim processes, the daemon's children
  serving,    \* the devices a live process was told to serve on their own IP
  pc,         \* where each actor is
  target,     \* the pid an actor read in stop_snmpsim
  ctx,        \* daemon: what stop_snmpsim or start_snmpsim was called for
  seen,       \* daemon: state.engine_enabled as last read
  fresh,      \* daemon: the pid of the process start_snmpsim has spawned
  warnings,   \* daemon: what reconcile_ip_aliases returned
  stopping,   \* daemon: stopping["flag"]
  slips       \* history: which of the races named below have happened

db    == <<inventory, enabled, last_error>>
disk  == <<flag, pidfile>>
host  == <<bound, proc, serving>>
local == <<ctx, seen, fresh, warnings, stopping>>
vars  == <<inventory, enabled, last_error, flag, pidfile, bound, proc,
           serving, pc, target, ctx, seen, fresh, warnings, stopping, slips>>

Actor == Client \cup {Daemon}

Reachability == {"absent", "up", "down"}
ProcState    == {"none", "starting", "running", "term", "killed", "zombie"}
Context      == {"boot", "restart", "idle", "shutdown"}

StopPc   == {"stop_read", "stop_wait", "stop_exists", "stop_unlink"}
StartPc  == {"reconcile", "spawn", "settle", "write", "record"}
DownPc   == {"down", "crashed"}
DaemonPc == DownPc \cup StopPc \cup StartPc
              \cup {"boot", "discard", "top", "poll", "disable"}
ClientPc == StopPc
              \cup {"idle", "check", "request", "create", "mark", "disable"}

(***************************************************************************)
(* The races the code does not guard against, kept as history so that an   *)
(* invariant can say what holds when a given one has not happened:         *)
(*   discarded  the start-up consume_reload() threw away a request for a   *)
(*              change that the engine it has just started does not know   *)
(*   revived    start_snmpsim() re-enabled an engine that was stopped      *)
(*   unlinked   snmpsim.pid was removed while it named a live engine, or   *)
(*              was about to                                               *)
(*   aborted    a command died before the reload or the stop it owed       *)
(*   died       an engine ended after start_snmpsim() had checked on it    *)
(* and the failures it does not recover from:                              *)
(*   unrecorded start_snmpsim() raised with an engine spawned and its pid  *)
(*              not written                                                *)
(*   interrupted  a restart raised between the signal to the old engine    *)
(*              and the removal of snmpsim.pid                             *)
(*   unlisted   the aliases could not be listed for the command line       *)
(***************************************************************************)
Slip == {"discarded", "revived", "unlinked", "aborted", "died",
         "unrecorded", "interrupted", "unlisted"}

TypeOK ==
  /\ inventory \in [Device -> Reachability]
  /\ enabled \in BOOLEAN
  /\ last_error \subseteq Device \cup {"exception"}
  /\ flag \in BOOLEAN
  /\ pidfile \in Pid \cup {NoPid, Blank}
  /\ bound \subseteq Device
  /\ proc \in [Pid -> ProcState]
  /\ serving \in [Pid -> SUBSET Device]
  /\ pc \in [Actor -> DaemonPc \cup ClientPc]
  /\ pc[Daemon] \in DaemonPc
  /\ \A c \in Client : pc[c] \in ClientPc
  /\ target \in [Actor -> Pid \cup {NoPid}]
  /\ ctx \in Context
  /\ seen \in BOOLEAN
  /\ fresh \in Pid \cup {NoPid}
  /\ warnings \subseteq Device
  /\ stopping \in BOOLEAN
  /\ slips \subseteq Slip

(***************************************************************************)
(* Before the first boot: a fresh volume, where migrate has created the    *)
(* tables and SimulationState.get() the row with engine_enabled = False.   *)
(***************************************************************************)
Init ==
  /\ inventory = [d \in Device |-> "absent"]
  /\ enabled = FALSE
  /\ last_error = {}
  /\ flag = FALSE
  /\ pidfile = NoPid
  /\ bound = {}
  /\ proc = [p \in Pid |-> "none"]
  /\ serving = [p \in Pid |-> {}]
  /\ pc = [a \in Actor |-> IF a = Daemon THEN "down" ELSE "idle"]
  /\ target = [a \in Actor |-> NoPid]
  /\ ctx = "boot"
  /\ seen = FALSE
  /\ fresh = NoPid
  /\ warnings = {}
  /\ stopping = FALSE
  /\ slips = {}

-----------------------------------------------------------------------------
(* What the actors can observe.                                            *)

\* Device.objects.filter(reachability=Reachability.UP)
Reachable == {d \in Device : inventory[d] = "up"}

\* Device.objects.exists()
LabExists == \E d \in Device : inventory[d] # "absent"

\* pid_is_running: os.kill(pid, 0) also succeeds on a zombie.  To read_pid an
\* empty file is no pid.
Exists(p) == p \in Pid /\ proc[p] # "none"

\* A process that still holds its UDP endpoints.
Holds(p) == proc[p] \in {"running", "term", "killed"}

\* A process that nobody has told to end.
Live(p) == p \in Pid /\ proc[p] \in {"starting", "running"}

\* What a live engine serves is what the inventory and last_error say.
Accounted(p) == serving[p] = Reachable \ last_error \/ "exception" \in last_error

\* Every Popen(), that of an `ip` command too, first reaps the zombies of the
\* earlier Popen objects that were dropped.
Reaped == [p \in Pid |-> IF proc[p] = "zombie" THEN "none" ELSE proc[p]]

\* No pid file, actor or process stands for p.
Unused(p) ==
  /\ Reaped[p] = "none"
  /\ pidfile # p
  /\ \A a \in Actor : target[a] # p

Up == pc[Daemon] \notin DownPc

\* restart: unless-stopped, so after `docker stop` the container stays down.
Ended == IF stopping THEN "down" ELSE "crashed"

Goto(a, l) == pc' = [pc EXCEPT ![a] = l]

(***************************************************************************)
(* The container goes away: its pid and network namespaces go with it, and *)
(* so do the commands running in it.  The volume keeps the database, the   *)
(* flag and the pid file.                                                  *)
(***************************************************************************)
ContainerGone(l) ==
  /\ pc' = [a \in Actor |-> IF a = Daemon THEN l ELSE "idle"]
  /\ target' = [a \in Actor |-> NoPid]
  /\ proc' = [p \in Pid |-> "none"]
  /\ serving' = [p \in Pid |-> {}]
  /\ bound' = {}
  /\ ctx' = "boot"
  /\ seen' = FALSE
  /\ fresh' = NoPid
  /\ warnings' = {}
  /\ stopping' = FALSE

-----------------------------------------------------------------------------
(* stop_snmpsim(), run by the daemon and by the commands stop and reset.    *)

\* Mutant: the SIGTERM is forgotten.
StopReadUnsignalled(a) ==
  /\ pc[a] = "stop_read"
  /\ IF Exists(pidfile)
     THEN target' = [target EXCEPT ![a] = pidfile] /\ Goto(a, "stop_wait")
     ELSE UNCHANGED target /\ Goto(a, "stop_exists")
  /\ UNCHANGED <<db, disk, host, local, slips>>

\* Read the pid file; a process that exists gets SIGTERM.
StopRead(a) ==
  /\ pc[a] = "stop_read"
  /\ IF Exists(pidfile)
     THEN /\ target' = [target EXCEPT ![a] = pidfile]
          /\ proc' = [proc EXCEPT ![pidfile] = IF Live(pidfile) THEN "term" ELSE @]
          /\ serving' = [serving EXCEPT ![pidfile] = {}]
          /\ Goto(a, "stop_wait")
     ELSE /\ Goto(a, "stop_exists")
          /\ UNCHANGED <<target, proc, serving>>
  /\ UNCHANGED <<db, disk, bound, local, slips>>

\* One of the 30 polls finds that the process no longer exists.
StopGone(a) ==
  /\ pc[a] = "stop_wait"
  /\ ~Exists(target[a])
  /\ target' = [target EXCEPT ![a] = NoPid]
  /\ Goto(a, "stop_exists")
  /\ UNCHANGED <<db, disk, host, local, slips>>

(***************************************************************************)
(* The polls run out: SIGKILL, then os.waitpid(pid, WNOHANG), by which     *)
(* only the parent reaps the process, and only if it has ended by then.    *)
(***************************************************************************)
StopTimeout(a) ==
  /\ pc[a] = "stop_wait"
  /\ Exists(target[a])
  /\ \/ /\ a = Daemon
        /\ proc' = [proc EXCEPT ![target[a]] = "none"]
     \/ /\ a = Daemon => proc[target[a]] # "zombie"
        /\ proc' = [proc EXCEPT ![target[a]] = IF @ = "zombie" THEN @ ELSE "killed"]
  /\ target' = [target EXCEPT ![a] = NoPid]
  /\ Goto(a, "stop_exists")
  /\ UNCHANGED <<db, disk, bound, serving, local, slips>>

\* Mutant: a command that stops the engine starts it again, as a restart does.
AfterStopRestarts(a) == IF a = Daemon /\ ctx = "shutdown" THEN "disable" ELSE "reconcile"

\* Where the caller goes on when stop_snmpsim() returns.
AfterStop(a) ==
  IF a # Daemon THEN "disable"
  ELSE CASE ctx = "restart"  -> "reconcile"
         [] ctx = "shutdown" -> "disable"
         [] OTHER            -> "top"

StopExists(a) ==
  /\ pc[a] = "stop_exists"
  /\ Goto(a, IF pidfile # NoPid THEN "stop_unlink" ELSE AfterStop(a))
  /\ UNCHANGED <<db, disk, host, target, local, slips>>

StopUnlink(a) ==
  /\ pc[a] = "stop_unlink"
  /\ pidfile # NoPid
  /\ slips' = IF Live(pidfile) THEN slips \cup {"unlinked"} ELSE slips
  /\ pidfile' = NoPid
  /\ Goto(a, AfterStop(a))
  /\ UNCHANGED <<db, flag, host, target, local>>

(***************************************************************************)
(* Somebody else unlinked the file between the test and the unlink, which  *)
(* raises FileNotFoundError.  A command ends there, still owing the stop;  *)
(* the restart catches the exception; elsewhere it ends the daemon, PID 1. *)
(***************************************************************************)
StopUnlinkRaises(a) ==
  /\ pc[a] = "stop_unlink"
  /\ pidfile = NoPid
  /\ \/ /\ a # Daemon
        /\ Goto(a, "idle")
        /\ slips' = slips \cup {"aborted"}
        /\ UNCHANGED <<last_error, host, target, local>>
     \/ /\ a = Daemon /\ ctx = "restart"
        /\ Goto(a, "top")
        /\ last_error' = {"exception"}
        /\ ctx' = "idle"
        /\ UNCHANGED <<host, target, seen, fresh, warnings, stopping, slips>>
     \/ /\ a = Daemon /\ ctx # "restart"
        /\ ContainerGone(Ended)
        /\ UNCHANGED <<last_error, slips>>
  /\ UNCHANGED <<inventory, enabled, disk>>

StopStep(a) ==
  \/ StopRead(a)
  \/ StopGone(a)
  \/ StopTimeout(a)
  \/ StopExists(a)
  \/ StopUnlink(a)
  \/ StopUnlinkRaises(a)

-----------------------------------------------------------------------------
(* start_snmpsim(), run by the daemon only.                                *)

(***************************************************************************)
(* reconcile_ip_aliases(): the reachable devices' IPs are added, the other *)
(* lab IPs removed.  Adding one that is missing may fail, with a warning;  *)
(* removing one may fail without, and if the aliases cannot be listed none *)
(* is removed.                                                             *)
(***************************************************************************)
Reconcile ==
  /\ pc[Daemon] = "reconcile"
  /\ \E failed \in SUBSET (Reachable \ bound), kept \in SUBSET (bound \ Reachable) :
       /\ bound' = (Reachable \ failed) \cup kept
       /\ warnings' = failed
  /\ proc' = Reaped
  /\ Goto(Daemon, "spawn")
  /\ UNCHANGED <<db, disk, serving, target, ctx, seen, fresh, stopping, slips>>

\* Mutant: the command line names the aliases that are up, without asking
\* the inventory.
SpawnBound ==
  /\ pc[Daemon] = "spawn"
  /\ \E p \in Pid :
       /\ Unused(p)
       /\ fresh' = p
       /\ proc' = [Reaped EXCEPT ![p] = "starting"]
       /\ serving' = [serving EXCEPT ![p] = bound]
  /\ Goto(Daemon, "settle")
  /\ UNCHANGED <<db, disk, bound, target, ctx, seen, warnings, stopping, slips>>

(***************************************************************************)
(* build_snmpsim_args() reads the inventory again and lists the aliases;   *)
(* if it cannot list them it skips every device.  Popen() starts the       *)
(* process.                                                                *)
(***************************************************************************)
Spawn ==
  /\ pc[Daemon] = "spawn"
  /\ \E p \in Pid :
       /\ Unused(p)
       /\ fresh' = p
       /\ proc' = [Reaped EXCEPT ![p] = "starting"]
       /\ \/ /\ serving' = [serving EXCEPT ![p] = Reachable \cap bound]
             /\ UNCHANGED slips
          \/ /\ Reachable \cap bound # {}
             /\ serving' = [serving EXCEPT ![p] = {}]
             /\ slips' = slips \cup {"unlisted"}
  /\ Goto(Daemon, "settle")
  /\ UNCHANGED <<db, disk, bound, target, ctx, seen, warnings, stopping>>

\* After time.sleep(0.6), process.poll() is None: snmpsim.pid is opened, which
\* empties it,
SettleOpen ==
  /\ pc[Daemon] = "settle"
  /\ proc[fresh] # "zombie"
  /\ pidfile' = Blank
  /\ Goto(Daemon, "write")
  /\ UNCHANGED <<db, flag, host, target, local, slips>>

\* and written, whether or not it still has its name.
SettleWrite ==
  /\ pc[Daemon] = "write"
  /\ IF pidfile = Blank
     THEN pidfile' = fresh /\ UNCHANGED slips
     ELSE /\ slips' = IF Live(fresh) THEN slips \cup {"unlinked"} ELSE slips
          /\ UNCHANGED pidfile
  /\ fresh' = NoPid
  /\ Goto(Daemon, "record")
  /\ UNCHANGED <<db, flag, host, target, ctx, seen, warnings, stopping>>

\* start_snmpsim() raises: both callers catch and store the exception's text.
Caught == /\ Goto(Daemon, "top")
          /\ last_error' = {"exception"}
          /\ fresh' = NoPid
          /\ ctx' = "idle"
          /\ warnings' = {}
          /\ UNCHANGED <<seen, stopping>>

\* process.poll() reaped an engine that exited at once: SupervisorError.
SettleDead ==
  /\ pc[Daemon] = "settle"
  /\ proc[fresh] = "zombie"
  /\ proc' = [proc EXCEPT ![fresh] = "none"]
  /\ Caught
  /\ UNCHANGED <<inventory, enabled, disk, bound, serving, target, slips>>

\* Mutant: the flag is consumed after every start, as it is after the first.
RecordConsumes ==
  /\ pc[Daemon] = "record"
  /\ enabled' = TRUE
  /\ last_error' = warnings
  /\ flag' = FALSE
  /\ slips' = IF enabled THEN slips ELSE slips \cup {"revived"}
  /\ Goto(Daemon, IF ctx = "boot" THEN "discard" ELSE "top")
  /\ ctx' = "idle"
  /\ warnings' = {}
  /\ UNCHANGED <<inventory, pidfile, host, target, seen, fresh, stopping>>

\* engine_enabled = True, whatever it was; last_error = the warnings.
Record ==
  /\ pc[Daemon] = "record"
  /\ enabled' = TRUE
  /\ last_error' = warnings
  /\ slips' = IF enabled THEN slips ELSE slips \cup {"revived"}
  /\ Goto(Daemon, IF ctx = "boot" THEN "discard" ELSE "top")
  /\ ctx' = "idle"
  /\ warnings' = {}
  /\ UNCHANGED <<inventory, disk, host, target, seen, fresh, stopping>>

(***************************************************************************)
(* Anything else in start_snmpsim(), or in the consume_reload() after it,  *)
(* raises: a file race, a missing executable, a full disk, a locked        *)
(* database, there or in handle_reload(), which a SIGUSR1 runs anywhere.   *)
(* What was done by then stays done; `ip` is run by way of Popen().        *)
(***************************************************************************)
StartRaises ==
  /\ pc[Daemon] \in StartPc \cup {"discard"}
  /\ Caught
  /\ IF pc[Daemon] = "reconcile"
     THEN \E added \in SUBSET Reachable, kept \in SUBSET (bound \ Reachable) :
            bound' = (bound \cap Reachable) \cup added \cup kept
     ELSE UNCHANGED bound
  /\ IF pc[Daemon] \in {"reconcile", "spawn"}
     THEN proc' \in {proc, Reaped}
     ELSE UNCHANGED proc
  /\ slips' = IF Live(fresh) THEN slips \cup {"unrecorded"} ELSE slips
  /\ UNCHANGED <<inventory, enabled, disk, serving, target>>

(***************************************************************************)
(* The same in the stop_snmpsim() of a restart, the next try of which sees *)
(* an engine that still exists.  (Raising at the unlink leaves what        *)
(* raising before the test leaves.)                                        *)
(***************************************************************************)
StopRaises ==
  /\ ctx = "restart"
  /\ pc[Daemon] \in StopPc \ {"stop_unlink"}
  /\ Caught
  /\ target' = [target EXCEPT ![Daemon] = NoPid]
  /\ slips' = IF pc[Daemon] # "stop_read" /\ Exists(pidfile)
              THEN slips \cup {"interrupted"} ELSE slips
  /\ UNCHANGED <<inventory, enabled, disk, host>>

StartStep == Reconcile \/ Spawn \/ SettleOpen \/ SettleWrite \/ SettleDead \/ Record

-----------------------------------------------------------------------------
(* daemon_loop().                                                          *)

(***************************************************************************)
(* With SIMULATOR_AUTO_START the entrypoint runs `start --replace` first,  *)
(* all of it, or as far as it gets before it raises.                       *)
(***************************************************************************)
AutoStart ==
  /\ inventory' \in [Device -> Reachability]
  /\ \/ UNCHANGED <<enabled, last_error, flag>>
     \/ enabled' = TRUE /\ last_error' = {} /\ flag' \in {flag, TRUE}
  /\ UNCHANGED pidfile

\* The container starts and the entrypoint reaches daemon_loop(), after an
\* exception too.
EnterDaemon ==
  /\ Goto(Daemon, "boot")
  /\ AutoStart \/ UNCHANGED <<db, disk>>
  /\ UNCHANGED <<host, target, local, slips>>

\* `docker compose up` or start, by the operator or at boot.
Boot == pc[Daemon] = "down" /\ EnterDaemon

\* The restart policy of the container.
Reboot == pc[Daemon] = "crashed" /\ EnterDaemon

\* Or the entrypoint ends: the exceptions of a command that management knows,
\* as that there is no address left, leave it by sys.exit().
BootFails ==
  /\ ~Up
  /\ \E l \in DownPc : Goto(Daemon, l)
  /\ AutoStart
  /\ UNCHANGED <<host, target, local, slips>>

BootCheck ==
  /\ pc[Daemon] = "boot"
  /\ IF LabExists /\ enabled
     THEN Goto(Daemon, "reconcile") /\ UNCHANGED ctx
     ELSE Goto(Daemon, "top") /\ ctx' = "idle"
  /\ UNCHANGED <<db, disk, host, target, seen, fresh, warnings, stopping, slips>>

(***************************************************************************)
(* consume_reload() after the first start.  The flag may have been raised  *)
(* while start_snmpsim() was running, for a change it has not seen.        *)
(***************************************************************************)
Discard ==
  /\ pc[Daemon] = "discard"
  /\ slips' = IF flag /\ Live(pidfile) /\ ~Accounted(pidfile)
              THEN slips \cup {"discarded"} ELSE slips
  /\ flag' = FALSE
  /\ Goto(Daemon, "top")
  /\ UNCHANGED <<db, pidfile, host, target, local>>

\* The loop condition, the sleep and SimulationState.get().
Top ==
  /\ pc[Daemon] = "top"
  /\ IF stopping
     THEN ctx' = "shutdown" /\ Goto(Daemon, "stop_read") /\ UNCHANGED seen
     ELSE seen' = enabled /\ Goto(Daemon, "poll") /\ UNCHANGED ctx
  /\ UNCHANGED <<db, disk, host, target, fresh, warnings, stopping, slips>>

\* Mutants: a restart that does not stop first; a dead engine that is not noticed.
PollStarts ==
  /\ pc[Daemon] = "poll"
  /\ flag' = FALSE
  /\ seen' = FALSE
  /\ CASE seen /\ (flag \/ ~Exists(pidfile)) ->
            ctx' = "restart" /\ Goto(Daemon, "reconcile")
       [] ~seen /\ Exists(pidfile) ->
            ctx' = "idle" /\ Goto(Daemon, "stop_read")
       [] OTHER ->
            UNCHANGED ctx /\ Goto(Daemon, "top")
  /\ UNCHANGED <<db, pidfile, host, target, fresh, warnings, stopping, slips>>

PollReloadsOnly ==
  /\ pc[Daemon] = "poll"
  /\ flag' = FALSE
  /\ seen' = FALSE
  /\ CASE seen /\ flag              -> ctx' = "restart" /\ Goto(Daemon, "stop_read")
       [] ~seen /\ Exists(pidfile)  -> ctx' = "idle" /\ Goto(Daemon, "stop_read")
       [] OTHER                     -> UNCHANGED ctx /\ Goto(Daemon, "top")
  /\ UNCHANGED <<db, pidfile, host, target, fresh, warnings, stopping, slips>>

\* pid_is_running(read_pid(...)), consume_reload(), and what follows of them
\* and of the engine_enabled that was read before.
Poll ==
  /\ pc[Daemon] = "poll"
  /\ flag' = FALSE
  /\ seen' = FALSE
  /\ CASE seen /\ (flag \/ ~Exists(pidfile)) ->
            ctx' = "restart" /\ Goto(Daemon, "stop_read")
       [] ~seen /\ Exists(pidfile) ->
            ctx' = "idle" /\ Goto(Daemon, "stop_read")
       [] OTHER ->
            UNCHANGED ctx /\ Goto(Daemon, "top")
  /\ UNCHANGED <<db, pidfile, host, target, fresh, warnings, stopping, slips>>

\* mark_stopped() at the end of daemon_loop(); PID 1 returns.
Shutdown ==
  /\ pc[Daemon] = "disable"
  /\ enabled' = FALSE
  /\ ContainerGone("down")
  /\ UNCHANGED <<inventory, last_error, disk, slips>>

DaemonStep ==
  \/ StopStep(Daemon)
  \/ StartStep
  \/ BootCheck
  \/ Discard
  \/ Top
  \/ Poll
  \/ Shutdown

\* handle_stop: docker stop, docker restart, compose down.
Sigterm ==
  /\ Up
  /\ ~stopping
  /\ stopping' = TRUE
  /\ UNCHANGED <<db, disk, host, pc, target, ctx, seen, fresh, warnings, slips>>

\* handle_reload: request_reload() in the signal handler.
Sigusr1 ==
  /\ Up
  /\ ~flag
  /\ flag' = TRUE
  /\ UNCHANGED <<db, pidfile, host, pc, target, local, slips>>

\* The container is killed, or the daemon dies of an uncaught exception.
Crash ==
  /\ Up
  /\ ContainerGone(Ended)
  /\ UNCHANGED <<db, disk, slips>>

-----------------------------------------------------------------------------
(* The SNMPSim processes.  One that has ended is a zombie until the daemon  *)
(* reaps it.                                                               *)

Ends(p) ==
  /\ proc' = [proc EXCEPT ![p] = "zombie"]
  /\ serving' = [serving EXCEPT ![p] = {}]
  /\ slips' = IF Live(p) /\ ~(p = fresh /\ pc[Daemon] = "settle") THEN slips \cup {"died"} ELSE slips

\* It binds its endpoints, or exits because another process holds them.
EngineBinds(p) ==
  /\ proc[p] = "starting"
  /\ IF \E q \in Pid : Holds(q)
     THEN Ends(p)
     ELSE /\ proc' = [proc EXCEPT ![p] = "running"]
          /\ UNCHANGED <<serving, slips>>
  /\ UNCHANGED <<db, disk, bound, pc, target, local>>

\* It was signalled.
EngineExit(p) ==
  /\ proc[p] \in {"term", "killed"}
  /\ Ends(p)
  /\ UNCHANGED <<db, disk, bound, pc, target, local>>

\* It ends on its own.
EngineDies(p) ==
  /\ Live(p)
  /\ Ends(p)
  /\ UNCHANGED <<db, disk, bound, pc, target, local>>

-----------------------------------------------------------------------------
(* The commands.                                                           *)

(***************************************************************************)
(* add, remove, set-reachability (and set-traffic, update, which leave the *)
(* reachability alone): the row is committed first, the engine is told     *)
(* last, if it is enabled by then.                                         *)
(***************************************************************************)
Edit(c) ==
  /\ Up
  /\ pc[c] = "idle"
  /\ \E d \in Device, r \in Reachability : inventory' = [inventory EXCEPT ![d] = r]
  /\ Goto(c, "check")
  /\ UNCHANGED <<enabled, last_error, disk, host, target, local, slips>>

EditCheck(c) ==
  /\ pc[c] = "check"
  /\ Goto(c, IF enabled THEN "request" ELSE "idle")
  /\ UNCHANGED <<db, disk, host, target, local, slips>>

\* request_reload()
Request(c) ==
  /\ pc[c] = "request"
  /\ flag' = TRUE
  /\ Goto(c, "idle")
  /\ UNCHANGED <<db, pidfile, host, target, local, slips>>

\* start, on an empty lab or with --replace: the old lab is deleted first.
StartLab(c) ==
  /\ Up
  /\ pc[c] = "idle"
  /\ inventory' = [d \in Device |-> "absent"]
  /\ Goto(c, "create")
  /\ UNCHANGED <<enabled, last_error, disk, host, target, local, slips>>

\* create_lab_devices(): one row at a time, beside what others have added.
CreateDevice(c) ==
  /\ pc[c] = "create"
  /\ \E d \in Device, r \in {"up", "down"} :
       /\ inventory[d] = "absent"
       /\ inventory' = [inventory EXCEPT ![d] = r]
  /\ \/ Goto(c, "mark")
     \/ UNCHANGED pc
  /\ UNCHANGED <<enabled, last_error, disk, host, target, local, slips>>

\* No address is left: next_ip_address() raises, and the lab stays partial.
CreateRaises(c) ==
  /\ pc[c] = "create"
  /\ \A d \in Device : inventory[d] # "absent"
  /\ Goto(c, "idle")
  /\ slips' = slips \cup {"aborted"}
  /\ UNCHANGED <<db, disk, host, target, local>>

\* engine_enabled = True, last_error = ""
StartMark(c) ==
  /\ pc[c] = "mark"
  /\ enabled' = TRUE
  /\ last_error' = {}
  /\ Goto(c, "request")
  /\ UNCHANGED <<inventory, disk, host, target, local, slips>>

\* reload
Reload(c) ==
  /\ Up
  /\ pc[c] = "idle"
  /\ enabled' = TRUE
  /\ Goto(c, "request")
  /\ UNCHANGED <<inventory, last_error, disk, host, target, local, slips>>

\* stop, and reset, which deletes the lab first.
Stop(c) ==
  /\ Up
  /\ pc[c] = "idle"
  /\ \/ UNCHANGED inventory
     \/ inventory' = [d \in Device |-> "absent"]
  /\ Goto(c, "stop_read")
  /\ UNCHANGED <<enabled, last_error, disk, host, target, local, slips>>

\* mark_stopped() after stop_snmpsim().
Disable(c) ==
  /\ pc[c] = "disable"
  /\ enabled' = FALSE
  /\ Goto(c, "idle")
  /\ UNCHANGED <<inventory, last_error, disk, host, target, local, slips>>

(***************************************************************************)
(* A command dies half way: an exception (no free IP address, a unique     *)
(* index, a locked database, a file that vanished) or a dropped session.   *)
(***************************************************************************)
Abort(c) ==
  /\ pc[c] # "idle"
  /\ Goto(c, "idle")
  /\ target' = [target EXCEPT ![c] = NoPid]
  /\ slips' = slips \cup {"aborted"}
  /\ UNCHANGED <<db, disk, host, local>>

ClientStep(c) ==
  \/ StopStep(c)
  \/ EditCheck(c)
  \/ Request(c)
  \/ CreateDevice(c)
  \/ CreateRaises(c)
  \/ StartMark(c)
  \/ Disable(c)

NewCommand(c) == Edit(c) \/ StartLab(c) \/ Reload(c) \/ Stop(c)

-----------------------------------------------------------------------------

\* Everything that is not the system making progress on its own.
Disturbance ==
  \/ Boot
  \/ Sigterm
  \/ Sigusr1
  \/ Crash
  \/ BootFails
  \/ StartRaises
  \/ StopRaises
  \/ \E p \in Pid : EngineDies(p)
  \/ \E c \in Client : NewCommand(c) \/ Abort(c)

EngineStep(p) == EngineBinds(p) \/ EngineExit(p)

Next ==
  \/ DaemonStep
  \/ Reboot
  \/ \E p \in Pid : EngineStep(p)
  \/ \E c \in Client : ClientStep(c)
  \/ Disturbance

(***************************************************************************)
(* The daemon and the commands are sequential programs that never block    *)
(* for good, a signalled process ends, and Docker restarts a container     *)
(* that died.  Nothing is assumed of the operator or of failures.          *)
(***************************************************************************)
Fairness ==
  /\ WF_vars(DaemonStep)
  /\ WF_vars(Reboot)
  /\ \A p \in Pid : WF_vars(EngineStep(p))
  /\ \A c \in Client : WF_vars(ClientStep(c))

Spec == Init /\ [][Next]_vars
FairSpec == Spec /\ Fairness

-----------------------------------------------------------------------------
(* Properties.                                                             *)

\* A reload is on its way, or a command that may still ask for one.
Owed == flag \/ \E c \in Client : pc[c] # "idle"

(***************************************************************************)
(* The daemon (daemon_loop, "keep SNMPSim aligned with the Django          *)
(* inventory") never sits in its loop beside an engine that serves         *)
(* something other than the enabled lab, unless a reload is on its way or  *)
(* last_error says why.  It takes an edit, a restart that is reading the   *)
(* inventory and the flag's creation and consumption to violate it.        *)
(***************************************************************************)
NoSilentDrift ==
  (/\ slips \cap {"discarded", "revived", "aborted", "unlisted"} = {}
   /\ enabled
   /\ pc[Daemon] \in {"top", "poll"}
   /\ Live(pidfile))
     => Accounted(pidfile) \/ Owed

(***************************************************************************)
(* An engine that nobody has told to end can be found: snmpsim.pid names   *)
(* it, or start_snmpsim() is about to write it there.  Otherwise it would  *)
(* hold its ports for ever against every later engine.  The two ways to    *)
(* lose one that the code has: a stop_snmpsim() that removes the file of   *)
(* an engine it did not stop, and a start_snmpsim() that raises between    *)
(* Popen() and the end of the pid's write.                                 *)
(***************************************************************************)
Lost == slips \cap {"unlinked", "unrecorded"} # {}
NoOrphan == ~Lost => \A p \in Pid : Live(p) => p \in {pidfile, fresh}

(***************************************************************************)
(* Daemon, commands and container together are an EngineService: at any    *)
(* time there is one engine that nobody has told to end, started for       *)
(* devices that were reachable then, and left as it is until it is told to *)
(* end, whatever stops, restarts and crashes overlap, until an engine is   *)
(* lost in one of these two ways.  (The list of a process is emptied when  *)
(* it is told to end.)                                                     *)
(***************************************************************************)
Service == INSTANCE EngineService WITH
  Engine <- Pid, lab <- Reachable, live <- {p \in Pid : Live(p)},
  serves <- serving, lost <- Lost
OneEngine == Service!Spec

(***************************************************************************)
(* Why the invariants hold, action by action.  From the moment the         *)
(* daemon's stop_snmpsim() has signalled the recorded engine until the pid *)
(* of the next one is recorded, snmpsim.pid names no live engine; before   *)
(* start_snmpsim() is called at boot there is no process at all.           *)
(***************************************************************************)
FreshIsSettling == fresh # NoPid <=> pc[Daemon] \in {"settle", "write"}

Empty ==
  \/ pc[Daemon] \in DownPc \cup {"boot"}
  \/ ctx = "boot" /\ pc[Daemon] \in {"reconcile", "spawn"}
NothingBeforeStart == Empty => \A p \in Pid : proc[p] = "none"

Quieted ==
  pc[Daemon] \in {"stop_wait", "stop_exists", "stop_unlink",
                  "reconcile", "spawn", "settle", "write"} => ~Live(pidfile)

\* What has been read of the inventory is current, or a reload is owed.
Current ==
  CASE pc[Daemon] = "spawn"  -> Reachable \cap bound = Reachable \ warnings
    [] pc[Daemon] \in {"settle", "write"}
                             -> Live(fresh) => serving[fresh] = Reachable \ warnings
    [] pc[Daemon] = "record" -> Live(pidfile) => serving[pidfile] = Reachable \ warnings
    [] pc[Daemon] \in {"discard", "top", "poll"}
                             -> Live(pidfile) => Accounted(pidfile)
    [] OTHER -> TRUE
CurrentOrOwed ==
  (enabled /\ slips \cap {"discarded", "revived", "aborted", "unlisted"} = {})
    => Current \/ Owed

(***************************************************************************)
(* The inductive invariant that implies both: where the daemon stands in   *)
(* stop_snmpsim() and start_snmpsim() determines which process may be live *)
(* and how far what it serves may lag behind the inventory.                *)
(***************************************************************************)
IInv ==
  /\ TypeOK
  /\ FreshIsSettling
  /\ NothingBeforeStart
  /\ Quieted
  /\ NoOrphan
  /\ CurrentOrOwed

\* Nothing has gone wrong, and nobody interferes any more.
Calm == [](slips = {}) /\ <>[][~Disturbance]_vars

Settled ==
  \/ pc[Daemon] = "down"
  \/ /\ enabled
     /\ \E p \in Pid : pidfile = p /\ proc[p] = "running" /\ Accounted(p)
  \/ /\ ~enabled
     /\ \A p \in Pid : proc[p] \in {"none", "zombie"}

(***************************************************************************)
(* Left alone, the system converges: an engine that serves the lab when it *)
(* is enabled, no engine when it is not.  Start-up, restarts, retries      *)
(* after a failed start, the stop the daemon takes over from an operator   *)
(* and Docker's restart policy all have to bring it there.                 *)
(***************************************************************************)
Converges == Calm => <>[]Settled

-----------------------------------------------------------------------------
(* What the documentation promises and the code does not keep.             *)

(***************************************************************************)
(* README: "`stop` | Stop SNMPSim; keep the inventory".  An engine that was *)
(* disabled is enabled by start, by reload or at container start only.     *)
(***************************************************************************)
StopIsKept ==
  [][~enabled /\ enabled' =>
       \/ pc[Daemon] \in DownPc
       \/ \E c \in Client : pc[c] # "request" /\ pc'[c] = "request"]_vars

(***************************************************************************)
(* README: Django "reloads the engine when you change a device".           *)
(* NoSilentDrift without the exemption for start-up.                       *)
(***************************************************************************)
EveryChangeReloads ==
  (/\ slips \cap {"revived", "aborted", "unlisted"} = {}
   /\ enabled
   /\ pc[Daemon] \in {"top", "poll"}
   /\ Live(pidfile))
     => Accounted(pidfile) \/ Owed

(***************************************************************************)
(* daemon_loop: "keep SNMPSim aligned with the Django inventory", and its  *)
(* restart `if reload_needed or not alive`.  Converges, after an engine    *)
(* has ended on its own.                                                   *)
(***************************************************************************)
DeadEngineIsReplaced ==
  [](slips \subseteq {"died"}) /\ <>[][~Disturbance]_vars => <>[]Settled

(***************************************************************************)
(* README: "keep state across Docker restarts".  Only an operator's stop   *)
(* or reset disables the engine; a restart of the container does not.      *)
(***************************************************************************)
RestartKeepsEnabled ==
  [][enabled /\ ~enabled' => \E c \in Client : pc[c] = "disable"]_vars

=============================================================================
