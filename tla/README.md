# A TLA+ model of the SNMP network device simulator

The simulator is a container. PID 1 is a Django process, the *daemon*
(`simulator/engine/supervisor.py`), which keeps one SNMPSim process alive.
Operators change the lab with short-lived commands run beside it by
`docker compose exec` (`simulator/services.py`). Daemon and commands share a
SQLite database, a volume with files and the SNMPSim process, and there is no
lock anywhere. What is hard about this program is what happens when these
actors overlap, fail half way, or are restarted; that is what is modelled here.

## 1. The system

| Component | State | Operations | Interacts with |
| --- | --- | --- | --- |
| Supervisor daemon | `stopping`, locals of the loop | boot, poll, restart, stop, shutdown | reads the rows, consumes the flag, owns the engine, runs the NetFlow tick |
| SNMPSim engine (external) | process state, endpoints | bind, exit, die | child of the daemon; signalled by daemon and commands |
| Commands | the rows they hold in memory | start, stop, reset, reload, add, remove, update, set-* , netflow | write rows and files, raise the flag, signal the engine |
| `SimulationState` row | `engine_enabled`, `last_error`, NetFlow settings and count | full save or `update_fields` | written by daemon and commands |
| `Device` rows | identity, reachability, profile, interfaces | insert, save, delete | read at every restart and tick |
| SNMP data files | `<id>/public.snmprec`, `communities/<id>.snmprec` | write, copy, remove, rebuild, sweep | written by commands and daemon, read by the engine |
| Run directory | `reload` flag, `snmpsim.pid` | create, test, unlink | the only channel from commands to daemon |
| Record generation | none (pure) | interfaces, OID groups, sort | fills the data files |
| NetFlow exporter | template counters, sequence numbers | tick, export | rows, UDP collector |
| Factory, ipam, validation | none (read rows) | choose ids, addresses, types | device rows |
| Datadog export | three files | rewrite | inventory |
| Entrypoint, Docker | container up or down | migrate, auto-start, restart policy | starts and stops the daemon |

What makes each correct, and which of it is hard to see in a unit test, is the
list of hazards in `PROJECT.json`: each is at its line and names the properties
that would catch it, or says why none does.

## 2. Modules

| Module | Models | Checked by | Proved in |
| --- | --- | --- | --- |
| `Supervisor` | daemon, engine, container, commands as the engine sees them | `MCSupervisor` | `SupervisorProofs` |
| `EngineService` | what is promised of the engine (abstract) | implemented by `Supervisor` | `SupervisorProofs` |
| `Inventory` | `Device` rows and Datadog files under overlapping commands; factory, ipam, validation | `MCInventory` | `InventoryProofs`, `ExportProofs`, `InterfaceProofs`, `AllocationProofs` |
| `DeviceTable` | what is promised of the rows (abstract) | implemented by `Inventory` | `InventoryProofs` |
| `LabFiles` | data files under concurrent writers and rebuilds | `MCLabFiles` | `LabFilesProofs` |
| `SnmpRecords` | `build_interfaces`, `generate_records` | `MCFlows`, `MCSnmpRecords` | `RecordProofs` |
| `Flows` | the flows of a tick and their packet, beside the records | `MCFlows` | `RecordProofs` |
| `Netflow` | the tick, the state row and its writers | `MCNetflow` | `NetflowProofs` |

`Supervisor`, `Inventory`, `LabFiles` and `Netflow` share actors, not variables.
`Supervisor` leaves open what is in the files, `LabFiles` what the engine does,
`Inventory` both, and `Netflow` keeps the fields of the state row that the first
does not need. They meet at the reload flag (raised after a command's last
write, consumed before a restart's first read), which `Supervisor` and
`LabFiles` both have, at `engine_enabled`, and at the order in which a command
makes its accesses: rows, files, Datadog files, flag. `Flows` extends
`SnmpRecords`: both start from the interfaces of one device.

### Supervisor

State: the rows (`inventory`, `enabled`, `last_error`), the run directory
(`flag`, `pidfile`), the host (`bound`, `proc`, `serving`), a program counter
per actor and the daemon's locals. One action is one access to shared state, or
a run of accesses with nothing observable between them. The guards come from
the code's tests; a call is a jump with the caller in `ctx`.

* `stop_snmpsim()` is `StopRead`, `StopGone` or `StopTimeout`, `StopExists`,
  `StopUnlink` or `StopUnlinkRaises`, the same for the daemon and a command.
* `start_snmpsim()` is `Reconcile` (aliases), `Spawn` (command line and
  `Popen`), after 0.6 s `SettleDead` or `SettleOpen` and `SettleWrite` (the pid
  file, which is empty in between), and `Record`. `StartRaises` is an exception
  at any of these steps, between `Popen` and the end of the pid's write too;
  `StopRaises` is one in the `stop_snmpsim()` of a restart, from which the same
  `try` goes on.
* `daemon_loop()` is `BootCheck`, `Discard`, `Top`, `Poll`, `Shutdown`.
* The container starts with `Boot` or `Reboot`, with an auto-start that may be
  partial (`AutoStart`) and may end the entrypoint (`BootFails`).
* Commands are a commit (`Edit`, `StartLab` and `CreateDevice`, `StartMark`,
  `Reload`, `Stop`), the test of `engine_enabled` (`EditCheck`) and
  `request_reload()` (`Request`). `Abort` kills one anywhere.
* A process is starting, running, signalled or a zombie; `os.kill(pid, 0)`
  succeeds in all four (`Exists`).

What the code does not guard against is kept in a history variable, `slips`, so
that an invariant can say exactly what it exempts. Five of them are races or
the death of an actor: `discarded`, `revived` and `died` (findings 2, 1 and 3),
`unlinked` (a stop removes `snmpsim.pid` while it names a live engine, or is
about to) and `aborted` (a command dies before what it owed). Three are failures
that `daemon_loop()` catches and does not recover from:

* `unrecorded`: `start_snmpsim()` raises after `Popen` and before the pid is
  written, by a full disk or by a locked database in the handler of SIGUSR1. The
  live engine is named by nothing, keeps its ports, and every later start exits
  at once.
* `interrupted`: a restart raises between the signal to the old engine and the
  removal of `snmpsim.pid`. The zombie it names looks alive.
* `unlisted`: `ip addr show` fails when the command line is built. Every device
  is skipped, and no warning says so.

Each is among the hazards, at its line.

### LabFiles

Every file operation of `write_device_snmprec`, `remove_device_snmprec` and
`rebuild_all_snmprec` is a step of the actor that performs it: several commands
and the daemon, each with its own copy of the row (`obj`), its queryset
(`snap`, `todo`) and the text it has read (`buf`). The content of a file is the
`Data` of the row it was generated from. A rebuild that raises is retried, as
the daemon does for an engine that is not running (`owing`).

### Inventory

A command is the list of database and file accesses it has yet to make (`todo`)
and what it holds in memory (`local`): the row as `_get_device()` read it, the
next number and the addresses in use as the factory read them. The lists are
read off `services.py`: `StartJobs`, `AddJobs`, `RemoveJobs`, `ResetJobs`,
`TrafficJobs`, `ReachJobs`, `NetflowJobs`, `UpdateJobs`; each ends with `Export`,
which renders two files and then writes them. One action is one access: `Save`
(a full `save()`, which inserts a row that is gone), `SaveFields`
(`update_fields`), `Delete`, `Clear`, `ReadIds`, `ReadIps`, `Insert`, `Render`,
`WriteFile`; `Raise` is the exception that an impossible access ends in, `Abort`
the death of a command. The guard of `Start` is `validate_counts()`;
`AssignProfiles` and the type rotation are those of the factory; `Admitted` is
the unique indexes. `current` says which files, rendered or on disk, show the
table as it is, so that any write to the table empties it.

`DeviceTable` is what this promises: rows are added, removed and changed one at
a time, a change keeps to its own columns, numbers and addresses stay unique,
and removed rows stay removed. The code breaks it in two places, full saves of
stale copies, and the abstract specification has an action for each, which may
happen only with the slip of that name and even then touches no other row and
neither number nor address.

### SnmpRecords and Flows

One step per interface row and per group, in the order of the code, because the
correction `lines[-2] = ...` depends on the position of a record. A record is
its OID and whether its counter grows. The sort at the end is `list.sort` by OID:
each record goes to the place that the records before it leave, equal ones in
the order they were in. `Counts` are the ranges of `config/device_types.yaml`,
all of them.

`Flows` adds, without a step of its own, the set of the flows that
`generate_flows()` can return for the interfaces so built (`FlowsOfTick`): ports,
addresses by who has them, protocols, and the least and greatest of every random
size. Record layouts are sequences of fields with their length, in the order
`struct.pack` has them, and are compared with the template that is sent along
(v9) and with the format (v5).

### Netflow

The tick reads its configuration, then the row, then the devices, exports them
one by one and saves two fields; `configure_netflow()` reads the row and saves
all of it. Settings, crashes, errors and a collector that forgets its templates
fall anywhere between. `wanted`, `sent`, `taught`, `blind` and `late` are
history for the properties.

## 3. Runs and bounds

| Run | Instance and bounds | Shows |
| --- | --- | --- |
| `supervisor` | 1 device, 1 command, 2 pids; behaviours are followed until the first slip (`NoSlip`) | no silent drift, no orphan, the inductive invariant, `EngineService`, convergence |
| `supervisor_stop`, `_boot`, `_died`, `_restart` | 1 device, 1 command, 2 pids | four findings |
| `inventory` | 2 commands at a time and in all, 3 addresses, 6 keys, 2 types; labs of 2 and of 4 devices, and one whose counts do not add up; four kinds of `update` | `DeviceTable`, allocation, labs as asked, interfaces, Datadog files |
| `lab_files` | 1 device, 2 commands, 2 contents, no `reset` beside a rebuild | repair and agreement of the files |
| `lab_files_removed` | the same | a finding |
| `snmp_records` | all four types, every configured count, three profiles | tables, walks, counters, flows and packets |
| `snmp_records_alias`, `flows_v5` | the same | two findings |
| `netflow` | 2 devices, 1 command, 3 packets and those one step beyond; crashes followed, other failures not beyond the step itself | counts, settings, templates |

Why these are enough. Devices do not interact in `Supervisor` and `LabFiles`
(every step of the code treats each by itself, but for the set comparison in
`Accounted`), so one suffices for each race. In `Supervisor` one command races
with the daemon; that two or more add nothing to its safety properties is what
the theorems say, which have no bound on commands, devices or pids and follow
behaviours beyond a slip. `LabFilesProofs` does the same for the device and the
two commands of `lab_files`. Two pids are an old engine and its successor, and the
daemon never starts a third before the first is reaped, which `Unused` makes a
wait rather than a limit on behaviour.

In `inventory` two commands are enough for every pair of accesses to meet in
both orders; a lab of two with three addresses leaves one for an `add`, and the
lab of four runs out of them. Six keys are more than two commands can use up but
for two large labs; an insert that finds no key waits, which only hides the
end of such a lab. The theorems lift all of these, for every property of the run.

In `netflow` three packets and one more are what it takes for a template to come
round again after the collector has forgotten it, and two devices what it takes
to fail between them; the theorems have no bound on either. `snmp_records` is
exhaustive for the shipped configuration, and the theorems hold for every other;
its runs end (`CHECK_DEADLOCK FALSE`), as the generator does, and so does
`inventory` when its commands are used up.

Symmetry (commands, and in `lab_files` contents) is used in safety runs only.

**Fairness** (`Supervisor!FairSpec`): weak fairness of the daemon's next step,
of each engine that has a signal to obey or a socket to bind, of each command
under way, and of Docker's restart policy. All four are sequential programs
whose waits have a bound (30 polls of 0.1 s, sleeps of 0.6 and 1 s) or an
operating-system guarantee behind them. Nothing is assumed of operators, of
failures, or of an engine surviving; `Converges` is therefore conditional on
these disturbances ceasing at some point, and on no slip having happened.

## 4. Properties

* `NoSilentDrift`: the daemon never sits in its loop beside an engine that
  serves something other than the enabled lab, unless a reload is owed or
  `last_error` says why.
* `NoOrphan`: an engine nobody told to end is named by `snmpsim.pid` or is the
  one being started, unless one was lost: its pid file unlinked, or the start
  that spawned it ended by an exception before its pid was written.
* `Converges`: left alone, the system reaches the state the database asks for.
* `OneEngine` (`EngineService!Spec`): one engine at a time, started for devices
  that are reachable then, serving them unchanged until it is told to end; two
  only once one was lost in either of these ways.
* `Atomic` (`DeviceTable!Spec`): see above.
* `AloneSucceeds`: a command nobody disturbs never picks a number or an address
  that is taken, whatever was removed before.
* `LabAsAsked`: a `start` nobody disturbs creates the lab it was asked for, and
  a prefix of it if it runs out of addresses.
* `InterfacesMatch`: interfaces belong to the type and profile of their device,
  but between the two saves of an `update`.
* `QuietExports`: when all commands are over, the Datadog files are up to date.
* `RebuildRepairs`: one undisturbed rebuild repairs whatever racing or dying
  commands have left on disk.
* `QuietMatches`: when all are idle, the files agree with the inventory.
* `PlausibleInterfaces`, `TablesComplete`, `CountersAgree`: what SNMP clients
  rely on in the generated tables. `WalksInterfaces`: a walk of a column visits
  the interfaces 1, 2, ..., count and nothing between. It speaks of indexes and
  positions, not of the key of the sort, so that a key by digit fails it, as its
  mutant shows.
* `PortsInUse`: flows enter and leave by ports that SNMP shows as up.
  `WithinCounters`: the flows of a tick never report more through a port than
  its SNMP counters grow by.
* `V9Readable`, `OnePacket`: a collector that knows the template reads every
  field where it is, and a tick of a device fits one packet.
* `NeverOvercounted`, `CountedWhenCalm`, `SettingsKept`: the row under two
  kinds of writers.
* `BlindAtMostTwice`: a v9 collector gets a template with the third packet at
  the latest. `LateAtMostOnce`: a device set down exports at most once more.

Each has a mutant of the code (definitions named *Mutant* beside the original)
that violates it.

## 5. Findings

1. `StopIsKept`: `start_snmpsim()` re-enables an engine that was stopped while
   it ran.
2. `EveryChangeReloads`: the `consume_reload()` after the first start discards
   a request for a change the new engine does not know.
3. `DeadEngineIsReplaced`: an engine that dies is a zombie and looks alive.
4. `RestartKeepsEnabled`: an orderly restart of the container disables the
   engine.
5. `RemovedIsSilent`: a removed device can leave its community alias behind.
6. `AliasServed`: `lines[-2]` replaces ifAlias, not ifConnectorPresent.
7. `V5Readable`: a v5 record has the protocol where its flags belong.

## 6. Proofs

`SupervisorProofs` proves, for any sets of devices, commands and pids and under
the assumptions that `NoPid` and `Blank` are no pids and differ, and that the
daemon is no command, that
`TypeOK`, `NoOrphan` and `NoSilentDrift` are invariants of `Spec`. Neither of the
last two is inductive: that the daemon finds no live engine when it starts one
depends on where it is in `stop_snmpsim()`, and that the engine is current at
the end depends on what was current at each step of the start. `IInv` says so:
`Quieted` (between the signal and the next record, the recorded pid is not
live), `FreshIsSettling` and `NothingBeforeStart` give `NoOrphan`;
`CurrentOrOwed` (what has been read at this step of the start is still the
inventory, or a reload is owed) gives `NoSilentDrift`. The proof has one lemma per
group of actions and one step per action.

That `Supervisor` implements `EngineService` (`ImplementsService`) follows from
the same invariant: each action is a step of the abstract specification or a
stutter, and the one that is not obvious is `Spawn`, where `IInv` gives that no
engine is left but one that was lost.

`InventoryProofs` proves, for any commands, requests, updates, types and
addresses, `TypeOK` and that `Inventory` implements `DeviceTable`
(`ImplementsTable`). The assumptions are on the inputs: requests are records of
integers, updates change a type, a profile or a flag. Its `IInv` has two parts that
matter. `OneIdentity`: copies of a row agree with it, and with each other, in
number and address, however stale they are; without the second half a row that
was revived from one copy might not match another. `NumbersBehind`: every
number, in the table or in memory, is smaller than the next primary key, which is
what makes the maximum in `next_device_number()` one that exists. The lists of
accesses are typed by lemmas of their own (`EditJobs`, `UpdateJobsTyped`, ...), so
that a step lemma only needs the type of the head of the list.

Three modules build on `InventoryProofs`, each with an invariant about what
is left of a command's list of accesses and what that means for the table.
They share its `IInv` and the frame lemmas about one access.

* `ExportProofs`: `QuietExports`. What a command has left is nothing, an end of
  `Export`, or something and then all of `Export`. Whoever writes to the table
  has the whole of it before him (`Ready`); whoever has rendered a current file
  has yet to write it (`Promises`). So while a file is not current, somebody is
  about to write one that is. Here the assumption is needed that no command has
  the name of the disk.
* `InterfaceProofs`: `InterfacesMatch`. The full saves of an `update` suit the
  command's own copy of the row (`Shaped`), not the table, so that they leave a
  matching row whatever others have done; the one that is not to match yet is
  followed by the second save (`Awaited`).
* `AllocationProofs`: `AloneSucceeds`. While nobody else writes, the next number
  in memory is above all numbers of the table (`Above`), the addresses in memory
  are those of the table (`Known`), through any number of inserts, and the row
  that is to be changed is there (`There`). And `LabAsAsked`: a start that
  nobody has disturbed and that has come to number *n* has the rest of the list
  from the *n*-th device on left to do (`Stage`), and the table holds the first
  *n* - 1 devices of the lab and no other, each with its type, profile and
  reachability (`Laid`). The property speaks of how many devices of a kind there
  are, so devices are counted by their numbers (`AsManyAs`, a bijection): those
  of a category are an interval of numbers, which begins where the one before it
  ends (`CategoriesInOrder`); those of a type are the numbers with one remainder,
  and an injection shifts those of one type to those of another but for one
  (`TypesMixed`). Here the assumption is needed that no type is listed twice,
  as `_available_types()` sees to; otherwise the type that is would have twice as
  many devices. The lab may be of any size and the types as many as one likes.

`LabFilesProofs` proves, for any devices, contents and commands, the daemon
being none of them, `TypeOK`, `RebuildRepairs` and `QuietMatches`. Its
`FilesInv` says two things. `Progress`: a rebuild that nobody disturbs has put
right every device it has left behind, at whatever operation it is. `Owed`: as
long as the files may be wrong, a reload is asked for, a command is under way,
a restart is to be tried again, or an undisturbed rebuild is running. The second
needs the first when the rebuild ends, and is what the order of the code is
for: a command asks last, and the daemon takes the request before it reads.

`NetflowProofs` proves all properties of the `netflow` run. `IInv` gives
`TypeOK`, `NeverOvercounted` and `SettingsKept`: `NothingAhead` bounds every
count that has been read ahead of a write (the tick's base plus its packets,
each command's copy) by what was sent, and `FreshCopies` says a copy that nobody
has overtaken is the row. `CountedWhenCalm` follows from `CountTrue` (the row and
the tick together have counted every packet), `LateAtMostOnce` from `LateBound`
(who is still to be exported has sent nothing late), `BlindAtMostTwice` from
`BlindBound`, which relates the packets that were not understood to the position
of the template counter. It is assumed that device numbers are naturals and that
`None` is not a version.

`RecordProofs` proves the properties of `SnmpRecords` and of `Flows` for every
number of interfaces and every length of a tick.

* `PlausibleInterfaces`, and what all others rest on: the interfaces are
  determined by the type and the count, so that name, index and state of each
  can be said without the steps that made it.
* `TablesComplete`. `Content` says what is in the interface tables after each
  step: the records of the rows that are done, all columns but ifAlias, no OID
  twice but ifConnectorPresent, nothing else. That the correction of one row
  reaches no record of another, and that no later group adds to these tables,
  is because an OID tells which group of statements emitted it (`Group`) and
  each emits once, in the order of the stages.
* `CountersAgree` follows from `Content`, since sorting a set of records moves
  them only: `SortedWorks` says of any list of records that `Sorted` is a
  permutation of it in the order of the OIDs. A record's place is the number of
  records that go before it; two records have different places since one of
  them goes before the other and takes along all that go before it, so every
  place is taken once.
* `WalksInterfaces` needs both. The line of an interface comes before that of
  the next one, as 9 is less than 10; what stood between the two would begin as
  they do (`Between`), hence be of the same table and column, and by `Content`
  (`TableLines`) be the line of an interface with an index between two
  successive ones. So the lines of neighbours are neighbours (`NextLine`), and
  those of a column stand together (`Walk`). `ifConnectorPresent` is excepted,
  which an ethernet port has twice, and `ifAlias`, which it has not.
* `PortsInUse` and `WithinCounters`: the loop that picks the active ports is a
  recursive function. That it exists and what it returns is shown by the least
  number at which it would be otherwise (`Recursion`, `Upwards`), as an induction
  over a set of numbers needs no theorem with an operator as its parameter. The
  bound on octets is arithmetic over an arbitrary length of the tick.
* `V9Readable` and `OnePacket`: the fields of the template and of a record have
  the same sizes and meanings one by one, so each begins where the other does
  (`V9Places`, by the same induction); the sizes of the records are added up
  field by field (`RecordSizes`).

The assumptions are that a device has some interface and its host number is a
natural; for the flows, that a tick is not empty and that a device with a
loopback has another port (`PortAssumption`). The last is a fact about
`config/device_types.yaml`, where `interface_count` is never below 3: with a
loopback alone the code reports flows of a port that is not among the active
ones.

So every property of a passing run is a theorem but one: `Converges`, which is
out of the prover's reach as all liveness is, and which is model-checked for
one device, one command and two pids. The properties of the findings do not
hold and are refuted by their runs.

## 7. What is left out

Wall-clock time (a wait may end at any point), pid reuse by the kernel, a
filesystem that tears a write (that `snmpsim.pid` is empty while it is written is
modelled), an image without `ip`, commands run beside the entrypoint's auto-start
(they begin when the daemon has started), the text of errors, the
header fields of NetFlow packets (sequence, source id, times), the values of
gauges, `generation` and timestamps (nothing acts on them), names, locations,
MAC addresses and serial numbers, parsing and printing of the command line,
configuration loading, the Datadog snippet made from the settings, migrations,
packaging. The reasons are with the components in `PROJECT.json`.

## 8. Plan

What remains, in the order of importance:

1. The v5 and v9 headers: the flow sequence, which counts packets, and the
   source id modulo 256.
2. The third Datadog file and the settings it is made from.
3. An abstract specification of `LabFiles` (files that follow the rows) and of
   `Netflow` (a counter and settings with one writer), implemented but for slips.
4. The two hazards at `supervisor.py:411` and `services.py:47` that no property
   covers: which warnings an exception hides, and a reset beside a rebuild.
