------------------------------- MODULE Netflow -------------------------------
(***************************************************************************)
(* The NetFlow exporter, which the daemon runs between two looks at        *)
(* SNMPSim, and the commands that change what it reads while it runs.      *)
(*                                                                         *)
(* The singleton SimulationState row is shared without a lock and written  *)
(* in two ways: most writers save only the fields they have set, and       *)
(* configure_netflow() saves every field of the object it has read.        *)
(*                                                                         *)
(* Abstractions.  A device is due when its row is UP and netflow_enabled.  *)
(* A profile has at most 24 flows, which is one packet per device and      *)
(* tick; what a packet holds is whether it carries the template.  The      *)
(* template counter is kept modulo 3, which is all the code looks at.      *)
(* There is one collector: setting another is, for the exporter, the same  *)
(* as a collector that has been restarted and knows no template any more.  *)
(* Sequence numbers and netflow_last_error are left out: no step reads     *)
(* them.                                                                   *)
(***************************************************************************)
EXTENDS Naturals, FiniteSets

CONSTANTS
  Device,     \* numbers of the devices
  Client,     \* commands that may be running at the same time
  None        \* a tick or a command that has read nothing

ASSUME DeviceAssumption == Device \subseteq Nat
ASSUME NoneAssumption   == None \notin {5, 9}

VARIABLES
  state,     \* the SimulationState row
  due,       \* the devices with reachability UP and netflow_enabled
  template,  \* _exports_since_template, modulo 3; lost with the process
  pc,        \* where the daemon is
  cfg,       \* the version, as the tick has read it
  base,      \* netflow_packets_sent, as the tick has read it
  queue,     \* devices of the tick's queryset that are still to be exported
  packets,   \* stats["packets"]
  copy,      \* the row as configure_netflow() has read it
  stale,     \* history: readers whose copy is no longer what the row says
  wanted,    \* history: what the last command that wrote a setting made it; one
             \* that saves a stale copy is taken to have meant all it wrote
  sent,      \* history: packets that left the host
  taught,    \* history: the devices whose template the collector knows
  blind,     \* history: v9 packets a device has sent in a row that the collector
             \* could not read
  late,      \* history: packets a device has sent since it was no longer due
  slips      \* history: what has gone wrong, see below

row    == <<state, stale, wanted>>
tick   == <<cfg, base, queue, packets>>
sender == <<template, sent, taught, blind, late>>
vars   == <<row, due, pc, tick, copy, sender, slips>>

Version == {5, 9}
Setting == [engine : BOOLEAN, netflow : BOOLEAN, version : Version]
State   == [engine : BOOLEAN, netflow : BOOLEAN, version : Version, packets : Nat]

SettingOf(s) == [engine |-> s.engine, netflow |-> s.netflow, version |-> s.version]

(***************************************************************************)
(*   failed       a packet could not be sent, or a tick ended unsaved      *)
(*   crashed      the daemon died in the middle of a tick                  *)
(*   overwritten  a command saved fields that had changed since it read    *)
(*                them                                                     *)
(***************************************************************************)
Slip == {"failed", "crashed", "overwritten"}

TypeOK ==
  /\ state \in State
  /\ due \subseteq Device
  /\ template \in [Device -> 0..2]
  /\ pc \in {"loop", "config", "count", "query", "export", "save"}
  /\ cfg \in Version \cup {None}
  /\ pc \in {"count", "query", "export", "save"} => cfg # None
  /\ base \in Nat
  /\ queue \subseteq Device
  /\ packets \in Nat
  /\ copy \in [Client -> State \cup {None}]
  /\ stale \subseteq Client
  /\ wanted \in Setting
  /\ sent \in Nat
  /\ taught \subseteq Device
  /\ blind \in [Device -> Nat]
  /\ late \in [Device -> Nat]
  /\ slips \subseteq Slip

Init ==
  /\ state = [engine |-> FALSE, netflow |-> TRUE, version |-> 9, packets |-> 0]
  /\ wanted = SettingOf(state)
  /\ due = {}
  /\ template = [d \in Device |-> 0]
  /\ pc = "loop"
  /\ cfg = None
  /\ base = 0
  /\ queue = {}
  /\ packets = 0
  /\ copy = [c \in Client |-> None]
  /\ stale = {}
  /\ sent = 0
  /\ taught = {}
  /\ blind = [d \in Device |-> 0]
  /\ late = [d \in Device |-> 0]
  /\ slips = {}

-----------------------------------------------------------------------------

Reading(c) == copy[c] # None

\* Somebody has written the row: the copies that were read before are stale.
Write(s) ==
  /\ state' = s
  /\ stale' = IF s = state THEN stale ELSE stale \cup {c \in Client : Reading(c)}

-----------------------------------------------------------------------------
(* The tick.  What the tick has read is forgotten when it ends.            *)

\* Mutant: the packets of a tick are still counted in the next.
LeaveKeepsCount == pc' = "loop" /\ cfg' = None /\ base' = 0 /\ queue' = {} /\ UNCHANGED packets

Leave == pc' = "loop" /\ cfg' = None /\ base' = 0 /\ queue' = {} /\ packets' = 0

\* Mutant: the configuration is not read again.
PollSkipsConfig ==
  /\ pc = "loop"
  /\ state.engine /\ state.netflow
  /\ pc' = "count"
  /\ UNCHANGED <<row, due, tick, copy, sender, slips>>

\* daemon_loop(): the engine and the export are enabled, the interval is over.
Poll ==
  /\ pc = "loop"
  /\ state.engine /\ state.netflow
  /\ pc' = "config"
  /\ UNCHANGED <<row, due, tick, copy, sender, slips>>

\* netflow_config(), read again by the tick.
ReadConfig ==
  /\ pc = "config"
  /\ IF state.netflow
     THEN cfg' = state.version /\ pc' = "count"
     ELSE pc' = "loop" /\ UNCHANGED cfg
  /\ UNCHANGED <<row, due, base, queue, packets, copy, sender, slips>>

\* SimulationState.get()
ReadCount ==
  /\ pc = "count"
  /\ base' = state.packets
  /\ pc' = "query"
  /\ UNCHANGED <<row, due, cfg, queue, packets, copy, sender, slips>>

\* Mutant: devices that are not due are not filtered out.
QueryAll ==
  /\ pc = "query"
  /\ queue' = Device
  /\ pc' = "export"
  /\ UNCHANGED <<row, due, cfg, base, packets, copy, sender, slips>>

\* The queryset is evaluated once, when the loop over it begins.
Query ==
  /\ pc = "query"
  /\ queue' = due
  /\ pc' = "export"
  /\ UNCHANGED <<row, due, cfg, base, packets, copy, sender, slips>>

\* Device rows are ordered by device_id.
First(d) == d \in queue /\ \A e \in queue : d <= e

\* _exports_since_template[device_id] % 3 == 1, after it was incremented.
CarriesTemplate(d) == (template[d] + 1) % 3 = 1

\* Mutant: the counter is set where it should be incremented.
CountOnce(d) ==
  template' = IF cfg = 9 THEN [template EXCEPT ![d] = 1] ELSE template

\* The counter moves before the packet is sent, for version 9 only.
CountTemplate(d) ==
  template' = IF cfg = 9 THEN [template EXCEPT ![d] = (@ + 1) % 3] ELSE template

\* export_device(): the packet leaves the host.
Export(d) ==
  /\ pc = "export"
  /\ First(d)
  /\ queue' = queue \ {d}
  /\ packets' = packets + 1
  /\ sent' = sent + 1
  /\ CountTemplate(d)
  /\ late' = [late EXCEPT ![d] = IF d \in due THEN 0 ELSE @ + 1]
  /\ IF cfg = 9
     THEN /\ taught' = IF CarriesTemplate(d) THEN taught \cup {d} ELSE taught
          /\ blind' = [blind EXCEPT ![d] = IF d \in taught' THEN 0 ELSE @ + 1]
     ELSE UNCHANGED <<taught, blind>>
  /\ UNCHANGED <<row, due, pc, cfg, base, copy, slips>>

Exported ==
  /\ pc = "export"
  /\ queue = {}
  /\ pc' = "save"
  /\ UNCHANGED <<row, due, tick, copy, sender, slips>>

(***************************************************************************)
(* OSError from the socket, before or after the template was counted: the  *)
(* devices that are left are skipped, the packets sent are not counted.    *)
(***************************************************************************)
ExportFails(d) ==
  /\ pc = "export"
  /\ First(d)
  /\ CountTemplate(d) \/ UNCHANGED template
  /\ Leave
  /\ slips' = slips \cup {"failed"}
  /\ UNCHANGED <<row, due, copy, sent, taught, blind, late>>

\* Mutant: the whole object is saved, not the two fields that were set.
SaveWholeRow ==
  /\ pc = "save"
  /\ Write([state EXCEPT !.packets = base + packets, !.version = cfg])
  /\ Leave
  /\ UNCHANGED <<wanted, due, copy, sender, slips>>

\* Mutant: the counters of the last tick are added once more.
SaveTwice ==
  /\ pc = "save"
  /\ Write([state EXCEPT !.packets = base + packets + packets])
  /\ Leave
  /\ UNCHANGED <<wanted, due, copy, sender, slips>>

\* Mutant: only the packets of this tick are saved.
SaveTick ==
  /\ pc = "save"
  /\ Write([state EXCEPT !.packets = packets])
  /\ Leave
  /\ UNCHANGED <<wanted, due, copy, sender, slips>>

\* netflow_packets_sent and netflow_last_error, and no other field.
Save ==
  /\ pc = "save"
  /\ Write([state EXCEPT !.packets = base + packets])
  /\ Leave
  /\ UNCHANGED <<wanted, due, copy, sender, slips>>

\* Another exception, such as a locked database, is caught by daemon_loop().
TickRaises ==
  /\ pc \in {"config", "count", "query", "save"}
  /\ Leave
  /\ slips' = slips \cup {"failed"}
  /\ UNCHANGED <<row, due, copy, sender>>

\* The daemon dies and is started again: its counters are gone, and so are
\* the commands that ran in its container.
Restart ==
  /\ Leave
  /\ template' = [d \in Device |-> 0]
  /\ copy' = [c \in Client |-> None]
  /\ stale' = {}
  /\ slips' = IF pc = "loop" THEN slips ELSE slips \cup {"crashed"}
  /\ UNCHANGED <<state, wanted, due, sent, taught, blind, late>>

TickStep ==
  \/ Poll
  \/ ReadConfig
  \/ ReadCount
  \/ Query
  \/ \E d \in Device : Export(d) \/ ExportFails(d)
  \/ Exported
  \/ Save
  \/ TickRaises

-----------------------------------------------------------------------------
(* The commands.                                                           *)

\* start, stop and reload save engine_enabled only.
SetEngine(on) ==
  /\ Write([state EXCEPT !.engine = on])
  /\ wanted' = [wanted EXCEPT !.engine = on]
  /\ UNCHANGED <<due, pc, tick, copy, sender, slips>>

\* set-reachability, set-netflow, add and remove.
SetDevice(d) ==
  /\ due' = IF d \in due THEN due \ {d} ELSE due \cup {d}
  /\ late' = [late EXCEPT ![d] = 0]
  /\ UNCHANGED <<row, pc, tick, copy, template, sent, taught, blind, slips>>

\* configure_netflow(): the row is read, ...
ConfigureRead(c) ==
  /\ ~Reading(c)
  /\ copy' = [copy EXCEPT ![c] = state]
  /\ stale' = stale \ {c}
  /\ UNCHANGED <<state, wanted, due, pc, tick, sender, slips>>

\* ... a port or a version that is out of range raises, ...
ConfigureRaises(c) ==
  /\ Reading(c)
  /\ copy' = [copy EXCEPT ![c] = None]
  /\ stale' = stale \ {c}
  /\ UNCHANGED <<state, wanted, due, pc, tick, sender, slips>>

\* ... and what was read is saved, with the field that was to be set; the
\* host and the port of the collector are not among those that are kept here.
ConfigureSave(c) ==
  /\ Reading(c)
  /\ LET old == IF c \in stale THEN SettingOf(copy[c]) ELSE wanted IN
       \/ \E on \in BOOLEAN : /\ state' = [copy[c] EXCEPT !.netflow = on]
                             /\ wanted' = [old EXCEPT !.netflow = on]
       \/ \E v \in Version  : /\ state' = [copy[c] EXCEPT !.version = v]
                             /\ wanted' = [old EXCEPT !.version = v]
  /\ copy' = [copy EXCEPT ![c] = None]
  /\ stale' = (IF state' = state THEN stale ELSE {b \in Client : Reading(b)}) \ {c}
  /\ slips' = IF c \in stale THEN slips \cup {"overwritten"} ELSE slips
  /\ UNCHANGED <<due, pc, tick, sender>>

\* The collector restarts, or another one is set.
CollectorForgets ==
  /\ taught' = {}
  /\ blind' = [d \in Device |-> 0]
  /\ UNCHANGED <<row, due, pc, tick, copy, template, sent, late, slips>>

CommandStep(c) == ConfigureRead(c) \/ ConfigureRaises(c) \/ ConfigureSave(c)

Next ==
  \/ TickStep
  \/ Restart
  \/ CollectorForgets
  \/ \E on \in BOOLEAN : SetEngine(on)
  \/ \E d \in Device : SetDevice(d)
  \/ \E c \in Client : CommandStep(c)

Spec == Init /\ [][Next]_vars

-----------------------------------------------------------------------------
(* Properties.                                                             *)

(***************************************************************************)
(* Whatever commands and failures run into a tick, netflow_packets_sent    *)
(* never reports a packet that did not leave the host.                     *)
(***************************************************************************)
NeverOvercounted == state.packets <= sent

(***************************************************************************)
(* Between ticks it reports all of them, unless a tick failed or was cut   *)
(* short, or configure_netflow() wrote an old value back.                  *)
(***************************************************************************)
CountedWhenCalm == slips = {} /\ pc = "loop" => state.packets = sent

(***************************************************************************)
(* Every setting is what the last command to write it made it: a stale     *)
(* copy is written back by configure_netflow() only, and the tick, which   *)
(* saves an object it read before all of its network I/O, undoes nothing.  *)
(***************************************************************************)
SettingsKept == SettingOf(state) = wanted

(***************************************************************************)
(* A collector that does not know a device's template gets it with the     *)
(* third packet at the latest, whatever restarts of the daemon and changes *)
(* of the version come between.                                            *)
(***************************************************************************)
BlindAtMostTwice == "failed" \notin slips => \A d \in Device : blind[d] <= 2

(***************************************************************************)
(* "Unreachable devices do not export", but for one packet of the tick     *)
(* that had queried the devices before.                                    *)
(***************************************************************************)
LateAtMostOnce == \A d \in Device : late[d] <= 1

(***************************************************************************)
(* Why the count and the settings hold.  Nothing that has been read ahead  *)
(* of a write counts more than has been sent: neither what a tick is going *)
(* to save nor what a command would write back.  And a copy that is not    *)
(* marked stale is the row.                                                *)
(***************************************************************************)
NothingAhead ==
  /\ state.packets <= sent
  /\ base + packets <= sent
  /\ pc \notin {"export", "save"} => packets = 0
  /\ \A c \in Client : Reading(c) => copy[c].packets <= sent

FreshCopies == \A c \in Client : Reading(c) /\ c \notin stale => copy[c] = state

IInv ==
  /\ TypeOK
  /\ NothingAhead
  /\ FreshCopies
  /\ SettingsKept

=============================================================================
