---------------------------- MODULE NetflowProofs ----------------------------
(***************************************************************************)
(* What holds of the NetFlow exporter for every set of devices and of      *)
(* commands: its count never runs ahead of what was sent, and no setting   *)
(* is lost but by a command that saves a stale copy.                       *)
(***************************************************************************)
EXTENDS Netflow, TLAPS

\* The counts are right in the beginning.
LEMMA InitInv == Init => IInv
  BY DEF Init, IInv, TypeOK, NothingAhead, FreshCopies, SettingsKept, SettingOf,
         Reading, State, Setting, Version, Slip

\* A stutter keeps them.
LEMMA StutterInv == IInv /\ UNCHANGED vars => IInv'
  BY DEF vars, row, tick, sender, IInv, TypeOK, NothingAhead, FreshCopies,
         SettingsKept, SettingOf, Reading, State, Setting

\* Saving some fields of the row, with the copies marked stale as they become so.
LEMMA WriteFresh ==
  ASSUME IInv, NEW s, Write(s), copy' = copy
  PROVE  FreshCopies'
  BY DEF IInv, FreshCopies, Write, Reading

\* The steps of a tick that read only.
LEMMA ReadInv ==
  ASSUME IInv, Poll \/ ReadConfig \/ ReadCount \/ Query \/ Exported \/ TickRaises
  PROVE  IInv'
<1> USE DEF IInv, TypeOK, NothingAhead, FreshCopies, SettingsKept, SettingOf, Reading,
            row, tick, sender
<1>1. CASE Poll
  BY <1>1 DEF Poll
<1>2. CASE ReadConfig
  BY <1>2, NoneAssumption DEF ReadConfig, State, Version
<1>3. CASE ReadCount
  <2>1. state.packets \in Nat /\ packets = 0
    BY <1>3 DEF ReadCount, State
  <2> QED BY <1>3, <2>1 DEF ReadCount
<1>4. CASE Query
  BY <1>4 DEF Query
<1>5. CASE Exported
  BY <1>5 DEF Exported
<1>6. CASE TickRaises
  BY <1>6 DEF TickRaises, Leave, Slip
<1> QED BY <1>1, <1>2, <1>3, <1>4, <1>5, <1>6

\* A packet sent is counted after it is sent; a device that fails counts nothing.
LEMMA ExportInv ==
  ASSUME IInv, NEW d \in Device, Export(d) \/ ExportFails(d)
  PROVE  IInv'
<1> USE DEF IInv, TypeOK, NothingAhead, FreshCopies, SettingsKept, SettingOf, Reading,
            row, tick, sender
<1>1. template' \in [Device -> 0..2]
  BY DEF Export, ExportFails, CountTemplate
<1>2. CASE Export(d)
  <2>1. taught' \subseteq Device /\ blind' \in [Device -> Nat] /\ late' \in [Device -> Nat]
    BY <1>2 DEF Export
  <2>2. state.packets \in Nat /\ \A c \in Client : Reading(c) => copy[c].packets \in Nat
    BY DEF State
  <2>3. NothingAhead'
    BY <1>2, <2>2 DEF Export
  <2> QED BY <1>1, <1>2, <2>1, <2>3 DEF Export
<1>3. CASE ExportFails(d)
  BY <1>1, <1>3 DEF ExportFails, Leave, Slip
<1> QED BY <1>2, <1>3

\* A save writes what the row said before the tick and what the tick has sent.
LEMMA SaveInv == ASSUME IInv, Save PROVE IInv'
<1>1. state' = [state EXCEPT !.packets = base + packets]
  BY DEF Save, Write
<1>2. state' \in State /\ state'.packets = base + packets /\ SettingOf(state') = SettingOf(state)
  BY <1>1 DEF IInv, TypeOK, State, SettingOf
<1>3. FreshCopies'
  BY WriteFresh DEF Save
<1>4. TypeOK'
  BY <1>2 DEF IInv, TypeOK, Save, Write, Leave, sender
<1>5. NothingAhead'
  BY <1>2 DEF IInv, TypeOK, NothingAhead, Reading, Save, Leave, sender
<1>6. SettingsKept'
  BY <1>2 DEF IInv, SettingsKept, Save
<1> QED BY <1>3, <1>4, <1>5, <1>6 DEF IInv

\* A restart forgets the tick, not the row.
LEMMA RestartInv == ASSUME IInv, Restart PROVE IInv'
  BY DEF IInv, TypeOK, NothingAhead, FreshCopies, SettingsKept, SettingOf, Reading,
         Restart, Leave, Slip

\* Switching the engine on or off leaves the counts alone.
LEMMA SetEngineInv == ASSUME IInv, NEW on \in BOOLEAN, SetEngine(on) PROVE IInv'
<1>1. state' = [state EXCEPT !.engine = on] /\ wanted' = [wanted EXCEPT !.engine = on]
  BY DEF SetEngine, Write
<1>2. state' \in State /\ wanted' \in Setting /\ state'.packets = state.packets
  BY <1>1 DEF IInv, TypeOK, State, Setting
<1>3. FreshCopies'
  BY WriteFresh DEF SetEngine
<1>4. TypeOK'
  BY <1>2 DEF IInv, TypeOK, SetEngine, Write, tick, sender
<1>5. NothingAhead'
  BY <1>2 DEF IInv, TypeOK, NothingAhead, Reading, SetEngine, tick, sender
<1>6. SettingsKept'
  BY <1>1 DEF IInv, TypeOK, SettingsKept, SettingOf, State, Setting
<1> QED BY <1>3, <1>4, <1>5, <1>6 DEF IInv

\* So does switching a device.
LEMMA SetDeviceInv == ASSUME IInv, NEW d \in Device, SetDevice(d) PROVE IInv'
  BY DEF IInv, TypeOK, NothingAhead, FreshCopies, SettingsKept, SettingOf, Reading,
         SetDevice, row, tick

\* A collector that loses its templates has only to wait for the next.
LEMMA ForgetsInv == ASSUME IInv, CollectorForgets PROVE IInv'
  BY DEF IInv, TypeOK, NothingAhead, FreshCopies, SettingsKept, SettingOf, Reading,
         CollectorForgets, row, tick

\* A command that has read the row, or fails, has changed no count.
LEMMA ConfigureReadInv ==
  ASSUME IInv, NEW c \in Client, ConfigureRead(c) \/ ConfigureRaises(c)
  PROVE  IInv'
<1> USE DEF IInv, TypeOK, NothingAhead, FreshCopies, SettingsKept, SettingOf, Reading,
            tick, sender
<1>1. CASE ConfigureRead(c)
  BY <1>1 DEF ConfigureRead
<1>2. CASE ConfigureRaises(c)
  BY <1>2 DEF ConfigureRaises
<1> QED BY <1>1, <1>2

(***************************************************************************)
(* The one step that writes back what it has not set: either its copy is   *)
(* the row, or it is marked stale and all of it is taken as wanted.        *)
(***************************************************************************)
LEMMA ConfigureSaveInv == ASSUME IInv, NEW c \in Client, ConfigureSave(c) PROVE IInv'
<1> DEFINE old == IF c \in stale THEN SettingOf(copy[c]) ELSE wanted
<1>1. copy[c] \in State /\ copy[c].packets <= sent
  BY DEF IInv, TypeOK, NothingAhead, ConfigureSave, Reading
<1>2. old = SettingOf(copy[c])
  BY DEF IInv, FreshCopies, SettingsKept, ConfigureSave
<1>3. state' \in State /\ state'.packets = copy[c].packets
      /\ wanted' \in Setting /\ wanted' = SettingOf(state')
  <2>1. ASSUME NEW on \in BOOLEAN, state' = [copy[c] EXCEPT !.netflow = on],
               wanted' = [old EXCEPT !.netflow = on]
        PROVE  /\ state' \in State /\ state'.packets = copy[c].packets
               /\ wanted' \in Setting /\ wanted' = SettingOf(state')
    BY <1>1, <1>2, <2>1 DEF State, Setting, SettingOf
  <2>2. ASSUME NEW v \in Version, state' = [copy[c] EXCEPT !.version = v],
               wanted' = [old EXCEPT !.version = v]
        PROVE  /\ state' \in State /\ state'.packets = copy[c].packets
               /\ wanted' \in Setting /\ wanted' = SettingOf(state')
    BY <1>1, <1>2, <2>2 DEF State, Setting, SettingOf
  <2> QED BY <2>1, <2>2 DEF ConfigureSave
<1>4. TypeOK'
  BY <1>3 DEF IInv, TypeOK, ConfigureSave, Slip, tick, sender
<1>5. NothingAhead'
  BY <1>1, <1>3 DEF IInv, TypeOK, NothingAhead, Reading, ConfigureSave, tick, sender
<1>6. FreshCopies'
  BY DEF IInv, TypeOK, FreshCopies, Reading, ConfigureSave
<1>7. SettingsKept'
  BY <1>3 DEF SettingsKept
<1> QED BY <1>4, <1>5, <1>6, <1>7 DEF IInv

\* Every step keeps the invariant.
LEMMA NextInv == IInv /\ [Next]_vars => IInv'
<1> SUFFICES ASSUME IInv, [Next]_vars PROVE IInv'
  OBVIOUS
<1>1. CASE TickStep
  BY <1>1, ReadInv, ExportInv, SaveInv DEF TickStep
<1>2. CASE Restart
  BY <1>2, RestartInv
<1>3. CASE CollectorForgets
  BY <1>3, ForgetsInv
<1>4. CASE \E on \in BOOLEAN : SetEngine(on)
  BY <1>4, SetEngineInv
<1>5. CASE \E d \in Device : SetDevice(d)
  BY <1>5, SetDeviceInv
<1>6. CASE \E c \in Client : CommandStep(c)
  BY <1>6, ConfigureReadInv, ConfigureSaveInv DEF CommandStep
<1>7. CASE UNCHANGED vars
  BY <1>7, StutterInv
<1> QED BY <1>1, <1>2, <1>3, <1>4, <1>5, <1>6, <1>7 DEF Next

\* The inductive invariant holds in every reachable state of the exporter.
THEOREM Inductive == Spec => []IInv
  BY InitInv, NextInv, PTL DEF Spec

\* Every variable of the exporter keeps to its type.
THEOREM TypeCorrect == Spec => []TypeOK
<1>1. IInv => TypeOK
  BY DEF IInv
<1> QED BY <1>1, Inductive, PTL

\* export_netflow_tick(): netflow_packets_sent never exceeds the packets sent,
\* in whatever order ticks, failures, restarts and stale saves come.
THEOREM CountIsSafe == Spec => []NeverOvercounted
<1>1. IInv => NeverOvercounted
  BY DEF IInv, NothingAhead, NeverOvercounted
<1> QED BY <1>1, Inductive, PTL

\* configure_netflow() is the only writer of the row that can undo a setting.
THEOREM SettingsAreKept == Spec => []SettingsKept
<1>1. IInv => SettingsKept
  BY DEF IInv
<1> QED BY <1>1, Inductive, PTL

-----------------------------------------------------------------------------
(* The count between ticks.                                                *)

\* Undisturbed, the row and the tick together have counted every packet, and
\* what the tick is going to add to is still what the row says.
CountTrue ==
  slips = {} =>
    /\ state.packets + packets = sent
    /\ pc \in {"query", "export", "save"} => base = state.packets

\* Only a cut tick or a stale save, which slip, part the count from what was sent.
LEMMA CountTrueKept == ASSUME IInv, CountTrue, [Next]_vars PROVE CountTrue'
<1> SUFFICES ASSUME slips' = {}
             PROVE  /\ state'.packets + packets' = sent'
                    /\ pc' \in {"query", "export", "save"} => base' = state'.packets
  BY DEF CountTrue
<1>1. /\ state \in State /\ packets \in Nat /\ base \in Nat /\ sent \in Nat
      /\ pc \notin {"export", "save"} => packets = 0
  BY DEF IInv, TypeOK, NothingAhead
<1>2. slips = {} => /\ state.packets + packets = sent
                    /\ pc \in {"query", "export", "save"} => base = state.packets
  BY DEF CountTrue
<1>3. CASE Poll \/ ReadConfig \/ ReadCount \/ Query \/ Exported
  BY <1>1, <1>2, <1>3 DEF Poll, ReadConfig, ReadCount, Query, Exported, row, tick, sender, State
<1>4. CASE \E d \in Device : Export(d)
  <2>1. state' = state /\ packets' = packets + 1 /\ sent' = sent + 1
        /\ UNCHANGED <<pc, base, slips>>
    BY <1>4 DEF Export, row
  <2>2. state.packets \in Nat
    BY <1>1 DEF State
  <2> QED BY <1>1, <1>2, <2>1, <2>2
<1>5. CASE Save
  <2>1. /\ state' = [state EXCEPT !.packets = base + packets] /\ pc = "save" /\ pc' = "loop"
        /\ packets' = 0 /\ UNCHANGED <<sent, slips>>
    BY <1>5 DEF Save, Write, Leave, sender
  <2>2. state'.packets = base + packets
    BY <1>1, <2>1 DEF State
  <2> QED BY <1>1, <1>2, <2>1, <2>2
<1>6. CASE TickRaises \/ \E d \in Device : ExportFails(d)
  BY <1>6 DEF TickRaises, ExportFails
<1>7. CASE Restart
  BY <1>1, <1>2, <1>7 DEF Restart, Leave, State
<1>8. CASE \E on \in BOOLEAN : SetEngine(on)
  <2>1. PICK on \in BOOLEAN : state' = [state EXCEPT !.engine = on]
    BY <1>8 DEF SetEngine, Write
  <2>2. state'.packets = state.packets
    BY <1>1, <2>1 DEF State
  <2> QED BY <1>2, <1>8, <2>2 DEF SetEngine, tick, sender
<1>9. CASE CollectorForgets \/ \E d \in Device : SetDevice(d)
  BY <1>2, <1>9 DEF CollectorForgets, SetDevice, row, tick
<1>10. CASE \E c \in Client : ConfigureRead(c) \/ ConfigureRaises(c)
  BY <1>2, <1>10 DEF ConfigureRead, ConfigureRaises, tick, sender
<1>11. ASSUME NEW c \in Client, ConfigureSave(c)
       PROVE  /\ state'.packets + packets' = sent'
              /\ pc' \in {"query", "export", "save"} => base' = state'.packets
  <2>1. slips = {} /\ c \notin stale
    BY <1>11 DEF ConfigureSave
  <2>2. copy[c] = state
    BY <1>11, <2>1 DEF IInv, FreshCopies, ConfigureSave
  <2>3. \/ \E on \in BOOLEAN : state' = [state EXCEPT !.netflow = on]
        \/ \E v \in Version : state' = [state EXCEPT !.version = v]
    BY <1>11, <2>2 DEF ConfigureSave
  <2>4. state'.packets = state.packets
    BY <1>1, <2>3 DEF State
  <2> QED BY <1>2, <1>11, <2>1, <2>4 DEF ConfigureSave, tick, sender
<1>12. CASE UNCHANGED vars
  BY <1>2, <1>12 DEF vars, row, tick, sender
<1> QED BY <1>3, <1>4, <1>5, <1>6, <1>7, <1>8, <1>9, <1>10, <1>11, <1>12
        DEF Next, TickStep, CommandStep

\* export_netflow_tick() and configure_netflow(): between ticks that were neither
\* cut short nor overwritten, netflow_packets_sent is what was sent.
THEOREM CalmCounts == Spec => []CountedWhenCalm
<1>1. Init => CountTrue
  BY DEF Init, CountTrue
<1>2. IInv /\ CountTrue /\ [Next]_vars => CountTrue'
  BY CountTrueKept
<1>3. IInv /\ CountTrue => CountedWhenCalm
  BY DEF IInv, TypeOK, State, NothingAhead, CountTrue, CountedWhenCalm
<1> QED BY <1>1, <1>2, <1>3, Inductive, PTL DEF Spec

-----------------------------------------------------------------------------
(* What a device exports when it is not due, or when it is not understood. *)

\* A device that is due or queried has sent nothing late.
LateBound == \A d \in Device : late[d] <= 1 /\ (d \in due \cup queue => late[d] = 0)

\* The one packet that may be late is one of the tick that had queried the device.
LEMMA LateBoundKept == ASSUME IInv, LateBound, [Next]_vars PROVE LateBound'
<1>1. late \in [Device -> Nat]
  BY DEF IInv, TypeOK
<1>2. CASE \E d \in Device : Export(d)
  BY <1>1, <1>2 DEF LateBound, Export, First
<1>3. CASE \E d \in Device : SetDevice(d)
  BY <1>1, <1>3 DEF LateBound, SetDevice, tick
<1>4. CASE Query
  BY <1>4 DEF LateBound, Query, sender
<1>5. CASE UNCHANGED <<due, late>> /\ queue' \in {queue, {}}
  BY <1>5 DEF LateBound
<1>6. CASE \/ Poll \/ ReadConfig \/ ReadCount \/ Exported \/ Save \/ TickRaises \/ Restart
           \/ CollectorForgets \/ \E d \in Device : ExportFails(d)
  BY <1>5, <1>6 DEF Poll, ReadConfig, ReadCount, Exported, Save, TickRaises, Restart,
     CollectorForgets, ExportFails, Leave, tick, sender
<1>7. CASE \/ \E on \in BOOLEAN : SetEngine(on)
           \/ \E c \in Client : CommandStep(c)
           \/ UNCHANGED vars
  BY <1>5, <1>7 DEF SetEngine, CommandStep, ConfigureRead, ConfigureRaises, ConfigureSave,
     vars, tick, sender
<1> QED BY <1>2, <1>3, <1>4, <1>6, <1>7 DEF Next, TickStep

\* export_netflow_tick(): a device that is no longer due sends at most the packet
\* of the tick that had queried it.
THEOREM LateOnce == Spec => []LateAtMostOnce
<1>1. Init => LateBound
  BY DEF Init, LateBound
<1>2. IInv /\ LateBound /\ [Next]_vars => LateBound'
  BY LateBoundKept
<1>3. LateBound => LateAtMostOnce
  BY DEF LateBound, LateAtMostOnce
<1> QED BY <1>1, <1>2, <1>3, Inductive, PTL DEF Spec

\* The more packets of a device were not understood, the nearer its template.
Nearer(d) ==
  /\ blind[d] <= 2
  /\ d \in taught => blind[d] = 0
  /\ blind[d] = 1 => template[d] # 1
  /\ blind[d] = 2 => template[d] = 0

BlindBound == "failed" \notin slips => \A d \in Device : Nearer(d)

\* Two packets without a template bring the third one with it.
LEMMA BlindBoundKept == ASSUME IInv, BlindBound, [Next]_vars PROVE BlindBound'
<1> SUFFICES ASSUME "failed" \notin slips', NEW d \in Device PROVE Nearer(d)'
  BY DEF BlindBound
<1>1. blind \in [Device -> Nat] /\ template \in [Device -> 0..2]
  BY DEF IInv, TypeOK
<1>2. "failed" \notin slips => Nearer(d)
  BY DEF BlindBound
<1>3. ASSUME NEW e \in Device, Export(e) PROVE Nearer(d)'
  <2>1. CASE d # e \/ cfg # 9
    BY <1>1, <1>2, <1>3, <2>1 DEF Export, CountTemplate, Nearer
  <2>2. CASE d = e /\ cfg = 9
    <3>1. /\ template'[d] = (template[d] + 1) % 3 /\ Nearer(d)
          /\ taught' = IF CarriesTemplate(d) THEN taught \cup {d} ELSE taught
          /\ blind'[d] = IF d \in taught' THEN 0 ELSE blind[d] + 1
      BY <1>1, <1>2, <1>3, <2>2 DEF Export, CountTemplate
    <3>2. template[d] \in 0..2 /\ blind[d] \in Nat
      BY <1>1
    <3> QED BY <3>1, <3>2 DEF Nearer, CarriesTemplate
  <2> QED BY <2>1, <2>2
<1>4. CASE Restart
  BY <1>1, <1>2, <1>4 DEF Restart, Nearer
<1>5. CASE CollectorForgets
  BY <1>5 DEF CollectorForgets, Nearer
<1>6. CASE TickRaises \/ \E e \in Device : ExportFails(e)
  BY <1>6 DEF TickRaises, ExportFails
<1>7. CASE UNCHANGED <<template, taught, blind>> /\ slips \subseteq slips'
  BY <1>2, <1>7 DEF Nearer
<1>8. CASE \/ Poll \/ ReadConfig \/ ReadCount \/ Query \/ Exported \/ Save
           \/ \E e \in Device : SetDevice(e)
  BY <1>7, <1>8 DEF Poll, ReadConfig, ReadCount, Query, Exported, Save, SetDevice, sender
<1>9. CASE \/ \E on \in BOOLEAN : SetEngine(on)
           \/ \E c \in Client : CommandStep(c)
           \/ UNCHANGED vars
  BY <1>7, <1>9 DEF SetEngine, CommandStep, ConfigureRead, ConfigureRaises, ConfigureSave,
     vars, sender
<1> QED BY <1>3, <1>4, <1>5, <1>6, <1>8, <1>9 DEF Next, TickStep

\* export_device(): a collector that does not know a template gets it with the third
\* packet, through restarts of the daemon and changes of the version.
THEOREM BlindTwice == Spec => []BlindAtMostTwice
<1>1. Init => BlindBound
  BY DEF Init, BlindBound, Nearer
<1>2. IInv /\ BlindBound /\ [Next]_vars => BlindBound'
  BY BlindBoundKept
<1>3. BlindBound => BlindAtMostTwice
  BY DEF BlindBound, Nearer, BlindAtMostTwice
<1> QED BY <1>1, <1>2, <1>3, Inductive, PTL DEF Spec

=============================================================================
