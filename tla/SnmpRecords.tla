----------------------------- MODULE SnmpRecords -----------------------------
(***************************************************************************)
(* What a device serves: the interfaces that build_interfaces() gives it   *)
(* and the records that generate_records() makes of them, list by list in  *)
(* the order of the code, because one of its steps depends on the position *)
(* of a record in the list.                                                *)
(*                                                                         *)
(* A record is its OID, without the common 1.3.6.1, and whether its value  *)
(* is an interface counter that grows; an address is its last octet, a     *)
(* name is a prefix and a number.                                          *)
(***************************************************************************)
EXTENDS Naturals, Sequences, SequencesExt

CONSTANTS
  Counts,  \* interface_count of each device type: a set of numbers
  Host     \* the last octet of the device's address

DeviceType == {"router", "switch", "firewall", "generic"}
Profile    == {"high", "medium", "low"}

ASSUME CountsAssumption == Counts \in [DeviceType -> SUBSET (Nat \ {0})]
ASSUME HostAssumption   == Host \in Nat

VARIABLES
  type,        \* device_type
  count,       \* how many interfaces it was given
  profile,     \* traffic_profile
  interfaces,  \* device.interfaces
  lines,       \* the records so far
  stage        \* the group generate_records() is at

vars == <<type, count, profile, interfaces, lines, stage>>

\* The stages in their order.
Stage == <<"interfaces", "system", "if_tables", "ip_tables", "tcp_udp",
           "cisco_cpu", "cisco_memory", "cisco_chassis",
           "host_resources", "ucd_snmp", "sort", "done">>

After(s) == Stage[1 + CHOOSE i \in 1..(Len(Stage) - 1) : Stage[i] = s]

Style == [router   |-> "cisco_router",   switch  |-> "cisco_switch",
          firewall |-> "cisco_firewall", generic |-> "linux"]

ExtraMibs == [t \in DeviceType |->
                IF t = "generic" THEN {"host_resources", "ucd_snmp"}
                ELSE {"cisco_cpu", "cisco_memory", "cisco_chassis"}]

-----------------------------------------------------------------------------
(* build_interfaces().                                                     *)

AtLeast(n, low) == IF n < low THEN low ELSE n

Ports(prefix, from, n) == [i \in 1..n |-> <<prefix, from + i - 1>>]

\* Mutant: the fifth interface of a firewall repeats the name of the fourth.
RepeatedNames(style, n) ==
  SubSeq(CASE style = "cisco_router"   -> <<<<"Loopback", 0>>>> \o Ports("Gi0/", 0, AtLeast(n - 1, 1))
           [] style = "cisco_switch"   -> <<<<"Vlan", 1>>>> \o Ports("Gi1/0/", 1, AtLeast(n, 2) - 1)
           [] style = "cisco_firewall" -> <<<<"Management0/", 0>>>> \o Ports("Gi0/", 0, 3)
                                            \o Ports("Gi0/", 2, AtLeast(n, 2) - 2)
           [] OTHER                    -> <<<<"lo", 0>>>> \o Ports("eth", 0, AtLeast(n - 1, 1)),
         1, n)

\* _interface_names(): one list per style, cut to the count.
InterfaceNames(style, n) ==
  SubSeq(CASE style = "cisco_router"   -> <<<<"Loopback", 0>>>> \o Ports("Gi0/", 0, AtLeast(n - 1, 1))
           [] style = "cisco_switch"   -> <<<<"Vlan", 1>>>> \o Ports("Gi1/0/", 1, AtLeast(n, 2) - 1)
           [] style = "cisco_firewall" -> <<<<"Management0/", 0>>>> \o Ports("Gi0/", 0, 3)
                                            \o Ports("Gi0/", 3, AtLeast(n, 3) - 3)
           [] OTHER                    -> <<<<"lo", 0>>>> \o Ports("eth", 0, AtLeast(n - 1, 1)),
         1, n)

IsLoopback(name) == name[1] \in {"Loopback", "lo"}
IsMgmt(name)     == name[1] = "Management0/"

\* One edge port, the last, is left down.
ForcedDown(index, name) ==
  index = count /\ count > 3 /\ ~IsLoopback(name) /\ ~IsMgmt(name)

\* Mutant: the interfaces are numbered from zero, as enumerate() would do.
AddInterfaceFromZero ==
  LET names == InterfaceNames(Style[type], count)
      index == Len(interfaces)
  IN  /\ stage = "interfaces"
      /\ index < Len(names)
      /\ \E admin \in BOOLEAN :
           /\ ~ForcedDown(index, names[index + 1]) => admin
           /\ interfaces' = Append(interfaces,
                [index |-> index,
                 name  |-> names[index + 1],
                 type  |-> IF IsLoopback(names[index + 1]) THEN 24 ELSE 6,
                 oper  |-> ~ForcedDown(index, names[index + 1]),
                 admin |-> admin])
      /\ UNCHANGED <<type, count, profile, lines, stage>>

\* The next interface; whether a port that is down was also shut is random.
AddInterface ==
  LET names == InterfaceNames(Style[type], count)
      index == Len(interfaces) + 1
  IN  /\ stage = "interfaces"
      /\ index <= Len(names)
      /\ \E admin \in BOOLEAN :
           /\ ~ForcedDown(index, names[index]) => admin
           /\ interfaces' = Append(interfaces,
                [index |-> index,
                 name  |-> names[index],
                 type  |-> IF IsLoopback(names[index]) THEN 24 ELSE 6,
                 oper  |-> ~ForcedDown(index, names[index]),
                 admin |-> admin])
      /\ UNCHANGED <<type, count, profile, lines, stage>>

InterfacesBuilt ==
  /\ stage = "interfaces"
  /\ Len(interfaces) = Len(InterfaceNames(Style[type], count))
  /\ stage' = After(stage)
  /\ UNCHANGED <<type, count, profile, interfaces, lines>>

-----------------------------------------------------------------------------
(* The groups of records.                                                  *)

mib2        == <<2, 1>>
enterprises == <<4, 1>>

Rec(oid)         == [oid |-> oid, grows |-> FALSE]
Counter(oid, on) == [oid |-> oid, grows |-> on]

\* prefix.c.suffix for the columns c of cols, in their order
Recs(prefix, cols, suffix) == [i \in 1..Len(cols) |-> Rec(prefix \o <<cols[i]>> \o suffix)]

Emit(records) == lines' = lines \o records /\ stage' = After(stage)

SystemGroup ==
  /\ stage = "system"
  /\ stage' = After(stage)
  /\ lines' = Recs(mib2 \o <<1>>, <<1, 2, 3, 4, 5, 6, 7>>, <<0>>)
                \o <<Rec(mib2 \o <<2, 1, 0>>)>>
  /\ UNCHANGED <<type, count, profile, interfaces>>

ifEntry  == mib2 \o <<2, 2, 1>>
ifXEntry == mib2 \o <<31, 1, 1, 1>>

\* How many interfaces have their rows already: each adds 41 records to the 8.
RowsDone == (Len(lines) - 8) \div 41

(***************************************************************************)
(* A row of ifTable.  The octet, error and discard counters of a port that *)
(* is down stand still; its packet counters keep a jitter of max(1, 0).    *)
(***************************************************************************)
IfColumn(iface, c) ==
  Counter(ifEntry \o <<c, iface.index>>,
          \/ c \in {10, 16} /\ iface.oper
          \/ c \in {11, 17}
          \/ c = 13 /\ iface.oper
          \/ c \in {14, 20, 19} /\ iface.oper /\ profile # "low")

\* Mutant: the 64-bit counters ignore the status of the port.
IfXColumnAlways(iface, c) ==
  Counter(ifXEntry \o <<c, iface.index>>, c \in {6, 7, 10, 11})

IfXColumn(iface, c) ==
  Counter(ifXEntry \o <<c, iface.index>>,
          \/ c \in {6, 10} /\ iface.oper
          \/ c \in {7, 11})

\* Mutant: the corrected ifConnectorPresent replaces the last record.
CorrectLast(records, iface) ==
  IF iface.type = 6
  THEN ReplaceAt(records, Len(records), Rec(ifXEntry \o <<17, iface.index>>))
  ELSE records

\* lines[-2] = ifConnectorPresent, for an ethernet port.
CorrectConnector(records, iface) ==
  IF iface.type = 6
  THEN ReplaceAt(records, Len(records) - 1, Rec(ifXEntry \o <<17, iface.index>>))
  ELSE records

IfRow ==
  /\ stage = "if_tables"
  /\ RowsDone < Len(interfaces)
  /\ LET iface == interfaces[RowsDone + 1]
     IN  lines' = CorrectConnector(lines \o [c \in 1..22 |-> IfColumn(iface, c)]
                                         \o [c \in 1..19 |-> IfXColumn(iface, c)], iface)
  /\ UNCHANGED <<type, count, profile, interfaces, stage>>

IfRowsDone ==
  /\ stage = "if_tables"
  /\ RowsDone = Len(interfaces)
  /\ stage' = After(stage)
  /\ UNCHANGED <<type, count, profile, interfaces, lines>>

IpTables ==
  /\ stage = "ip_tables"
  /\ Emit(Recs(mib2 \o <<4>>, <<1, 2, 3, 4, 5, 6, 7, 8, 9, 10, 11, 12, 17>>, <<0>>)
            \o Recs(mib2 \o <<4, 20, 1>>, <<1, 2, 3>>, <<Host>>))
  /\ UNCHANGED <<type, count, profile, interfaces>>

TcpUdp ==
  /\ stage = "tcp_udp"
  /\ Emit(Recs(mib2 \o <<6>>, <<5, 6, 7, 8, 9, 10, 11, 12, 14, 15>>, <<0>>)
            \o Recs(mib2 \o <<7>>, <<1, 2, 3, 4, 5>>, <<0>>))
  /\ UNCHANGED <<type, count, profile, interfaces>>

Pack(mib) ==
  CASE mib = "cisco_cpu"      -> Recs(enterprises \o <<9, 9, 109, 1, 1, 1, 1>>,
                                      <<2, 3, 4, 5, 6, 7, 8>>, <<1>>)
    [] mib = "cisco_memory"   -> LET pool == enterprises \o <<9, 9, 48, 1, 1, 1>>
                                 IN  Recs(pool \o <<2>>, <<1, 2>>, <<>>)
                                       \o Recs(pool \o <<3>>, <<1, 2>>, <<>>)
                                       \o Recs(pool \o <<5>>, <<1, 2>>, <<>>)
                                       \o Recs(pool \o <<6>>, <<1, 2>>, <<>>)
    [] mib = "cisco_chassis"  -> Recs(enterprises \o <<9, 3, 6>>, <<3, 1, 6>>, <<0>>)
    [] mib = "host_resources" -> Recs(mib2 \o <<25, 1>>, <<1, 2, 3, 4, 5, 6, 7>>, <<0>>)
    [] mib = "ucd_snmp"       -> Recs(enterprises \o <<2021, 4>>, <<5, 6>>, <<0>>)
                                   \o Recs(enterprises \o <<2021, 11>>,
                                           <<9, 10, 11, 50, 52, 53>>, <<0>>)

\* The optional packs, each if the device type asks for it.
ExtraMib(mib) ==
  /\ stage = mib
  /\ Emit(IF mib \in ExtraMibs[type] THEN Pack(mib) ELSE <<>>)
  /\ UNCHANGED <<type, count, profile, interfaces>>

\* Mutant: arcs are compared as text, digit by digit, as the lines of a file would be:
\* "10" is before "2".  All arcs here have at most four digits.
BeforeByText(o, p) ==
  LET AsText(n) == CASE n < 10   -> 10000 * n + 1
                     [] n < 100  -> 1000 * n + 2
                     [] n < 1000 -> 100 * n + 3
                     [] OTHER    -> 10 * n + 4
  IN  \E i \in DOMAIN p : /\ i \in DOMAIN o => AsText(o[i]) < AsText(p[i])
                          /\ \A j \in 1..(i - 1) : j \in DOMAIN o /\ o[j] = p[j]

\* oid_sort_key: tuples, by number and not by digit.  Where they differ first, o
\* is at its end or has the smaller number.
Before(o, p) ==
  \E i \in DOMAIN p : /\ i \in DOMAIN o => o[i] < p[i]
                      /\ \A j \in 1..(i - 1) : j \in DOMAIN o /\ o[j] = p[j]

\* list.sort() is stable: a record comes behind those whose OID is before its own, and
\* behind those that were before it with the same OID.
Sorted(records) ==
  LET Precedes(j, i) == \/ Before(records[j].oid, records[i].oid)
                        \/ j < i /\ records[j].oid = records[i].oid
      placed == {[record |-> records[i],
                  place  |-> 1 + Cardinality({j \in DOMAIN records : Precedes(j, i)})] :
                   i \in DOMAIN records}
  IN  [k \in DOMAIN records |-> (CHOOSE p \in placed : p.place = k).record]

Sort ==
  /\ stage = "sort"
  /\ lines' = Sorted(lines)
  /\ stage' = After(stage)
  /\ UNCHANGED <<type, count, profile, interfaces>>

Init ==
  /\ type \in DeviceType
  /\ count \in Counts[type]
  /\ profile \in Profile
  /\ interfaces = <<>>
  /\ lines = <<>>
  /\ stage = "interfaces"

Next ==
  \/ AddInterface
  \/ InterfacesBuilt
  \/ SystemGroup
  \/ IfRow
  \/ IfRowsDone
  \/ IpTables
  \/ TcpUdp
  \/ \E mib \in {"cisco_cpu", "cisco_memory", "cisco_chassis",
                 "host_resources", "ucd_snmp"} : ExtraMib(mib)
  \/ Sort

Spec == Init /\ [][Next]_vars

-----------------------------------------------------------------------------
(* Properties.                                                             *)

Served == {lines[i].oid : i \in DOMAIN lines}
Grows(oid) == \E i \in DOMAIN lines : lines[i].oid = oid /\ lines[i].grows

\* The values of the variables; interfaces are numbered as they are listed.
TypeOK ==
  /\ type \in DeviceType
  /\ count \in Counts[type]
  /\ profile \in Profile
  /\ \A i \in DOMAIN interfaces :
       /\ interfaces[i].index = i
       /\ interfaces[i].type \in {6, 24}
       /\ interfaces[i].oper \in BOOLEAN
       /\ interfaces[i].admin \in BOOLEAN
  /\ \A i \in DOMAIN lines : lines[i].oid \in Seq(Nat) /\ lines[i].grows \in BOOLEAN
  /\ \E i \in DOMAIN Stage : stage = Stage[i]

(***************************************************************************)
(* The interface list is one a real device could have: as many interfaces  *)
(* as the device type asks for, each name once, at most one port down and  *)
(* never the loopback or the management port, and no port running that is  *)
(* administratively down.                                                  *)
(***************************************************************************)
PlausibleInterfaces ==
  stage # "interfaces" =>
    /\ Len(interfaces) = count
    /\ \A i, j \in DOMAIN interfaces :
         i # j => /\ interfaces[i].name # interfaces[j].name
                  /\ interfaces[i].oper \/ interfaces[j].oper
    /\ \A i \in DOMAIN interfaces :
         LET f == interfaces[i]
         IN  (~f.oper => ~IsLoopback(f.name) /\ ~IsMgmt(f.name)) /\ (f.oper => f.admin)

(***************************************************************************)
(* A walk of a column of the interface tables visits the interfaces 1, 2,  *)
(* ..., count and nothing between: SNMPSim answers GETNEXT with the line   *)
(* that follows the one it found, so the lines of a column have to stand   *)
(* together and in the order of ifIndex, the tenth port behind the ninth.  *)
(* Of ifXTable without ifConnectorPresent, which is there twice for an     *)
(* ethernet port, and ifAlias, which is not there (TablesComplete).        *)
(***************************************************************************)
WalksInterfaces ==
  stage = "done" =>
    /\ \A c \in 1..22 :
         \E first \in 0..(Len(lines) - count) :
           \A i \in 1..count : lines[first + i].oid = ifEntry \o <<c, i>>
    /\ \A c \in (1..19) \ {17, 18} :
         \E first \in 0..(Len(lines) - count) :
           \A i \in 1..count : lines[first + i].oid = ifXEntry \o <<c, i>>

(***************************************************************************)
(* No row of the interface tables lacks a column, but for ifAlias, and no  *)
(* OID is served twice, but for ifConnectorPresent: the correction made at *)
(* the end of a row damages nothing else.                                  *)
(***************************************************************************)
TablesComplete ==
  stage = "done" =>
    /\ \A i \in 1..count :
         /\ \A c \in 1..22 : ifEntry \o <<c, i>> \in Served
         /\ \A c \in (1..19) \ {18} : ifXEntry \o <<c, i>> \in Served
    /\ \A i \in 1..(Len(lines) - 1) :
         lines[i].oid = lines[i + 1].oid =>
           \E k \in DOMAIN interfaces :
             interfaces[k].type = 6 /\ lines[i].oid = ifXEntry \o <<17, k>>

(***************************************************************************)
(* The 32-bit and the 64-bit counters of a port tell the same story, and   *)
(* octets are counted exactly on the ports that are up.                    *)
(***************************************************************************)
CountersAgree ==
  stage = "done" =>
    \A i \in 1..count :
      /\ Grows(ifEntry \o <<10, i>>) = interfaces[i].oper
      /\ Grows(ifEntry \o <<16, i>>) = interfaces[i].oper
      /\ Grows(ifEntry \o <<10, i>>) = Grows(ifXEntry \o <<6, i>>)
      /\ Grows(ifEntry \o <<11, i>>) = Grows(ifXEntry \o <<7, i>>)
      /\ Grows(ifEntry \o <<16, i>>) = Grows(ifXEntry \o <<10, i>>)
      /\ Grows(ifEntry \o <<17, i>>) = Grows(ifXEntry \o <<11, i>>)

(***************************************************************************)
(* README, "SNMP OIDs served": "IF-MIB `ifTable` + `ifXTable` (64-bit      *)
(* octet/packet counters, aliases, high speed)".  Every interface has its  *)
(* ifAlias.                                                                *)
(***************************************************************************)
AliasServed ==
  stage = "done" => \A i \in 1..count : ifXEntry \o <<18, i>> \in Served

=============================================================================
