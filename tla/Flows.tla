-------------------------------- MODULE Flows --------------------------------
(***************************************************************************)
(* The flows that a device exports in a tick, beside the tables that it    *)
(* serves: generate_flows() and the SNMP records read the same interface   *)
(* list and the same traffic profile, and a collector puts the two         *)
(* together again.  And how the flows are laid out in packets.             *)
(*                                                                         *)
(* Abstractions.  An address is who has it.  Random choices are any value  *)
(* or, where only the size matters, the least and the greatest; floating   *)
(* point products are taken to be exact.  traffic_scale is the least that  *)
(* an interface can get.                                                   *)
(***************************************************************************)
EXTENDS SnmpRecords

CONSTANT Interval   \* seconds between two ticks

ASSUME IntervalAssumption == Interval \in Nat \ {0}

\* A device with a loopback has a port beside it: no interface_count in
\* config/device_types.yaml goes below 3.
ASSUME PortAssumption == 1 \notin Counts["router"] \cup Counts["generic"]

-----------------------------------------------------------------------------
(* generate_flows()                                                        *)

\* PROFILES: bytes per second into and out of a port, bytes per packet.
Rates == [high   |-> [in |-> 75000000, out |-> 55000000, packet |-> 900],
          medium |-> [in |-> 12000000, out |-> 9000000,  packet |-> 800],
          low    |-> [in |-> 700000,   out |-> 450000,   packet |-> 640]]

FlowCount == [high |-> 24, medium |-> 12, low |-> 4]

TcpPorts == <<443, 80, 22, 8080, 3389, 25, 993>>
UdpPorts == <<53, 123, 161, 514, 443>>

\* Mutant: the status of the ports is not looked at.
AllInterfaces ==
  LET up == SelectSeq(interfaces, LAMBDA f : f.type # 24)
  IN  IF up = <<>> THEN <<1>> ELSE [i \in DOMAIN up |-> up[i].index]

\* The ethernet ports that are up, in their order, and port 1 if there are none.
ActiveInterfaces ==
  LET up[n \in 0..Len(interfaces)] ==
        IF n = 0 THEN <<>>
        ELSE IF interfaces[n].oper /\ interfaces[n].type # 24
             THEN Append(up[n - 1], interfaces[n].index)
             ELSE up[n - 1]
      indexes == up[Len(interfaces)]
  IN  IF indexes = <<>> THEN <<1>> ELSE indexes

TotalBytes ==
  AtLeast(((Rates[profile].in + Rates[profile].out) \div 100) * 15 * Interval,
          FlowCount[profile] * 800)

\* Mutant: the flows are not given a share each.
OctetsUndivided == {AtLeast(TotalBytes \div 2, 64), AtLeast(TotalBytes - 1, 64)}

\* Between half and all of an equal share.
Octets == {AtLeast(TotalBytes \div (2 * FlowCount[profile]), 64),
           AtLeast((TotalBytes - 1) \div FlowCount[profile], 64)}

\* The interfaces of flow i, in the order input, output.
FlowPorts(i) ==
  LET active == ActiveInterfaces
      other  == active[1 + (i % Len(active))]
  IN  IF i % 3 # 0 THEN <<active[1], other>> ELSE <<other, active[1]>>

Flow(i, protocol, octets, src_port, duration) ==
  LET outbound == i % 3 # 0
  IN  [src       |-> IF outbound THEN "device" ELSE "peer",
       dst       |-> IF outbound THEN "peer" ELSE "device",
       nexthop   |-> IF outbound THEN "gateway" ELSE "device",
       input_if  |-> FlowPorts(i)[1],
       output_if |-> FlowPorts(i)[2],
       packets   |-> AtLeast(octets \div AtLeast(Rates[profile].packet, 64), 1),
       octets    |-> octets,
       first_ms  |-> <<"uptime", duration>>,
       last_ms   |-> <<"uptime", 0>>,
       src_port  |-> IF protocol = 1 THEN 0 ELSE src_port,
       dst_port  |-> CASE protocol = 1  -> 0
                       [] protocol = 17 -> UdpPorts[1 + (i % Len(UdpPorts))]
                       [] protocol = 6  -> TcpPorts[1 + (i % Len(TcpPorts))],
       protocol  |-> protocol,
       tos       |-> 0,
       tcp_flags |-> IF protocol = 6 THEN 24 ELSE 0,
       direction |-> IF outbound THEN 1 ELSE 0]

FlowsOfTick ==
  {Flow(i, protocol, octets, port, duration) :
     i \in 0..(FlowCount[profile] - 1), protocol \in {1, 6, 17}, octets \in Octets,
     port \in {1024, 60999}, duration \in {200, AtLeast(Interval * 1000 - 50, 250)}}

-----------------------------------------------------------------------------
(* A layout is a sequence of fields, each with its size in bytes.          *)

\* How many bytes the first n fields have.
Ends(layout) ==
  LET ends[n \in 0..Len(layout)] == IF n = 0 THEN 0 ELSE ends[n - 1] + layout[n][2]
  IN  ends

Bytes(layout) == Ends(layout)[Len(layout)]

Offset(layout, i) == Ends(layout)[i - 1]

\* What both versions begin with.
Leading == <<<<"src", 4>>, <<"dst", 4>>, <<"nexthop", 4>>, <<"input_if", 2>>, <<"output_if", 2>>,
             <<"packets", 4>>, <<"octets", 4>>, <<"first_ms", 4>>, <<"last_ms", 4>>,
             <<"src_port", 2>>, <<"dst_port", 2>>>>

\* A record of encode_netflow_v5(); what is not of the flow is constant.
V5Record == Leading \o <<<<"zero", 1>>, <<"protocol", 1>>, <<"tos", 1>>, <<"tcp_flags", 1>>,
                         <<"src_as", 2>>, <<"dst_as", 2>>, <<"masks", 2>>, <<"zero", 2>>>>

\* The record of NetFlow version 5, as a collector reads it.
V5Standard == Leading \o <<<<"zero", 1>>, <<"tcp_flags", 1>>, <<"protocol", 1>>, <<"tos", 1>>,
                           <<"src_as", 2>>, <<"dst_as", 2>>, <<"masks", 2>>, <<"zero", 2>>>>

\* Mutant: bytes are written before packets.
V9RecordSwapped ==
  ReplaceAt(ReplaceAt(Leading, 6, <<"octets", 4>>), 7, <<"packets", 4>>)
    \o <<<<"protocol", 1>>, <<"tos", 1>>, <<"tcp_flags", 1>>, <<"direction", 1>>>>

\* A record of _data_flowset().
V9Record == Leading \o <<<<"protocol", 1>>, <<"tos", 1>>, <<"tcp_flags", 1>>, <<"direction", 1>>>>

\* TEMPLATE_FIELDS: field types and their lengths.
V9Template == <<<<8, 4>>, <<12, 4>>, <<15, 4>>, <<10, 2>>, <<14, 2>>, <<2, 4>>, <<1, 4>>, <<22, 4>>,
                <<21, 4>>, <<7, 2>>, <<11, 2>>, <<4, 1>>, <<5, 1>>, <<6, 1>>, <<61, 1>>>>

\* What a collector takes the field types of version 9 for.
V9Meaning ==
  [t \in {1, 2, 4, 5, 6, 7, 8, 10, 11, 12, 14, 15, 21, 22, 61} |->
     CASE t = 1  -> "octets"    [] t = 2  -> "packets"   [] t = 4  -> "protocol"
       [] t = 5  -> "tos"       [] t = 6  -> "tcp_flags" [] t = 7  -> "src_port"
       [] t = 8  -> "src"       [] t = 10 -> "input_if"  [] t = 11 -> "dst_port"
       [] t = 12 -> "dst"       [] t = 14 -> "output_if" [] t = 15 -> "nexthop"
       [] t = 21 -> "last_ms"   [] t = 22 -> "first_ms"  [] t = 61 -> "direction"]

\* A flowset with n bytes of content is padded to a multiple of four.
FlowsetLength(n) == ((4 + n + 3) \div 4) * 4

V5Length(n) == 24 + n * Bytes(V5Record)
V9Length(n) == 20 + FlowsetLength(4 + 4 * Len(V9Template)) + FlowsetLength(n * Bytes(V9Record))

\* Mutant: twenty flows a packet.
Chunks20(n) == (n + 19) \div 20

\* export_device() sends 24 flows in a packet.
Chunks(n) == (n + 23) \div 24

-----------------------------------------------------------------------------
(* Properties.                                                             *)

(***************************************************************************)
(* A flow enters and leaves by ports which the device's tables show as     *)
(* ethernet ports that are up, and whose octet counters grow.              *)
(***************************************************************************)
PortsInUse ==
  stage = "done" =>
    \A i \in 0..(FlowCount[profile] - 1) : \A k \in 1..2 :
      LET port == FlowPorts(i)[k]
      IN  /\ interfaces[port].oper /\ interfaces[port].type = 6
          /\ Grows(ifEntry \o <<10, port>>) /\ Grows(ifEntry \o <<16, port>>)

\* The most octets that the flows of a tick report for a port; k = 1 is in.
Reported(port, k) ==
  Cardinality({i \in 0..(FlowCount[profile] - 1) : FlowPorts(i)[k] = port}) * Max(Octets)

(***************************************************************************)
(* NetFlow never reports more traffic through a port than the SNMP         *)
(* counters of the port grow by in the same interval, on average and with  *)
(* the least traffic_scale, in either direction and for every profile.     *)
(***************************************************************************)
WithinCounters ==
  stage = "done" =>
    \A port \in {ActiveInterfaces[i] : i \in DOMAIN ActiveInterfaces} :
      /\ Reported(port, 1) <= (Rates[profile].in  \div 100) * 55 * Interval
      /\ Reported(port, 2) <= (Rates[profile].out \div 100) * 55 * Interval

\* What a collector that reads field i of the layout reader finds there.
Found(i, reader, writer) ==
  {writer[j][1] : j \in {k \in DOMAIN writer : /\ reader[i][2] = writer[k][2]
                                               /\ Offset(reader, i) = Offset(writer, k)}}

(***************************************************************************)
(* A collector that decodes a version 9 data flowset by the template it    *)
(* was sent finds every field of every flow, and the next flow where the   *)
(* template says it begins.                                                *)
(***************************************************************************)
V9Readable ==
  stage = "done" =>
    /\ Bytes(V9Template) = Bytes(V9Record)
    /\ \A t \in DOMAIN V9Template :
         LET found == Found(t, V9Template, V9Record)
             meant == V9Meaning[V9Template[t][1]]
         IN  \A flow \in FlowsOfTick : \E name \in found : flow[name] = flow[meant]

(***************************************************************************)
(* Every tick of a device is one packet, as Netflow assumes, that needs no *)
(* fragmentation and, for version 5, has no more than the 30 records the   *)
(* format admits.                                                          *)
(***************************************************************************)
OnePacket ==
  LET n == FlowCount[profile]
  IN  Chunks(n) = 1 /\ n <= 30 /\ V5Length(n) <= 1472 /\ V9Length(n) <= 1472

(***************************************************************************)
(* netflow.py, "Build and export NetFlow v5 / v9 packets"; the exported    *)
(* Agent configuration has a listener for netflow5.  A collector that      *)
(* knows the format of version 5 finds the protocol of every flow.         *)
(***************************************************************************)
V5Readable ==
  stage = "done" =>
    \A i \in DOMAIN V5Standard :
      LET found == Found(i, V5Standard, V5Record)
      IN  V5Standard[i][1] = "protocol" =>
            \A flow \in FlowsOfTick :
              \E name \in found \cap DOMAIN flow : flow[name] = flow.protocol

=============================================================================
