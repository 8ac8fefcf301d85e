------------------------------ MODULE Inventory ------------------------------
(***************************************************************************)
(* The Device table under commands that overlap: what each command reads   *)
(* and when, what it writes, and when it rewrites the Datadog files.       *)
(*                                                                         *)
(* A command is the list of the database and file accesses it has yet to   *)
(* make.  SQLite makes each of them atomic and nothing makes two of them   *)
(* so.  What a command does to the data files and to the engine is in      *)
(* LabFiles and Supervisor.                                                *)
(*                                                                         *)
(* Abstractions.  An interface list is the type and the profile it was     *)
(* built for; the number and the address, which it also depends on, never  *)
(* change.  Name, location, contact and the texts that follow from the     *)
(* type are left out, the full save() that writes them is not.  The UPDATE *)
(* and the INSERT of a save() are one step.  A Datadog file is whether the *)
(* table is still what it was when the file was rendered.                  *)
(***************************************************************************)
EXTENDS Integers, Sequences, FiniteSets, FiniteSetsExt

CONSTANTS
  Command,      \* commands that may be running at the same time
  MaxAddress,   \* how many hosts device_cidr has
  TypeOrder,    \* default_type_rotation(), a sequence
  Requests,     \* what an operator may ask of start
  Updates,      \* ... and of update
  MaxRows,      \* bound: how many rows are ever inserted
  MaxCommands,  \* bound: how many commands are ever begun
  Gone          \* no row, or nothing asked

VARIABLES
  rows,     \* the Device table, by primary key
  next,     \* the primary key of the next row
  todo,     \* the accesses a command has yet to make
  local,    \* what a command holds in memory
  current,  \* files, on disk or rendered, that show the table as it is
  begun,    \* how many commands have begun
  slips     \* history: see below

vars == <<rows, next, todo, local, current, begun, slips>>

Key     == 1..MaxRows
Address == 1..MaxAddress  \* the hosts of device_cidr
Type    == {TypeOrder[i] : i \in DOMAIN TypeOrder}
Profile == {"high", "medium", "low"}
File    == {"conf", "hostport"}

Row == [number : Nat, ip : Address, type : Type, profile : Profile,
        reach : BOOLEAN, netflow : BOOLEAN, ifaces : Type \X Profile]

ASSUME AddressAssumption == MaxAddress \in Nat
ASSUME CommandAssumption == "disk" \notin Command
ASSUME BoundAssumption   == MaxRows \in Nat /\ MaxCommands \in Nat
\* The keys of two YAML mappings, none listed twice (_available_types).
ASSUME TypeAssumption ==
  /\ TypeOrder \in Seq(STRING) /\ TypeOrder # <<>>
  /\ \A i, j \in DOMAIN TypeOrder : TypeOrder[i] = TypeOrder[j] => i = j
ASSUME GoneAssumption    == Gone \notin Row
ASSUME RequestAssumption ==
  Requests \subseteq [total : Int, high : Int, medium : Int, low : Int, unreachable : Int]
ASSUME UpdateAssumption ==
  \A u \in Updates : /\ "type" \in DOMAIN u => u.type \in Type
                     /\ "traffic" \in DOMAIN u => u.traffic \in Profile
                     /\ "reach" \in DOMAIN u => u.reach \in BOOLEAN

(***************************************************************************)
(*   overwritten  a full save() brought back columns that had changed      *)
(*                since the command read them                              *)
(*   revived      a full save() inserted a row that had been removed       *)
(*   overtaken    a file that was current was replaced by an older one     *)
(*   failed       a command died, or raised                                *)
(***************************************************************************)
Slip == {"overwritten", "revived", "overtaken", "failed"}

Live == {d \in Key : rows[d] # Gone}

\* The unique indexes admit the row.
Admitted(row) == \A d \in Live : rows[d].number # row.number /\ rows[d].ip # row.ip

-----------------------------------------------------------------------------
(* What is asked for, and what it becomes.                                 *)

\* validate_counts()
Valid(r) ==
  /\ r.high >= 0 /\ r.medium >= 0 /\ r.low >= 0 /\ r.unreachable >= 0
  /\ r.total >= 1
  /\ r.high + r.medium + r.low + r.unreachable = r.total

Assigned(n, profile, up) == [i \in 1..n |-> [profile |-> profile, reach |-> up]]

\* Mutant: devices that are to be unreachable are given to LOW traffic.
AssignProfilesUp(r) ==
  Assigned(r.high, "high", TRUE) \o Assigned(r.medium, "medium", TRUE)
    \o Assigned(r.low + r.unreachable, "low", TRUE)

AssignProfiles(r) ==
  Assigned(r.high, "high", TRUE) \o Assigned(r.medium, "medium", TRUE)
    \o Assigned(r.low, "low", TRUE) \o Assigned(r.unreachable, "low", FALSE)

\* build_device_payload()
Payload(number, ip, type, as) ==
  [number |-> number, ip |-> ip, type |-> type, profile |-> as.profile,
   reach |-> as.reach, netflow |-> TRUE, ifaces |-> <<type, as.profile>>]

-----------------------------------------------------------------------------
(* The accesses.                                                           *)

\* render_snmp_conf() and render_host_port_conf() query the table one after
\* the other; then the files are written one after the other.
Export == <<[do |-> "render", file |-> "conf"], [do |-> "render", file |-> "hostport"],
            [do |-> "write",  file |-> "conf"], [do |-> "write",  file |-> "hostport"]>>

Full(change)   == [do |-> "full", change |-> change]
Fields(change) == [do |-> "fields", change |-> change]

Insertion(type, as) == [do |-> "insert", type |-> type, as |-> as]

\* create_lab_devices()
LabJobs(r) ==
  <<[do |-> "ids"], [do |-> "ips"]>>
    \o [i \in 1..r.total |-> Insertion(TypeOrder[1 + ((i - 1) % Len(TypeOrder))], AssignProfiles(r)[i])]

StartJobs(r, replace) == (IF replace THEN <<[do |-> "clear"]>> ELSE <<>>) \o LabJobs(r) \o Export

AddJobs(type, as) == <<[do |-> "ids"], [do |-> "ips"], Insertion(type, as)>> \o Export

\* Mutant: the files are exported before the row is deleted.
RemoveJobsLate == Export \o <<[do |-> "delete"]>>

RemoveJobs == <<[do |-> "delete"]>> \o Export

ResetJobs == <<[do |-> "clear"]>> \o Export

TrafficJobs(type, profile) == <<Full([profile |-> profile, ifaces |-> <<type, profile>>])>> \o Export

ReachJobs(up) == <<Fields([reach |-> up])>> \o Export

NetflowJobs(on) == <<Fields([netflow |-> on])>> \o Export

\* Mutant: set_traffic() builds interfaces for the type the device had.
UpdateJobsOldType(row, u) ==
  LET type    == IF "type" \in DOMAIN u THEN u.type ELSE row.type
      profile == IF "traffic" \in DOMAIN u THEN u.traffic ELSE row.profile
      change  == IF "type" \in DOMAIN u THEN [type |-> type, ifaces |-> <<type, profile>>]
                 ELSE [name |-> "any"]
      more    == (IF "traffic" \in DOMAIN u THEN TrafficJobs(row.type, profile) ELSE <<>>)
                   \o (IF "reach" \in DOMAIN u THEN ReachJobs(u.reach) ELSE <<>>)
  IN  <<Full(change)>> \o (IF more = <<>> THEN Export ELSE more)

(***************************************************************************)
(* update_device(): a full save, with interfaces for the new type and the  *)
(* traffic that is yet to be set, then what set_traffic() and              *)
(* set_reachability() do, with the same object.                            *)
(***************************************************************************)
UpdateJobs(row, u) ==
  LET type    == IF "type" \in DOMAIN u THEN u.type ELSE row.type
      profile == IF "traffic" \in DOMAIN u THEN u.traffic ELSE row.profile
      change  == IF "type" \in DOMAIN u THEN [type |-> type, ifaces |-> <<type, profile>>]
                 ELSE [name |-> "any"]
      more    == (IF "traffic" \in DOMAIN u THEN TrafficJobs(type, profile) ELSE <<>>)
                   \o (IF "reach" \in DOMAIN u THEN ReachJobs(u.reach) ELSE <<>>)
  IN  <<Full(change)>> \o (IF more = <<>> THEN Export ELSE more)

-----------------------------------------------------------------------------
(* Commands begin.                                                         *)

Idle == [pk |-> 0, row |-> Gone, number |-> 0, used |-> {}, request |-> Gone, fresh |-> FALSE]

Begin(c, jobs, pk, request) ==
  /\ todo[c] = <<>>
  /\ begun < MaxCommands
  /\ begun' = begun + 1
  /\ todo' = [todo EXCEPT ![c] = jobs]
  /\ local' = [local EXCEPT ![c] =
       [Idle EXCEPT !.pk = pk, !.row = IF pk = 0 THEN Gone ELSE rows[pk],
                    !.request = request, !.fresh = TRUE]]
  /\ UNCHANGED <<rows, next, current, slips>>

\* A lab that exists is refused without --replace.
Start(c) ==
  \E r \in Requests, replace \in BOOLEAN :
    /\ Valid(r)
    /\ Live = {} \/ replace
    /\ Begin(c, StartJobs(r, Live # {}), 0, r)

Add(c) ==
  \E type \in Type, profile \in Profile, up \in BOOLEAN :
    Begin(c, AddJobs(type, [profile |-> profile, reach |-> up]), 0, Gone)

\* _get_device() reads the row, the whole of it, that the command then changes.
Edit(c) ==
  \E d \in Live :
    \/ Begin(c, RemoveJobs, d, Gone)
    \/ \E profile \in Profile : Begin(c, TrafficJobs(rows[d].type, profile), d, Gone)
    \/ \E up \in BOOLEAN : Begin(c, ReachJobs(up), d, Gone)
    \/ \E on \in BOOLEAN : Begin(c, NetflowJobs(on), d, Gone)
    \/ \E u \in Updates : Begin(c, UpdateJobs(rows[d], u), d, Gone)

Reset(c) == Begin(c, ResetJobs, 0, Gone)

\* export-datadog, reload and configure_netflow(), as far as the table goes.
ExportOnly(c) == Begin(c, Export, 0, Gone)

-----------------------------------------------------------------------------
(* Commands proceed.                                                       *)

Doing(c, what) == todo[c] # <<>> /\ Head(todo[c]).do = what

\* The access is over, and the last one ends the command.
Proceed(c, l, wrote) ==
  /\ todo' = [todo EXCEPT ![c] = Tail(@)]
  /\ local' = [b \in Command |->
       IF b = c THEN IF Len(todo[c]) = 1 THEN Idle ELSE l
       ELSE IF wrote THEN [local[b] EXCEPT !.fresh = FALSE] ELSE local[b]]
  /\ UNCHANGED begun

\* After a write no file shows the table as it is.
Write(c, table, l) ==
  /\ rows' = table
  /\ current' = {}
  /\ Proceed(c, l, TRUE)

With(row, change) ==
  [col \in DOMAIN row |-> IF col \in DOMAIN change THEN change[col] ELSE row[col]]

\* What the object of a command will be once the change is made to it.
Changed(c) == With(local[c].row, Head(todo[c]).change)

\* save(): every column is written, and a row that is gone is inserted again.
Save(c) ==
  LET d == local[c].pk IN
    /\ Doing(c, "full")
    /\ rows[d] = Gone => Admitted(Changed(c))
    /\ Write(c, [rows EXCEPT ![d] = Changed(c)], [local[c] EXCEPT !.row = Changed(c)])
    /\ slips' = slips \cup
         (IF rows[d] = Gone THEN {"revived"}
          ELSE IF Changed(c) = With(rows[d], Head(todo[c]).change) THEN {} ELSE {"overwritten"})
    /\ UNCHANGED next

\* Mutant: update_fields is forgotten.
SaveFieldsFull(c) ==
  LET d == local[c].pk IN
    /\ Doing(c, "fields")
    /\ rows[d] # Gone
    /\ Write(c, [rows EXCEPT ![d] = Changed(c)], [local[c] EXCEPT !.row = Changed(c)])
    /\ UNCHANGED <<next, slips>>

\* save(update_fields = ...)
SaveFields(c) ==
  LET d == local[c].pk IN
    /\ Doing(c, "fields")
    /\ rows[d] # Gone
    /\ Write(c, [rows EXCEPT ![d] = With(@, Head(todo[c]).change)],
             [local[c] EXCEPT !.row = Changed(c)])
    /\ UNCHANGED <<next, slips>>

\* delete(), which does not mind a row that is gone.
Delete(c) ==
  /\ Doing(c, "delete")
  /\ Write(c, [rows EXCEPT ![local[c].pk] = Gone], local[c])
  /\ UNCHANGED <<next, slips>>

Clear(c) ==
  /\ Doing(c, "clear")
  /\ Write(c, [d \in Key |-> Gone], local[c])
  /\ UNCHANGED <<next, slips>>

\* Mutant: devices are counted where their numbers are to be compared.
ReadIdsCount(c) ==
  /\ Doing(c, "ids")
  /\ Proceed(c, [local[c] EXCEPT !.number = 1 + Cardinality(Live)], FALSE)
  /\ UNCHANGED <<rows, next, current, slips>>

\* next_device_number()
ReadIds(c) ==
  /\ Doing(c, "ids")
  /\ Proceed(c, [local[c] EXCEPT !.number = 1 + Max({0} \cup {rows[d].number : d \in Live})], FALSE)
  /\ UNCHANGED <<rows, next, current, slips>>

ReadIps(c) ==
  /\ Doing(c, "ips")
  /\ Proceed(c, [local[c] EXCEPT !.used = {rows[d].ip : d \in Live}], FALSE)
  /\ UNCHANGED <<rows, next, current, slips>>

Unused(c) == Address \ local[c].used

\* Mutant: the address after the highest is taken, as the number is.
NewRowHighest(c) ==
  LET job == Head(todo[c])
  IN  Payload(local[c].number, 1 + Max({0} \cup local[c].used), job.type, job.as)

\* next_ip_address() gives the lowest address.
NewRow(c) ==
  LET job == Head(todo[c])
  IN  Payload(local[c].number, Min(Unused(c)), job.type, job.as)

Insert(c) ==
  /\ Doing(c, "insert")
  /\ Unused(c) # {}
  /\ Admitted(NewRow(c))
  /\ next \in Key
  /\ next' = next + 1
  /\ Write(c, [rows EXCEPT ![next] = NewRow(c)],
           [local[c] EXCEPT !.number = @ + 1, !.used = @ \cup {NewRow(c).ip}])
  /\ UNCHANGED slips

Render(c) ==
  /\ Doing(c, "render")
  /\ current' = current \cup {<<c, Head(todo[c]).file>>}
  /\ Proceed(c, local[c], FALSE)
  /\ UNCHANGED <<rows, next, slips>>

WriteFile(c) ==
  LET rendered == <<c, Head(todo[c]).file>>
      onDisk   == <<"disk", Head(todo[c]).file>>
  IN  /\ Doing(c, "write")
      /\ current' = (current \ {rendered, onDisk})
                      \cup (IF rendered \in current THEN {onDisk} ELSE {})
      /\ slips' = IF onDisk \in current /\ rendered \notin current
                  THEN slips \cup {"overtaken"} ELSE slips
      /\ Proceed(c, local[c], FALSE)
      /\ UNCHANGED <<rows, next>>

\* What the command was about to do is impossible: IntegrityError,
\* DatabaseError, or RuntimeError when the addresses are used up.
Fails(c) ==
  \/ Doing(c, "full") /\ rows[local[c].pk] = Gone /\ ~Admitted(Changed(c))
  \/ Doing(c, "fields") /\ rows[local[c].pk] = Gone
  \/ Doing(c, "insert") /\ (Unused(c) # {} => ~Admitted(NewRow(c)))

Raise(c) ==
  /\ Fails(c)
  /\ todo' = [todo EXCEPT ![c] = <<[do |-> "raised"]>>]
  /\ slips' = slips \cup {"failed"}
  /\ UNCHANGED <<rows, next, local, current, begun>>

Exit(c) ==
  /\ Doing(c, "raised")
  /\ Proceed(c, local[c], FALSE)
  /\ UNCHANGED <<rows, next, current, slips>>

\* The command dies.
Abort(c) ==
  /\ todo[c] # <<>>
  /\ todo' = [todo EXCEPT ![c] = <<>>]
  /\ local' = [local EXCEPT ![c] = Idle]
  /\ current' = current \ {<<c, f>> : f \in File}
  /\ slips' = slips \cup {"failed"}
  /\ UNCHANGED <<rows, next, begun>>

Step(c) ==
  \/ Save(c) \/ SaveFields(c) \/ Delete(c) \/ Clear(c)
  \/ ReadIds(c) \/ ReadIps(c) \/ Insert(c)
  \/ Render(c) \/ WriteFile(c)
  \/ Raise(c) \/ Exit(c)

\* The lab that an undisturbed start leaves, or an empty one, which files
\* that do not exist yet show as well.
Init ==
  /\ \E r \in Requests :
       \/ rows = [d \in Key |-> Gone] /\ next = 1
       \/ /\ Valid(r) /\ r.total <= MaxRows /\ r.total <= MaxAddress
          /\ rows = [d \in Key |-> IF d > r.total THEN Gone
                       ELSE Payload(d, d, LabJobs(r)[2 + d].type,
                                    AssignProfiles(r)[d])]
          /\ next = r.total + 1
  /\ todo = [c \in Command |-> <<>>]
  /\ local = [c \in Command |-> Idle]
  /\ current = {<<"disk", f>> : f \in File}
  /\ begun = 0
  /\ slips = {}

Next ==
  \E c \in Command :
    Start(c) \/ Add(c) \/ Edit(c) \/ Reset(c) \/ ExportOnly(c) \/ Step(c) \/ Abort(c)

Spec == Init /\ [][Next]_vars

-----------------------------------------------------------------------------
(* Properties.                                                             *)

Table == INSTANCE DeviceTable WITH lab <- rows, known <- 1..(next - 1)

TypeOK ==
  /\ rows \in [Key -> Row \cup {Gone}]
  /\ next \in 1..(MaxRows + 1)
  /\ \A d \in Key : d >= next => rows[d] = Gone
  /\ \A c \in Command :
       /\ local[c].pk \in 0..(next - 1)
       /\ local[c].row \in Row \cup {Gone}
       /\ Doing(c, "full") \/ Doing(c, "fields") => local[c].row # Gone
       /\ local[c].number \in Nat
       /\ local[c].used \subseteq Address
  /\ current \subseteq (Command \cup {"disk"}) \X File
  /\ begun \in 0..MaxCommands
  /\ slips \subseteq Slip

(***************************************************************************)
(* The table is that of DeviceTable: seen as database writes, overlapping  *)
(* commands add, remove and change one device at a time, a change undoes   *)
(* nobody else's, and numbers and addresses stay unique, until a full      *)
(* save() of a stale copy slips in; and then it still leaves number,       *)
(* address and every other device alone.                                   *)
(***************************************************************************)
Atomic == Table!Spec

(***************************************************************************)
(* A command that nobody's write has disturbed since it began fails only   *)
(* for want of an address: whatever devices were removed, and whatever     *)
(* numbers and addresses they had, the allocation never picks a taken one. *)
(***************************************************************************)
AloneSucceeds ==
  \A c \in Command : Doing(c, "raised") /\ local[c].fresh => local[c].used = Address

\* The devices of the categories high, medium, low and unreachable.
Having(profile, up) == Cardinality({d \in Live : rows[d].profile = profile /\ rows[d].reach = up})
Have == <<Having("high", TRUE), Having("medium", TRUE), Having("low", TRUE), Having("low", FALSE)>>

(***************************************************************************)
(* The lab that an undisturbed `start` creates is the one it was asked     *)
(* for: at any time, and so also when it runs out of addresses, no         *)
(* category has too many devices or is begun before those ahead of it are  *)
(* complete, and the types are mixed evenly; it is complete before it is   *)
(* exported.                                                               *)
(***************************************************************************)
LabAsAsked ==
  \A c \in Command :
    LET r == local[c].request
    IN  r # Gone /\ local[c].fresh /\ local[c].number > 0 =>
          /\ \A i \in 1..4 :
               LET asked == <<r.high, r.medium, r.low, r.unreachable>>
               IN  /\ Have[i] <= asked[i]
                   /\ Have[i] < asked[i] => \A j \in (i + 1)..4 : Have[j] = 0
          /\ \A s, t \in Type :
               Cardinality({d \in Live : rows[d].type = s})
                 <= 1 + Cardinality({d \in Live : rows[d].type = t})
          /\ Doing(c, "render") => Cardinality(Live) = r.total

(***************************************************************************)
(* The interfaces of a device are those of its type and its traffic        *)
(* profile, except between the two saves of an `update` that changes both, *)
(* and unless that command died there or a stale copy was saved.           *)
(***************************************************************************)
InterfacesMatch ==
  slips \cap {"overwritten", "revived", "failed"} = {} =>
    \A d \in Live :
      \/ rows[d].ifaces = <<rows[d].type, rows[d].profile>>
      \/ \E c \in Command : Doing(c, "full") /\ local[c].pk = d

(***************************************************************************)
(* When all commands are over, the Datadog files show the table as it is,  *)
(* unreachable devices included: every command exports after its last      *)
(* write, so only one that died or a file written late leaves old ones.    *)
(***************************************************************************)
QuietExports ==
  (\A c \in Command : todo[c] = <<>>) /\ slips \cap {"overtaken", "failed"} = {} =>
    \A f \in File : <<"disk", f>> \in current

=============================================================================
