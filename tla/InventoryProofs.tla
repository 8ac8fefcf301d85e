--------------------------- MODULE InventoryProofs ---------------------------
(***************************************************************************)
(* What holds of the Device table for any number of overlapping commands,  *)
(* any lab and any address range: its types, and that it implements        *)
(* DeviceTable.                                                            *)
(*                                                                         *)
(* Two things make the refinement inductive.  A copy of a row, however     *)
(* stale, has the number and the address of its row, and so have two       *)
(* copies of one row (OneIdentity): a full save() can therefore bring back *)
(* any column but those.  And numbers stay behind the primary keys         *)
(* (NumbersBehind), which bounds the maximum next_device_number() takes.   *)
(***************************************************************************)
EXTENDS Inventory, TLAPS, WellFoundedInduction, SequenceTheorems

-----------------------------------------------------------------------------
(* The accesses a command may have yet to make, and their types.           *)

Columns == {"number", "ip", "type", "profile", "reach", "netflow", "ifaces"}
As == [profile : Profile, reach : BOOLEAN]
FullChange == [profile : Profile, ifaces : Type \X Profile]
                \cup [type : Type, ifaces : Type \X Profile] \cup [name : {"any"}]
FieldChange == [reach : BOOLEAN] \cup [netflow : BOOLEAN]

PlainJob == [do : {"ids", "ips", "clear", "raised"}]
              \cup [do : {"insert"}, type : Type, as : As]
              \cup [do : {"render", "write"}, file : File]
EditJob  == [do : {"full"}, change : FullChange] \cup [do : {"fields"}, change : FieldChange]
              \cup [do : {"delete"}]
Job == PlainJob \cup EditJob

-----------------------------------------------------------------------------
(* Least and greatest elements, and sequences.                             *)

\* What Min and Max choose is there to be chosen.
LEMMA LeastIn ==
  ASSUME NEW S \in SUBSET Nat, S # {}
  PROVE  Min(S) \in S /\ \A n \in S : Min(S) <= n
<1> DEFINE R == OpToRel(<, Nat)
<1>1. IsWellFoundedOn(R, Nat)
  BY NatLessThanWellFounded
<1>2. PICK x \in S : \A y \in S : ~ (<<y, x>> \in R)
  <2> HIDE DEF R
  <2> QED BY <1>1, WFMin
<1>3. \A y \in S : x <= y
  <2>1. R = {ss \in Nat \X Nat : ss[1] < ss[2]}
    BY DEF OpToRel
  <2>2. TAKE y \in S
  <2>3. <<y, x>> \in Nat \X Nat /\ <<y, x>> \notin R
    <3> HIDE DEF R
    <3> QED BY <1>2
  <2>4. ~ (y < x)
    <3> HIDE DEF R
    <3> QED BY <2>1, <2>3
  <2> QED BY <2>4
<1> QED BY <1>2, <1>3 DEF Min

\* A bounded non-empty set of numbers has its maximum.
LEMMA GreatestIn ==
  ASSUME NEW S \in SUBSET Nat, S # {}, NEW n \in Nat, \A x \in S : x <= n
  PROVE  Max(S) \in S /\ \A x \in S : x <= Max(S)
<1> DEFINE Bounds == {m \in Nat : \A x \in S : x <= m}
           b == Min(Bounds)
<1>1. b \in Bounds /\ \A m \in Bounds : b <= m
  <2>1. Bounds \in SUBSET Nat /\ Bounds # {}
    OBVIOUS
  <2> HIDE DEF Bounds
  <2> QED BY <2>1, LeastIn
<1>2. b \in S
  <2>1. ASSUME b \notin S PROVE FALSE
    <3>1. \A x \in S : x <= b - 1 /\ b - 1 \in Nat
      BY <1>1, <2>1
    <3>2. b - 1 \in Bounds
      BY <3>1
    <3> QED BY <1>1, <3>2
  <2> QED BY <2>1
<1>3. \A x \in S : b >= x
  BY <1>1
<1> QED BY <1>2, <1>3 DEF Max

-----------------------------------------------------------------------------
(* Every list of accesses is typed.                                        *)

\* The rotation of create_lab_devices() stays within the list of types.
LEMMA TypeNotEmpty ==
  ASSUME NEW i \in Nat PROVE TypeOrder[1 + (i % Len(TypeOrder))] \in Type
<1>1. Len(TypeOrder) \in Nat /\ Len(TypeOrder) > 0 /\ DOMAIN TypeOrder = 1..Len(TypeOrder)
  BY TypeAssumption, LenProperties, EmptySeq
<1> DEFINE n == Len(TypeOrder)
<1>2. 1 + (i % n) \in 1..n
  <2>1. n \in Nat /\ n > 0
    BY <1>1
  <2> HIDE DEF n
  <2> QED BY <2>1
<1> QED BY <1>1, <1>2 DEF Type

\* What concatenation returns.
LEMMA Appended ==
  ASSUME NEW S, NEW s \in Seq(S), NEW t \in Seq(S)
  PROVE  s \o t \in Seq(S) /\ Len(s \o t) = Len(s) + Len(t)
BY ConcatProperties

\* Where an entry of the second sequence is after a concatenation.
LEMMA AppendedAt ==
  ASSUME NEW S, NEW s \in Seq(S), NEW t \in Seq(S), NEW n \in 1..Len(t)
  PROVE  (s \o t)[Len(s) + n] = t[n]
BY ConcatProperties, LenProperties

\* Length of a concatenation of three.
LEMMA AppendedTwice ==
  ASSUME NEW S, NEW s \in Seq(S), NEW t \in Seq(S), NEW u \in Seq(S)
  PROVE  s \o t \o u \in Seq(S) /\ Len(s \o t \o u) = Len(s) + Len(t) + Len(u)
<1> DEFINE st == s \o t
<1>1. st \in Seq(S) /\ Len(st) = Len(s) + Len(t)
  BY Appended
<1>2. st \o u \in Seq(S) /\ Len(st \o u) = Len(st) + Len(u)
  <2> HIDE DEF st
  <2> QED BY <1>1, Appended
<1> QED BY <1>1, <1>2

\* A sequence with one or two elements put in front.
LEMMA Cons ==
  ASSUME NEW S, NEW s \in Seq(S), NEW x
  PROVE  <<x>> \o s # <<>> /\ Head(<<x>> \o s) = x /\ Tail(<<x>> \o s) = s
<1>1. s \in Seq(S \cup {x}) /\ <<x>> \in Seq(S \cup {x}) /\ Len(<<x>>) = 1
  OBVIOUS
<1>2. <<x>> \o s \in Seq(S \cup {x})
  BY <1>1, ConcatProperties
<1> QED BY <1>1, <1>2, ConcatProperties

\* The head and the tail of a list with two jobs in front.
LEMMA Cons2 ==
  ASSUME NEW S, NEW s \in Seq(S), NEW x, NEW y
  PROVE  /\ <<x>> \o (<<y>> \o s) # <<>> /\ Head(<<x>> \o (<<y>> \o s)) = x
         /\ Tail(<<x>> \o (<<y>> \o s)) = <<y>> \o s
<1> DEFINE t == <<y>> \o s
<1>1. t \in Seq(S \cup {y})
  <2>1. s \in Seq(S \cup {y}) /\ <<y>> \in Seq(S \cup {y})
    OBVIOUS
  <2> QED BY <2>1, ConcatProperties
<1> HIDE DEF t
<1>2. <<x>> \o t # <<>> /\ Head(<<x>> \o t) = x /\ Tail(<<x>> \o t) = t
  BY <1>1, Cons
<1> QED BY <1>2 DEF t

\* The jobs that are typed whatever row a command has read.
LEMMA PlainJobs ==
  /\ \A d \in {"ids", "ips", "clear", "raised"} : [do |-> d] \in PlainJob
  /\ \A type \in Type, as \in As : Insertion(type, as) \in PlainJob
BY DEF PlainJob, Insertion

\* The export consists of such jobs.
LEMMA ExportJobs == Export \in Seq(PlainJob)
BY DEF Export, PlainJob, File

\* assign_profiles() gives each of the devices asked for a profile.
LEMMA Assignments ==
  ASSUME NEW r \in Requests, Valid(r)
  PROVE  AssignProfiles(r) \in Seq(As) /\ Len(AssignProfiles(r)) = r.total
<1>1. /\ r.high \in Nat /\ r.medium \in Nat /\ r.low \in Nat /\ r.unreachable \in Nat
      /\ r.total = r.high + r.medium + r.low + r.unreachable
  BY RequestAssumption DEF Valid
<1>2. ASSUME NEW n \in Nat, NEW profile \in Profile, NEW up \in BOOLEAN
      PROVE  Assigned(n, profile, up) \in Seq(As) /\ Len(Assigned(n, profile, up)) = n
  BY DEF Assigned, As
<1> DEFINE a == Assigned(r.high, "high", TRUE)
           b == Assigned(r.medium, "medium", TRUE)
           c == Assigned(r.low, "low", TRUE)
           d == Assigned(r.unreachable, "low", FALSE)
<1>3. /\ a \in Seq(As) /\ Len(a) = r.high /\ b \in Seq(As) /\ Len(b) = r.medium
      /\ c \in Seq(As) /\ Len(c) = r.low /\ d \in Seq(As) /\ Len(d) = r.unreachable
  BY <1>1, <1>2 DEF Profile
<1>4. a \o b \o c \o d \in Seq(As) /\ Len(a \o b \o c \o d) = r.total
  <2> HIDE DEF a, b, c, d
  <2> DEFINE abc == a \o b \o c
  <2>1. abc \in Seq(As) /\ Len(abc) = r.high + r.medium + r.low
    <3>1. abc \in Seq(As) /\ Len(abc) = Len(a) + Len(b) + Len(c)
      <4>1. a \in Seq(As) /\ b \in Seq(As) /\ c \in Seq(As)
        BY <1>3
      <4> QED BY <4>1, AppendedTwice
    <3> HIDE DEF abc
    <3> QED BY <1>1, <1>3, <3>1
  <2>2. abc \o d \in Seq(As) /\ Len(abc \o d) = Len(abc) + Len(d)
    <3> HIDE DEF abc
    <3> QED BY <1>3, <2>1, Appended
  <2> QED BY <1>1, <1>3, <2>1, <2>2
<1> QED BY <1>4 DEF AssignProfiles

\* The list of a lab creation is typed, entry by entry,
LEMMA LabJobsPlain ==
  ASSUME NEW r \in Requests, Valid(r)
  PROVE  /\ LabJobs(r) \in Seq(PlainJob)
         /\ \A d \in 1..r.total : LabJobs(r)[2 + d].type \in Type /\ AssignProfiles(r)[d] \in As
<1>1. r.total \in Nat
  BY RequestAssumption DEF Valid
<1>2. ASSUME NEW i \in 1..r.total PROVE AssignProfiles(r)[i] \in As
  BY <1>1, Assignments, ElementOfSeq
<1>3. ASSUME NEW i \in 1..r.total
      PROVE  TypeOrder[1 + ((i - 1) % Len(TypeOrder))] \in Type
  <2>1. i - 1 \in Nat
    BY <1>1
  <2> QED BY <2>1, TypeNotEmpty
<1> DEFINE s == [i \in 1..r.total |-> Insertion(TypeOrder[1 + ((i - 1) % Len(TypeOrder))], AssignProfiles(r)[i])]
           reads == <<[do |-> "ids"], [do |-> "ips"]>>
<1>4. ASSUME NEW i \in 1..r.total
      PROVE  Insertion(TypeOrder[1 + ((i - 1) % Len(TypeOrder))], AssignProfiles(r)[i]) \in PlainJob
  BY <1>2, <1>3, PlainJobs
<1>5. s \in Seq(PlainJob) /\ Len(s) = r.total
  BY <1>1, <1>4
<1>6. reads \in Seq(PlainJob) /\ Len(reads) = 2
  BY PlainJobs
<1>7. LabJobs(r) = reads \o s
  BY DEF LabJobs
<1>8. ASSUME NEW d \in 1..r.total PROVE (reads \o s)[2 + d] = s[d]
  <2> HIDE DEF reads, s
  <2>1. d \in 1..Len(s)
    BY <1>5
  <2>2. (reads \o s)[Len(reads) + d] = s[d]
    <3>1. reads \in Seq(PlainJob) /\ s \in Seq(PlainJob)
      BY <1>5, <1>6
    <3> HIDE DEF reads, s
    <3> QED BY <2>1, <3>1, AppendedAt
  <2> QED BY <1>6, <2>2
<1>9. ASSUME NEW d \in 1..r.total PROVE s[d].type \in Type
  BY <1>3 DEF Insertion
<1>10. LabJobs(r) \in Seq(PlainJob)
  <2> HIDE DEF reads, s
  <2> QED BY <1>5, <1>6, <1>7, ConcatProperties
<1> QED BY <1>2, <1>7, <1>8, <1>9, <1>10

\* and so is that of a start,
LEMMA StartJobsPlain ==
  ASSUME NEW r \in Requests, Valid(r), NEW replace \in BOOLEAN
  PROVE  StartJobs(r, replace) \in Seq(PlainJob)
<1> DEFINE first == IF replace THEN <<[do |-> "clear"]>> ELSE <<>>
<1>1. first \in Seq(PlainJob)
  BY PlainJobs
<1>2. first \o LabJobs(r) \o Export \in Seq(PlainJob)
  <2> HIDE DEF first
  <2> QED BY <1>1, LabJobsPlain, ExportJobs, AppendedTwice
<1> QED BY <1>2 DEF StartJobs

\* and that of adding a device.
LEMMA AddJobsPlain ==
  ASSUME NEW type \in Type, NEW as \in As
  PROVE  AddJobs(type, as) \in Seq(PlainJob)
<1> DEFINE new == Insertion(type, as)
           first == <<[do |-> "ids"], [do |-> "ips"], new>>
<1>1. first \in Seq(PlainJob)
  <2>1. new \in PlainJob
    BY PlainJobs
  <2> HIDE DEF new
  <2> QED BY <2>1, PlainJobs
<1>2. first \o Export \in Seq(PlainJob)
  <2> HIDE DEF first
  <2> QED BY <1>1, ExportJobs, ConcatProperties
<1> QED BY <1>2 DEF AddJobs

\* A list that needs no copy of a row, and one that may.
LEMMA PlainIsJob == ASSUME NEW s \in Seq(PlainJob) PROVE s \in Seq(Job)
BY DEF Job

\* One job and the export are a list.
LEMMA OneThenExport ==
  ASSUME NEW job \in Job PROVE <<job>> \o Export \in Seq(Job)
<1>1. <<job>> \in Seq(Job)
  OBVIOUS
<1> QED BY <1>1, ExportJobs, PlainIsJob, ConcatProperties

\* The lists of the commands on one device are typed,
LEMMA EditJobs ==
  /\ RemoveJobs \in Seq(Job)
  /\ \A type \in Type, profile \in Profile : TrafficJobs(type, profile) \in Seq(Job)
  /\ \A up \in BOOLEAN : ReachJobs(up) \in Seq(Job)
  /\ \A on \in BOOLEAN : NetflowJobs(on) \in Seq(Job)
<1>1. RemoveJobs \in Seq(Job)
  <2>1. [do |-> "delete"] \in Job
    BY DEF Job, EditJob
  <2> QED BY <2>1, OneThenExport DEF RemoveJobs
<1>2. ASSUME NEW type \in Type, NEW profile \in Profile
      PROVE  TrafficJobs(type, profile) \in Seq(Job)
  <2>1. [profile |-> profile, ifaces |-> <<type, profile>>] \in FullChange
    BY DEF FullChange
  <2>2. Full([profile |-> profile, ifaces |-> <<type, profile>>]) \in Job
    BY <2>1 DEF Job, EditJob, Full
  <2> QED BY <2>2, OneThenExport DEF TrafficJobs
<1>3. ASSUME NEW up \in BOOLEAN PROVE ReachJobs(up) \in Seq(Job)
  <2>1. Fields([reach |-> up]) \in Job
    BY DEF Job, EditJob, Fields, FieldChange
  <2> QED BY <2>1, OneThenExport DEF ReachJobs
<1>4. ASSUME NEW on \in BOOLEAN PROVE NetflowJobs(on) \in Seq(Job)
  <2>1. Fields([netflow |-> on]) \in Job
    BY DEF Job, EditJob, Fields, FieldChange
  <2> QED BY <2>1, OneThenExport DEF NetflowJobs
<1> QED BY <1>1, <1>2, <1>3, <1>4

\* and so is that of an update of the row it has read.
LEMMA UpdateJobsTyped ==
  ASSUME NEW row \in Row, NEW u \in Updates
  PROVE  UpdateJobs(row, u) \in Seq(Job)
<1> DEFINE type == IF "type" \in DOMAIN u THEN u.type ELSE row.type
           profile == IF "traffic" \in DOMAIN u THEN u.traffic ELSE row.profile
           change == IF "type" \in DOMAIN u THEN [type |-> type, ifaces |-> <<type, profile>>]
                     ELSE [name |-> "any"]
           traffic == IF "traffic" \in DOMAIN u THEN TrafficJobs(type, profile) ELSE <<>>
           reach == IF "reach" \in DOMAIN u THEN ReachJobs(u.reach) ELSE <<>>
           more == traffic \o reach
<1>1. type \in Type /\ profile \in Profile
  BY UpdateAssumption DEF Row
<1>2. traffic \in Seq(Job) /\ reach \in Seq(Job)
  <2> HIDE DEF type, profile
  <2>1. ASSUME "reach" \in DOMAIN u PROVE u.reach \in BOOLEAN
    BY <2>1, UpdateAssumption
  <2>2. <<>> \in Seq(Job)
    OBVIOUS
  <2> QED BY <1>1, <2>1, <2>2, EditJobs
<1>3. change \in FullChange
  <2> HIDE DEF type, profile
  <2>1. [type |-> type, ifaces |-> <<type, profile>>] \in FullChange
    BY <1>1 DEF FullChange
  <2>2. [name |-> "any"] \in FullChange
    BY DEF FullChange
  <2> QED BY <2>1, <2>2
<1>4. Full(change) \in Job
  <2> HIDE DEF change
  <2> QED BY <1>3 DEF Full, Job, EditJob
<1>5. (IF more = <<>> THEN Export ELSE more) \in Seq(Job)
  <2> HIDE DEF traffic, reach
  <2> QED BY <1>2, ExportJobs, PlainIsJob, ConcatProperties
<1>6. <<Full(change)>> \o (IF more = <<>> THEN Export ELSE more) \in Seq(Job)
  <2>1. <<Full(change)>> \in Seq(Job)
    <3> HIDE DEF change
    <3> QED BY <1>4
  <2> HIDE DEF change, more
  <2> QED BY <1>5, <2>1, ConcatProperties
<1> QED BY <1>6 DEF UpdateJobs
-----------------------------------------------------------------------------
(* The inductive invariant.                                                *)

\* Two rows that are the same device.
Twin(a, b) == a.number = b.number /\ a.ip = b.ip

\* What a command holds in memory.
Local == [pk : Nat, row : Row \cup {Gone}, number : Nat, used : SUBSET Address,
          request : Requests \cup {Gone}, fresh : BOOLEAN]

Typed ==
  /\ rows \in [Key -> Row \cup {Gone}]
  /\ next \in 1..(MaxRows + 1)
  /\ todo \in [Command -> Seq(Job)]
  /\ local \in [Command -> Local]
  /\ current \subseteq (Command \cup {"disk"}) \X File
  /\ begun \in 0..MaxCommands
  /\ slips \subseteq Slip

\* A key that has not been given yet has no row.
Unborn == \A d \in Key : d >= next => rows[d] = Gone

\* A command whose accesses need a row has read one.
Held(c) ==
  \/ local[c].pk = 0 /\ local[c].row = Gone /\ todo[c] \in Seq(PlainJob)
  \/ local[c].pk \in 1..(next - 1) /\ local[c].row \in Row

NumbersBehind ==
  /\ \A d \in Key : rows[d] # Gone => rows[d].number < next
  /\ \A c \in Command : /\ local[c].number <= next
                        /\ local[c].row # Gone => local[c].row.number < next

OneIdentity ==
  /\ \A c \in Command :
       local[c].pk # 0 /\ rows[local[c].pk] # Gone => Twin(rows[local[c].pk], local[c].row)
  /\ \A b, c \in Command :
       local[b].pk # 0 /\ local[b].pk = local[c].pk => Twin(local[b].row, local[c].row)

IInv ==
  /\ Typed
  /\ Unborn
  /\ \A c \in Command : Held(c)
  /\ NumbersBehind
  /\ OneIdentity
  /\ Table!Distinct(rows)

-----------------------------------------------------------------------------
(* What a step does to the commands and to the rows.                       *)

\* b is over, or goes on with the copy it had.
Carries(b) ==
  \/ local'[b] = Idle /\ todo'[b] = <<>>
  \/ /\ local'[b] \in Local
     /\ local'[b].pk = local[b].pk
     /\ \/ local'[b].row = local[b].row
        \/ /\ local[b].row \in Row /\ local'[b].row \in Row
           /\ Twin(local'[b].row, local[b].row)
     /\ local'[b].number <= next'
     /\ todo'[b] \in Seq(Job)
     /\ todo[b] \in Seq(PlainJob) => todo'[b] \in Seq(PlainJob)

\* Where the row that d has next comes from.
Origin(d) ==
  \/ rows'[d] = Gone
  \/ rows[d] # Gone /\ Twin(rows'[d], rows[d])
  \/ \E c \in Command : local[c].pk = d /\ Twin(rows'[d], local[c].row)
  \/ d = next /\ next' = next + 1 /\ rows'[d].number <= next

\* What a command that has not begun has in memory.
LEMMA IdleTyped == Idle \in Local /\ Idle.pk = 0 /\ Idle.row = Gone /\ Idle.number = 0
BY DEF Idle, Local

\* A step that goes on with the row it had, or an edited copy of it, keeps all other copies as they were.
LEMMA ProceedCarries ==
  ASSUME IInv, next' \in {next, next + 1},
         NEW c \in Command, todo[c] # <<>>,
         NEW l \in Local, l.pk = local[c].pk, l.number <= next',
         \/ l.row = local[c].row
         \/ local[c].row \in Row /\ l.row \in Row /\ Twin(l.row, local[c].row),
         NEW wrote \in BOOLEAN, Proceed(c, l, wrote)
  PROVE  /\ \A b \in Command : Carries(b)
         /\ local' \in [Command -> Local]
         /\ todo' \in [Command -> Seq(Job)]
<1>1. /\ todo \in [Command -> Seq(Job)] /\ local \in [Command -> Local]
      /\ next \in Nat
  BY BoundAssumption DEF IInv, Typed
<1>2. Tail(todo[c]) \in Seq(Job) /\ Len(todo[c]) \in Nat
  BY <1>1, HeadTailProperties, LenProperties
<1>3. todo[c] \in Seq(PlainJob) => Tail(todo[c]) \in Seq(PlainJob)
  BY HeadTailProperties
<1>4. /\ todo' = [todo EXCEPT ![c] = Tail(@)]
      /\ local' = [b \in Command |->
           IF b = c THEN IF Len(todo[c]) = 1 THEN Idle ELSE l
           ELSE IF wrote THEN [local[b] EXCEPT !.fresh = FALSE] ELSE local[b]]
  BY DEF Proceed
<1>5. todo' \in [Command -> Seq(Job)] /\ todo'[c] = Tail(todo[c])
      /\ \A b \in Command \ {c} : todo'[b] = todo[b]
  BY <1>1, <1>2, <1>4
<1>6. Len(todo[c]) = 1 => Tail(todo[c]) = <<>>
  <2> HAVE Len(todo[c]) = 1
  <2>1. Len(Tail(todo[c])) = 0
    BY <1>1, <1>2, HeadTailProperties
  <2> QED BY <1>2, <2>1, EmptySeq
<1>7. Carries(c) /\ local'[c] \in Local
  <2>1. CASE Len(todo[c]) = 1
    BY <1>4, <1>5, <1>6, <2>1, IdleTyped DEF Carries
  <2>2. CASE Len(todo[c]) # 1
    <3>1. local'[c] = l
      BY <1>4, <2>2
    <3> QED BY <1>2, <1>3, <1>5, <3>1 DEF Carries
  <2> QED BY <2>1, <2>2
<1>8. ASSUME NEW b \in Command, b # c PROVE Carries(b) /\ local'[b] \in Local
  <2>1. /\ local'[b] \in Local /\ local'[b].pk = local[b].pk
        /\ local'[b].row = local[b].row /\ local'[b].number = local[b].number
    <3>1. local'[b] = IF wrote THEN [local[b] EXCEPT !.fresh = FALSE] ELSE local[b]
      BY <1>4, <1>8
    <3>2. local[b] \in Local
      BY <1>1
    <3> QED BY <3>1, <3>2 DEF Local
  <2>2. local[b].number <= next'
    <3>1. local[b].number \in Nat
      BY <1>1 DEF Local
    <3> QED BY <1>1, <3>1 DEF IInv, NumbersBehind
  <2>3. todo'[b] = todo[b] /\ todo[b] \in Seq(Job)
    BY <1>1, <1>5, <1>8
  <2> QED BY <2>1, <2>2, <2>3 DEF Carries
<1>9. local' \in [Command -> Local]
  <2>1. \A b \in Command : local'[b] \in Local
    BY <1>7, <1>8
  <2>2. local' = [b \in Command |-> local'[b]]
    BY <1>4
  <2> QED BY <2>1, <2>2
<1> QED BY <1>5, <1>7, <1>8, <1>9

\* A step that carries every command on, and whose rows have an origin, is safe.
LEMMA Kept ==
  ASSUME IInv, \A b \in Command : Carries(b), \A d \in Key : Origin(d),
         next' \in {next, next + 1}, next' \in 1..(MaxRows + 1),
         rows' \in [Key -> Row \cup {Gone}],
         local' \in [Command -> Local], todo' \in [Command -> Seq(Job)],
         begun' = begun, slips' \subseteq Slip,
         current' \subseteq (Command \cup {"disk"}) \X File,
         Unborn', Table!Distinct(rows')
  PROVE  IInv'
<1>1. Typed'
  BY DEF IInv, Typed
<1>2. next \in Nat /\ MaxRows \in Nat /\ next - 1 \in 0..MaxRows
  BY BoundAssumption DEF IInv, Typed
<1>3. ASSUME NEW b \in Command PROVE Held(b)'
  <2>1. CASE local'[b] = Idle /\ todo'[b] = <<>>
    BY <2>1, IdleTyped, EmptySeq DEF Held
  <2>2. CASE local'[b].pk = local[b].pk /\ local[b].pk = 0
    <3>1. local[b].row = Gone /\ todo[b] \in Seq(PlainJob)
      BY <2>2 DEF IInv, Held
    <3> QED BY <2>1, <2>2, <3>1, GoneAssumption DEF Carries, Held
  <2>3. CASE local'[b].pk = local[b].pk /\ local[b].pk # 0
    <3>1. local[b].pk \in 1..(next - 1) /\ local[b].row \in Row
      BY <2>3 DEF IInv, Held
    <3>2. local[b].pk \in 1..(next' - 1)
      BY <1>2, <3>1
    <3>3. local'[b].row \in Row \/ local'[b] = Idle
      BY <3>1 DEF Carries
    <3> QED BY <2>1, <2>3, <3>2, <3>3, IdleTyped DEF Carries, Held
  <2> QED BY <2>1, <2>2, <2>3 DEF Carries
<1>4. ASSUME NEW b \in Command, local'[b].pk # 0
      PROVE  /\ local'[b].pk = local[b].pk
             /\ local[b].row \in Row
             /\ Twin(local'[b].row, local[b].row)
  <2>1. local'[b].pk = local[b].pk
    BY <1>4, IdleTyped DEF Carries
  <2>2. local[b].row \in Row
    BY <1>4, <2>1 DEF IInv, Held
  <2> QED BY <1>4, <2>1, <2>2, IdleTyped DEF Carries, Twin
<1>5. ASSUME NEW d \in Key, rows'[d] # Gone PROVE rows'[d].number < next'
  <2>1. rows'[d].number \in Nat
    BY <1>5 DEF Row
  <2>2. CASE rows[d] # Gone /\ Twin(rows'[d], rows[d])
    BY <1>2, <2>1, <2>2 DEF IInv, NumbersBehind, Twin
  <2>3. ASSUME NEW c \in Command, local[c].pk = d, Twin(rows'[d], local[c].row)
        PROVE  rows'[d].number < next'
    <3>1. local[c].row \in Row
      BY <2>3, BoundAssumption DEF IInv, Held, Key
    <3>2. local[c].row.number < next
      BY <3>1, GoneAssumption DEF IInv, NumbersBehind
    <3> QED BY <1>2, <2>1, <2>3, <3>2 DEF Twin
  <2>4. CASE d = next /\ next' = next + 1 /\ rows'[d].number <= next
    BY <1>2, <2>1, <2>4
  <2> QED BY <1>5, <2>2, <2>3, <2>4 DEF Origin
<1>6. ASSUME NEW b \in Command
      PROVE  /\ local'[b].number <= next'
             /\ local'[b].row # Gone => local'[b].row.number < next'
  <2>1. local'[b].number <= next'
    BY <1>2, IdleTyped DEF Carries
  <2>2. ASSUME local'[b].row # Gone PROVE local'[b].row.number < next'
    <3>1. local'[b].pk # 0
      BY <1>3, <2>2 DEF Held
    <3>2. local[b].row \in Row /\ local'[b].row.number = local[b].row.number
      BY <1>4, <3>1 DEF Twin
    <3>3. local[b].row.number < next /\ local[b].row.number \in Nat
      BY <3>2, GoneAssumption DEF IInv, NumbersBehind, Row
    <3> QED BY <1>2, <3>2, <3>3
  <2> QED BY <2>1, <2>2
<1>7. NumbersBehind'
  BY <1>5, <1>6 DEF NumbersBehind
<1>8. ASSUME NEW b \in Command, NEW c \in Command,
             local'[b].pk # 0, local'[b].pk = local'[c].pk
      PROVE  Twin(local'[b].row, local'[c].row)
  <2>1. local[b].pk # 0 /\ local[b].pk = local[c].pk
    BY <1>4, <1>8
  <2>2. Twin(local[b].row, local[c].row)
    BY <2>1 DEF IInv, OneIdentity
  <2> QED BY <1>4, <1>8, <2>2 DEF Twin
<1>9. ASSUME NEW b \in Command, local'[b].pk # 0, rows'[local'[b].pk] # Gone
      PROVE  Twin(rows'[local'[b].pk], local'[b].row)
  <2> DEFINE d == local[b].pk
  <2>1. local'[b].pk = d /\ d \in Key /\ d # next /\ d # 0
    <3>1. d # 0 /\ local'[b].pk = d
      BY <1>4, <1>9
    <3>2. d \in 1..(next - 1)
      BY <3>1 DEF IInv, Held
    <3> QED BY <1>2, <3>1, <3>2 DEF Key
  <2>2. Twin(local'[b].row, local[b].row)
    BY <1>4, <1>9
  <2>3. CASE rows[d] # Gone /\ Twin(rows'[d], rows[d])
    <3>1. Twin(rows[d], local[b].row)
      BY <2>1, <2>3 DEF IInv, OneIdentity
    <3> QED BY <2>1, <2>2, <2>3, <3>1 DEF Twin
  <2>4. ASSUME NEW c \in Command, local[c].pk = d, Twin(rows'[d], local[c].row)
        PROVE  Twin(rows'[d], local'[b].row)
    <3>1. Twin(local[b].row, local[c].row)
      BY <2>1, <2>4 DEF IInv, OneIdentity
    <3> QED BY <2>2, <2>4, <3>1 DEF Twin
  <2> QED BY <1>9, <2>1, <2>3, <2>4 DEF Origin
<1>10. OneIdentity'
  BY <1>8, <1>9 DEF OneIdentity
<1> QED BY <1>1, <1>3, <1>7, <1>10 DEF IInv

-----------------------------------------------------------------------------
(* What the accesses find.                                                 *)

\* A change leaves the number and the address of a row alone.
LEMMA WithTyped ==
  ASSUME NEW row \in Row, NEW change \in FullChange \cup FieldChange
  PROVE  With(row, change) \in Row /\ Twin(With(row, change), row)
<1> DEFINE w == With(row, change)
<1>1. DOMAIN row = Columns
  BY DEF Row, Columns
<1>2. DOMAIN change \subseteq {"profile", "ifaces", "type", "name", "reach", "netflow"}
  BY DEF FullChange, FieldChange
<1>3. /\ "profile" \in DOMAIN change => change.profile \in Profile
      /\ "type" \in DOMAIN change => change.type \in Type
      /\ "ifaces" \in DOMAIN change => change.ifaces \in Type \X Profile
      /\ "reach" \in DOMAIN change => change.reach \in BOOLEAN
      /\ "netflow" \in DOMAIN change => change.netflow \in BOOLEAN
  BY DEF FullChange, FieldChange
<1>4. w = [c \in Columns |-> w[c]]
  BY <1>1 DEF With
<1>5. w.number = row.number /\ w.ip = row.ip
  BY <1>1, <1>2 DEF With, Columns
<1>6. /\ w.type \in Type /\ w.profile \in Profile /\ w.ifaces \in Type \X Profile
      /\ w.reach \in BOOLEAN /\ w.netflow \in BOOLEAN
  BY <1>1, <1>2, <1>3 DEF With, Columns, Row
<1>7. w.number \in Nat /\ w.ip \in Address
  BY <1>5 DEF Row
<1>8. w \in Row
  <2> HIDE DEF w
  <2> QED BY <1>4, <1>6, <1>7 DEF Row, Columns
<1> QED BY <1>5, <1>8 DEF Twin

\* The head of the list has what its access needs.
LEMMA HeadShape ==
  ASSUME IInv, NEW c \in Command, NEW what, Doing(c, what)
  PROVE  /\ todo[c] # <<>>
         /\ what \in {"full", "fields", "delete"} =>
              /\ local[c].pk \in Key /\ local[c].pk \in 1..(next - 1)
              /\ local[c].row \in Row
         /\ what = "full" => Head(todo[c]).change \in FullChange
         /\ what = "fields" => Head(todo[c]).change \in FieldChange
         /\ what = "insert" => Head(todo[c]).type \in Type /\ Head(todo[c]).as \in As
         /\ what \in {"render", "write"} => Head(todo[c]).file \in File
<1> DEFINE job == Head(todo[c])
<1>1. todo[c] # <<>> /\ job.do = what
  BY DEF Doing
<1>2. job \in Job
  BY <1>1, HeadTailProperties DEF IInv, Typed
<1>3. ASSUME what \in {"full", "fields", "delete"}
      PROVE  /\ local[c].pk \in Key /\ local[c].pk \in 1..(next - 1)
             /\ local[c].row \in Row
  <2>1. todo[c] \notin Seq(PlainJob)
    <3>1. SUFFICES ASSUME todo[c] \in Seq(PlainJob) PROVE FALSE
      OBVIOUS
    <3>2. job \in PlainJob
      BY <1>1, <3>1, HeadTailProperties
    <3> HIDE DEF job
    <3> QED BY <1>1, <1>3, <3>2 DEF PlainJob
  <2> QED BY <2>1, BoundAssumption DEF IInv, Typed, Held, Key
<1>4. /\ what = "full" => job.change \in FullChange
      /\ what = "fields" => job.change \in FieldChange
      /\ what = "insert" => job.type \in Type /\ job.as \in As
      /\ what \in {"render", "write"} => job.file \in File
  <2> HIDE DEF job
  <2> QED BY <1>1, <1>2 DEF Job, PlainJob, EditJob
<1> QED BY <1>1, <1>3, <1>4

\* A step that leaves the rows alone is a stutter of the table.
LEMMA TableSame ==
  ASSUME IInv, UNCHANGED <<rows, next>>, slips \subseteq slips'
  PROVE  Table!Next /\ Unborn' /\ Table!Distinct(rows') /\ \A d \in Key : Origin(d)
BY DEF IInv, Table!Next, Unborn, Origin, Twin

\* A step that takes a row away, edits one or inserts an admitted one keeps numbers and addresses distinct.
LEMMA DistinctStill ==
  ASSUME IInv, NEW d \in Key, \A e \in Key \ {d} : rows'[e] = rows[e],
         \/ rows'[d] = Gone
         \/ rows[d] # Gone /\ Twin(rows'[d], rows[d])
         \/ rows[d] = Gone /\ Admitted(rows'[d])
  PROVE  Table!Distinct(rows')
BY DEF IInv, Table!Distinct, Twin, Admitted, Live

-----------------------------------------------------------------------------
(* One lemma per group of actions: each keeps the invariant and is a step  *)
(* of DeviceTable.                                                         *)

\* A command that begins with a typed list keeps the invariant,
LEMMA BeginKeeps ==
  ASSUME IInv, NEW c \in Command, NEW jobs, NEW pk, NEW request \in Requests \cup {Gone},
         \/ pk = 0 /\ jobs \in Seq(PlainJob)
         \/ pk \in Live /\ jobs \in Seq(Job),
         Begin(c, jobs, pk, request)
  PROVE  IInv' /\ Table!Next
<1> DEFINE l == [Idle EXCEPT !.pk = pk, !.row = IF pk = 0 THEN Gone ELSE rows[pk],
                             !.request = request, !.fresh = TRUE]
<1>1. /\ todo[c] = <<>> /\ begun < MaxCommands /\ begun' = begun + 1
      /\ todo' = [todo EXCEPT ![c] = jobs] /\ local' = [local EXCEPT ![c] = l]
      /\ UNCHANGED <<rows, next, current, slips>>
  BY DEF Begin
<1>2. /\ next \in Nat /\ MaxRows \in Nat
      /\ todo \in [Command -> Seq(Job)] /\ local \in [Command -> Local]
      /\ rows \in [Key -> Row \cup {Gone}] /\ begun \in Nat
  BY BoundAssumption DEF IInv, Typed
<1>3. ASSUME pk # 0
      PROVE  pk \in 1..(next - 1) /\ pk \in Key /\ rows[pk] \in Row /\ rows[pk] # Gone
  <2>1. pk \in Key /\ rows[pk] # Gone
    BY <1>3 DEF Live
  <2> QED BY <1>2, <2>1 DEF IInv, Unborn, Key
<1>4. /\ l \in Local /\ l.pk = pk /\ l.number = 0
      /\ l.row = (IF pk = 0 THEN Gone ELSE rows[pk])
  <2>1. pk \in Nat /\ (IF pk = 0 THEN Gone ELSE rows[pk]) \in Row \cup {Gone}
    BY <1>3, BoundAssumption DEF Key
  <2> QED BY <2>1 DEF Idle, Local
<1>5. jobs \in Seq(Job) /\ (pk = 0 => jobs \in Seq(PlainJob))
  BY PlainIsJob, BoundAssumption DEF Live, Key
<1>6. Typed'
  <2>1. begun' \in 0..MaxCommands
    BY <1>1, BoundAssumption DEF IInv, Typed
  <2>2. todo' \in [Command -> Seq(Job)] /\ local' \in [Command -> Local]
    <3> HIDE DEF l
    <3> QED BY <1>1, <1>2, <1>4, <1>5
  <2> QED BY <1>1, <2>1, <2>2 DEF IInv, Typed
<1>7. /\ local'[c] = l /\ todo'[c] = jobs
      /\ \A b \in Command \ {c} : local'[b] = local[b] /\ todo'[b] = todo[b]
  <2> HIDE DEF l
  <2> QED BY <1>1, <1>2
<1> HIDE DEF l
<1>8. \A b \in Command : Held(b)'
  <2>1. Held(c)'
    BY <1>1, <1>3, <1>4, <1>5, <1>7 DEF Held
  <2> QED BY <1>1, <1>7, <2>1 DEF IInv, Held
<1>9. NumbersBehind'
  <2>1. l.number <= next /\ (l.row # Gone => l.row.number < next)
    BY <1>2, <1>3, <1>4 DEF IInv, NumbersBehind
  <2> QED BY <1>1, <1>7, <2>1 DEF IInv, NumbersBehind
<1>10. OneIdentity'
  <2>1. ASSUME NEW b \in Command, local'[b].pk # 0, rows'[local'[b].pk] # Gone
        PROVE  Twin(rows'[local'[b].pk], local'[b].row)
    <3>1. CASE b = c
      BY <1>1, <1>4, <1>7, <2>1, <3>1 DEF Twin
    <3>2. CASE b # c
      BY <1>1, <1>7, <2>1, <3>2 DEF IInv, OneIdentity
    <3> QED BY <3>1, <3>2
  <2>2. ASSUME NEW a \in Command, NEW b \in Command,
               local'[a].pk # 0, local'[a].pk = local'[b].pk
        PROVE  Twin(local'[a].row, local'[b].row)
    <3>1. CASE a = c
      BY <1>1, <1>3, <1>4, <1>7, <2>1, <2>2, <3>1 DEF Twin
    <3>2. CASE b = c
      BY <1>1, <1>3, <1>4, <1>7, <2>1, <2>2, <3>2 DEF Twin
    <3>3. CASE a # c /\ b # c
      BY <1>7, <2>2, <3>3 DEF IInv, OneIdentity
    <3> QED BY <3>1, <3>2, <3>3
  <2> QED BY <2>1, <2>2 DEF OneIdentity
<1> QED BY <1>1, <1>6, <1>8, <1>9, <1>10, TableSame DEF IInv, Unborn

\* and every command has a typed list.
LEMMA BeginsKeep ==
  ASSUME IInv, NEW c \in Command,
         Start(c) \/ Add(c) \/ Edit(c) \/ Reset(c) \/ ExportOnly(c)
  PROVE  IInv' /\ Table!Next
<1>1. CASE Start(c)
  <2>1. PICK r \in Requests, replace \in BOOLEAN :
          Valid(r) /\ Begin(c, StartJobs(r, Live # {}), 0, r)
    BY <1>1 DEF Start
  <2>2. StartJobs(r, Live # {}) \in Seq(PlainJob)
    BY <2>1, StartJobsPlain
  <2> QED BY <2>1, <2>2, BeginKeeps
<1>2. CASE Add(c)
  <2>1. PICK type \in Type, profile \in Profile, up \in BOOLEAN :
          Begin(c, AddJobs(type, [profile |-> profile, reach |-> up]), 0, Gone)
    BY <1>2 DEF Add
  <2>2. [profile |-> profile, reach |-> up] \in As
    BY DEF As
  <2> QED BY <2>1, <2>2, AddJobsPlain, BeginKeeps
<1>3. CASE Edit(c)
  <2>1. ASSUME NEW d \in Live, NEW jobs \in Seq(Job), Begin(c, jobs, d, Gone)
        PROVE  IInv' /\ Table!Next
    BY <2>1, BeginKeeps
  <2>2. PICK d \in Live :
          \/ Begin(c, RemoveJobs, d, Gone)
          \/ \E profile \in Profile : Begin(c, TrafficJobs(rows[d].type, profile), d, Gone)
          \/ \E up \in BOOLEAN : Begin(c, ReachJobs(up), d, Gone)
          \/ \E on \in BOOLEAN : Begin(c, NetflowJobs(on), d, Gone)
          \/ \E u \in Updates : Begin(c, UpdateJobs(rows[d], u), d, Gone)
    BY <1>3 DEF Edit
  <2>3. rows[d] \in Row /\ rows[d].type \in Type
    BY DEF IInv, Typed, Live, Row
  <2> QED BY <2>1, <2>2, <2>3, EditJobs, UpdateJobsTyped
<1>4. CASE Reset(c)
  <2>1. <<[do |-> "clear"]>> \in Seq(PlainJob)
    BY PlainJobs
  <2>2. ResetJobs \in Seq(PlainJob)
    BY <2>1, ExportJobs, Appended DEF ResetJobs
  <2> QED BY <1>4, <2>2, BeginKeeps DEF Reset
<1>5. CASE ExportOnly(c)
  BY <1>5, ExportJobs, BeginKeeps DEF ExportOnly
<1> QED BY <1>1, <1>2, <1>3, <1>4, <1>5

\* What a command has in memory is typed, its number no larger than those to come.
LEMMA OwnCopy ==
  ASSUME IInv, NEW c \in Command
  PROVE  local[c] \in Local /\ local[c].number <= next
BY DEF IInv, Typed, NumbersBehind

\* Steps that touch no row are stutters of the table.
LEMMA QuietStepKeeps ==
  ASSUME IInv, NEW c \in Command,
         Render(c) \/ WriteFile(c) \/ Raise(c) \/ Exit(c) \/ Abort(c)
  PROVE  IInv' /\ Table!Next
<1>1. UNCHANGED <<rows, next>> /\ begun' = begun
  BY DEF Render, WriteFile, Raise, Exit, Abort, Proceed
<1>2. /\ \A b \in Command : Carries(b)
      /\ local' \in [Command -> Local] /\ todo' \in [Command -> Seq(Job)]
  <2>1. CASE Render(c) \/ WriteFile(c) \/ Exit(c)
    <3>1. todo[c] # <<>> /\ Proceed(c, local[c], FALSE)
      BY <2>1 DEF Render, WriteFile, Exit, Doing
    <3> QED BY <1>1, <3>1, OwnCopy, ProceedCarries
  <2>2. CASE Raise(c)
    <3>1. todo' = [todo EXCEPT ![c] = <<[do |-> "raised"]>>] /\ local' = local
      BY <2>2 DEF Raise
    <3>2. <<[do |-> "raised"]>> \in Seq(PlainJob) /\ <<[do |-> "raised"]>> \in Seq(Job)
      <4>1. \A job \in PlainJob : <<job>> \in Seq(PlainJob)
        OBVIOUS
      <4> QED BY <4>1, PlainJobs, PlainIsJob
    <3>3. todo \in [Command -> Seq(Job)] /\ local \in [Command -> Local]
      BY DEF IInv, Typed
    <3>4. todo'[c] \in Seq(PlainJob) /\ todo' \in [Command -> Seq(Job)]
      BY <3>1, <3>2, <3>3
    <3>5. \A b \in Command \ {c} : todo'[b] = todo[b]
      BY <3>1, <3>3
    <3> QED BY <1>1, <3>1, <3>3, <3>4, <3>5, OwnCopy DEF Carries
  <2>3. CASE Abort(c)
    <3>1. todo' = [todo EXCEPT ![c] = <<>>] /\ local' = [local EXCEPT ![c] = Idle]
      BY <2>3 DEF Abort
    <3>2. todo \in [Command -> Seq(Job)] /\ local \in [Command -> Local]
      BY DEF IInv, Typed
    <3>3. todo' \in [Command -> Seq(Job)] /\ local' \in [Command -> Local]
      BY <3>1, <3>2, IdleTyped, EmptySeq
    <3>4. Carries(c)
      BY <3>1, <3>2 DEF Carries
    <3>5. ASSUME NEW b \in Command, b # c PROVE Carries(b)
      BY <1>1, <3>1, <3>2, <3>5, OwnCopy DEF Carries
    <3> QED BY <3>3, <3>4, <3>5
  <2> QED BY <2>1, <2>2, <2>3
<1>3. slips \subseteq slips' /\ slips' \subseteq Slip
  BY DEF Render, WriteFile, Raise, Exit, Abort, IInv, Typed, Slip
<1>4. current' \subseteq (Command \cup {"disk"}) \X File
  <2>1. current \subseteq (Command \cup {"disk"}) \X File
    BY DEF IInv, Typed
  <2>2. CASE Render(c)
    <3>1. Head(todo[c]).file \in File
      BY <2>2, HeadShape DEF Render
    <3> QED BY <2>1, <2>2, <3>1 DEF Render
  <2>3. CASE WriteFile(c)
    <3>1. Head(todo[c]).file \in File
      BY <2>3, HeadShape DEF WriteFile
    <3> QED BY <2>1, <2>3, <3>1 DEF WriteFile
  <2> QED BY <2>1, <2>2, <2>3 DEF Raise, Exit, Abort
<1>5. Typed /\ next \in 1..(MaxRows + 1)
  BY DEF IInv, Typed
<1> QED BY <1>1, <1>2, <1>3, <1>4, <1>5, TableSame, Kept DEF Typed

\* The reads of the factory are stutters too.
LEMMA ReadsKeep ==
  ASSUME IInv, NEW c \in Command, ReadIds(c) \/ ReadIps(c)
  PROVE  IInv' /\ Table!Next
<1>1. UNCHANGED <<rows, next, current, slips>> /\ begun' = begun
  BY DEF ReadIds, ReadIps, Proceed
<1>2. /\ rows \in [Key -> Row \cup {Gone}] /\ next \in 1..(MaxRows + 1)
      /\ next \in Nat /\ next >= 1 /\ todo[c] # <<>>
  <2>1. Doing(c, "ids") \/ Doing(c, "ips")
    BY DEF ReadIds, ReadIps
  <2> QED BY <2>1, HeadShape, BoundAssumption DEF IInv, Typed
<1>3. PICK l \in Local : /\ l.pk = local[c].pk /\ l.row = local[c].row
                         /\ l.number <= next
                         /\ Proceed(c, l, FALSE)
  <2>1. CASE ReadIds(c)
    <3> DEFINE numbers == {0} \cup {rows[d].number : d \in Live}
               l == [local[c] EXCEPT !.number = 1 + Max(numbers)]
    <3>1. \A d \in Live : rows[d].number \in Nat /\ rows[d].number < next
      BY <1>2 DEF IInv, NumbersBehind, Live, Row
    <3>2. numbers \in SUBSET Nat /\ numbers # {} /\ \A n \in numbers : n <= next - 1
      BY <1>2, <3>1
    <3>3. Max(numbers) \in Nat /\ 1 + Max(numbers) <= next
      <4> HIDE DEF numbers
      <4>1. next - 1 \in Nat
        BY <1>2
      <4>2. Max(numbers) \in numbers
        BY <3>2, <4>1, GreatestIn
      <4> DEFINE m == Max(numbers)
      <4>3. m \in Nat /\ m <= next - 1
        BY <3>2, <4>2
      <4> HIDE DEF m
      <4>4. 1 + m <= next
        BY <1>2, <4>3
      <4> QED BY <4>3, <4>4 DEF m
    <3>4. Proceed(c, l, FALSE)
      BY <2>1 DEF ReadIds
    <3>5. l \in Local /\ l.pk = local[c].pk /\ l.row = local[c].row /\ l.number <= next
      <4> HIDE DEF numbers
      <4> QED BY <3>3, OwnCopy DEF Local
    <3> HIDE DEF l
    <3> QED BY <3>4, <3>5
  <2>2. CASE ReadIps(c)
    <3> DEFINE used == {rows[d].ip : d \in Live}
               l == [local[c] EXCEPT !.used = used]
    <3>1. used \subseteq Address
      BY <1>2 DEF Live, Row
    <3>2. Proceed(c, l, FALSE)
      BY <2>2 DEF ReadIps
    <3>3. l \in Local /\ l.pk = local[c].pk /\ l.row = local[c].row /\ l.number <= next
      <4> HIDE DEF used
      <4> QED BY <3>1, OwnCopy DEF Local
    <3> HIDE DEF l
    <3> QED BY <3>2, <3>3
  <2> QED BY <2>1, <2>2
<1>4. /\ \A b \in Command : Carries(b)
      /\ local' \in [Command -> Local] /\ todo' \in [Command -> Seq(Job)]
  BY <1>1, <1>2, <1>3, ProceedCarries
<1>5. Typed
  BY DEF IInv
<1> QED BY <1>1, <1>2, <1>4, <1>5, TableSame, Kept DEF Typed

\* What every write has in common: the row in memory stays a copy of the one it came from.
LEMMA WriteKeeps ==
  ASSUME IInv, NEW c \in Command, todo[c] # <<>>,
         NEW table \in [Key -> Row \cup {Gone}],
         NEW l \in Local, l.pk = local[c].pk, l.number <= next',
         \/ l.row = local[c].row
         \/ local[c].row \in Row /\ l.row \in Row /\ Twin(l.row, local[c].row),
         Write(c, table, l),
         next' \in {next, next + 1}, next' \in 1..(MaxRows + 1), slips' \subseteq Slip,
         Unborn', \A d \in Key : Origin(d), Table!Distinct(rows')
  PROVE  IInv'
<1>1. rows' = table /\ current' = {} /\ Proceed(c, l, TRUE) /\ begun' = begun
  BY DEF Write, Proceed
<1>2. /\ \A b \in Command : Carries(b)
      /\ local' \in [Command -> Local] /\ todo' \in [Command -> Seq(Job)]
  BY <1>1, ProceedCarries
<1> QED BY <1>1, <1>2, Kept

\* A delete and a clear are the table's removals.
LEMMA RemovalKeeps ==
  ASSUME IInv, NEW c \in Command, Delete(c) \/ Clear(c)
  PROVE  IInv' /\ Table!Next
<1>1. /\ rows \in [Key -> Row \cup {Gone}] /\ next \in 1..(MaxRows + 1) /\ next \in Nat
      /\ slips \subseteq Slip
  BY BoundAssumption DEF IInv, Typed
<1>2. UNCHANGED <<next, slips>> /\ todo[c] # <<>>
  BY HeadShape DEF Delete, Clear
<1>3. PICK table \in [Key -> Row \cup {Gone}] :
        /\ Write(c, table, local[c])
        /\ \A d \in Key : table[d] = Gone \/ table[d] = rows[d]
        /\ \/ \A d \in Key : table[d] = Gone
           \/ \E d \in Key : table[d] = Gone /\ \A e \in Key \ {d} : table[e] = rows[e]
  <2>1. CASE Delete(c)
    <3>1. local[c].pk \in Key
      BY <2>1, HeadShape DEF Delete
    <3> DEFINE table == [rows EXCEPT ![local[c].pk] = Gone]
    <3>2. /\ table \in [Key -> Row \cup {Gone}] /\ table[local[c].pk] = Gone
          /\ \A e \in Key \ {local[c].pk} : table[e] = rows[e]
      BY <1>1, <3>1
    <3>3. Write(c, table, local[c])
      BY <2>1 DEF Delete
    <3> HIDE DEF table
    <3> QED BY <3>1, <3>2, <3>3
  <2>2. CASE Clear(c)
    <3> DEFINE table == [d \in Key |-> Gone]
    <3>1. table \in [Key -> Row \cup {Gone}] /\ \A d \in Key : table[d] = Gone
      OBVIOUS
    <3>2. Write(c, table, local[c])
      BY <2>2 DEF Clear
    <3> HIDE DEF table
    <3> QED BY <3>1, <3>2
  <2> QED BY <2>1, <2>2
<1>4. rows' = table
  BY <1>3 DEF Write
<1>5. Unborn' /\ (\A d \in Key : Origin(d)) /\ Table!Distinct(rows')
  BY <1>2, <1>3, <1>4 DEF IInv, Unborn, Origin, Twin, Table!Distinct
<1>6. IInv'
  BY <1>1, <1>2, <1>3, <1>5, OwnCopy, WriteKeeps
<1>7. Table!DeleteAll \/ \E d \in Key : Table!Delete(d)
  BY <1>2, <1>3, <1>4 DEF Table!DeleteAll, Table!Delete, Table!Others
<1> QED BY <1>2, <1>5, <1>6, <1>7 DEF Table!Next

\* A change made to the row as it is touches the columns it is about.
LEMMA ChangeIsChange ==
  ASSUME NEW d \in Key, rows[d] \in Row, rows'[d] # Gone, Table!Others(d), UNCHANGED next,
         NEW change \in FullChange \cup FieldChange, rows'[d] = With(rows[d], change)
  PROVE  Table!Change(d)
<1>1. DOMAIN rows[d] = Columns
  BY DEF Row, Columns
<1>2. \A col \in Columns : col \notin DOMAIN change => rows'[d][col] = rows[d][col]
  BY <1>1 DEF With
<1>3. \/ DOMAIN change = {"profile", "ifaces"} \/ DOMAIN change = {"type", "ifaces"}
      \/ DOMAIN change = {"name"} \/ DOMAIN change = {"reach"} \/ DOMAIN change = {"netflow"}
  BY DEF FullChange, FieldChange
<1>4. ASSUME NEW cols, DOMAIN change \cap Columns \subseteq cols
      PROVE  Table!Only(d, cols)
  BY <1>1, <1>2, <1>4, GoneAssumption DEF Table!Only
<1>5. CASE DOMAIN change = {"name"}
  <2>1. DOMAIN change \cap Columns \subseteq {"reach"}
    BY <1>5 DEF Columns
  <2> QED BY <1>4, <2>1 DEF Table!Change
<1> QED BY <1>3, <1>4, <1>5 DEF Table!Change

\* A partial save is an edit of a row in the table.
LEMMA SaveFieldsKeeps ==
  ASSUME IInv, NEW c \in Command, SaveFields(c)
  PROVE  IInv' /\ Table!Next
<1> DEFINE d == local[c].pk
           change == Head(todo[c]).change
           new == With(rows[d], change)
           table == [rows EXCEPT ![d] = new]
           l == [local[c] EXCEPT !.row = Changed(c)]
<1>1. /\ rows \in [Key -> Row \cup {Gone}] /\ next \in 1..(MaxRows + 1) /\ next \in Nat
      /\ slips \subseteq Slip
  BY BoundAssumption DEF IInv, Typed
<1>2. /\ todo[c] # <<>> /\ d \in Key /\ d \in 1..(next - 1) /\ local[c].row \in Row
      /\ change \in FieldChange
  BY HeadShape DEF SaveFields
<1>3. rows[d] # Gone /\ rows[d] \in Row /\ UNCHANGED <<next, slips>>
  BY <1>1, <1>2 DEF SaveFields
<1>4. new \in Row /\ new # Gone /\ Twin(new, rows[d])
  BY <1>2, <1>3, WithTyped, GoneAssumption
<1>5. l \in Local /\ l.pk = local[c].pk /\ l.number = local[c].number
      /\ l.row \in Row /\ Twin(l.row, local[c].row)
  <2>1. Changed(c) \in Row /\ Twin(Changed(c), local[c].row)
    BY <1>2, WithTyped DEF Changed
  <2> QED BY <2>1, OwnCopy DEF Local
<1>6. Write(c, table, l)
  BY DEF SaveFields
<1>7. /\ table \in [Key -> Row \cup {Gone}] /\ rows' = table /\ rows'[d] = new
      /\ \A e \in Key \ {d} : rows'[e] = rows[e]
  <2>1. rows' = table
    BY <1>6 DEF Write
  <2> HIDE DEF d, new
  <2> QED BY <1>1, <1>2, <1>4, <2>1
<1>8. Unborn' /\ \A e \in Key : Origin(e)
  <2> HIDE DEF d, new, table
  <2> QED BY <1>1, <1>2, <1>3, <1>4, <1>7 DEF IInv, Unborn, Origin, Twin
<1>9. Table!Distinct(rows')
  <2> HIDE DEF d, new, table
  <2> QED BY <1>2, <1>3, <1>4, <1>7, DistinctStill
<1>10. IInv'
  <2> HIDE DEF d, new, table, l, change
  <2> QED BY <1>1, <1>2, <1>3, <1>5, <1>6, <1>7, <1>8, <1>9, OwnCopy, WriteKeeps
<1>11. Table!Change(d)
  <2>1. Table!Others(d)
    BY <1>7 DEF Table!Others
  <2> HIDE DEF d, change, table
  <2> QED BY <1>2, <1>3, <1>4, <1>7, <2>1, ChangeIsChange
<1> QED BY <1>2, <1>3, <1>9, <1>10, <1>11 DEF Table!Next

\* A full save is an edit, or puts back a deleted row and slips.
LEMMA SaveKeeps ==
  ASSUME IInv, NEW c \in Command, Save(c)
  PROVE  IInv' /\ Table!Next
<1> DEFINE d == local[c].pk
           change == Head(todo[c]).change
           new == Changed(c)
           table == [rows EXCEPT ![d] = new]
           l == [local[c] EXCEPT !.row = new]
<1>1. /\ rows \in [Key -> Row \cup {Gone}] /\ next \in 1..(MaxRows + 1) /\ next \in Nat
      /\ slips \subseteq Slip
  BY BoundAssumption DEF IInv, Typed
<1>2. /\ todo[c] # <<>> /\ d \in Key /\ d \in 1..(next - 1) /\ d # 0
      /\ local[c].row \in Row /\ change \in FullChange
  BY <1>1, HeadShape DEF Save
<1>3. UNCHANGED next /\ slips \subseteq slips' /\ slips' \subseteq Slip
  BY <1>1 DEF Save, Slip
<1>4. new \in Row /\ new # Gone /\ Twin(new, local[c].row)
  BY <1>2, WithTyped, GoneAssumption DEF Changed
<1>5. rows[d] # Gone => Twin(new, rows[d])
  BY <1>2, <1>4 DEF IInv, OneIdentity, Twin
<1>6. l \in Local /\ l.pk = local[c].pk /\ l.number = local[c].number
      /\ l.row \in Row /\ Twin(l.row, local[c].row)
  <2> HIDE DEF new
  <2> QED BY <1>4, OwnCopy DEF Local
<1>7. Write(c, table, l)
  BY DEF Save
<1>8. /\ table \in [Key -> Row \cup {Gone}] /\ rows' = table /\ rows'[d] = new
      /\ \A e \in Key \ {d} : rows'[e] = rows[e]
  <2>1. rows' = table
    BY <1>7 DEF Write
  <2> HIDE DEF d, new
  <2> QED BY <1>1, <1>2, <1>4, <2>1
<1>9. Unborn' /\ \A e \in Key : Origin(e)
  <2> HIDE DEF d, new, table
  <2>1. Unborn'
    BY <1>1, <1>2, <1>3, <1>8 DEF IInv, Unborn
  <2>2. Origin(d)
    BY <1>4, <1>8 DEF Origin, d
  <2>3. \A e \in Key \ {d} : Origin(e)
    BY <1>8 DEF Origin, Twin
  <2> QED BY <2>1, <2>2, <2>3
<1>10. Table!Distinct(rows')
  <2>1. rows[d] = Gone => Admitted(new)
    BY DEF Save
  <2> HIDE DEF d, new, table
  <2> QED BY <1>2, <1>5, <1>8, <2>1, DistinctStill
<1>11. IInv'
  <2> HIDE DEF d, new, table, l, change
  <2> QED BY <1>1, <1>2, <1>3, <1>6, <1>7, <1>8, <1>9, <1>10, OwnCopy, WriteKeeps
<1>12. Table!Others(d)
  BY <1>8 DEF Table!Others
<1>13. Table!Change(d) \/ Table!Overwrite(d) \/ Table!Revive(d)
  <2>1. CASE rows[d] = Gone
    <3>1. "revived" \in slips'
      BY <2>1 DEF Save
    <3> HIDE DEF d, new, table
    <3> QED BY <1>2, <1>3, <1>4, <1>8, <1>12, <2>1, <3>1 DEF Table!Revive
  <2>2. CASE rows[d] # Gone /\ new = With(rows[d], change)
    <3>1. rows[d] \in Row
      BY <1>1, <1>2, <2>2
    <3> HIDE DEF d, new, table, change
    <3> QED BY <1>2, <1>3, <1>4, <1>8, <1>12, <2>2, <3>1, ChangeIsChange
  <2>3. CASE rows[d] # Gone /\ new # With(rows[d], change)
    <3>1. "overwritten" \in slips'
      BY <2>3 DEF Save
    <3>2. rows[d] \in Row /\ DOMAIN rows[d] = Columns
      <4>1. rows[d] \in Row
        BY <1>1, <1>2, <2>3
      <4> QED BY <4>1 DEF Row, Columns
    <3>3. rows'[d].number = rows[d].number /\ rows'[d].ip = rows[d].ip
      BY <1>5, <1>8, <2>3 DEF Twin
    <3>4. Table!Only(d, {"type", "profile", "reach", "netflow", "ifaces"})
      <4> HIDE DEF d, new, table, change
      <4> QED BY <1>3, <1>4, <1>8, <1>12, <2>3, <3>2, <3>3 DEF Table!Only, Columns
    <3> QED BY <3>1, <3>4 DEF Table!Overwrite
  <2> QED BY <2>1, <2>2, <2>3
<1> QED BY <1>2, <1>3, <1>10, <1>11, <1>13 DEF Table!Next

\* A row to be inserted is typed, with the number and address that were chosen for it.
LEMMA PayloadTyped ==
  ASSUME NEW number \in Nat, NEW ip \in Address, NEW type \in Type, NEW as \in As
  PROVE  LET row == Payload(number, ip, type, as)
         IN  row \in Row /\ row.number = number /\ row.ip = ip
BY DEF Payload, As, Row

\* An insert adds a row the table admits, or raises.
LEMMA InsertKeeps ==
  ASSUME IInv, NEW c \in Command, Insert(c)
  PROVE  IInv' /\ Table!Next
<1> DEFINE new == NewRow(c)
           table == [rows EXCEPT ![next] = new]
           l == [local[c] EXCEPT !.number = @ + 1, !.used = @ \cup {new.ip}]
<1>1. /\ rows \in [Key -> Row \cup {Gone}] /\ next \in Nat /\ next >= 1
      /\ MaxRows \in Nat /\ slips \subseteq Slip
  BY BoundAssumption DEF IInv, Typed
<1>2. /\ todo[c] # <<>> /\ next \in Key /\ next' = next + 1 /\ UNCHANGED slips
      /\ Admitted(new) /\ Unused(c) # {} /\ Write(c, table, l)
  BY HeadShape DEF Insert
<1>3. /\ Head(todo[c]).type \in Type
      /\ Head(todo[c]).as \in As
  BY HeadShape DEF Insert
<1>4. Min(Unused(c)) \in Address
  <2>1. Unused(c) \in SUBSET Address /\ Unused(c) \in SUBSET Nat
    BY AddressAssumption DEF Unused, Address
  <2> QED BY <1>2, <2>1, LeastIn
<1>5. new \in Row /\ new # Gone /\ new.number = local[c].number /\ new.number <= next
  <2>1. local[c].number \in Nat /\ local[c].number <= next
    BY OwnCopy DEF Local
  <2>2. new \in Row /\ new.number = local[c].number
    BY <1>3, <1>4, <2>1, PayloadTyped DEF NewRow
  <2> QED BY <2>1, <2>2, GoneAssumption
<1>6. l \in Local /\ l.pk = local[c].pk /\ l.row = local[c].row /\ l.number <= next'
  <2>1. new.ip \in Address
    BY <1>5 DEF Row
  <2>2. local[c].number \in Nat /\ local[c].number + 1 <= next'
    BY <1>1, <1>2, OwnCopy DEF Local
  <2>3. local[c].used \cup {new.ip} \in SUBSET Address
    <3>1. local[c].used \in SUBSET Address
      BY OwnCopy DEF Local
    <3> HIDE DEF new
    <3> QED BY <2>1, <3>1
  <2> DEFINE number == local[c].number + 1
             used == local[c].used \cup {new.ip}
  <2>4. l = [local[c] EXCEPT !.number = number, !.used = used]
    OBVIOUS
  <2>5. number \in Nat /\ number <= next'
    BY <2>2
  <2> HIDE DEF number, used, l
  <2> QED BY <2>3, <2>4, <2>5, OwnCopy DEF Local, used
<1>7. /\ table \in [Key -> Row \cup {Gone}] /\ rows' = table /\ rows'[next] = new
      /\ \A e \in Key \ {next} : rows'[e] = rows[e]
  <2>1. rows' = table
    BY <1>2 DEF Write
  <2> HIDE DEF new
  <2> QED BY <1>1, <1>2, <1>5, <2>1
<1>8. rows[next] = Gone
  BY <1>1, <1>2 DEF IInv, Unborn
<1>9. Unborn' /\ \A e \in Key : Origin(e)
  <2> HIDE DEF new, table
  <2>1. Unborn'
    BY <1>1, <1>2, <1>7 DEF IInv, Unborn, Key
  <2>2. Origin(next)
    BY <1>2, <1>5, <1>7 DEF Origin
  <2>3. \A e \in Key \ {next} : Origin(e)
    BY <1>7 DEF Origin, Twin
  <2> QED BY <2>1, <2>2, <2>3
<1>10. Table!Distinct(rows')
  <2> HIDE DEF new, table
  <2> QED BY <1>2, <1>7, <1>8, DistinctStill
<1>11. IInv'
  <2>1. next' \in 1..(MaxRows + 1) /\ slips' \subseteq Slip
    BY <1>1, <1>2 DEF Key
  <2> HIDE DEF new, table, l
  <2> QED BY <1>2, <1>6, <1>7, <1>9, <1>10, <2>1, WriteKeeps
<1>12. Table!Insert(next)
  <2>1. next \notin 1..(next - 1) /\ 1..(next' - 1) = (1..(next - 1)) \cup {next}
    BY <1>1, <1>2
  <2> HIDE DEF new, table
  <2> QED BY <1>5, <1>7, <2>1 DEF Table!Insert, Table!Others
<1> QED BY <1>2, <1>10, <1>11, <1>12 DEF Table!Next

\* Every step keeps the invariant and is a step of the table.
LEMMA NextKeeps == IInv /\ Next => IInv' /\ Table!Next
<1> SUFFICES ASSUME IInv, NEW c \in Command,
                    \/ Start(c) \/ Add(c) \/ Edit(c) \/ Reset(c) \/ ExportOnly(c)
                    \/ Step(c) \/ Abort(c)
             PROVE  IInv' /\ Table!Next
  BY DEF Next
<1> QED BY BeginsKeep, QuietStepKeeps, ReadsKeep, RemovalKeeps, SaveKeeps, SaveFieldsKeeps,
           InsertKeeps DEF Step

\* The lab that Init leaves is typed, and numbered by its keys.
LEMMA FirstLab ==
  ASSUME NEW r \in Requests, Valid(r), r.total <= MaxRows, r.total <= MaxAddress,
         NEW d \in 1..r.total
  PROVE  LET row == Payload(d, d, LabJobs(r)[2 + d].type, AssignProfiles(r)[d])
         IN  row \in Row /\ row.number = d /\ row.ip = d
<1>1. LabJobs(r)[2 + d].type \in Type /\ AssignProfiles(r)[d] \in As
  BY LabJobsPlain
<1>2. d \in Nat /\ d \in Address
  BY RequestAssumption, AddressAssumption DEF Address
<1> QED BY <1>1, <1>2, PayloadTyped

\* So is the beginning.
LEMMA InitKeeps == Init => IInv /\ Table!Init
<1> SUFFICES ASSUME Init PROVE IInv /\ Table!Init
  OBVIOUS
<1>1. /\ rows \in [Key -> Row \cup {Gone}] /\ next \in 1..(MaxRows + 1)
      /\ \A d \in Key : rows[d] # Gone <=> d < next
      /\ \A d \in Key : rows[d] # Gone => rows[d].number = d /\ rows[d].ip = d
  <2>1. PICK r \in Requests :
       \/ rows = [d \in Key |-> Gone] /\ next = 1
       \/ /\ Valid(r) /\ r.total <= MaxRows /\ r.total <= MaxAddress
          /\ rows = [d \in Key |-> IF d > r.total THEN Gone
                       ELSE Payload(d, d, LabJobs(r)[2 + d].type, AssignProfiles(r)[d])]
          /\ next = r.total + 1
    BY DEF Init
  <2>2. CASE rows = [d \in Key |-> Gone] /\ next = 1
    BY <2>2, BoundAssumption DEF Key
  <2>3. CASE /\ Valid(r) /\ r.total <= MaxRows /\ r.total <= MaxAddress
             /\ rows = [d \in Key |-> IF d > r.total THEN Gone
                          ELSE Payload(d, d, LabJobs(r)[2 + d].type, AssignProfiles(r)[d])]
             /\ next = r.total + 1
    <3>1. r.total \in Nat /\ r.total >= 1 /\ MaxRows \in Nat
      BY <2>3, RequestAssumption, BoundAssumption DEF Valid
    <3>2. ASSUME NEW d \in Key, d <= r.total
          PROVE  rows[d] \in Row /\ rows[d].number = d /\ rows[d].ip = d
      <4>1. d \in 1..r.total
        BY <3>1, <3>2 DEF Key
      <4>2. rows[d] = Payload(d, d, LabJobs(r)[2 + d].type, AssignProfiles(r)[d])
        BY <2>3, <3>1, <3>2 DEF Key
      <4> QED BY <2>3, <4>1, <4>2, FirstLab
    <3>3. ASSUME NEW d \in Key, ~(d <= r.total) PROVE rows[d] = Gone
      BY <2>3, <3>1, <3>3 DEF Key
    <3>4. rows \in [Key -> Row \cup {Gone}]
      <4>1. rows = [d \in Key |-> rows[d]]
        BY <2>3
      <4>2. \A d \in Key : rows[d] \in Row \cup {Gone}
        BY <3>2, <3>3
      <4> QED BY <4>1, <4>2
    <3>5. next \in 1..(MaxRows + 1)
      BY <2>3, <3>1
    <3>6. \A d \in Key : d <= r.total <=> d < next
      BY <2>3, <3>1 DEF Key
    <3> QED BY <3>2, <3>3, <3>4, <3>5, <3>6, GoneAssumption
  <2> QED BY <2>1, <2>2, <2>3
<1>2. /\ todo = [c \in Command |-> <<>>] /\ local = [c \in Command |-> Idle]
      /\ current = {<<"disk", f>> : f \in File} /\ begun = 0 /\ slips = {}
  BY DEF Init
<1>3. Typed
  BY <1>1, <1>2, IdleTyped, EmptySeq, BoundAssumption DEF Typed
<1>4. \A c \in Command : Held(c)
  BY <1>2, IdleTyped, EmptySeq DEF Held
<1>5. next \in Nat /\ next >= 1
  BY <1>1, BoundAssumption
<1>6. Unborn /\ NumbersBehind
  BY <1>1, <1>2, <1>5, IdleTyped, BoundAssumption DEF Unborn, NumbersBehind, Key
<1>7. OneIdentity
  BY <1>2, IdleTyped DEF OneIdentity
<1>8. Table!Distinct(rows)
  BY <1>1 DEF Table!Distinct
<1>9. Table!Init
  <2>1. 1..(next - 1) \subseteq Key
    BY <1>1, BoundAssumption DEF Key
  <2>2. \A d \in Key : d < next <=> d \in 1..(next - 1)
    BY <1>5, BoundAssumption DEF Key
  <2> QED BY <1>1, <1>2, <1>8, <2>1, <2>2 DEF Table!Init
<1> QED BY <1>3, <1>4, <1>6, <1>7, <1>8, <1>9 DEF IInv

\* The inductive invariant holds in every reachable state of the table.
THEOREM Inductive == Spec => []IInv
<1>1. IInv /\ [Next]_vars => IInv'
  <2>1. IInv /\ UNCHANGED vars => IInv'
    BY DEF vars, IInv, Typed, Unborn, Held, NumbersBehind, OneIdentity, Table!Distinct
  <2> QED BY <2>1, NextKeeps
<1> QED BY <1>1, InitKeeps, PTL DEF Spec

\* Every variable keeps to its type; a save() always has a row to save.
THEOREM TypeCorrect == Spec => []TypeOK
<1>1. IInv => TypeOK
  <2> SUFFICES ASSUME IInv PROVE TypeOK
    OBVIOUS
  <2>1. ASSUME NEW c \in Command
        PROVE  /\ local[c].pk \in 0..(next - 1)
               /\ local[c].row \in Row \cup {Gone}
               /\ Doing(c, "full") \/ Doing(c, "fields") => local[c].row # Gone
               /\ local[c].number \in Nat
               /\ local[c].used \subseteq Address
    <3>1. local[c] \in Local /\ next \in Nat /\ next >= 1
      BY BoundAssumption DEF IInv, Typed
    <3>2. local[c].pk \in 0..(next - 1)
      BY <3>1 DEF IInv, Held
    <3>3. Doing(c, "full") \/ Doing(c, "fields") => local[c].row # Gone
      BY HeadShape, GoneAssumption
    <3> QED BY <3>1, <3>2, <3>3 DEF Local
  <2> QED BY <2>1 DEF IInv, Typed, Unborn, TypeOK
<1> QED BY <1>1, Inductive, PTL

\* services.py, factory.py and ipam.py implement DeviceTable: overlapping
\* commands add, remove and change one device at a time, and only a full save()
\* of a stale copy undoes another's change or brings a removed device back.
THEOREM ImplementsTable == Spec => Atomic
<1>1. IInv /\ [Next]_vars => [Table!Next]_<<rows, 1..(next - 1), slips>>
  <2>1. UNCHANGED vars => UNCHANGED <<rows, 1..(next - 1), slips>>
    BY DEF vars
  <2> QED BY <2>1, NextKeeps
<1> QED BY <1>1, InitKeeps, Inductive, PTL DEF Spec, Atomic, Table!Spec

=============================================================================
