-------------------------- MODULE AllocationProofs --------------------------
(***************************************************************************)
(* What a command does that nobody has disturbed, for any number of        *)
(* commands: it fails only when the addresses are used up, and a start     *)
(* creates the lab it was asked for.                                       *)
(*                                                                         *)
(* The argument: as long as no other command writes, the number in memory  *)
(* is above all in the table and the addresses in memory are those of the  *)
(* table, through any number of inserts; and the row that is to be changed *)
(* is there (Secure).  A start that has come to number n has laid the      *)
(* first n - 1 devices and no other, and has the others left to do         *)
(* (Stage).  Devices are counted by their numbers (AsManyAs): those of a   *)
(* category are an interval, those of a type are n apart (TurnsEven).      *)
(***************************************************************************)
EXTENDS InventoryProofs, FiniteSetTheorems

-----------------------------------------------------------------------------
(* What is left of a command's list.                                       *)

Still  == {job \in Job : job.do \in {"render", "write"}}
Grow   == {job \in Job : job.do \in {"insert", "render", "write"}}
Modify == {job \in Job : job.do \in {"full", "fields", "render", "write"}}

Ids    == [do |-> "ids"]
Ips    == [do |-> "ips"]
Raised == <<[do |-> "raised"]>>

\* The number and the addresses that c has in memory are free to use.
Above(c) == \A d \in Live : rows[d].number < local[c].number
Known(c) == local[c].used = {rows[d].ip : d \in Live}

Allocating(c) ==
  \/ /\ todo[c] \in Seq(Grow)
     /\ local[c].fresh => (Above(c) /\ Known(c)) \/ todo[c] \in Seq(Still)
  \/ /\ \E rest \in Seq(Grow) : todo[c] = <<Ips>> \o rest
     /\ local[c].fresh => Above(c)
  \/ \E rest \in Seq(Grow) : todo[c] = <<Ids>> \o (<<Ips>> \o rest)
  \/ \E rest \in Seq(Grow) : todo[c] = <<[do |-> "clear"]>> \o (<<Ids>> \o (<<Ips>> \o rest))
  \/ \E rest \in Seq(Still) : todo[c] = <<[do |-> "clear"]>> \o rest

Modifying(c) ==
  \/ \E rest \in Seq(Still) : todo[c] = <<[do |-> "delete"]>> \o rest
  \/ todo[c] \in Seq(Modify)

\* The row that c is to change is there.
There(c) == local[c].fresh => rows[local[c].pk] # Gone \/ todo[c] \in Seq(Still)

Secure(c) ==
  \/ todo[c] = Raised /\ (local[c].fresh => local[c].used = Address)
  \/ local[c].pk = 0 /\ Allocating(c)
  \/ local[c].pk # 0 /\ Modifying(c) /\ There(c)

\* The jobs that write only files come at the end of both kinds of list.
LEMMA Subsets ==
  /\ \A s \in Seq(Still) : s \in Seq(Grow) /\ s \in Seq(Modify)
  /\ Export \in Seq(Still)
  /\ <<>> \in Seq(Still) /\ <<>> \in Seq(Grow)
<1>1. Still \subseteq Grow /\ Still \subseteq Modify
  BY DEF Still, Grow, Modify
<1>2. Export \in Seq(Still)
  BY DEF Export, Still, Job, PlainJob, File
<1> QED BY <1>1, <1>2

\* The head of a list and the tail, by what the head does.
LEMMA Tails ==
  ASSUME NEW s, s # <<>>
  PROVE  /\ s \in Seq(Still) => Head(s).do \in {"render", "write"} /\ Tail(s) \in Seq(Still)
         /\ s \in Seq(Grow) => /\ Head(s).do \in {"insert", "render", "write"}
                               /\ Tail(s) \in Seq(Grow)
         /\ s \in Seq(Modify) => /\ Head(s).do \in {"full", "fields", "render", "write"}
                                 /\ Tail(s) \in Seq(Modify)
<1>1. ASSUME NEW S, s \in Seq(S) PROVE Head(s) \in S /\ Tail(s) \in Seq(S)
  BY <1>1, HeadTailProperties
<1>2. s \in Seq(Still) => Head(s) \in Still /\ Tail(s) \in Seq(Still)
  BY <1>1
<1>3. s \in Seq(Grow) => Head(s) \in Grow /\ Tail(s) \in Seq(Grow)
  BY <1>1
<1>4. s \in Seq(Modify) => Head(s) \in Modify /\ Tail(s) \in Seq(Modify)
  BY <1>1
<1> QED BY <1>2, <1>3, <1>4 DEF Still, Grow, Modify

\* Three elements put in front.
LEMMA Cons3 ==
  ASSUME NEW S, NEW s \in Seq(S), NEW x, NEW y, NEW z
  PROVE  LET t == <<x>> \o (<<y>> \o (<<z>> \o s))
         IN  t # <<>> /\ Head(t) = x /\ Tail(t) = <<y>> \o (<<z>> \o s)
<1> DEFINE t == <<z>> \o s
<1>1. t \in Seq(S \cup {z})
  <2>1. s \in Seq(S \cup {z}) /\ <<z>> \in Seq(S \cup {z})
    OBVIOUS
  <2> QED BY <2>1, ConcatProperties
<1> HIDE DEF t
<1>2. /\ <<x>> \o (<<y>> \o t) # <<>> /\ Head(<<x>> \o (<<y>> \o t)) = x
      /\ Tail(<<x>> \o (<<y>> \o t)) = <<y>> \o t
  BY <1>1, Cons2
<1> QED BY <1>2 DEF t

-----------------------------------------------------------------------------
(* What commands begin with.                                               *)

\* A command on one device deletes it or saves it, and then exports.
LEMMA ModifyJobs ==
  /\ \E rest \in Seq(Still) : RemoveJobs = <<[do |-> "delete"]>> \o rest
  /\ \A type \in Type, profile \in Profile : TrafficJobs(type, profile) \in Seq(Modify)
  /\ \A up \in BOOLEAN : ReachJobs(up) \in Seq(Modify)
  /\ \A on \in BOOLEAN : NetflowJobs(on) \in Seq(Modify)
<1>1. ASSUME NEW job \in Modify PROVE <<job>> \o Export \in Seq(Modify)
  <2>1. <<job>> \in Seq(Modify) /\ Export \in Seq(Modify)
    BY Subsets
  <2> QED BY <2>1, Appended
<1>2. \A change \in FullChange : Full(change) \in Modify
  BY DEF Full, Modify, Job, EditJob
<1>3. \A change \in FieldChange : Fields(change) \in Modify
  BY DEF Fields, Modify, Job, EditJob
<1>4. \A b \in BOOLEAN : [reach |-> b] \in FieldChange /\ [netflow |-> b] \in FieldChange
  BY DEF FieldChange
<1>5. \A type \in Type, profile \in Profile :
        [profile |-> profile, ifaces |-> <<type, profile>>] \in FullChange
  BY DEF FullChange
<1>6. \A type \in Type, profile \in Profile : TrafficJobs(type, profile) \in Seq(Modify)
  BY <1>1, <1>2, <1>5 DEF TrafficJobs
<1>7. \A up \in BOOLEAN : ReachJobs(up) \in Seq(Modify)
  BY <1>1, <1>3, <1>4 DEF ReachJobs
<1>8. \A on \in BOOLEAN : NetflowJobs(on) \in Seq(Modify)
  BY <1>1, <1>3, <1>4 DEF NetflowJobs
<1> QED BY <1>6, <1>7, <1>8, Subsets DEF RemoveJobs

\* An update saves the device once or twice and then exports.
LEMMA UpdateModifies ==
  ASSUME NEW row \in Row, NEW u \in Updates
  PROVE  UpdateJobs(row, u) \in Seq(Modify)
<1> DEFINE type == IF "type" \in DOMAIN u THEN u.type ELSE row.type
           profile == IF "traffic" \in DOMAIN u THEN u.traffic ELSE row.profile
           change == IF "type" \in DOMAIN u THEN [type |-> type, ifaces |-> <<type, profile>>]
                     ELSE [name |-> "any"]
           traffic == IF "traffic" \in DOMAIN u THEN TrafficJobs(type, profile) ELSE <<>>
           reach == IF "reach" \in DOMAIN u THEN ReachJobs(u.reach) ELSE <<>>
           more == traffic \o reach
           after == IF more = <<>> THEN Export ELSE more
<1>1. type \in Type /\ profile \in Profile
  BY UpdateAssumption DEF Row
<1>2. traffic \in Seq(Modify) /\ reach \in Seq(Modify)
  <2> HIDE DEF type, profile
  <2>1. ASSUME "reach" \in DOMAIN u PROVE u.reach \in BOOLEAN
    BY <2>1, UpdateAssumption
  <2>2. <<>> \in Seq(Modify)
    OBVIOUS
  <2> QED BY <1>1, <2>1, <2>2, ModifyJobs
<1>3. change \in FullChange
  <2> HIDE DEF type, profile
  <2>1. [type |-> type, ifaces |-> <<type, profile>>] \in FullChange
    BY <1>1 DEF FullChange
  <2>2. [name |-> "any"] \in FullChange
    BY DEF FullChange
  <2> QED BY <2>1, <2>2
<1>4. after \in Seq(Modify)
  <2> HIDE DEF traffic, reach
  <2>1. more \in Seq(Modify)
    BY <1>2, Appended
  <2> QED BY <2>1, Subsets
<1>5. <<Full(change)>> \o after \in Seq(Modify)
  <2> HIDE DEF change, after
  <2>1. Full(change) \in Modify
    BY <1>3 DEF Full, Modify, Job, EditJob
  <2>2. <<Full(change)>> \in Seq(Modify)
    BY <2>1
  <2> QED BY <1>4, <2>2, Appended
<1> QED BY <1>5 DEF UpdateJobs

\* The two reads, the inserts and the export of a command that adds devices.
Adding(s) == \E rest \in Seq(Grow) : s = <<Ids>> \o (<<Ips>> \o rest)

\* The reads of the factory stay in front when the export is added behind.
LEMMA ReadsInFront ==
  ASSUME NEW inserts \in Seq(Grow)
  PROVE  /\ inserts \o Export \in Seq(Grow)
         /\ (<<Ids, Ips>> \o inserts) \o Export = <<Ids>> \o (<<Ips>> \o (inserts \o Export))
<1>1. <<Ids, Ips>> = <<Ids>> \o <<Ips>>
  BY DEF Ids, Ips
<1> DEFINE S == Job \cup {Ids, Ips}
<1>2. Export \in Seq(Grow)
  BY Subsets
<1>3. /\ <<Ids>> \in Seq(S) /\ <<Ips>> \in Seq(S) /\ <<Ids, Ips>> \in Seq(S)
      /\ inserts \in Seq(S) /\ Export \in Seq(S)
  <2>1. Grow \subseteq S
    BY DEF Grow
  <2> HIDE DEF S
  <2>2. Ids \in S /\ Ips \in S
    BY DEF S
  <2> QED BY <1>2, <2>1, <2>2
<1>4. inserts \o Export \in Seq(Grow) /\ inserts \o Export \in Seq(S)
  <2> HIDE DEF S
  <2> QED BY <1>2, <1>3, Appended
<1>5. (<<Ids, Ips>> \o inserts) \o Export = <<Ids, Ips>> \o (inserts \o Export)
  <2> HIDE DEF S
  <2> QED BY <1>3, ConcatAssociative
<1>6. (<<Ids>> \o <<Ips>>) \o (inserts \o Export) = <<Ids>> \o (<<Ips>> \o (inserts \o Export))
  <2> HIDE DEF S
  <2> QED BY <1>3, <1>4, ConcatAssociative
<1> QED BY <1>1, <1>4, <1>5, <1>6

\* So the list of a command that adds devices begins with both reads.
LEMMA ReadsFirst ==
  ASSUME NEW inserts \in Seq(Grow)
  PROVE  Adding((<<Ids, Ips>> \o inserts) \o Export)
BY ReadsInFront DEF Adding

\* Creating a lab is such a command,
LEMMA LabAdds ==
  ASSUME NEW r \in Requests, Valid(r)
  PROVE  Adding(LabJobs(r) \o Export)
<1> DEFINE s == [i \in 1..r.total |->
                  Insertion(TypeOrder[1 + ((i - 1) % Len(TypeOrder))], AssignProfiles(r)[i])]
<1>1. r.total \in Nat
  BY RequestAssumption DEF Valid
<1>2. ASSUME NEW i \in 1..r.total
      PROVE  Insertion(TypeOrder[1 + ((i - 1) % Len(TypeOrder))], AssignProfiles(r)[i]) \in Grow
  <2>1. AssignProfiles(r)[i] \in As
    BY <1>1, Assignments, ElementOfSeq
  <2>2. i - 1 \in Nat
    BY <1>1
  <2>3. TypeOrder[1 + ((i - 1) % Len(TypeOrder))] \in Type
    BY <2>2, TypeNotEmpty
  <2>4. \A type \in Type, as \in As : Insertion(type, as) \in Grow
    BY PlainJobs DEF Grow, Job, Insertion
  <2> QED BY <2>1, <2>3, <2>4
<1>3. s \in Seq(Grow)
  BY <1>1, <1>2
<1>4. LabJobs(r) = <<Ids, Ips>> \o s
  BY DEF LabJobs, Ids, Ips
<1> QED BY <1>3, <1>4, ReadsFirst

\* and so is adding a device,
LEMMA AddAdds ==
  ASSUME NEW type \in Type, NEW as \in As
  PROVE  Adding(AddJobs(type, as))
<1> DEFINE new == Insertion(type, as)
<1>1. new \in Grow
  BY PlainJobs DEF Grow, Job, Insertion
<1>2. <<new>> \in Seq(Grow)
  <2> HIDE DEF new
  <2> QED BY <1>1
<1>3. <<Ids, Ips, new>> = <<Ids, Ips>> \o <<new>>
  <2> HIDE DEF new
  <2> QED OBVIOUS
<1>4. AddJobs(type, as) = (<<Ids, Ips>> \o <<new>>) \o Export
  <2>1. AddJobs(type, as) = <<Ids, Ips, new>> \o Export
    BY DEF AddJobs, Ids, Ips
  <2> HIDE DEF new
  <2> QED BY <1>3, <2>1
<1> HIDE DEF new
<1> QED BY <1>2, <1>4, ReadsFirst

\* and a start, behind the delete of the old lab when it replaces one.
LEMMA StartAdds ==
  ASSUME NEW r \in Requests, Valid(r), NEW replace \in BOOLEAN
  PROVE  \/ Adding(StartJobs(r, replace))
         \/ \E rest \in Seq(Grow) :
              StartJobs(r, replace) = <<[do |-> "clear"]>> \o (<<Ids>> \o (<<Ips>> \o rest))
<1> DEFINE first == IF replace THEN <<[do |-> "clear"]>> ELSE <<>>
<1>1. StartJobs(r, replace) = (first \o LabJobs(r)) \o Export
  BY DEF StartJobs
<1>2. first \in Seq(PlainJob) /\ LabJobs(r) \in Seq(PlainJob) /\ Export \in Seq(PlainJob)
  BY PlainJobs, LabJobsPlain, ExportJobs
<1>3. StartJobs(r, replace) = first \o (LabJobs(r) \o Export)
  <2> HIDE DEF first
  <2> QED BY <1>1, <1>2, ConcatAssociative, SMTT(30)
<1>4. Adding(LabJobs(r) \o Export)
  BY LabAdds
<1>5. CASE replace
  <2>1. first = <<[do |-> "clear"]>>
    BY <1>5
  <2> HIDE DEF first
  <2> QED BY <1>3, <1>4, <2>1 DEF Adding
<1>6. CASE ~replace
  <2>1. first \o (LabJobs(r) \o Export) = LabJobs(r) \o Export
    <3>1. first = <<>> /\ LabJobs(r) \o Export \in Seq(PlainJob)
      BY <1>2, <1>6, Appended
    <3> HIDE DEF first
    <3> QED BY <3>1, ConcatEmptySeq
  <2> QED BY <1>3, <1>4, <2>1
<1> QED BY <1>5, <1>6

-----------------------------------------------------------------------------
(* The invariant.                                                          *)

SecureInv == \A c \in Command : Secure(c)

\* A command that does not move is as secure as it was, or disturbed.
LEMMA OtherSecure ==
  ASSUME NEW b \in Command, Secure(b), todo'[b] = todo[b],
         local'[b].pk = local[b].pk, local'[b].used = local[b].used,
         local'[b].number = local[b].number,
         local'[b].fresh => local[b].fresh /\ UNCHANGED rows
  PROVE  Secure(b)'
<1>1. local'[b].fresh => (Above(b) => Above(b)') /\ (Known(b) => Known(b)')
  BY DEF Above, Known, Live
<1>2. Allocating(b) => Allocating(b)'
  BY <1>1 DEF Allocating
<1>3. Modifying(b) => Modifying(b)'
  BY DEF Modifying
<1>4. There(b) => There(b)'
  BY DEF There
<1> QED BY <1>2, <1>3, <1>4 DEF Secure

\* A command that begins has read nothing yet, or a row that is in the table.
LEMMA BeginSecure ==
  ASSUME IInv, SecureInv, NEW c \in Command,
         Start(c) \/ Add(c) \/ Edit(c) \/ Reset(c) \/ ExportOnly(c)
  PROVE  SecureInv'
<1>1. ASSUME NEW jobs, NEW pk, NEW request, Begin(c, jobs, pk, request),
             \/ pk = 0 /\ jobs \in Seq(Still)
             \/ pk = 0 /\ Adding(jobs)
             \/ pk = 0 /\ \E rest \in Seq(Grow) :
                             jobs = <<[do |-> "clear"]>> \o (<<Ids>> \o (<<Ips>> \o rest))
             \/ pk = 0 /\ \E rest \in Seq(Still) : jobs = <<[do |-> "clear"]>> \o rest
             \/ /\ pk # 0 /\ rows[pk] # Gone
                /\ \/ jobs \in Seq(Modify)
                   \/ \E rest \in Seq(Still) : jobs = <<[do |-> "delete"]>> \o rest
      PROVE  SecureInv'
  <2> DEFINE l == [Idle EXCEPT !.pk = pk, !.row = IF pk = 0 THEN Gone ELSE rows[pk],
                               !.request = request, !.fresh = TRUE]
  <2>1. /\ todo' = [todo EXCEPT ![c] = jobs] /\ local' = [local EXCEPT ![c] = l]
        /\ UNCHANGED rows
    BY <1>1 DEF Begin
  <2>2. l.pk = pk
    BY DEF Idle
  <2>3. /\ todo'[c] = jobs /\ local'[c].pk = pk /\ UNCHANGED rows
        /\ \A b \in Command \ {c} : todo'[b] = todo[b] /\ local'[b] = local[b]
    <3> HIDE DEF l
    <3> QED BY <2>1, <2>2 DEF IInv, Typed
  <2>4. \A b \in Command \ {c} : Secure(b)'
    BY <2>3, OtherSecure DEF SecureInv
  <2>5. CASE pk = 0
    <3>1. Allocating(c)'
      BY <1>1, <2>3, <2>5, Subsets DEF Allocating, Adding
    <3> QED BY <2>3, <2>4, <2>5, <3>1 DEF SecureInv, Secure
  <2>6. CASE pk # 0
    <3>1. Modifying(c)' /\ There(c)'
      BY <1>1, <2>3, <2>6 DEF Modifying, There
    <3> QED BY <2>3, <2>4, <2>6, <3>1 DEF SecureInv, Secure
  <2> QED BY <2>5, <2>6
<1>2. CASE Start(c)
  <2>1. PICK r \in Requests, replace \in BOOLEAN :
          Valid(r) /\ Begin(c, StartJobs(r, Live # {}), 0, r)
    BY <1>2 DEF Start
  <2>2. \/ Adding(StartJobs(r, Live # {}))
        \/ \E rest \in Seq(Grow) : StartJobs(r, Live # {})
                                    = <<[do |-> "clear"]>> \o (<<Ids>> \o (<<Ips>> \o rest))
    BY <2>1, StartAdds
  <2> QED BY <1>1, <2>1, <2>2
<1>3. CASE Add(c)
  <2>1. PICK type \in Type, profile \in Profile, up \in BOOLEAN :
          Begin(c, AddJobs(type, [profile |-> profile, reach |-> up]), 0, Gone)
    BY <1>3 DEF Add
  <2>2. [profile |-> profile, reach |-> up] \in As
    BY DEF As
  <2>3. Adding(AddJobs(type, [profile |-> profile, reach |-> up]))
    BY <2>2, AddAdds
  <2> QED BY <1>1, <2>1, <2>3
<1>4. CASE Edit(c)
  <2>1. PICK d \in Live :
          \/ Begin(c, RemoveJobs, d, Gone)
          \/ \E profile \in Profile : Begin(c, TrafficJobs(rows[d].type, profile), d, Gone)
          \/ \E up \in BOOLEAN : Begin(c, ReachJobs(up), d, Gone)
          \/ \E on \in BOOLEAN : Begin(c, NetflowJobs(on), d, Gone)
          \/ \E u \in Updates : Begin(c, UpdateJobs(rows[d], u), d, Gone)
    BY <1>4 DEF Edit
  <2>2. d # 0 /\ rows[d] # Gone /\ rows[d] \in Row /\ rows[d].type \in Type
    BY BoundAssumption DEF IInv, Typed, Live, Key, Row
  <2>3. ASSUME NEW jobs \in Seq(Modify), Begin(c, jobs, d, Gone) PROVE SecureInv'
    BY <1>1, <2>2, <2>3
  <2>4. CASE Begin(c, RemoveJobs, d, Gone)
    BY <1>1, <2>2, <2>4, ModifyJobs
  <2> QED BY <2>1, <2>2, <2>3, <2>4, ModifyJobs, UpdateModifies
<1>5. CASE Reset(c)
  BY <1>1, <1>5, Subsets DEF Reset, ResetJobs
<1>6. CASE ExportOnly(c)
  BY <1>1, <1>6, Subsets DEF ExportOnly
<1> QED BY <1>2, <1>3, <1>4, <1>5, <1>6

\* An access: where it leaves the command, and the others.
LEMMA ProceedSecure ==
  ASSUME IInv, SecureInv, NEW c \in Command, todo[c] # <<>>, NEW l, NEW wrote \in BOOLEAN,
         Proceed(c, l, wrote), wrote \/ UNCHANGED rows
  PROVE  /\ \A b \in Command \ {c} : Secure(b)'
         /\ todo'[c] = Tail(todo[c])
         /\ \/ todo'[c] = <<>> /\ Secure(c)'
            \/ local'[c] = l
<1>1. todo'[c] = Tail(todo[c]) /\ \A b \in Command \ {c} : todo'[b] = todo[b]
  BY DEF Proceed, IInv, Typed
<1>2. ASSUME NEW b \in Command \ {c} PROVE Secure(b)'
  <2>1. local'[b] = IF wrote THEN [local[b] EXCEPT !.fresh = FALSE] ELSE local[b]
    BY DEF Proceed
  <2>2. /\ local'[b].pk = local[b].pk /\ local'[b].used = local[b].used
        /\ local'[b].number = local[b].number
        /\ local'[b].fresh => local[b].fresh /\ UNCHANGED rows
    BY <2>1, OwnCopy DEF Local
  <2> QED BY <1>1, <2>2, OtherSecure DEF SecureInv
<1>3. local'[c] = IF Len(todo[c]) = 1 THEN Idle ELSE l
  BY DEF Proceed
<1>4. ASSUME Len(todo[c]) = 1 PROVE todo'[c] = <<>> /\ Secure(c)'
  <2> DEFINE s == todo[c]
  <2>1. s \in Seq(Job) /\ s # <<>>
    BY DEF IInv, Typed
  <2>2. Tail(s) = <<>>
    <3> HIDE DEF s
    <3>1. Tail(s) \in Seq(Job) /\ Len(Tail(s)) = Len(s) - 1
      BY <2>1, HeadTailProperties
    <3>2. Len(s) = 1
      BY <1>4 DEF s
    <3>3. Len(Tail(s)) = 0
      BY <3>1, <3>2
    <3> QED BY <3>1, <3>3, EmptySeq
  <2>3. todo'[c] = <<>> /\ local'[c] = Idle
    BY <1>1, <1>3, <1>4, <2>2
  <2>4. Idle.pk = 0 /\ ~Idle.fresh
    BY DEF Idle
  <2>5. Allocating(c)'
    <3>1. todo'[c] \in Seq(Grow) /\ todo'[c] \in Seq(Still)
      BY <2>3, Subsets
    <3> QED BY <3>1 DEF Allocating
  <2> QED BY <2>3, <2>4, <2>5 DEF Secure
<1> QED BY <1>1, <1>2, <1>3, <1>4

\* A command that changes a row has its list, and the row.
LEMMA ModifySecure ==
  ASSUME IInv, SecureInv, NEW c \in Command, Save(c) \/ SaveFields(c)
  PROVE  SecureInv'
<1> DEFINE d == local[c].pk
           new == IF Head(todo[c]).do = "full" THEN Changed(c)
                  ELSE With(rows[d], Head(todo[c]).change)
           l == [local[c] EXCEPT !.row = Changed(c)]
<1>1. /\ todo[c] # <<>> /\ Head(todo[c]).do \in {"full", "fields"} /\ d \in Key
      /\ local[c].row \in Row
      /\ Head(todo[c]).change \in FullChange \cup FieldChange
  BY HeadShape DEF Save, SaveFields, Doing
<1>2. /\ rows' = [rows EXCEPT ![d] = new] /\ Proceed(c, l, TRUE)
  BY DEF Save, SaveFields, Write, Doing
<1>3. new # Gone
  <2>1. CASE Save(c)
    BY <1>1, <2>1, WithTyped, GoneAssumption DEF Save, Doing, Changed
  <2>2. CASE SaveFields(c)
    <3>1. rows[d] \in Row
      BY <1>1, <2>2 DEF SaveFields, IInv, Typed
    <3>2. new = With(rows[d], Head(todo[c]).change)
      BY <2>2 DEF SaveFields, Doing
    <3> HIDE DEF new, d
    <3> QED BY <1>1, <3>1, <3>2, WithTyped, GoneAssumption
  <2> QED BY <2>1, <2>2
<1>4. rows'[d] = new
  <2> HIDE DEF new, d
  <2> QED BY <1>1, <1>2 DEF IInv, Typed
<1>5. l.pk = d
  BY OwnCopy DEF Local
<1> HIDE DEF l, new
<1>6. /\ \A b \in Command \ {c} : Secure(b)'
      /\ todo'[c] = Tail(todo[c])
      /\ (todo'[c] = <<>> /\ Secure(c)') \/ local'[c] = l
  BY <1>1, <1>2, ProceedSecure
<1>7. todo[c] \in Seq(Modify) /\ d # 0
  <2>1. todo[c] # Raised
    BY <1>1 DEF Raised
  <2>2. d # 0
    BY <1>1, BoundAssumption DEF Key
  <2>3. Modifying(c)
    BY <2>1, <2>2 DEF SecureInv, Secure
  <2>4. ASSUME NEW rest \in Seq(Still), todo[c] = <<[do |-> "delete"]>> \o rest PROVE FALSE
    <3>1. Head(todo[c]) = [do |-> "delete"]
      BY <2>4, Cons
    <3> QED BY <1>1, <3>1
  <2> QED BY <2>2, <2>3, <2>4 DEF Modifying
<1>8. todo'[c] \in Seq(Modify)
  BY <1>1, <1>6, <1>7, Tails
<1>9. local'[c] = l => Secure(c)'
  <2> SUFFICES ASSUME local'[c] = l PROVE Secure(c)'
    OBVIOUS
  <2>1. local'[c].pk = d
    BY <1>5
  <2>2. rows'[local'[c].pk] # Gone /\ local'[c].pk # 0
    BY <1>3, <1>4, <1>7, <2>1
  <2> QED BY <1>8, <2>2 DEF Secure, Modifying, There
<1> QED BY <1>6, <1>9 DEF SecureInv

\* A delete takes a row from the table: what others have read before is no longer fresh.
LEMMA DeleteSecure ==
  ASSUME IInv, SecureInv, NEW c \in Command, Delete(c)
  PROVE  SecureInv'
<1>1. /\ todo[c] # <<>> /\ Head(todo[c]).do = "delete" /\ local[c].pk \in Key
      /\ Proceed(c, local[c], TRUE)
  BY HeadShape DEF Delete, Doing, Write
<1>2. todo[c] # Raised /\ local[c].pk # 0
  BY <1>1, BoundAssumption DEF Raised, Key
<1>3. PICK rest \in Seq(Still) : todo[c] = <<[do |-> "delete"]>> \o rest
  <2>1. Modifying(c)
    BY <1>2 DEF SecureInv, Secure
  <2>2. todo[c] \notin Seq(Modify)
    BY <1>1, Tails
  <2> QED BY <2>1, <2>2 DEF Modifying
<1>4. Tail(todo[c]) \in Seq(Still)
  BY <1>3, Cons
<1>5. /\ \A b \in Command \ {c} : Secure(b)'
      /\ todo'[c] = Tail(todo[c])
      /\ (todo'[c] = <<>> /\ Secure(c)') \/ local'[c] = local[c]
  BY <1>1, ProceedSecure
<1>6. local'[c] = local[c] => Secure(c)'
  BY <1>2, <1>4, <1>5, Subsets DEF Secure, Modifying, There
<1> QED BY <1>5, <1>6 DEF SecureInv

\* Which of its forms the list of a command has that allocates.
LEMMA AllocatingHead ==
  ASSUME NEW c \in Command, Allocating(c), todo[c] # <<>>
  PROVE  LET do == Head(todo[c]).do
             s  == Tail(todo[c])
         IN  \/ /\ todo[c] \in Seq(Grow) /\ do \in {"insert", "render", "write"}
                /\ local[c].fresh => (Above(c) /\ Known(c)) \/ todo[c] \in Seq(Still)
             \/ do = "ips" /\ s \in Seq(Grow) /\ (local[c].fresh => Above(c))
             \/ do = "ids" /\ \E rest \in Seq(Grow) : s = <<Ips>> \o rest
             \/ do = "clear" /\ \E rest \in Seq(Grow) : s = <<Ids>> \o (<<Ips>> \o rest)
             \/ do = "clear" /\ s \in Seq(Still)
<1>1. CASE /\ todo[c] \in Seq(Grow)
           /\ local[c].fresh => (Above(c) /\ Known(c)) \/ todo[c] \in Seq(Still)
  BY <1>1, Tails
<1>2. ASSUME NEW rest \in Seq(Grow), todo[c] = <<Ips>> \o rest
      PROVE  Head(todo[c]).do = "ips" /\ Tail(todo[c]) = rest
  <2>1. Head(todo[c]) = Ips /\ Tail(todo[c]) = rest
    BY <1>2, Cons
  <2> QED BY <2>1 DEF Ips
<1>3. ASSUME NEW rest \in Seq(Grow), todo[c] = <<Ids>> \o (<<Ips>> \o rest)
      PROVE  Head(todo[c]).do = "ids" /\ Tail(todo[c]) = <<Ips>> \o rest
  <2>1. Head(todo[c]) = Ids /\ Tail(todo[c]) = <<Ips>> \o rest
    BY <1>3, Cons2
  <2> QED BY <2>1 DEF Ids
<1>4. ASSUME NEW rest \in Seq(Grow),
             todo[c] = <<[do |-> "clear"]>> \o (<<Ids>> \o (<<Ips>> \o rest))
      PROVE  Head(todo[c]).do = "clear" /\ Tail(todo[c]) = <<Ids>> \o (<<Ips>> \o rest)
  <2>1. Head(todo[c]) = [do |-> "clear"] /\ Tail(todo[c]) = <<Ids>> \o (<<Ips>> \o rest)
    BY <1>4, Cons3
  <2> QED BY <2>1
<1>5. ASSUME NEW rest \in Seq(Still), todo[c] = <<[do |-> "clear"]>> \o rest
      PROVE  Head(todo[c]).do = "clear" /\ Tail(todo[c]) = rest
  <2>1. Head(todo[c]) = [do |-> "clear"] /\ Tail(todo[c]) = rest
    BY <1>5, Cons
  <2> QED BY <2>1
<1> QED BY <1>1, <1>2, <1>3, <1>4, <1>5 DEF Allocating

\* Only a command that allocates reads, clears or inserts.
LEMMA Allocates ==
  ASSUME SecureInv, NEW c \in Command, todo[c] # <<>>,
         Head(todo[c]).do \in {"ids", "ips", "clear", "insert"}
  PROVE  local[c].pk = 0 /\ Allocating(c)
<1>1. todo[c] # Raised
  BY DEF Raised
<1>2. ~Modifying(c)
  <2>1. ASSUME NEW rest \in Seq(Still), todo[c] = <<[do |-> "delete"]>> \o rest PROVE FALSE
    <3>1. Head(todo[c]) = [do |-> "delete"]
      BY <2>1, Cons
    <3> QED BY <3>1
  <2>2. todo[c] \notin Seq(Modify)
    BY Tails
  <2> QED BY <2>1, <2>2 DEF Modifying
<1> QED BY <1>1, <1>2 DEF SecureInv, Secure

\* A clear leaves an empty table, above which every number is.
LEMMA ClearSecure ==
  ASSUME IInv, SecureInv, NEW c \in Command, Clear(c)
  PROVE  SecureInv'
<1>1. todo[c] # <<>> /\ Head(todo[c]).do = "clear" /\ Proceed(c, local[c], TRUE)
  BY DEF Clear, Doing, Write
<1>2. local[c].pk = 0 /\ Allocating(c)
  BY <1>1, Allocates
<1>3. /\ \A b \in Command \ {c} : Secure(b)'
      /\ todo'[c] = Tail(todo[c])
      /\ (todo'[c] = <<>> /\ Secure(c)') \/ local'[c] = local[c]
  BY <1>1, ProceedSecure
<1>4. \/ \E rest \in Seq(Grow) : todo'[c] = <<Ids>> \o (<<Ips>> \o rest)
      \/ todo'[c] \in Seq(Still)
  BY <1>1, <1>2, <1>3, AllocatingHead
<1>5. Allocating(c)'
  BY <1>4, Subsets DEF Allocating
<1>6. local'[c] = local[c] => Secure(c)'
  BY <1>2, <1>5 DEF Secure
<1> QED BY <1>3, <1>6 DEF SecureInv

\* What has just been read is what the table holds.
LEMMA ReadsSecure ==
  ASSUME IInv, SecureInv, NEW c \in Command, ReadIds(c) \/ ReadIps(c)
  PROVE  SecureInv'
<1>1. CASE ReadIds(c)
  <2> DEFINE numbers == {0} \cup {rows[d].number : d \in Live}
             l == [local[c] EXCEPT !.number = 1 + Max(numbers)]
  <2>1. /\ todo[c] # <<>> /\ Head(todo[c]).do = "ids" /\ Proceed(c, l, FALSE) /\ UNCHANGED rows
    BY <1>1 DEF ReadIds, Doing
  <2>2. local[c].pk = 0 /\ Allocating(c)
    BY <2>1, Allocates
  <2>3. \A x \in numbers : x <= Max(numbers) /\ x \in Nat /\ Max(numbers) \in Nat
    <3>1. \A d \in Live : rows[d].number \in Nat /\ rows[d].number <= next
      BY BoundAssumption DEF IInv, Typed, NumbersBehind, Live, Row
    <3>2. next \in Nat
      BY BoundAssumption DEF IInv, Typed
    <3>3. numbers \in SUBSET Nat /\ numbers # {} /\ \A x \in numbers : x <= next
      BY <3>1, <3>2
    <3> HIDE DEF numbers
    <3> QED BY <3>2, <3>3, GreatestIn
  <2>4. l.pk = 0 /\ l.number = 1 + Max(numbers)
    <3> HIDE DEF numbers
    <3> QED BY <2>2, OwnCopy DEF Local
  <2>5. /\ \A b \in Command \ {c} : Secure(b)'
        /\ todo'[c] = Tail(todo[c])
        /\ (todo'[c] = <<>> /\ Secure(c)') \/ local'[c] = l
    <3> HIDE DEF l
    <3> QED BY <2>1, ProceedSecure
  <2>6. \E rest \in Seq(Grow) : todo'[c] = <<Ips>> \o rest
    BY <2>1, <2>2, <2>5, AllocatingHead
  <2>7. ASSUME local'[c] = l PROVE Secure(c)'
    <3>1. \A d \in Live : rows[d].number < 1 + Max(numbers)
      <4>1. \A d \in Live : rows[d].number \in numbers
        OBVIOUS
      <4> HIDE DEF numbers
      <4> QED BY <2>3, <4>1
    <3>2. Above(c)' /\ local'[c].pk = 0
      <4> HIDE DEF l, numbers
      <4> QED BY <2>1, <2>4, <2>7, <3>1 DEF Above, Live
    <3> QED BY <2>6, <3>2 DEF Secure, Allocating
  <2> QED BY <2>5, <2>7 DEF SecureInv
<1>2. CASE ReadIps(c)
  <2> DEFINE l == [local[c] EXCEPT !.used = {rows[d].ip : d \in Live}]
  <2>1. /\ todo[c] # <<>> /\ Head(todo[c]).do = "ips" /\ Proceed(c, l, FALSE) /\ UNCHANGED rows
    BY <1>2 DEF ReadIps, Doing
  <2>2. local[c].pk = 0 /\ Allocating(c)
    BY <2>1, Allocates
  <2>3. /\ l.pk = 0 /\ l.used = {rows[d].ip : d \in Live}
        /\ l.number = local[c].number /\ l.fresh = local[c].fresh
    BY <2>2, OwnCopy DEF Local
  <2> HIDE DEF l
  <2>4. /\ \A b \in Command \ {c} : Secure(b)'
        /\ todo'[c] = Tail(todo[c])
        /\ (todo'[c] = <<>> /\ Secure(c)') \/ local'[c] = l
    BY <2>1, ProceedSecure
  <2>5. todo'[c] \in Seq(Grow) /\ (local[c].fresh => Above(c))
    BY <2>1, <2>2, <2>4, AllocatingHead
  <2>6. ASSUME local'[c] = l PROVE Secure(c)'
    <3>1. Known(c)' /\ (Above(c) => Above(c)')
      BY <2>1, <2>3, <2>6 DEF Known, Above, Live
    <3> QED BY <2>3, <2>5, <2>6, <3>1 DEF Secure, Allocating
  <2> QED BY <2>4, <2>6 DEF SecureInv
<1> QED BY <1>1, <1>2

\* Insert adds one row, and touches no other.
LEMMA Inserted ==
  ASSUME IInv, NEW c \in Command, Insert(c)
  PROVE  /\ next \in Key /\ next \notin Live /\ Live' = Live \cup {next}
         /\ rows'[next] = NewRow(c) /\ \A e \in Key \ {next} : rows'[e] = rows[e]
<1> DEFINE new == NewRow(c)
<1>1. next \in Key /\ rows' = [rows EXCEPT ![next] = new]
  BY DEF Insert, Write
<1>2. /\ rows'[next] = new /\ rows[next] = Gone
      /\ \A e \in Key \ {next} : rows'[e] = rows[e]
  <2>1. rows[next] = Gone
    BY <1>1 DEF IInv, Typed, Unborn
  <2> HIDE DEF new
  <2> QED BY <1>1, <2>1 DEF IInv, Typed
<1>3. Live' \subseteq Live \cup {next} /\ Live \subseteq Live' /\ next \notin Live
  <2> HIDE DEF new
  <2> QED BY <1>2 DEF Live
<1>4. new # Gone
  <2>1. Admitted(new) /\ Min(Unused(c)) \in Address
    <3>1. Unused(c) \in SUBSET Nat /\ Unused(c) # {}
      BY AddressAssumption DEF Insert, Unused, Address
    <3> QED BY <3>1, LeastIn DEF Insert, Unused
  <2>2. Head(todo[c]).type \in Type /\ Head(todo[c]).as \in As
    BY HeadShape DEF Insert
  <2>3. local[c].number \in Nat
    BY OwnCopy DEF Local
  <2>4. new \in Row
    BY <2>1, <2>2, <2>3, PayloadTyped DEF NewRow
  <2> QED BY <2>4, GoneAssumption
<1>5. next \in Live'
  <2> HIDE DEF new
  <2> QED BY <1>1, <1>2, <1>4 DEF Live
<1> QED BY <1>1, <1>2, <1>3, <1>5

\* An insert adds the same number and address to the table and to what is in memory.
LEMMA InsertSecure ==
  ASSUME IInv, SecureInv, NEW c \in Command, Insert(c)
  PROVE  SecureInv'
<1> DEFINE new == NewRow(c)
           l == [local[c] EXCEPT !.number = @ + 1, !.used = @ \cup {new.ip}]
<1>1. /\ todo[c] # <<>> /\ Head(todo[c]).do = "insert" /\ next \in Key
      /\ rows' = [rows EXCEPT ![next] = new] /\ Proceed(c, l, TRUE)
  BY DEF Insert, Doing, Write
<1>2. /\ local[c].pk = 0 /\ todo[c] \in Seq(Grow) /\ todo[c] \notin Seq(Still)
      /\ local[c].fresh => Above(c) /\ Known(c)
  <2>1. local[c].pk = 0 /\ Allocating(c)
    BY <1>1, Allocates
  <2>2. todo[c] \notin Seq(Still)
    BY <1>1, Tails
  <2> QED BY <1>1, <2>1, <2>2, AllocatingHead
<1>3. new.number = local[c].number
  BY DEF NewRow, Payload
<1>4. /\ l.pk = 0 /\ l.number = local[c].number + 1 /\ l.used = local[c].used \cup {new.ip}
      /\ l.fresh = local[c].fresh /\ local[c].number \in Nat
  <2> HIDE DEF new
  <2> QED BY <1>2, OwnCopy DEF Local
<1>5. /\ \A b \in Command \ {c} : Secure(b)'
      /\ todo'[c] = Tail(todo[c])
      /\ (todo'[c] = <<>> /\ Secure(c)') \/ local'[c] = l
  <2> HIDE DEF l
  <2> QED BY <1>1, ProceedSecure
<1>6. rows'[next] = new /\ \A e \in Key \ {next} : rows'[e] = rows[e]
  BY Inserted
<1>7. next \in Key /\ Live' = Live \cup {next} /\ next \notin Live
  BY Inserted
<1>10. Tail(todo[c]) \in Seq(Grow)
  BY <1>1, <1>2, Tails
<1>11. ASSUME local'[c] = l PROVE Secure(c)'
  <2>1. ASSUME local[c].fresh PROVE Above(c)'
    <3>1. \A d \in Live : rows[d].number \in Nat /\ rows[d].number < local[c].number /\ d \in Key
      BY <1>2, <2>1 DEF Above, Live, IInv, Typed, Row
    <3> HIDE DEF new, l
    <3> SUFFICES ASSUME NEW d \in Live' PROVE rows'[d].number < local[c].number + 1
      BY <1>4, <1>11 DEF Above
    <3> QED BY <1>3, <1>4, <1>6, <1>7, <3>1
  <2>2. ASSUME local[c].fresh PROVE Known(c)'
    <3>1. local[c].used = {rows[d].ip : d \in Live}
      BY <1>2, <2>2 DEF Known
    <3> HIDE DEF new, l
    <3>2. \A d \in Live : rows'[d] = rows[d]
      BY <1>6, <1>7 DEF Live
    <3>3. {rows'[d].ip : d \in Live'} = {rows[d].ip : d \in Live} \cup {new.ip}
      <4>1. Live' = Live \cup {next}
        BY <1>7
      <4> QED BY <1>6, <3>2, <4>1
    <3>4. local'[c].used = {rows[d].ip : d \in Live} \cup {new.ip}
      BY <1>4, <1>11, <3>1
    <3> QED BY <3>3, <3>4 DEF Known
  <2> HIDE DEF l, new
  <2>3. local'[c].pk = 0 /\ local'[c].fresh = local[c].fresh
    BY <1>4, <1>11
  <2>4. Allocating(c)'
    BY <1>5, <1>10, <2>1, <2>2, <2>3 DEF Allocating
  <2> QED BY <2>3, <2>4 DEF Secure
<1> QED BY <1>5, <1>11 DEF SecureInv

\* Steps that do not touch the table disturb nobody.
LEMMA QuietSecure ==
  ASSUME IInv, SecureInv, NEW c \in Command, Render(c) \/ WriteFile(c) \/ Exit(c)
  PROVE  SecureInv'
<1>1. /\ todo[c] # <<>> /\ Proceed(c, local[c], FALSE) /\ UNCHANGED rows
      /\ Head(todo[c]).do \in {"render", "write", "raised"}
  BY DEF Render, WriteFile, Exit, Doing
<1>2. /\ \A b \in Command \ {c} : Secure(b)'
      /\ todo'[c] = Tail(todo[c])
      /\ (todo'[c] = <<>> /\ Secure(c)') \/ local'[c] = local[c]
  BY <1>1, ProceedSecure
<1>3. ASSUME local'[c] = local[c] PROVE Secure(c)'
  <2>1. (Above(c) => Above(c)') /\ (Known(c) => Known(c)')
    BY <1>1, <1>3 DEF Above, Known, Live
  <2>2. todo[c] \in Seq(Still) => todo'[c] \in Seq(Still)
    BY <1>1, <1>2, Tails
  <2>3. CASE todo[c] = Raised
    <3>1. Tail(Raised) = <<>>
      BY DEF Raised
    <3>2. todo'[c] \in Seq(Still) /\ todo'[c] \in Seq(Grow) /\ todo'[c] \in Seq(Modify)
      BY <1>2, <2>3, <3>1, Subsets
    <3> QED BY <3>2 DEF Secure, Allocating, Modifying, There
  <2>4. CASE local[c].pk = 0 /\ Allocating(c)
    <3>1. /\ todo'[c] \in Seq(Grow)
          /\ local[c].fresh => (Above(c) /\ Known(c)) \/ todo[c] \in Seq(Still)
      <4>1. /\ todo[c] \in Seq(Grow)
            /\ local[c].fresh => (Above(c) /\ Known(c)) \/ todo[c] \in Seq(Still)
        BY <1>1, <2>4, AllocatingHead
      <4> QED BY <1>1, <1>2, <4>1, Tails
    <3> QED BY <1>3, <2>1, <2>2, <2>4, <3>1 DEF Secure, Allocating
  <2>5. CASE local[c].pk # 0 /\ Modifying(c) /\ There(c)
    <3>1. todo[c] \in Seq(Modify)
      <4>1. ASSUME NEW rest \in Seq(Still), todo[c] = <<[do |-> "delete"]>> \o rest PROVE FALSE
        <5>1. Head(todo[c]) = [do |-> "delete"]
          BY <4>1, Cons
        <5> QED BY <1>1, <5>1
      <4> QED BY <2>5, <4>1 DEF Modifying
    <3>2. todo'[c] \in Seq(Modify)
      BY <1>1, <1>2, <3>1, Tails
    <3> QED BY <1>1, <1>3, <2>2, <2>5, <3>2 DEF Secure, Modifying, There
  <2> QED BY <2>3, <2>4, <2>5 DEF SecureInv, Secure
<1> QED BY <1>2, <1>3 DEF SecureInv

\* An exception of a command that nobody has disturbed: there is no address left.
LEMMA RaiseSecure ==
  ASSUME IInv, SecureInv, NEW c \in Command, Raise(c)
  PROVE  SecureInv'
<1>1. /\ todo' = [todo EXCEPT ![c] = Raised] /\ UNCHANGED <<rows, local>>
  BY DEF Raise, Raised
<1>2. todo'[c] = Raised /\ \A b \in Command \ {c} : todo'[b] = todo[b]
  BY <1>1 DEF IInv, Typed
<1>3. \A b \in Command \ {c} : Secure(b)'
  BY <1>1, <1>2, OtherSecure DEF SecureInv
<1>4. ASSUME local[c].fresh PROVE local[c].used = Address
  <2>1. CASE Doing(c, "full") \/ Doing(c, "fields")
    <3>1. rows[local[c].pk] = Gone
      BY <2>1 DEF Raise, Fails, Doing
    <3>2. local[c].pk # 0 /\ todo[c] # Raised
      <4>1. local[c].pk \in Key
        BY <2>1, HeadShape
      <4> QED BY <2>1, <4>1, BoundAssumption DEF Key, Raised, Doing
    <3>3. todo[c] \in Seq(Still)
      BY <1>4, <3>1, <3>2 DEF SecureInv, Secure, There
    <3> QED BY <2>1, <3>3, Tails DEF Doing
  <2>2. CASE Doing(c, "insert")
    <3>1. Allocating(c) /\ todo[c] # <<>> /\ Head(todo[c]).do = "insert"
      BY <2>2, Allocates DEF Doing
    <3>2. Above(c) /\ Known(c)
      <4>1. todo[c] \notin Seq(Still)
        BY <3>1, Tails
      <4> QED BY <1>4, <3>1, <4>1, AllocatingHead
    <3>3. ASSUME Unused(c) # {} PROVE FALSE
      <4>1. ~Admitted(NewRow(c))
        BY <2>2, <3>3 DEF Raise, Fails, Doing
      <4>2. NewRow(c).number = local[c].number /\ NewRow(c).ip = Min(Unused(c))
        BY DEF NewRow, Payload
      <4>3. Min(Unused(c)) \notin local[c].used
        <5>1. Unused(c) \in SUBSET Nat
          BY AddressAssumption DEF Unused, Address
        <5> QED BY <3>3, <5>1, LeastIn DEF Unused
      <4>4. \A d \in Live : rows[d].number # local[c].number
        <5>1. \A d \in Live : rows[d].number \in Nat /\ rows[d].number < local[c].number
          BY <3>2 DEF Above, Live, IInv, Typed, Row
        <5>2. local[c].number \in Nat
          BY OwnCopy DEF Local
        <5> QED BY <5>1, <5>2
      <4>5. \A d \in Live : rows[d].ip # Min(Unused(c))
        BY <3>2, <4>3 DEF Known
      <4> QED BY <4>1, <4>2, <4>4, <4>5 DEF Admitted
    <3>4. local[c].used \subseteq Address
      BY OwnCopy DEF Local
    <3> QED BY <3>3, <3>4 DEF Unused
  <2> QED BY <2>1, <2>2 DEF Raise, Fails
<1> QED BY <1>1, <1>2, <1>3, <1>4 DEF SecureInv, Secure

\* A command that dies has nothing left to do and nothing in memory.
LEMMA AbortSecure ==
  ASSUME IInv, SecureInv, NEW c \in Command, Abort(c)
  PROVE  SecureInv'
<1>1. /\ todo'[c] = <<>> /\ local'[c] = Idle /\ UNCHANGED rows
      /\ \A b \in Command \ {c} : todo'[b] = todo[b] /\ local'[b] = local[b]
  BY DEF Abort, IInv, Typed
<1>2. \A b \in Command \ {c} : Secure(b)'
  BY <1>1, OtherSecure DEF SecureInv
<1>3. Secure(c)'
  <2>1. Idle.pk = 0
    BY DEF Idle
  <2> QED BY <1>1, <2>1, Subsets DEF Secure, Allocating
<1> QED BY <1>2, <1>3 DEF SecureInv

\* A command that nobody's write has disturbed fails only for want of an address: the
\* allocation never picks a number or an address that is taken, and the row that is to
\* be changed is there.
THEOREM AllocationSucceeds == Spec => []AloneSucceeds
<1>1. Init => SecureInv
  <2> SUFFICES ASSUME Init, NEW c \in Command PROVE Secure(c)
    BY DEF SecureInv
  <2>1. todo[c] = <<>> /\ local[c] = Idle
    BY DEF Init
  <2>2. Idle.pk = 0
    BY DEF Idle
  <2> QED BY <2>1, <2>2, Subsets DEF Secure, Allocating
<1>2. IInv /\ SecureInv /\ [Next]_vars => SecureInv'
  <2> SUFFICES ASSUME IInv, SecureInv, [Next]_vars PROVE SecureInv'
    OBVIOUS
  <2>1. CASE Next
    <3>1. PICK c \in Command : \/ Start(c) \/ Add(c) \/ Edit(c) \/ Reset(c) \/ ExportOnly(c)
                               \/ Step(c) \/ Abort(c)
      BY <2>1 DEF Next
    <3>2. CASE Step(c)
      BY <3>2, ModifySecure, DeleteSecure, ClearSecure, ReadsSecure, InsertSecure,
         QuietSecure, RaiseSecure DEF Step
    <3> QED BY <3>1, <3>2, BeginSecure, AbortSecure
  <2>2. CASE UNCHANGED vars
    BY <2>2 DEF vars, SecureInv, Secure, Allocating, Modifying, There, Above, Known, Live
  <2> QED BY <2>1, <2>2
<1>3. SecureInv => AloneSucceeds
  <2> SUFFICES ASSUME SecureInv, NEW c \in Command, Doing(c, "raised"), local[c].fresh
               PROVE  local[c].used = Address
    BY DEF AloneSucceeds
  <2>1. todo[c] # <<>> /\ Head(todo[c]).do = "raised"
    BY DEF Doing
  <2>2. ~Allocating(c)
    BY <2>1, AllocatingHead
  <2>3. ~Modifying(c)
    <3>1. ASSUME NEW rest \in Seq(Still), todo[c] = <<[do |-> "delete"]>> \o rest PROVE FALSE
      <4>1. Head(todo[c]) = [do |-> "delete"]
        BY <3>1, Cons
      <4> QED BY <2>1, <4>1
    <3>2. todo[c] \notin Seq(Modify)
      BY <2>1, Tails
    <3> QED BY <3>1, <3>2 DEF Modifying
  <2> QED BY <2>2, <2>3 DEF SecureInv, Secure
<1> QED BY <1>1, <1>2, <1>3, Inductive, PTL DEF Spec

-----------------------------------------------------------------------------
(* The lab of a start that nobody has disturbed.                           *)

\* The i-th device of the lab, and what is left to do when k devices are there.
Nth(r, i)  == Insertion(TypeOrder[1 + ((i - 1) % Len(TypeOrder))], AssignProfiles(r)[i])
Left(r, k) == [i \in 1..(r.total - k) |-> Nth(r, k + i)] \o Export

\* The lab has its first k devices and no other.
Laid(r, k) ==
  /\ \A d \in Live : /\ rows[d].number \in 1..k
                     /\ LET job == Nth(r, rows[d].number)
                        IN  /\ rows[d].type = job.type
                            /\ rows[d].profile = job.as.profile
                            /\ rows[d].reach = job.as.reach
  /\ \A n \in 1..k : \E d \in Live : rows[d].number = n

\* How far a start that nobody has disturbed has come with the lab.
Stage(c) ==
  LET r == local[c].request
      n == local[c].number
  IN  \/ n = 0 /\ todo[c] = <<[do |-> "clear"]>> \o (<<Ids>> \o (<<Ips>> \o Left(r, 0)))
      \/ n = 0 /\ todo[c] = <<Ids>> \o (<<Ips>> \o Left(r, 0)) /\ Laid(r, 0)
      \/ n = 1 /\ todo[c] = <<Ips>> \o Left(r, 0) /\ Laid(r, 0)
      \/ /\ n \in 1..(r.total + 1) /\ Laid(r, n - 1)
         /\ \/ todo[c] = Left(r, n - 1)
            \/ todo[c] \in Seq(Still) /\ n = r.total + 1
            \/ todo[c] = Raised

Lab(c) == LET r == local[c].request
          IN  r # Gone /\ local[c].fresh => Valid(r) /\ Stage(c)

LabInv == \A c \in Command : Lab(c)

-----------------------------------------------------------------------------
(* What is left of the list after each device.                             *)

\* Each of the accesses that are left is an insert, with its type and profile.
LEMMA NthGrows ==
  ASSUME NEW r \in Requests, Valid(r), NEW i \in 1..r.total
  PROVE  /\ Nth(r, i) \in Grow /\ Nth(r, i).do = "insert"
         /\ Nth(r, i).type = TypeOrder[1 + ((i - 1) % Len(TypeOrder))]
         /\ Nth(r, i).as = AssignProfiles(r)[i]
<1>1. r.total \in Nat /\ i - 1 \in Nat
  BY RequestAssumption DEF Valid
<1>2. AssignProfiles(r)[i] \in As
  BY <1>1, Assignments, ElementOfSeq
<1>3. TypeOrder[1 + ((i - 1) % Len(TypeOrder))] \in Type
  BY <1>1, TypeNotEmpty
<1>4. \A type \in Type, as \in As : Insertion(type, as) \in Grow
  BY PlainJobs DEF Grow, Job, Insertion
<1> QED BY <1>2, <1>3, <1>4 DEF Nth, Insertion

\* After each insert the list is the one for one device more, and in the end the export.
LEMMA LeftOver ==
  ASSUME NEW r \in Requests, Valid(r), NEW k \in 0..r.total
  PROVE  /\ Left(r, k) \in Seq(Grow) /\ Left(r, k) # <<>>
         /\ k < r.total => Head(Left(r, k)) = Nth(r, k + 1) /\ Tail(Left(r, k)) = Left(r, k + 1)
         /\ k = r.total => Left(r, k) = Export
<1> DEFINE Of(n) == [i \in 1..(r.total - n) |-> Nth(r, n + i)]
<1>1. r.total \in Nat
  BY RequestAssumption DEF Valid
<1>2. ASSUME NEW n \in 0..r.total PROVE Of(n) \in Seq(Grow) /\ Len(Of(n)) = r.total - n
  <2>1. \A i \in 1..(r.total - n) : Nth(r, n + i) \in Grow
    <3> SUFFICES ASSUME NEW i \in 1..(r.total - n) PROVE Nth(r, n + i) \in Grow
      OBVIOUS
    <3>1. n + i \in 1..r.total
      BY <1>1
    <3> QED BY <3>1, NthGrows
  <2>2. r.total - n \in Nat
    BY <1>1
  <2> QED BY <2>1, <2>2
<1>3. Export \in Seq(Grow) /\ Export # <<>>
  BY Subsets DEF Export
<1>4. \A n \in 0..r.total : Left(r, n) = Of(n) \o Export
  BY DEF Left
<1>5. Left(r, k) \in Seq(Grow) /\ Left(r, k) # <<>>
  <2> DEFINE s == Of(k)
  <2>1. s \in Seq(Grow)
    BY <1>2
  <2> HIDE DEF s
  <2>2. s \o Export \in Seq(Grow) /\ s \o Export # <<>>
    BY <1>3, <2>1, ConcatEqualIffEmpty, ConcatProperties
  <2> QED BY <1>4, <2>2 DEF s
<1>6. ASSUME k = r.total PROVE Left(r, k) = Export
  <2>1. Of(k) = <<>>
    <3>1. Of(k) \in Seq(Grow) /\ Len(Of(k)) = 0
      BY <1>1, <1>2, <1>6
    <3> HIDE DEF Of
    <3> QED BY <3>1, EmptySeq
  <2> QED BY <1>3, <1>4, <2>1, ConcatEmptySeq
<1>7. ASSUME k < r.total
      PROVE  Head(Left(r, k)) = Nth(r, k + 1) /\ Tail(Left(r, k)) = Left(r, k + 1)
  <2> DEFINE x == Nth(r, k + 1)
             s == Of(k)
             t == Of(k + 1)
  <2>1. /\ x \in Grow /\ k + 1 \in 0..r.total /\ k + 1 \in 1..r.total
        /\ s \in Seq(Grow) /\ Len(s) = r.total - k
        /\ t \in Seq(Grow) /\ Len(t) = r.total - (k + 1)
    <3>1. r.total \in Nat /\ k \in Nat
      BY <1>1
    <3>2. k + 1 \in 0..r.total /\ k + 1 \in 1..r.total /\ k \in 0..r.total
      BY <1>7, <3>1
    <3>3. x \in Grow
      BY <3>2, NthGrows
    <3> HIDE DEF x
    <3>4. s \in Seq(Grow) /\ Len(s) = r.total - k
      BY <1>2, <3>2
    <3>5. t \in Seq(Grow) /\ Len(t) = r.total - (k + 1)
      BY <1>2, <3>2
    <3> HIDE DEF s, t
    <3> QED BY <3>2, <3>3, <3>4, <3>5
  <2>2. \A i \in 1..Len(s) : s[i] = IF i <= 1 THEN x ELSE t[i - 1]
    <3> SUFFICES ASSUME NEW i \in 1..Len(s) PROVE s[i] = IF i <= 1 THEN x ELSE t[i - 1]
      OBVIOUS
    <3>1. i \in 1..(r.total - k) /\ s[i] = Nth(r, k + i)
      BY <2>1
    <3>2. CASE i = 1
      BY <3>1, <3>2
    <3>3. CASE i # 1
      <4>1. i - 1 \in 1..(r.total - (k + 1)) /\ (k + 1) + (i - 1) = k + i
        BY <1>1, <3>1, <3>3
      <4>2. t[i - 1] = Nth(r, k + i)
        BY <4>1
      <4> HIDE DEF s, t
      <4> QED BY <3>1, <3>3, <4>2
    <3> QED BY <3>2, <3>3
  <2> HIDE DEF s, t, x
  <2>3. s = <<x>> \o t
    <3>1. <<x>> \in Seq(Grow) /\ Len(<<x>>) = 1 /\ <<x>>[1] = x
      BY <2>1
    <3> DEFINE u == <<x>>
    <3> HIDE DEF u
    <3>2. /\ u \o t \in Seq(Grow) /\ Len(u \o t) = 1 + Len(t)
          /\ \A i \in 1..(1 + Len(t)) : (u \o t)[i] = IF i <= 1 THEN u[i] ELSE t[i - 1]
      BY <2>1, <3>1, ConcatProperties DEF u
    <3>3. Len(s) = Len(u \o t) /\ \A i \in 1..Len(s) : s[i] = (u \o t)[i]
      BY <1>1, <2>1, <2>2, <3>1, <3>2 DEF u
    <3> QED BY <2>1, <3>2, <3>3, SeqEqual DEF u
  <2>4. s \o Export = <<x>> \o (t \o Export) /\ t \o Export \in Seq(Grow)
    <3>1. <<x>> \in Seq(Grow)
      BY <2>1
    <3> QED BY <1>3, <2>1, <2>3, <3>1, ConcatAssociative, ConcatProperties
  <2>5. Head(s \o Export) = x /\ Tail(s \o Export) = t \o Export
    BY <2>4, Cons
  <2> QED BY <1>4, <2>1, <2>5 DEF s, t, x
<1> QED BY <1>5, <1>6, <1>7

-----------------------------------------------------------------------------
(* How many devices there are of a kind.                                   *)

\* A set that is mapped into another one, no two elements to the same, is not larger.
LEMMA Injected ==
  ASSUME NEW S, NEW T, IsFiniteSet(S), IsFiniteSet(T), NEW f \in [S -> T],
         \A x, y \in S : f[x] = f[y] => x = y
  PROVE  Cardinality(S) <= Cardinality(T)
<1>1. Cardinality(S) \in Nat /\ Cardinality(T) \in Nat
  BY FS_CardinalityType
<1>2. ASSUME Cardinality(T) < Cardinality(S) PROVE FALSE
  <2>1. \E x, y \in S : x # y /\ f[x] = f[y]
    BY <1>2, FS_PigeonHole
  <2> QED BY <2>1
<1> QED BY <1>1, <1>2

\* The devices with certain numbers are as many as the numbers.
LEMMA AsManyAs ==
  ASSUME IInv, NEW r, NEW k \in Nat, Laid(r, k), NEW N \in SUBSET (1..k)
  PROVE  /\ IsFiniteSet({d \in Live : rows[d].number \in N})
         /\ Cardinality({d \in Live : rows[d].number \in N}) = Cardinality(N)
<1> DEFINE S == {d \in Live : rows[d].number \in N}
           num == [d \in S |-> rows[d].number]
           key == [n \in N |-> CHOOSE d \in S : rows[d].number = n]
<1>1. \A n \in N : \E d \in S : rows[d].number = n
  BY DEF Laid
<1>2. \A d, e \in S : rows[d].number = rows[e].number => d = e
  BY DEF IInv, Table!Distinct, Live
<1>3. IsFiniteSet(N) /\ IsFiniteSet(S)
  <2>1. IsFiniteSet(1..k)
    BY FS_Interval
  <2>2. IsFiniteSet(Key)
    BY BoundAssumption, FS_Interval DEF Key
  <2>3. S \in SUBSET Key
    BY DEF Live
  <2> HIDE DEF S
  <2> QED BY <2>1, <2>2, <2>3, FS_Subset
<1>4. num \in [S -> N] /\ \A d, e \in S : num[d] = num[e] => d = e
  BY <1>2
<1>5. key \in [N -> S] /\ \A m, n \in N : key[m] = key[n] => m = n
  <2>1. \A n \in N : key[n] \in S /\ rows[key[n]].number = n
    <3> HIDE DEF S
    <3> QED BY <1>1
  <2> HIDE DEF S
  <2>2. key = [n \in N |-> key[n]]
    OBVIOUS
  <2> HIDE DEF key
  <2>3. key \in [N -> S]
    BY <2>1, <2>2
  <2> QED BY <2>1, <2>3
<1> HIDE DEF num, key, S
<1>6. Cardinality(S) <= Cardinality(N) /\ Cardinality(N) <= Cardinality(S)
  BY <1>3, <1>4, <1>5, Injected
<1>7. Cardinality(S) \in Nat /\ Cardinality(N) \in Nat
  BY <1>3, FS_CardinalityType
<1>8. Cardinality(S) = Cardinality(N)
  BY <1>6, <1>7
<1> QED BY <1>3, <1>8 DEF S

\* Division, for any divisor.
LEMMA Quotient ==
  ASSUME NEW n \in Nat, n > 0, NEW x \in Nat
  PROVE  \E q \in Nat : x = q * n + (x % n)
<1>1. x = n * (x \div n) + (x % n) /\ x \div n \in Nat
  BY Z3
<1> QED BY <1>1

\* And what is left over tells the remainder.
LEMMA Remainder ==
  ASSUME NEW n \in Nat, n > 0, NEW q \in Nat, NEW s \in 0..(n - 1)
  PROVE  (q * n + s) % n = s
<1> DEFINE x == q * n + s
<1>1. x \in Nat
  OBVIOUS
<1>2. PICK p \in Nat : x = p * n + (x % n)
  <2> HIDE DEF x
  <2> QED BY <1>1, Quotient
<1>3. x % n \in 0..(n - 1)
  <2> HIDE DEF x
  <2> QED BY <1>1
<1>4. p = q
  <2> DEFINE e == x % n
  <2>1. q * n + s = p * n + e /\ e \in 0..(n - 1)
    BY <1>2, <1>3
  <2> HIDE DEF e
  <2>2. CASE p >= q + 1
    <3>1. p * n >= q * n + n
      <4>1. (p - (q + 1)) * n >= 0
        BY <2>2
      <4> QED BY <4>1
    <3> QED BY <2>1, <3>1
  <2>3. CASE q >= p + 1
    <3>1. q * n >= p * n + n
      <4>1. (q - (p + 1)) * n >= 0
        BY <2>3
      <4> QED BY <4>1
    <3> QED BY <2>1, <3>1
  <2> QED BY <2>2, <2>3
<1>5. x % n = s
  <2> DEFINE e == x % n
  <2>1. q * n + s = q * n + e /\ e \in 0..(n - 1)
    BY <1>2, <1>3, <1>4
  <2> HIDE DEF e, x
  <2>2. e = s
    BY <2>1
  <2> QED BY <2>2 DEF e
<1> QED BY <1>5

\* The devices that are given the a-th type, among the first k.
Turns(a, k) == {m \in 1..k : 1 + ((m - 1) % Len(TypeOrder)) = a}

\* They come at the distance of the number of types.
LEMMA TurnsAre ==
  ASSUME NEW a \in 1..Len(TypeOrder), NEW k \in Nat
  PROVE  /\ \A m \in Turns(a, k) : \E q \in Nat : m = q * Len(TypeOrder) + a
         /\ \A q \in Nat : q * Len(TypeOrder) + a <= k => q * Len(TypeOrder) + a \in Turns(a, k)
         /\ IsFiniteSet(Turns(a, k))
<1> DEFINE n == Len(TypeOrder)
<1>1. n \in Nat /\ n > 0
  BY TypeAssumption, LenProperties, EmptySeq
<1> HIDE DEF n
<1>2. ASSUME NEW m \in Turns(a, k) PROVE \E q \in Nat : m = q * n + a
  <2>1. m \in Nat /\ m - 1 \in Nat /\ 1 + ((m - 1) % n) = a
    BY DEF Turns, n
  <2> DEFINE x == m - 1
             e == x % n
  <2>2. x \in Nat /\ e = a - 1
    <3>1. e \in 0..(n - 1)
      <4>1. x \in Nat
        BY <2>1
      <4> HIDE DEF x
      <4> QED BY <1>1, <4>1
    <3>2. 1 + e = a
      BY <2>1
    <3> HIDE DEF e
    <3> QED BY <2>1, <3>1, <3>2
  <2> HIDE DEF x
  <2>3. PICK q \in Nat : x = q * n + e
    BY <1>1, <2>2, Quotient
  <2> HIDE DEF e
  <2>4. q * n \in Nat
    BY <1>1
  <2>5. m = q * n + a
    <3> DEFINE y == q * n
    <3>1. y \in Nat /\ x = y + e
      BY <2>3, <2>4
    <3> HIDE DEF y
    <3>2. m = y + a
      BY <2>1, <2>2, <3>1 DEF x, n
    <3> QED BY <3>2 DEF y
  <2> QED BY <2>5
<1>3. ASSUME NEW q \in Nat, q * n + a <= k PROVE q * n + a \in Turns(a, k)
  <2> DEFINE y == q * n
  <2>1. y \in Nat /\ y + a <= k
    BY <1>1, <1>3
  <2>2. a - 1 \in 0..(n - 1)
    BY <1>1 DEF n
  <2>3. (y + (a - 1)) % n = a - 1
    BY <1>1, <2>2, Remainder
  <2> HIDE DEF y
  <2>4. (y + a) - 1 = y + (a - 1) /\ y + a \in 1..k
    BY <2>1
  <2>5. 1 + (((y + a) - 1) % n) = a
    BY <2>2, <2>3, <2>4
  <2>6. y + a \in Turns(a, k)
    BY <2>4, <2>5 DEF Turns, n
  <2> QED BY <2>6 DEF y
<1>4. IsFiniteSet(Turns(a, k))
  <2>1. IsFiniteSet(1..k)
    BY FS_Interval
  <2> QED BY <2>1, FS_Subset DEF Turns
<1> QED BY <1>2, <1>3, <1>4 DEF n

\* Types take turns: none gets two devices more than another one.
LEMMA TurnsEven ==
  ASSUME NEW a \in 1..Len(TypeOrder), NEW b \in 1..Len(TypeOrder), NEW k \in Nat
  PROVE  Cardinality(Turns(a, k)) <= 1 + Cardinality(Turns(b, k))
<1> DEFINE n == Len(TypeOrder)
           A == Turns(a, k)
           B == Turns(b, k)
<1>1. n \in Nat /\ n > 0 /\ a \in 1..n /\ b \in 1..n
  BY TypeAssumption, LenProperties, EmptySeq
<1>2. /\ \A m \in A : \E q \in Nat : m = q * n + a
      /\ \A q \in Nat : q * n + b <= k => q * n + b \in B
      /\ IsFiniteSet(A) /\ IsFiniteSet(B) /\ \A m \in A : m \in 1..k
  <2>1. \A m \in A : m \in 1..k
    BY DEF Turns
  <2> QED BY <2>1, TurnsAre
<1> HIDE DEF n, A, B
<1>3. Cardinality(A) \in Nat /\ Cardinality(B) \in Nat
  BY <1>2, FS_CardinalityType
<1>4. ASSUME b <= a PROVE Cardinality(A) <= 1 + Cardinality(B)
  <2> DEFINE f == [m \in A |-> m - (a - b)]
  <2>1. f \in [A -> B]
    <3> SUFFICES ASSUME NEW m \in A PROVE m - (a - b) \in B
      OBVIOUS
    <3>1. PICK q \in Nat : m = q * n + a
      BY <1>2
    <3> DEFINE y == q * n
    <3>2. y \in Nat /\ m = y + a /\ m <= k /\ (y + b <= k => y + b \in B)
      BY <1>1, <1>2, <3>1
    <3> HIDE DEF y
    <3>3. m - (a - b) = y + b /\ y + b <= k
      BY <1>1, <1>4, <3>2
    <3> QED BY <3>2, <3>3
  <2>2. \A l, m \in A : f[l] = f[m] => l = m
    BY <1>1, <1>2
  <2> HIDE DEF f
  <2>3. Cardinality(A) <= Cardinality(B)
    BY <1>2, <2>1, <2>2, Injected
  <2> QED BY <1>3, <2>3
<1>5. ASSUME b > a PROVE Cardinality(A) <= 1 + Cardinality(B)
  <2> DEFINE C == A \ {a}
             f == [m \in C |-> m + (b - a) - n]
  <2>1. f \in [C -> B]
    <3> SUFFICES ASSUME NEW m \in C PROVE m + (b - a) - n \in B
      OBVIOUS
    <3>1. PICK q \in Nat : m = q * n + a
      BY <1>2
    <3>2. q - 1 \in Nat
      <4>1. ASSUME q = 0 PROVE FALSE
        BY <1>1, <3>1, <4>1
      <4> QED BY <4>1
    <3> DEFINE y == q * n
               z == (q - 1) * n
    <3>3. y \in Nat /\ z \in Nat /\ y = z + n
      BY <1>1, <3>2
    <3>4. m = y + a /\ m <= k /\ (z + b <= k => z + b \in B)
      BY <1>2, <3>1, <3>2
    <3> HIDE DEF y, z
    <3>5. m + (b - a) - n = z + b /\ z + b <= k
      BY <1>1, <1>5, <3>3, <3>4
    <3> QED BY <3>4, <3>5
  <2>2. \A l, m \in C : f[l] = f[m] => l = m
    BY <1>1, <1>2
  <2>3. /\ IsFiniteSet(C)
        /\ Cardinality(C) = IF a \in A THEN Cardinality(A) - 1 ELSE Cardinality(A)
    BY <1>2, FS_RemoveElement
  <2> HIDE DEF f, C
  <2>4. Cardinality(C) <= Cardinality(B)
    BY <1>2, <2>1, <2>2, <2>3, Injected
  <2> QED BY <1>3, <2>3, <2>4
<1>6. Cardinality(A) <= 1 + Cardinality(B)
  BY <1>1, <1>4, <1>5
<1> QED BY <1>6 DEF A, B

\* assign_profiles(): the categories, one behind the other.
LEMMA AssignedAt ==
  ASSUME NEW r \in Requests, Valid(r), NEW i \in 1..r.total
  PROVE  AssignProfiles(r)[i] =
           IF i <= r.high THEN [profile |-> "high", reach |-> TRUE]
           ELSE IF i <= r.high + r.medium THEN [profile |-> "medium", reach |-> TRUE]
           ELSE IF i <= r.high + r.medium + r.low THEN [profile |-> "low", reach |-> TRUE]
           ELSE [profile |-> "low", reach |-> FALSE]
<1> DEFINE high == [profile |-> "high", reach |-> TRUE]
           medium == [profile |-> "medium", reach |-> TRUE]
           low == [profile |-> "low", reach |-> TRUE]
           down == [profile |-> "low", reach |-> FALSE]
           a == Assigned(r.high, "high", TRUE)
           b == Assigned(r.medium, "medium", TRUE)
           c == Assigned(r.low, "low", TRUE)
           d == Assigned(r.unreachable, "low", FALSE)
           ab == a \o b
           abc == ab \o c
           all == abc \o d
<1>1. /\ r.high \in Nat /\ r.medium \in Nat /\ r.low \in Nat /\ r.unreachable \in Nat
      /\ r.total = r.high + r.medium + r.low + r.unreachable
  BY RequestAssumption DEF Valid
<1>2. /\ a \in Seq(As) /\ Len(a) = r.high /\ b \in Seq(As) /\ Len(b) = r.medium
      /\ c \in Seq(As) /\ Len(c) = r.low /\ d \in Seq(As) /\ Len(d) = r.unreachable
  <2>1. ASSUME NEW n \in Nat, NEW profile \in Profile, NEW up \in BOOLEAN
        PROVE  Assigned(n, profile, up) \in Seq(As) /\ Len(Assigned(n, profile, up)) = n
    BY DEF Assigned, As
  <2> QED BY <1>1, <2>1 DEF Profile
<1>3. /\ \A j \in 1..r.high : a[j] = high
      /\ \A j \in 1..r.medium : b[j] = medium
      /\ \A j \in 1..r.low : c[j] = low
      /\ \A j \in 1..r.unreachable : d[j] = down
  BY DEF Assigned
<1>4. AssignProfiles(r) = all
  BY DEF AssignProfiles
<1> HIDE DEF high, medium, low, down, a, b, c, d
<1>5. /\ ab \in Seq(As) /\ Len(ab) = r.high + r.medium
      /\ \A j \in 1..(r.high + r.medium) : ab[j] = IF j <= r.high THEN a[j] ELSE b[j - r.high]
  <2> HIDE DEF ab
  <2>1. a \in Seq(As) /\ b \in Seq(As)
    BY <1>2
  <2>2. /\ a \o b \in Seq(As) /\ Len(a \o b) = Len(a) + Len(b)
        /\ \A j \in 1..(Len(a) + Len(b)) :
             (a \o b)[j] = IF j <= Len(a) THEN a[j] ELSE b[j - Len(a)]
    BY <2>1, ConcatProperties
  <2> QED BY <1>2, <2>2 DEF ab
<1> HIDE DEF ab
<1>6. /\ abc \in Seq(As) /\ Len(abc) = r.high + r.medium + r.low
      /\ \A j \in 1..(r.high + r.medium + r.low) :
           abc[j] = IF j <= r.high + r.medium THEN ab[j] ELSE c[j - (r.high + r.medium)]
  <2> HIDE DEF abc
  <2>1. ab \in Seq(As) /\ c \in Seq(As)
    BY <1>2, <1>5
  <2>2. /\ ab \o c \in Seq(As) /\ Len(ab \o c) = Len(ab) + Len(c)
        /\ \A j \in 1..(Len(ab) + Len(c)) :
             (ab \o c)[j] = IF j <= Len(ab) THEN ab[j] ELSE c[j - Len(ab)]
    BY <2>1, ConcatProperties
  <2> QED BY <1>2, <1>5, <2>2 DEF abc
<1> HIDE DEF abc
<1>7. \A j \in 1..(r.high + r.medium + r.low + r.unreachable) :
        all[j] = IF j <= r.high + r.medium + r.low THEN abc[j]
                 ELSE d[j - (r.high + r.medium + r.low)]
  <2> HIDE DEF all
  <2>1. abc \in Seq(As) /\ d \in Seq(As)
    BY <1>2, <1>6
  <2>2. /\ abc \o d \in Seq(As) /\ Len(abc \o d) = Len(abc) + Len(d)
        /\ \A j \in 1..(Len(abc) + Len(d)) :
             (abc \o d)[j] = IF j <= Len(abc) THEN abc[j] ELSE d[j - Len(abc)]
    BY <2>1, ConcatProperties
  <2> QED BY <1>2, <1>6, <2>2 DEF all
<1> HIDE DEF all
<1>8. i \in Nat /\ i >= 1 /\ i <= r.high + r.medium + r.low + r.unreachable
  BY <1>1
<1>9. ASSUME i <= r.high PROVE all[i] = high
  <2>1. all[i] = abc[i] /\ abc[i] = ab[i]
    BY <1>1, <1>6, <1>7, <1>8, <1>9
  <2>2. ab[i] = a[i]
    BY <1>1, <1>5, <1>8, <1>9
  <2> QED BY <1>1, <1>3, <1>8, <1>9, <2>1, <2>2
<1>10. ASSUME i > r.high, i <= r.high + r.medium PROVE all[i] = medium
  <2>1. i - r.high \in 1..r.medium
    BY <1>1, <1>8, <1>10
  <2>2. all[i] = abc[i] /\ abc[i] = ab[i]
    BY <1>1, <1>6, <1>7, <1>8, <1>10
  <2>3. ab[i] = b[i - r.high]
    BY <1>1, <1>5, <1>8, <1>10
  <2> QED BY <1>3, <2>1, <2>2, <2>3
<1>11. ASSUME i > r.high + r.medium, i <= r.high + r.medium + r.low PROVE all[i] = low
  <2>1. i - (r.high + r.medium) \in 1..r.low
    BY <1>1, <1>8, <1>11
  <2>2. all[i] = abc[i]
    BY <1>1, <1>7, <1>8, <1>11
  <2>3. abc[i] = c[i - (r.high + r.medium)]
    BY <1>1, <1>6, <1>8, <1>11
  <2> QED BY <1>3, <2>1, <2>2, <2>3
<1>12. ASSUME i > r.high + r.medium + r.low PROVE all[i] = down
  <2>1. i - (r.high + r.medium + r.low) \in 1..r.unreachable
    BY <1>1, <1>8, <1>12
  <2>2. all[i] = d[i - (r.high + r.medium + r.low)]
    BY <1>1, <1>7, <1>8, <1>12
  <2> QED BY <1>3, <2>1, <2>2
<1>13. all[i] = IF i <= r.high THEN high ELSE IF i <= r.high + r.medium THEN medium
                ELSE IF i <= r.high + r.medium + r.low THEN low ELSE down
  BY <1>1, <1>8, <1>9, <1>10, <1>11, <1>12
<1> QED BY <1>4, <1>13 DEF high, medium, low, down

\* The i-th device is in that category.
Given(r, i, profile, up) == AssignProfiles(r)[i] = [profile |-> profile, reach |-> up]

\* The category whose devices are those from lo + 1 to hi, when there are k.
LEMMA CategoryCount ==
  ASSUME IInv, NEW r \in Requests, Valid(r), NEW k \in 0..r.total, Laid(r, k),
         NEW profile, NEW up \in BOOLEAN, NEW lo \in 0..r.total, NEW hi \in lo..r.total,
         \A i \in 1..r.total : Given(r, i, profile, up) <=> lo < i /\ i <= hi
  PROVE  Having(profile, up) = IF k <= lo THEN 0 ELSE IF k <= hi THEN k - lo ELSE hi - lo
<1> DEFINE top == IF k <= hi THEN k ELSE hi
           N == (lo + 1)..top
<1>1. r.total \in Nat
  BY RequestAssumption DEF Valid
<1>2. top \in Nat /\ top <= k /\ N \in SUBSET (1..k) /\ k \in Nat
  BY <1>1
<1>3. Cardinality(N) = IF lo + 1 > top THEN 0 ELSE top - (lo + 1) + 1
  <2>1. lo + 1 \in Int /\ top \in Int
    BY <1>1, <1>2
  <2> HIDE DEF top
  <2> QED BY <2>1, FS_Interval
<1>4. ASSUME NEW d \in Live
      PROVE  (rows[d].profile = profile /\ rows[d].reach = up) <=> rows[d].number \in N
  <2> DEFINE i == rows[d].number
             as == AssignProfiles(r)[i]
  <2>1. i \in 1..k /\ i \in 1..r.total
    BY <1>1 DEF Laid
  <2>2. rows[d].profile = as.profile /\ rows[d].reach = as.reach /\ as \in As
    <3>1. Nth(r, i).as = as
      BY <2>1, NthGrows
    <3>2. as \in As
      BY <1>1, <2>1, Assignments, ElementOfSeq
    <3> QED BY <3>1, <3>2, Zenon DEF Laid
  <2> HIDE DEF i, as
  <2>3. as = [profile |-> profile, reach |-> up] <=> lo < i /\ i <= hi
    BY <2>1 DEF as, Given
  <2>4. i \in N <=> lo < i /\ i <= hi
    BY <1>1, <2>1
  <2>5. as = [profile |-> profile, reach |-> up] <=> as.profile = profile /\ as.reach = up
    <3>1. as = [profile |-> as.profile, reach |-> as.reach]
      BY <2>2 DEF As
    <3>2. as.profile = profile /\ as.reach = up => as = [profile |-> profile, reach |-> up]
      BY <3>1
    <3>3. ASSUME as = [profile |-> profile, reach |-> up]
          PROVE  as.profile = profile /\ as.reach = up
      BY <3>3, Zenon
    <3> QED BY <3>2, <3>3
  <2>6. (rows[d].profile = profile /\ rows[d].reach = up) <=> (as.profile = profile /\ as.reach = up)
    BY <2>2, Zenon
  <2>7. (rows[d].profile = profile /\ rows[d].reach = up) <=> i \in N
    BY <2>3, <2>4, <2>5, <2>6, Zenon
  <2> QED BY <2>7 DEF i
<1> HIDE DEF N, top
<1>5. {d \in Live : rows[d].profile = profile /\ rows[d].reach = up}
        = {d \in Live : rows[d].number \in N}
  BY <1>4, Zenon
<1>6. Cardinality({d \in Live : rows[d].number \in N}) = Cardinality(N)
  BY <1>2, AsManyAs
<1>7. Having(profile, up) = Cardinality(N)
  BY <1>5, <1>6, Zenon DEF Having
<1> QED BY <1>1, <1>3, <1>7 DEF top

\* The categories of a lab of which the first k devices are there.
LEMMA CategoriesInOrder ==
  ASSUME IInv, NEW r \in Requests, Valid(r), NEW k \in 0..r.total, Laid(r, k)
  PROVE  \A i \in 1..4 :
           LET asked == <<r.high, r.medium, r.low, r.unreachable>>
           IN  /\ Have[i] <= asked[i]
               /\ Have[i] < asked[i] => \A j \in (i + 1)..4 : Have[j] = 0
<1> DEFINE h  == r.high
           hm == r.high + r.medium
           hl == r.high + r.medium + r.low
<1>1. /\ r.high \in Nat /\ r.medium \in Nat /\ r.low \in Nat /\ r.unreachable \in Nat
      /\ r.total = r.high + r.medium + r.low + r.unreachable
  BY RequestAssumption DEF Valid
<1>2. /\ 0 \in 0..r.total /\ h \in 0..r.total /\ hm \in h..r.total /\ hl \in hm..r.total
      /\ hm \in 0..r.total /\ hl \in 0..r.total /\ r.total \in hl..r.total
  BY <1>1
<1>3. ASSUME NEW i \in 1..r.total
      PROVE  /\ Given(r, i, "high", TRUE) <=> 0 < i /\ i <= h
             /\ Given(r, i, "medium", TRUE) <=> h < i /\ i <= hm
             /\ Given(r, i, "low", TRUE) <=> hm < i /\ i <= hl
             /\ Given(r, i, "low", FALSE) <=> hl < i /\ i <= r.total
  <2> DEFINE a == [profile |-> "high", reach |-> TRUE]
             b == [profile |-> "medium", reach |-> TRUE]
             c == [profile |-> "low", reach |-> TRUE]
             d == [profile |-> "low", reach |-> FALSE]
             x == AssignProfiles(r)[i]
  <2>1. a # b /\ a # c /\ a # d /\ b # c /\ b # d /\ c # d
    <3>1. a.profile # b.profile /\ a.profile # c.profile /\ a.profile # d.profile
          /\ b.profile # c.profile /\ b.profile # d.profile
      OBVIOUS
    <3>2. c # d
      <4>1. c.reach # d.reach
        BY Zenon
      <4> HIDE DEF c, d
      <4> QED BY <4>1
    <3> HIDE DEF a, b, c, d
    <3> QED BY <3>1, <3>2
  <2>2. x = IF i <= h THEN a ELSE IF i <= hm THEN b ELSE IF i <= hl THEN c ELSE d
    BY AssignedAt
  <2>3. i \in Nat /\ 0 < i /\ i <= r.total
    BY <1>1
  <2> HIDE DEF a, b, c, d, x
  <2>4. /\ x = a <=> 0 < i /\ i <= h
        /\ x = b <=> h < i /\ i <= hm
        /\ x = c <=> hm < i /\ i <= hl
        /\ x = d <=> hl < i /\ i <= r.total
    BY <1>1, <2>1, <2>2, <2>3
  <2>5. /\ Given(r, i, "high", TRUE) <=> x = a
        /\ Given(r, i, "medium", TRUE) <=> x = b
        /\ Given(r, i, "low", TRUE) <=> x = c
        /\ Given(r, i, "low", FALSE) <=> x = d
    BY Zenon DEF Given, a, b, c, d, x
  <2> QED BY <2>4, <2>5
<1> DEFINE H == Having("high", TRUE)
           M == Having("medium", TRUE)
           L == Having("low", TRUE)
           U == Having("low", FALSE)
<1> HIDE DEF h, hm, hl
<1>14. ASSUME NEW profile, NEW up \in BOOLEAN, NEW lo \in 0..r.total, NEW hi \in lo..r.total,
              \A i \in 1..r.total : Given(r, i, profile, up) <=> lo < i /\ i <= hi
       PROVE  Having(profile, up) = IF k <= lo THEN 0 ELSE IF k <= hi THEN k - lo ELSE hi - lo
  BY <1>14, CategoryCount
<1>4. H = IF k <= 0 THEN 0 ELSE IF k <= h THEN k - 0 ELSE h - 0
  <2>1. \A i \in 1..r.total :
          Given(r, i, "high", TRUE) <=> 0 < i /\ i <= h
    BY <1>3
  <2>2. 0 \in 0..r.total /\ h \in 0..r.total /\ TRUE \in BOOLEAN
    BY <1>2
  <2> QED BY <1>14, <2>1, <2>2
<1>5. M = IF k <= h THEN 0 ELSE IF k <= hm THEN k - h ELSE hm - h
  <2>1. \A i \in 1..r.total :
          Given(r, i, "medium", TRUE) <=> h < i /\ i <= hm
    BY <1>3
  <2>2. h \in 0..r.total /\ hm \in h..r.total /\ TRUE \in BOOLEAN
    BY <1>2
  <2> QED BY <1>14, <2>1, <2>2
<1>6. L = IF k <= hm THEN 0 ELSE IF k <= hl THEN k - hm ELSE hl - hm
  <2>1. \A i \in 1..r.total :
          Given(r, i, "low", TRUE) <=> hm < i /\ i <= hl
    BY <1>3
  <2>2. hm \in 0..r.total /\ hl \in hm..r.total /\ TRUE \in BOOLEAN
    BY <1>2
  <2> QED BY <1>14, <2>1, <2>2
<1>7. U = IF k <= hl THEN 0 ELSE IF k <= r.total THEN k - hl ELSE r.total - hl
  <2>1. \A i \in 1..r.total :
          Given(r, i, "low", FALSE) <=> hl < i /\ i <= r.total
    BY <1>3
  <2>2. hl \in 0..r.total /\ r.total \in hl..r.total /\ FALSE \in BOOLEAN
    BY <1>2
  <2> QED BY <1>14, <2>1, <2>2
<1>8. Have = <<H, M, L, U>>
  BY DEF Have
<1> HIDE DEF H, M, L, U
<1>9. k \in Nat /\ k <= r.total
  BY <1>1
<1>10. H <= r.high /\ (H < r.high => M = 0 /\ L = 0 /\ U = 0)
  BY <1>1, <1>4, <1>5, <1>6, <1>7, <1>9 DEF h, hm, hl
<1>11. M <= r.medium /\ (M < r.medium => L = 0 /\ U = 0)
  BY <1>1, <1>5, <1>6, <1>7, <1>9 DEF h, hm, hl
<1>12. L <= r.low /\ (L < r.low => U = 0)
  BY <1>1, <1>6, <1>7, <1>9 DEF h, hm, hl
<1>13. U <= r.unreachable
  BY <1>1, <1>7, <1>9 DEF h, hm, hl
<1> QED BY <1>8, <1>10, <1>11, <1>12, <1>13

\* The types of such a lab.
LEMMA TypesMixed ==
  ASSUME IInv, NEW r \in Requests, Valid(r), NEW k \in 0..r.total, Laid(r, k),
         NEW s \in Type, NEW t \in Type
  PROVE  Cardinality({d \in Live : rows[d].type = s})
           <= 1 + Cardinality({d \in Live : rows[d].type = t})
<1>1. r.total \in Nat /\ k \in Nat
  BY RequestAssumption DEF Valid
<1>2. DOMAIN TypeOrder = 1..Len(TypeOrder) /\ Len(TypeOrder) \in Nat /\ Len(TypeOrder) > 0
  BY TypeAssumption, LenProperties, EmptySeq
<1>3. ASSUME NEW u \in Type, NEW a \in 1..Len(TypeOrder), u = TypeOrder[a]
      PROVE  Cardinality({d \in Live : rows[d].type = u}) = Cardinality(Turns(a, k))
  <2>1. ASSUME NEW d \in Live PROVE rows[d].type = u <=> rows[d].number \in Turns(a, k)
    <3> DEFINE i == rows[d].number
               b == 1 + ((i - 1) % Len(TypeOrder))
    <3>1. i \in 1..k /\ i \in 1..r.total /\ rows[d].type = Nth(r, i).type
      BY <1>1 DEF Laid
    <3>2. rows[d].type = TypeOrder[b]
      BY <3>1, NthGrows
    <3>3. b \in 1..Len(TypeOrder)
      <4>1. i - 1 \in Nat
        BY <1>1, <3>1
      <4> QED BY <1>2, <4>1
    <3> HIDE DEF b, i
    <3>4. TypeOrder[b] = TypeOrder[a] <=> b = a
      BY <1>2, <3>3, TypeAssumption
    <3>5. i \in Turns(a, k) <=> b = a
      BY <3>1 DEF Turns, b
    <3> QED BY <1>3, <3>2, <3>4, <3>5 DEF i
  <2>2. {d \in Live : rows[d].type = u} = {d \in Live : rows[d].number \in Turns(a, k)}
    BY <2>1
  <2>3. Turns(a, k) \in SUBSET (1..k)
    BY DEF Turns
  <2>4. Cardinality({d \in Live : rows[d].number \in Turns(a, k)}) = Cardinality(Turns(a, k))
    BY <1>1, <2>3, AsManyAs
  <2> QED BY <2>2, <2>4
<1>4. PICK a \in 1..Len(TypeOrder) : s = TypeOrder[a]
  BY <1>2 DEF Type
<1>5. PICK b \in 1..Len(TypeOrder) : t = TypeOrder[b]
  BY <1>2 DEF Type
<1>6. Cardinality(Turns(a, k)) <= 1 + Cardinality(Turns(b, k))
  BY <1>1, TurnsEven
<1> QED BY <1>3, <1>4, <1>5, <1>6

\* The devices of such a lab.
LEMMA LabSize ==
  ASSUME IInv, NEW r, NEW k \in Nat, Laid(r, k)
  PROVE  Cardinality(Live) = k
<1>1. {d \in Live : rows[d].number \in 1..k} = Live
  BY DEF Laid
<1>2. Cardinality({d \in Live : rows[d].number \in 1..k}) = Cardinality(1..k)
  <2> DEFINE N == 1..k
  <2>1. N \in SUBSET (1..k)
    OBVIOUS
  <2> HIDE DEF N
  <2>2. Cardinality({d \in Live : rows[d].number \in N}) = Cardinality(N)
    BY <2>1, AsManyAs
  <2> QED BY <2>2 DEF N
<1>3. Cardinality(1..k) = k
  <2>1. Cardinality(1..k) = IF 1 > k THEN 0 ELSE k - 1 + 1
    BY FS_Interval
  <2> QED BY <2>1
<1> QED BY <1>1, <1>2, <1>3

-----------------------------------------------------------------------------
(* The lab grows device by device.                                         *)

\* What an undisturbed start does next, and what is left then.
LEMMA StageHead ==
  ASSUME IInv, LabInv, NEW c \in Command, todo[c] # <<>>,
         local[c].request # Gone, local[c].fresh
  PROVE  LET r  == local[c].request
             n  == local[c].number
             do == Head(todo[c]).do
             s  == Tail(todo[c])
         IN  /\ r \in Requests /\ Valid(r)
             /\ \/ do = "clear" /\ n = 0 /\ s = <<Ids>> \o (<<Ips>> \o Left(r, 0))
                \/ do = "ids" /\ n = 0 /\ s = <<Ips>> \o Left(r, 0) /\ Laid(r, 0)
                \/ do = "ips" /\ n = 1 /\ s = Left(r, 0) /\ Laid(r, 0)
                \/ /\ do = "insert" /\ n \in 1..r.total /\ Laid(r, n - 1)
                   /\ Head(todo[c]) = Nth(r, n) /\ s = Left(r, n)
                \/ /\ do \in {"render", "write"} /\ n = r.total + 1 /\ Laid(r, n - 1)
                   /\ s \in Seq(Still)
                \/ /\ do = "raised" /\ n \in 1..(r.total + 1) /\ Laid(r, n - 1)
                   /\ todo[c] = Raised
<1> DEFINE r == local[c].request
           n == local[c].number
           t == todo[c]
<1>1. r \in Requests /\ Valid(r) /\ Stage(c)
  BY OwnCopy DEF LabInv, Lab, Local
<1>2. r.total \in Nat /\ n \in Nat /\ 0 \in 0..r.total
  <2>1. r.total \in Nat
    BY <1>1, RequestAssumption DEF Valid
  <2> QED BY <2>1, OwnCopy DEF Local
<1>3. Left(r, 0) \in Seq(Grow)
  <2> HIDE DEF r
  <2> QED BY <1>1, <1>2, LeftOver
<1> HIDE DEF r, n, t
<1>4. ASSUME t = <<[do |-> "clear"]>> \o (<<Ids>> \o (<<Ips>> \o Left(r, 0)))
      PROVE  Head(t).do = "clear" /\ Tail(t) = <<Ids>> \o (<<Ips>> \o Left(r, 0))
  <2>1. Head(t) = [do |-> "clear"] /\ Tail(t) = <<Ids>> \o (<<Ips>> \o Left(r, 0))
    BY <1>3, <1>4, Cons3
  <2> QED BY <2>1
<1>5. ASSUME t = <<Ids>> \o (<<Ips>> \o Left(r, 0))
      PROVE  Head(t).do = "ids" /\ Tail(t) = <<Ips>> \o Left(r, 0)
  <2>1. Head(t) = Ids /\ Tail(t) = <<Ips>> \o Left(r, 0)
    BY <1>3, <1>5, Cons2
  <2> QED BY <2>1 DEF Ids
<1>6. ASSUME t = <<Ips>> \o Left(r, 0) PROVE Head(t).do = "ips" /\ Tail(t) = Left(r, 0)
  <2>1. Head(t) = Ips /\ Tail(t) = Left(r, 0)
    BY <1>3, <1>6, Cons
  <2> QED BY <2>1 DEF Ips
<1>7. ASSUME n \in 1..(r.total + 1), t = Left(r, n - 1)
      PROVE  \/ n <= r.total /\ Head(t).do = "insert" /\ Head(t) = Nth(r, n) /\ Tail(t) = Left(r, n)
             \/ n = r.total + 1 /\ t \in Seq(Still)
  <2>1. n - 1 \in 0..r.total /\ (n - 1) + 1 = n
    BY <1>2, <1>7
  <2>2. CASE n - 1 < r.total
    <3>1. Head(t) = Nth(r, n) /\ Tail(t) = Left(r, n)
      <4> DEFINE k == n - 1
      <4>1. k \in 0..r.total /\ k < r.total /\ k + 1 = n /\ t = Left(r, k)
        BY <1>7, <2>1, <2>2
      <4> HIDE DEF k
      <4> QED BY <1>1, <4>1, LeftOver
    <3>2. n \in 1..r.total
      BY <1>2, <1>7, <2>2
    <3>3. Nth(r, n).do = "insert"
      BY <1>1, <3>2, NthGrows
    <3> QED BY <3>1, <3>2, <3>3
  <2>3. CASE n - 1 = r.total
    <3>1. t = Export
      <4> DEFINE k == n - 1
      <4>1. k \in 0..r.total /\ k = r.total /\ t = Left(r, k)
        BY <1>7, <2>1, <2>3
      <4> HIDE DEF k
      <4> QED BY <1>1, <4>1, LeftOver
    <3> QED BY <1>2, <2>3, <3>1, Subsets
  <2> QED BY <1>2, <2>1, <2>2, <2>3
<1>8. ASSUME t = Raised PROVE Head(t).do = "raised"
  BY <1>8 DEF Raised
<1>9. t \in Seq(Still) => Head(t).do \in {"render", "write"} /\ Tail(t) \in Seq(Still)
  BY Tails DEF t
<1>10. \/ n = 0 /\ t = <<[do |-> "clear"]>> \o (<<Ids>> \o (<<Ips>> \o Left(r, 0)))
       \/ n = 0 /\ t = <<Ids>> \o (<<Ips>> \o Left(r, 0)) /\ Laid(r, 0)
       \/ n = 1 /\ t = <<Ips>> \o Left(r, 0) /\ Laid(r, 0)
       \/ /\ n \in 1..(r.total + 1) /\ Laid(r, n - 1)
          /\ \/ t = Left(r, n - 1)
             \/ t \in Seq(Still) /\ n = r.total + 1
             \/ t = Raised
  BY <1>1 DEF Stage, r, n, t
<1>11. r \in Requests /\ Valid(r)
  BY <1>1
<1>12. \/ Head(t).do = "clear" /\ n = 0 /\ Tail(t) = <<Ids>> \o (<<Ips>> \o Left(r, 0))
       \/ Head(t).do = "ids" /\ n = 0 /\ Tail(t) = <<Ips>> \o Left(r, 0) /\ Laid(r, 0)
       \/ Head(t).do = "ips" /\ n = 1 /\ Tail(t) = Left(r, 0) /\ Laid(r, 0)
       \/ /\ Head(t).do = "insert" /\ n \in 1..r.total /\ Laid(r, n - 1)
          /\ Head(t) = Nth(r, n) /\ Tail(t) = Left(r, n)
       \/ /\ Head(t).do \in {"render", "write"} /\ n = r.total + 1 /\ Laid(r, n - 1)
          /\ Tail(t) \in Seq(Still)
       \/ Head(t).do = "raised" /\ n \in 1..(r.total + 1) /\ Laid(r, n - 1) /\ t = Raised
  <2>1. n \in 1..(r.total + 1) /\ n <= r.total => n \in 1..r.total
    BY <1>2
  <2> QED BY <1>4, <1>5, <1>6, <1>7, <1>8, <1>9, <1>10, <2>1
<1> QED BY <1>11, <1>12 DEF r, n, t

\* A command that does not move is where it was, or disturbed.
LEMMA OtherLab ==
  ASSUME NEW b \in Command, Lab(b), todo'[b] = todo[b],
         local'[b].request = local[b].request, local'[b].number = local[b].number,
         local'[b].fresh => local[b].fresh /\ UNCHANGED rows
  PROVE  Lab(b)'
<1>1. ASSUME UNCHANGED rows, NEW r, NEW k PROVE Laid(r, k) => Laid(r, k)'
  BY <1>1 DEF Laid, Live
<1>2. ASSUME UNCHANGED rows PROVE Stage(b) => Stage(b)'
  BY <1>1, <1>2 DEF Stage
<1> QED BY <1>2 DEF Lab

\* An access: where it leaves the command, and the others.
LEMMA ProceedLab ==
  ASSUME IInv, LabInv, NEW c \in Command, todo[c] # <<>>, NEW l, NEW wrote \in BOOLEAN,
         Proceed(c, l, wrote), wrote \/ UNCHANGED rows
  PROVE  /\ \A b \in Command \ {c} : Lab(b)'
         /\ todo'[c] = Tail(todo[c])
         /\ Lab(c)' \/ local'[c] = l
<1>1. todo'[c] = Tail(todo[c]) /\ \A b \in Command \ {c} : todo'[b] = todo[b]
  BY DEF Proceed, IInv, Typed
<1>2. ASSUME NEW b \in Command \ {c} PROVE Lab(b)'
  <2>1. local'[b] = IF wrote THEN [local[b] EXCEPT !.fresh = FALSE] ELSE local[b]
    BY DEF Proceed
  <2>2. /\ local'[b].request = local[b].request /\ local'[b].number = local[b].number
        /\ local'[b].fresh => local[b].fresh /\ UNCHANGED rows
    BY <2>1, OwnCopy DEF Local
  <2> QED BY <1>1, <2>2, OtherLab DEF LabInv
<1>3. local'[c] = Idle \/ local'[c] = l
  BY DEF Proceed
<1>4. local'[c] = Idle => Lab(c)'
  <2>1. Idle.request = Gone
    BY DEF Idle
  <2> QED BY <2>1 DEF Lab
<1> QED BY <1>1, <1>2, <1>3, <1>4

\* The list that a start begins with.
LEMMA LabFirst ==
  ASSUME NEW r \in Requests, Valid(r)
  PROVE  LabJobs(r) \o Export = <<Ids>> \o (<<Ips>> \o Left(r, 0))
<1> DEFINE s == [i \in 1..r.total |->
                  Insertion(TypeOrder[1 + ((i - 1) % Len(TypeOrder))], AssignProfiles(r)[i])]
           t == [i \in 1..(r.total - 0) |-> Nth(r, 0 + i)]
<1>1. r.total \in Nat
  BY RequestAssumption DEF Valid
<1>2. s = [i \in 1..r.total |-> Nth(r, i)]
  BY DEF Nth
<1>3. s = t
  BY <1>1, <1>2
<1>4. s \in Seq(Grow)
  <2>1. \A i \in 1..r.total : Nth(r, i) \in Grow
    BY NthGrows
  <2> HIDE DEF s
  <2> QED BY <1>1, <1>2, <2>1
<1>5. LabJobs(r) = <<Ids, Ips>> \o s
  BY DEF LabJobs, Ids, Ips
<1>6. Left(r, 0) = t \o Export
  BY DEF Left
<1> HIDE DEF s, t
<1> QED BY <1>3, <1>4, <1>5, <1>6, ReadsInFront

\* With --replace the old lab is deleted first.
LEMMA StartFirst ==
  ASSUME NEW r \in Requests, Valid(r), NEW replace \in BOOLEAN
  PROVE  /\ replace => StartJobs(r, replace)
                         = <<[do |-> "clear"]>> \o (<<Ids>> \o (<<Ips>> \o Left(r, 0)))
         /\ ~replace => StartJobs(r, replace) = <<Ids>> \o (<<Ips>> \o Left(r, 0))
<1> DEFINE first == IF replace THEN <<[do |-> "clear"]>> ELSE <<>>
<1>1. StartJobs(r, replace) = (first \o LabJobs(r)) \o Export
  BY DEF StartJobs
<1>2. first \in Seq(PlainJob) /\ LabJobs(r) \in Seq(PlainJob) /\ Export \in Seq(PlainJob)
  BY PlainJobs, LabJobsPlain, ExportJobs
<1>3. StartJobs(r, replace) = first \o (LabJobs(r) \o Export)
  <2> HIDE DEF first
  <2> QED BY <1>1, <1>2, ConcatAssociative, SMTT(30)
<1>4. ~replace => first \o (LabJobs(r) \o Export) = LabJobs(r) \o Export
  <2>1. ~replace => first = <<>>
    OBVIOUS
  <2>2. LabJobs(r) \o Export \in Seq(PlainJob)
    BY <1>2, Appended
  <2> HIDE DEF first
  <2> QED BY <2>1, <2>2, ConcatEmptySeq
<1>5. replace => first = <<[do |-> "clear"]>>
  OBVIOUS
<1> HIDE DEF first
<1> QED BY <1>3, <1>4, <1>5, LabFirst

\* A start begins at the first stage.
LEMMA BeginLab ==
  ASSUME IInv, LabInv, NEW c \in Command,
         Start(c) \/ Add(c) \/ Edit(c) \/ Reset(c) \/ ExportOnly(c)
  PROVE  LabInv'
<1>1. ASSUME NEW jobs, NEW pk, NEW request, Begin(c, jobs, pk, request),
             \/ request = Gone
             \/ /\ Valid(request)
                /\ \/ jobs = <<[do |-> "clear"]>> \o (<<Ids>> \o (<<Ips>> \o Left(request, 0)))
                   \/ jobs = <<Ids>> \o (<<Ips>> \o Left(request, 0)) /\ Live = {}
      PROVE  LabInv'
  <2> DEFINE l == [Idle EXCEPT !.pk = pk, !.row = IF pk = 0 THEN Gone ELSE rows[pk],
                               !.request = request, !.fresh = TRUE]
  <2>1. /\ todo' = [todo EXCEPT ![c] = jobs] /\ local' = [local EXCEPT ![c] = l]
        /\ UNCHANGED rows
    BY <1>1 DEF Begin
  <2>2. l.request = request /\ l.number = 0
    BY DEF Idle
  <2>3. /\ todo'[c] = jobs /\ local'[c].request = request /\ local'[c].number = 0
        /\ UNCHANGED rows
        /\ \A b \in Command \ {c} : todo'[b] = todo[b] /\ local'[b] = local[b]
    <3> HIDE DEF l
    <3> QED BY <2>1, <2>2 DEF IInv, Typed
  <2>4. \A b \in Command \ {c} : Lab(b)'
    BY <2>3, OtherLab DEF LabInv
  <2>5. Lab(c)'
    <3>1. CASE request = Gone
      BY <2>3, <3>1 DEF Lab
    <3>2. CASE /\ Valid(request)
               /\ jobs = <<[do |-> "clear"]>> \o (<<Ids>> \o (<<Ips>> \o Left(request, 0)))
      BY <2>3, <3>2 DEF Lab, Stage
    <3>3. CASE /\ Valid(request)
               /\ jobs = <<Ids>> \o (<<Ips>> \o Left(request, 0)) /\ Live = {}
      <4>1. Laid(request, 0)'
        BY <2>3, <3>3 DEF Laid, Live
      <4> QED BY <2>3, <3>3, <4>1 DEF Lab, Stage
    <3> QED BY <1>1, <3>1, <3>2, <3>3
  <2> QED BY <2>4, <2>5 DEF LabInv
<1>2. CASE Start(c)
  <2>1. PICK r \in Requests, replace \in BOOLEAN :
          Valid(r) /\ Begin(c, StartJobs(r, Live # {}), 0, r)
    BY <1>2 DEF Start
  <2>2. /\ Live # {} => StartJobs(r, Live # {})
                          = <<[do |-> "clear"]>> \o (<<Ids>> \o (<<Ips>> \o Left(r, 0)))
        /\ ~(Live # {}) => StartJobs(r, Live # {}) = <<Ids>> \o (<<Ips>> \o Left(r, 0))
    <3> DEFINE some == Live # {}
    <3>1. some \in BOOLEAN
      OBVIOUS
    <3> HIDE DEF some
    <3>2. /\ some => StartJobs(r, some)
                       = <<[do |-> "clear"]>> \o (<<Ids>> \o (<<Ips>> \o Left(r, 0)))
          /\ ~some => StartJobs(r, some) = <<Ids>> \o (<<Ips>> \o Left(r, 0))
      BY <2>1, <3>1, StartFirst
    <3> QED BY <3>2 DEF some
  <2> QED BY <1>1, <2>1, <2>2
<1>3. CASE Add(c)
  BY <1>1, <1>3 DEF Add
<1>4. CASE Edit(c)
  BY <1>1, <1>4 DEF Edit
<1>5. CASE Reset(c)
  BY <1>1, <1>5 DEF Reset
<1>6. CASE ExportOnly(c)
  BY <1>1, <1>6 DEF ExportOnly
<1> QED BY <1>2, <1>3, <1>4, <1>5, <1>6

\* A command that changes or removes one device is not a start.
LEMMA EditLab ==
  ASSUME IInv, LabInv, NEW c \in Command, Save(c) \/ SaveFields(c) \/ Delete(c)
  PROVE  LabInv'
<1>1. PICK l : /\ todo[c] # <<>> /\ Head(todo[c]).do \in {"full", "fields", "delete"}
               /\ Proceed(c, l, TRUE) /\ l.request = local[c].request /\ l.fresh = local[c].fresh
  <2>1. [local[c] EXCEPT !.row = Changed(c)].request = local[c].request
    BY OwnCopy DEF Local
  <2>2. [local[c] EXCEPT !.row = Changed(c)].fresh = local[c].fresh
    BY OwnCopy DEF Local
  <2> QED BY <2>1, <2>2 DEF Save, SaveFields, Delete, Write, Doing
<1>2. /\ \A b \in Command \ {c} : Lab(b)'
      /\ Lab(c)' \/ local'[c] = l
  BY <1>1, ProceedLab
<1>3. ~(local[c].request # Gone /\ local[c].fresh)
  BY <1>1, StageHead
<1>4. Lab(c)'
  BY <1>1, <1>2, <1>3 DEF Lab
<1> QED BY <1>2, <1>4 DEF LabInv

\* The old lab is gone.
LEMMA ClearLab ==
  ASSUME IInv, LabInv, NEW c \in Command, Clear(c)
  PROVE  LabInv'
<1>1. /\ todo[c] # <<>> /\ Head(todo[c]).do = "clear" /\ Proceed(c, local[c], TRUE)
      /\ rows' = [d \in Key |-> Gone]
  BY DEF Clear, Doing, Write
<1>2. /\ \A b \in Command \ {c} : Lab(b)'
      /\ todo'[c] = Tail(todo[c]) /\ (Lab(c)' \/ local'[c] = local[c])
  BY <1>1, ProceedLab
<1> DEFINE r == local[c].request
<1>3. ASSUME local'[c] = local[c], r # Gone, local[c].fresh PROVE Valid(r) /\ Stage(c)'
  <2>1. /\ Valid(r) /\ local[c].number = 0
        /\ Tail(todo[c]) = <<Ids>> \o (<<Ips>> \o Left(r, 0))
    BY <1>1, <1>3, StageHead
  <2>2. Laid(r, 0)'
    <3>1. Live' = {}
      BY <1>1 DEF Live
    <3> HIDE DEF r
    <3> QED BY <1>3, <3>1 DEF Laid
  <2> QED BY <1>2, <1>3, <2>1, <2>2 DEF Stage
<1>4. Lab(c)'
  BY <1>2, <1>3 DEF Lab
<1> QED BY <1>2, <1>4 DEF LabInv

\* The first number of a lab is 1.
LEMMA ReadsLab ==
  ASSUME IInv, LabInv, NEW c \in Command, ReadIds(c) \/ ReadIps(c)
  PROVE  LabInv'
<1> DEFINE r == local[c].request
<1>1. CASE ReadIds(c)
  <2> DEFINE numbers == {0} \cup {rows[d].number : d \in Live}
             l == [local[c] EXCEPT !.number = 1 + Max(numbers)]
  <2>1. /\ todo[c] # <<>> /\ Head(todo[c]).do = "ids" /\ Proceed(c, l, FALSE) /\ UNCHANGED rows
    BY <1>1 DEF ReadIds, Doing
  <2>2. l.request = r /\ l.fresh = local[c].fresh /\ l.number = 1 + Max(numbers)
    <3> HIDE DEF numbers
    <3> QED BY OwnCopy DEF Local
  <2>3. /\ \A b \in Command \ {c} : Lab(b)'
        /\ todo'[c] = Tail(todo[c]) /\ (Lab(c)' \/ local'[c] = l)
    <3> HIDE DEF l
    <3> QED BY <2>1, ProceedLab
  <2> HIDE DEF l
  <2>4. ASSUME local'[c] = l, r # Gone, local[c].fresh PROVE Valid(r) /\ Stage(c)'
    <3>1. Valid(r) /\ Tail(todo[c]) = <<Ips>> \o Left(r, 0) /\ Laid(r, 0)
      BY <2>1, <2>4, StageHead
    <3>2. Live = {} /\ Laid(r, 0)'
      <4> HIDE DEF r
      <4> QED BY <2>1, <3>1 DEF Laid, Live
    <3>3. Max(numbers) = 0
      <4>1. numbers = {0}
        BY <3>2
      <4>2. Max({0}) = 0
        BY GreatestIn
      <4> HIDE DEF numbers
      <4> QED BY <4>1, <4>2
    <3>4. local'[c].number = 1
      BY <2>2, <2>4, <3>3
    <3>5. local'[c].request = r
      BY <2>2, <2>4
    <3> QED BY <2>3, <3>1, <3>2, <3>4, <3>5 DEF Stage
  <2>5. Lab(c)'
    BY <2>2, <2>3, <2>4 DEF Lab
  <2> QED BY <2>3, <2>5 DEF LabInv
<1>2. CASE ReadIps(c)
  <2> DEFINE l == [local[c] EXCEPT !.used = {rows[d].ip : d \in Live}]
  <2>1. /\ todo[c] # <<>> /\ Head(todo[c]).do = "ips" /\ Proceed(c, l, FALSE) /\ UNCHANGED rows
    BY <1>2 DEF ReadIps, Doing
  <2>2. l.request = r /\ l.fresh = local[c].fresh /\ l.number = local[c].number
    BY OwnCopy DEF Local
  <2> HIDE DEF l
  <2>3. /\ \A b \in Command \ {c} : Lab(b)'
        /\ todo'[c] = Tail(todo[c]) /\ (Lab(c)' \/ local'[c] = l)
    BY <2>1, ProceedLab
  <2>4. ASSUME local'[c] = l, r # Gone, local[c].fresh PROVE Valid(r) /\ Stage(c)'
    <3>1. /\ r \in Requests /\ Valid(r) /\ Tail(todo[c]) = Left(r, 0) /\ Laid(r, 0)
          /\ local[c].number = 1
      BY <2>1, <2>4, StageHead
    <3>2. Laid(r, 0)'
      <4> HIDE DEF r
      <4> QED BY <2>1, <3>1 DEF Laid, Live
    <3>3. 1 \in 1..(r.total + 1) /\ 1 - 1 = 0
      BY <3>1, RequestAssumption DEF Valid
    <3>4. local'[c].request = r /\ local'[c].number = 1
      BY <2>2, <2>4, <3>1
    <3> QED BY <2>3, <3>1, <3>2, <3>3, <3>4 DEF Stage
  <2>5. Lab(c)'
    BY <2>2, <2>3, <2>4 DEF Lab
  <2> QED BY <2>3, <2>5 DEF LabInv
<1> QED BY <1>1, <1>2

\* A lab gets its next device.
LEMMA LaidNext ==
  ASSUME IInv, NEW c \in Command, Insert(c), NEW r \in Requests, Valid(r),
         NEW n \in 1..r.total, Laid(r, n - 1), local[c].number = n, Head(todo[c]) = Nth(r, n)
  PROVE  Laid(r, n)'
<1> DEFINE new == NewRow(c)
           job == Nth(r, n)
<1>1. n \in Nat /\ n - 1 \in Nat /\ n \in 1..n
  BY RequestAssumption DEF Valid
<1>2. /\ next \notin Live /\ Live' = Live \cup {next}
      /\ rows'[next] = new /\ \A d \in Live : rows'[d] = rows[d]
  BY Inserted DEF Live
<1>3. /\ new.number = n /\ new.type = job.type
      /\ new.profile = job.as.profile /\ new.reach = job.as.reach
  BY Zenon DEF NewRow, Payload
<1> HIDE DEF new
<1>4. \A d \in Live : rows[d].number \in 1..n
  <2>1. \A d \in Live : rows[d].number \in 1..(n - 1)
    BY DEF Laid
  <2> QED BY <1>1, <2>1
<1>5. ASSUME NEW d \in Live'
      PROVE  /\ rows'[d].number \in 1..n
             /\ rows'[d].type = Nth(r, rows'[d].number).type
             /\ rows'[d].profile = Nth(r, rows'[d].number).as.profile
             /\ rows'[d].reach = Nth(r, rows'[d].number).as.reach
  <2>1. CASE d = next
    BY <1>1, <1>2, <1>3, <2>1, Zenon
  <2>2. CASE d \in Live
    <3>1. /\ rows[d].type = Nth(r, rows[d].number).type
          /\ rows[d].profile = Nth(r, rows[d].number).as.profile
          /\ rows[d].reach = Nth(r, rows[d].number).as.reach
      BY <2>2, Zenon DEF Laid
    <3> QED BY <1>2, <1>4, <2>2, <3>1, Zenon
  <2> QED BY <1>2, <2>1, <2>2
<1>6. ASSUME NEW m \in 1..n PROVE \E d \in Live' : rows'[d].number = m
  <2>1. CASE m = n
    BY <1>2, <1>3, <2>1
  <2>2. CASE m # n
    <3>1. m \in 1..(n - 1)
      BY <1>1, <2>2
    <3>2. PICK d \in Live : rows[d].number = m
      BY <3>1 DEF Laid
    <3> QED BY <1>2, <3>2
  <2> QED BY <2>1, <2>2
<1> QED BY <1>5, <1>6, Zenon DEF Laid

\* An insert adds the next device.
LEMMA InsertLab ==
  ASSUME IInv, LabInv, NEW c \in Command, Insert(c)
  PROVE  LabInv'
<1> DEFINE r == local[c].request
           n == local[c].number
           l == [local[c] EXCEPT !.number = @ + 1, !.used = @ \cup {NewRow(c).ip}]
<1>1. todo[c] # <<>> /\ Head(todo[c]).do = "insert" /\ Proceed(c, l, TRUE)
  BY DEF Insert, Doing, Write
<1>2. l.request = r /\ l.fresh = local[c].fresh /\ l.number = n + 1
  BY OwnCopy DEF Local
<1> HIDE DEF l
<1>3. /\ \A b \in Command \ {c} : Lab(b)'
      /\ todo'[c] = Tail(todo[c]) /\ (Lab(c)' \/ local'[c] = l)
  BY <1>1, ProceedLab
<1>4. ASSUME local'[c] = l, r # Gone, local[c].fresh PROVE Valid(r) /\ Stage(c)'
  <2>1. /\ r \in Requests /\ Valid(r) /\ n \in 1..r.total /\ Laid(r, n - 1)
        /\ Head(todo[c]) = Nth(r, n) /\ Tail(todo[c]) = Left(r, n)
    BY <1>1, <1>4, StageHead
  <2>2. PICK q \in Requests : q = r
    BY <2>1
  <2>3. PICK m \in 1..q.total : m = n
    BY <2>1, <2>2
  <2>4. Laid(q, m)'
    BY <2>1, <2>2, <2>3, LaidNext
  <2>5. (m + 1) - 1 = m /\ m + 1 \in 1..(q.total + 1)
    BY <2>1, <2>2, RequestAssumption DEF Valid
  <2>6. local'[c].request = q /\ local'[c].number = m + 1
    BY <1>2, <1>4, <2>2, <2>3
  <2>7. todo'[c] = Left(q, m)
    BY <1>3, <2>1, <2>2, <2>3
  <2>8. Stage(c)'
    BY <2>4, <2>5, <2>6, <2>7 DEF Stage
  <2> QED BY <2>1, <2>8
<1>5. Lab(c)'
  BY <1>2, <1>3, <1>4 DEF Lab
<1> QED BY <1>3, <1>5 DEF LabInv

\* An export, and the end of a command, leave the lab as it is.
LEMMA QuietLab ==
  ASSUME IInv, LabInv, NEW c \in Command, Render(c) \/ WriteFile(c) \/ Exit(c)
  PROVE  LabInv'
<1>1. /\ todo[c] # <<>> /\ Proceed(c, local[c], FALSE) /\ UNCHANGED rows
      /\ Head(todo[c]).do \in {"render", "write", "raised"}
  BY DEF Render, WriteFile, Exit, Doing
<1>2. /\ \A b \in Command \ {c} : Lab(b)'
      /\ todo'[c] = Tail(todo[c]) /\ (Lab(c)' \/ local'[c] = local[c])
  BY <1>1, ProceedLab
<1>3. ASSUME local'[c] = local[c], local[c].request # Gone, local[c].fresh
      PROVE  Valid(local[c].request) /\ Stage(c)'
  <2>1. PICK r \in Requests, n \in Nat :
          /\ r = local[c].request /\ Valid(r) /\ n = local[c].number /\ Laid(r, n - 1)
          /\ n \in 1..(r.total + 1)
          /\ (n = r.total + 1 /\ Tail(todo[c]) \in Seq(Still)) \/ todo[c] = Raised
    <3> DEFINE r == local[c].request
               n == local[c].number
    <3>1. /\ r \in Requests /\ Valid(r) /\ n \in 1..(r.total + 1) /\ Laid(r, n - 1)
          /\ (n = r.total + 1 /\ Tail(todo[c]) \in Seq(Still)) \/ todo[c] = Raised
      <4>1. r \in Requests /\ Valid(r)
        BY <1>1, <1>3, StageHead
      <4>2. r.total \in Nat /\ r.total + 1 \in 1..(r.total + 1)
        BY <4>1, RequestAssumption DEF Valid
      <4> QED BY <1>1, <1>3, <4>1, <4>2, StageHead
    <3> HIDE DEF r, n
    <3>2. r = local[c].request /\ n = local[c].number /\ n \in Nat
      BY OwnCopy DEF r, n, Local
    <3> QED BY <3>1, <3>2
  <2>2. Laid(r, n - 1)'
    BY <1>1, <2>1 DEF Laid, Live
  <2>3. local'[c].request = r /\ local'[c].number = n
    BY <1>3, <2>1
  <2>4. CASE n = r.total + 1 /\ Tail(todo[c]) \in Seq(Still)
    BY <1>2, <2>1, <2>2, <2>3, <2>4 DEF Stage
  <2>5. CASE todo[c] = Raised
    <3>1. local'[c] = Idle
      BY <1>1, <2>5 DEF Proceed, Raised
    <3>2. Idle.request = Gone
      BY DEF Idle
    <3> QED BY <1>3, <3>1, <3>2
  <2> QED BY <2>1, <2>4, <2>5
<1>4. Lab(c)'
  BY <1>2, <1>3 DEF Lab
<1> QED BY <1>2, <1>4 DEF LabInv

\* An exception leaves the lab as it is: a start raises at an insert.
LEMMA RaiseLab ==
  ASSUME IInv, LabInv, NEW c \in Command, Raise(c)
  PROVE  LabInv'
<1>1. todo' = [todo EXCEPT ![c] = Raised] /\ UNCHANGED <<rows, local>>
  BY DEF Raise, Raised
<1>2. todo'[c] = Raised /\ \A b \in Command \ {c} : todo'[b] = todo[b]
  BY <1>1 DEF IInv, Typed
<1>3. \A b \in Command \ {c} : Lab(b)'
  BY <1>1, <1>2, OtherLab DEF LabInv
<1>4. ASSUME local[c].request # Gone, local[c].fresh
      PROVE  Valid(local[c].request) /\ Stage(c)'
  <2>1. todo[c] # <<>> /\ Head(todo[c]).do \in {"full", "fields", "insert"}
    BY DEF Raise, Fails, Doing
  <2>2. PICK r \in Requests, n \in Nat :
          /\ r = local[c].request /\ Valid(r) /\ n = local[c].number /\ Laid(r, n - 1)
          /\ n \in 1..r.total
    <3> DEFINE r == local[c].request
               n == local[c].number
    <3>1. r \in Requests /\ Valid(r) /\ n \in 1..r.total /\ Laid(r, n - 1)
      BY <1>4, <2>1, StageHead
    <3> HIDE DEF r, n
    <3>2. r = local[c].request /\ n = local[c].number /\ n \in Nat
      BY OwnCopy DEF r, n, Local
    <3> QED BY <3>1, <3>2
  <2>3. Laid(r, n - 1)'
    BY <1>1, <2>2 DEF Laid, Live
  <2>4. n \in 1..(r.total + 1)
    BY <2>2, RequestAssumption DEF Valid
  <2>5. local'[c].request = r /\ local'[c].number = n
    BY <1>1, <2>2
  <2> QED BY <1>2, <2>2, <2>3, <2>4, <2>5 DEF Stage
<1>5. Lab(c)'
  BY <1>1, <1>4 DEF Lab
<1> QED BY <1>3, <1>5 DEF LabInv

\* A command that dies asks for nothing any more.
LEMMA AbortLab ==
  ASSUME IInv, LabInv, NEW c \in Command, Abort(c)
  PROVE  LabInv'
<1>1. /\ local'[c] = Idle /\ UNCHANGED rows
      /\ \A b \in Command \ {c} : todo'[b] = todo[b] /\ local'[b] = local[b]
  BY DEF Abort, IInv, Typed
<1>2. \A b \in Command \ {c} : Lab(b)'
  BY <1>1, OtherLab DEF LabInv
<1>3. Lab(c)'
  <2>1. Idle.request = Gone
    BY DEF Idle
  <2> QED BY <1>1, <2>1 DEF Lab
<1> QED BY <1>2, <1>3 DEF LabInv

\* The lab that a start creates is the one it was asked for, if nobody writes meanwhile:
\* whether it is complete or an address was missing, its categories are filled one after
\* the other and its types are mixed evenly, and it is complete before it is exported.
THEOREM LabIsAsAsked == Spec => []LabAsAsked
<1>1. Init => LabInv
  <2> SUFFICES ASSUME Init, NEW c \in Command PROVE Lab(c)
    BY DEF LabInv
  <2>1. local[c] = Idle /\ Idle.request = Gone
    BY DEF Init, Idle
  <2> QED BY <2>1 DEF Lab
<1>2. IInv /\ LabInv /\ [Next]_vars => LabInv'
  <2> SUFFICES ASSUME IInv, LabInv, [Next]_vars PROVE LabInv'
    OBVIOUS
  <2>1. CASE Next
    <3>1. PICK c \in Command : \/ Start(c) \/ Add(c) \/ Edit(c) \/ Reset(c) \/ ExportOnly(c)
                               \/ Step(c) \/ Abort(c)
      BY <2>1 DEF Next
    <3>2. CASE Step(c)
      BY <3>2, EditLab, ClearLab, ReadsLab, InsertLab, QuietLab, RaiseLab DEF Step
    <3> QED BY <3>1, <3>2, BeginLab, AbortLab
  <2>2. CASE UNCHANGED vars
    <3>1. UNCHANGED <<todo, local, rows>>
      BY <2>2 DEF vars
    <3>2. \A b \in Command : Lab(b)'
      BY <3>1, OtherLab DEF LabInv
    <3> QED BY <3>2 DEF LabInv
  <2> QED BY <2>1, <2>2
<1>3. IInv /\ LabInv => LabAsAsked
  <2> SUFFICES ASSUME IInv, LabInv, NEW c \in Command, local[c].request # Gone,
                      local[c].fresh, local[c].number > 0
               PROVE  LET r == local[c].request
                      IN  /\ \A i \in 1..4 :
                               LET asked == <<r.high, r.medium, r.low, r.unreachable>>
                               IN  /\ Have[i] <= asked[i]
                                   /\ Have[i] < asked[i] => \A j \in (i + 1)..4 : Have[j] = 0
                          /\ \A s, t \in Type :
                               Cardinality({d \in Live : rows[d].type = s})
                                 <= 1 + Cardinality({d \in Live : rows[d].type = t})
                          /\ Doing(c, "render") => Cardinality(Live) = r.total
    BY DEF LabAsAsked
  <2> DEFINE r == local[c].request
             n == local[c].number
  <2>1. r \in Requests /\ Valid(r) /\ Stage(c)
    BY OwnCopy DEF LabInv, Lab, Local
  <2>2. r.total \in Nat /\ n \in Nat
    <3>1. r.total \in Nat
      BY <2>1, RequestAssumption DEF Valid
    <3> QED BY <3>1, OwnCopy DEF Local
  <2>3. n - 1 \in 0..r.total /\ Laid(r, n - 1)
    BY <2>1, <2>2 DEF Stage
  <2>4. Doing(c, "render") => n = r.total + 1
    <3> SUFFICES ASSUME Doing(c, "render") PROVE n = r.total + 1
      OBVIOUS
    <3>1. todo[c] # <<>> /\ Head(todo[c]).do = "render"
      BY DEF Doing
    <3> QED BY <3>1, StageHead
  <2> HIDE DEF r, n
  <2>5. \A i \in 1..4 :
          LET asked == <<r.high, r.medium, r.low, r.unreachable>>
          IN  /\ Have[i] <= asked[i]
              /\ Have[i] < asked[i] => \A j \in (i + 1)..4 : Have[j] = 0
    BY <2>1, <2>3, CategoriesInOrder
  <2>6. \A s, t \in Type : Cardinality({d \in Live : rows[d].type = s})
                             <= 1 + Cardinality({d \in Live : rows[d].type = t})
    BY <2>1, <2>3, TypesMixed
  <2>7. Doing(c, "render") => Cardinality(Live) = r.total
    <3>1. Cardinality(Live) = n - 1
      <4> DEFINE k == n - 1
      <4>1. k \in Nat /\ Laid(r, k)
        BY <2>2, <2>3
      <4> HIDE DEF k
      <4>2. Cardinality(Live) = k
        BY <4>1, LabSize
      <4> QED BY <4>2 DEF k
    <3> QED BY <2>2, <2>4, <3>1
  <2> QED BY <2>5, <2>6, <2>7 DEF r
<1> QED BY <1>1, <1>2, <1>3, Inductive, PTL DEF Spec

=============================================================================
