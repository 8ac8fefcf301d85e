---------------------------- MODULE ExportProofs ----------------------------
(***************************************************************************)
(* The Datadog files at rest, for any number of commands: unless a command *)
(* failed or a file was written late, they show the table as it is.        *)
(*                                                                         *)
(* The argument: whoever writes to the table still has a whole Export      *)
(* before him, and whoever has rendered a file that is current has yet to  *)
(* write it.  So as long as a file is not current, somebody is about to    *)
(* write one that is.                                                      *)
(***************************************************************************)
EXTENDS InventoryProofs

-----------------------------------------------------------------------------
(* What is left of a command's list.                                       *)

\* The ends of Export.
Export3 == <<[do |-> "render", file |-> "hostport"],
             [do |-> "write", file |-> "conf"], [do |-> "write", file |-> "hostport"]>>
Export2 == <<[do |-> "write", file |-> "conf"], [do |-> "write", file |-> "hostport"]>>
Export1 == <<[do |-> "write", file |-> "hostport"]>>

\* Something, and then a whole Export.
EndsInExport(s) == \E before \in Seq(Job) : s = before \o Export

Fits(s) ==
  \/ s = <<>> \/ s = Export1 \/ s = Export2 \/ s = Export3
  \/ EndsInExport(s)

Raised == <<[do |-> "raised"]>>

\* Export is the least such list.
LEMMA ExportAlone == EndsInExport(Export)
<1>1. <<>> \in Seq(Job) /\ <<>> \o Export = Export
  BY ExportJobs, PlainIsJob, ConcatEmptySeq, EmptySeq
<1> QED BY <1>1 DEF EndsInExport

\* What is done before does not matter.
LEMMA EndsLonger ==
  ASSUME NEW s \in Seq(Job), NEW t, EndsInExport(t)
  PROVE  EndsInExport(s \o t)
<1>1. PICK before \in Seq(Job) : t = before \o Export
  BY DEF EndsInExport
<1>2. s \o t = (s \o before) \o Export
  BY <1>1, ExportJobs, PlainIsJob, ConcatAssociative, SMTT(30)
<1>3. s \o before \in Seq(Job)
  BY Appended
<1> QED BY <1>2, <1>3 DEF EndsInExport

\* How long what is left is says where a command is.
LEMMA LeftShape ==
  ASSUME NEW s, Fits(s), s # <<>>
  PROVE  /\ Fits(Tail(s))
         /\ Len(s) \in Nat /\ Len(s) >= 1 /\ Len(Tail(s)) = Len(s) - 1
         /\ Len(s) = 4 => Head(s) = [do |-> "render", file |-> "conf"]
         /\ Len(s) = 3 => Head(s) = [do |-> "render", file |-> "hostport"]
         /\ Len(s) = 2 => Head(s) = [do |-> "write", file |-> "conf"]
         /\ Len(s) = 1 => Head(s) = [do |-> "write", file |-> "hostport"]
<1>1. CASE s = Export1
  BY <1>1 DEF Export1, Fits
<1>2. CASE s = Export2
  <2>1. Tail(s) = Export1
    BY <1>2 DEF Export1, Export2
  <2> QED BY <1>2, <2>1 DEF Export1, Export2, Fits
<1>3. CASE s = Export3
  <2>1. Tail(s) = Export2
    BY <1>3 DEF Export2, Export3
  <2> QED BY <1>3, <2>1 DEF Export2, Export3, Fits
<1>4. CASE s = Export
  <2>1. Tail(s) = Export3
    BY <1>4 DEF Export, Export3
  <2> QED BY <1>4, <2>1 DEF Export, Export3, Fits
<1>5. CASE EndsInExport(s) /\ s # Export
  <2>1. PICK before \in Seq(Job) : s = before \o Export
    BY <1>5 DEF EndsInExport
  <2>2. before # <<>>
    BY <1>5, <2>1, ExportJobs, PlainIsJob, ConcatEmptySeq
  <2>3. Len(before) \in Nat /\ Len(before) >= 1
    BY <2>2, EmptySeq
  <2>4. Export \in Seq(Job) /\ Len(Export) = 4
    <3>1. Len(Export) = 4
      BY DEF Export
    <3> QED BY <3>1, ExportJobs, PlainIsJob
  <2>5. s \in Seq(Job) /\ Len(s) = Len(before) + 4
    BY <2>1, <2>4, Appended
  <2>6. Tail(s) = Tail(before) \o Export
    BY <2>1, <2>2, <2>4
  <2>7. EndsInExport(Tail(s))
    <3>1. Tail(before) \in Seq(Job)
      BY <2>2, HeadTailProperties
    <3> QED BY <2>6, <3>1 DEF EndsInExport
  <2>8. Len(Tail(s)) = Len(s) - 1
    BY <2>3, <2>5, HeadTailProperties, EmptySeq
  <2> QED BY <2>3, <2>5, <2>7, <2>8 DEF Fits
<1> QED BY <1>1, <1>2, <1>3, <1>4, <1>5 DEF Fits

\* The same, by what the head does.
LEMMA Left ==
  ASSUME NEW s, Fits(s), s # <<>>
  PROVE  /\ Fits(Tail(s))
         /\ Len(s) \in Nat /\ Len(s) >= 1 /\ Len(Tail(s)) = Len(s) - 1
         /\ Len(s) \in {3, 4} => Head(s).do = "render"
         /\ Len(s) \in {1, 2} => Head(s).do = "write"
         /\ Len(s) \in {4, 2} => Head(s).file = "conf"
         /\ Len(s) \in {3, 1} => Head(s).file = "hostport"
<1>1. /\ Fits(Tail(s))
      /\ Len(s) \in Nat /\ Len(s) >= 1 /\ Len(Tail(s)) = Len(s) - 1
  BY LeftShape
<1>2. CASE Len(s) = 4
  BY <1>1, <1>2, LeftShape
<1>3. CASE Len(s) = 3
  BY <1>1, <1>3, LeftShape
<1>4. CASE Len(s) = 2
  BY <1>1, <1>4, LeftShape
<1>5. CASE Len(s) = 1
  BY <1>1, <1>5, LeftShape
<1>6. CASE Len(s) \notin {1, 2, 3, 4}
  BY <1>1, <1>6
<1> QED BY <1>2, <1>3, <1>4, <1>5, <1>6

-----------------------------------------------------------------------------
(* Every command exports last.                                             *)

\* The commands on one device end in an export,
LEMMA EditsEnd ==
  /\ EndsInExport(RemoveJobs)
  /\ \A type \in Type, profile \in Profile : EndsInExport(TrafficJobs(type, profile))
  /\ \A up \in BOOLEAN : EndsInExport(ReachJobs(up))
  /\ \A on \in BOOLEAN : EndsInExport(NetflowJobs(on))
<1>1. ASSUME NEW job, <<job>> \o Export \in Seq(Job) PROVE EndsInExport(<<job>> \o Export)
  <2>1. Head(<<job>> \o Export) = job /\ <<job>> \o Export # <<>>
    BY DEF Export
  <2>2. job \in Job
    BY <1>1, <2>1, HeadTailProperties
  <2>3. <<job>> \in Seq(Job)
    BY <2>2
  <2> QED BY <2>3 DEF EndsInExport
<1> QED BY <1>1, EditJobs DEF RemoveJobs, TrafficJobs, ReachJobs, NetflowJobs

\* An update ends as its last part does, or exports itself.
LEMMA UpdatesEnd ==
  ASSUME NEW row \in Row, NEW u \in Updates
  PROVE  EndsInExport(UpdateJobs(row, u))
<1> DEFINE type == IF "type" \in DOMAIN u THEN u.type ELSE row.type
           profile == IF "traffic" \in DOMAIN u THEN u.traffic ELSE row.profile
           change == IF "type" \in DOMAIN u THEN [type |-> type, ifaces |-> <<type, profile>>]
                     ELSE [name |-> "any"]
           traffic == IF "traffic" \in DOMAIN u THEN TrafficJobs(type, profile) ELSE <<>>
           reach == IF "reach" \in DOMAIN u THEN ReachJobs(u.reach) ELSE <<>>
           more == traffic \o reach
           rest == IF more = <<>> THEN Export ELSE more
<1>1. type \in Type /\ profile \in Profile
  BY UpdateAssumption DEF Row
<1>2. /\ traffic \in Seq(Job) /\ (traffic = <<>> \/ EndsInExport(traffic))
      /\ reach \in Seq(Job) /\ (reach = <<>> \/ EndsInExport(reach))
  <2> HIDE DEF type, profile
  <2>1. ASSUME "reach" \in DOMAIN u PROVE u.reach \in BOOLEAN
    BY <2>1, UpdateAssumption
  <2>2. <<>> \in Seq(Job)
    OBVIOUS
  <2> QED BY <1>1, <2>1, <2>2, EditJobs, EditsEnd
<1>3. EndsInExport(rest)
  <2> HIDE DEF traffic, reach
  <2>1. CASE reach = <<>>
    <3>1. more = traffic
      BY <1>2, <2>1, ConcatEmptySeq
    <3> QED BY <1>2, <3>1, ExportAlone
  <2>2. CASE EndsInExport(reach)
    <3>1. EndsInExport(more)
      BY <1>2, <2>2, EndsLonger
    <3> QED BY <3>1, ExportAlone
  <2> QED BY <1>2, <2>1, <2>2
<1>4. UpdateJobs(row, u) = <<Full(change)>> \o rest
  BY DEF UpdateJobs
<1>5. Full(change) \in Job
  <2>1. UpdateJobs(row, u) # <<>> /\ Head(UpdateJobs(row, u)) = Full(change)
    <3>1. rest \in Seq(Job)
      BY <1>3, ExportJobs, PlainIsJob, Appended DEF EndsInExport
    <3> HIDE DEF change, rest
    <3> QED BY <1>4, <3>1
  <2> HIDE DEF change
  <2> QED BY <2>1, UpdateJobsTyped, HeadTailProperties
<1>6. <<Full(change)>> \in Seq(Job)
  <2> HIDE DEF change
  <2> QED BY <1>5
<1>7. EndsInExport(<<Full(change)>> \o rest)
  <2> HIDE DEF change, rest
  <2> QED BY <1>3, <1>6, EndsLonger
<1> QED BY <1>4, <1>7

\* The lists that need no copy of a row.
LEMMA StartEnds ==
  ASSUME NEW r \in Requests, Valid(r), NEW replace \in BOOLEAN
  PROVE  EndsInExport(StartJobs(r, replace))
<1> DEFINE first == IF replace THEN <<[do |-> "clear"]>> ELSE <<>>
<1>1. first \in Seq(PlainJob)
  BY PlainJobs
<1>2. first \o LabJobs(r) \in Seq(Job)
  <2> HIDE DEF first
  <2> QED BY <1>1, LabJobsPlain, Appended, PlainIsJob
<1>3. StartJobs(r, replace) = (first \o LabJobs(r)) \o Export
  BY DEF StartJobs
<1> QED BY <1>2, <1>3 DEF EndsInExport

\* and so does adding one
LEMMA AddEnds ==
  ASSUME NEW type \in Type, NEW as \in As
  PROVE  EndsInExport(AddJobs(type, as))
<1> DEFINE new == Insertion(type, as)
           first == <<[do |-> "ids"], [do |-> "ips"], new>>
<1>1. first \in Seq(Job)
  <2>1. new \in PlainJob
    BY PlainJobs
  <2>2. first \in Seq(PlainJob)
    <3> HIDE DEF new
    <3> QED BY <2>1, PlainJobs
  <2> QED BY <2>2, PlainIsJob
<1>2. AddJobs(type, as) = first \o Export
  BY DEF AddJobs
<1> QED BY <1>1, <1>2 DEF EndsInExport

\* and deleting all.
LEMMA ResetEnds == EndsInExport(ResetJobs)
<1>1. <<[do |-> "clear"]>> \in Seq(PlainJob)
  BY PlainJobs
<1>2. <<[do |-> "clear"]>> \in Seq(Job)
  BY <1>1, PlainIsJob
<1> QED BY <1>2 DEF EndsInExport, ResetJobs

-----------------------------------------------------------------------------
(* The invariant.                                                          *)

Ready(c) ==
  \/ todo[c] = Raised /\ "failed" \in slips
  \/ Fits(todo[c])

\* c is going to write f as the table is.
Promises(c, f) ==
  LET n == Len(todo[c]) IN
    \/ n >= 4
    \/ n = 3 /\ (f = "hostport" \/ <<c, "conf">> \in current)
    \/ n = 2 /\ <<c, f>> \in current
    \/ n = 1 /\ f = "hostport" /\ <<c, f>> \in current

ExportInv ==
  /\ \A c \in Command : Ready(c)
  /\ slips \cap {"overtaken", "failed"} = {} =>
       \A f \in File : <<"disk", f>> \in current \/ \E c \in Command : Promises(c, f)

\* A command begins with its Export still to come.
LEMMA BeginExports ==
  ASSUME IInv, ExportInv, NEW c \in Command,
         Start(c) \/ Add(c) \/ Edit(c) \/ Reset(c) \/ ExportOnly(c)
  PROVE  ExportInv'
<1>1. PICK jobs : /\ EndsInExport(jobs) /\ todo[c] = <<>>
                  /\ todo' = [todo EXCEPT ![c] = jobs]
                  /\ UNCHANGED <<current, slips>>
  <2>1. CASE Start(c)
    <3>1. PICK r \in Requests, replace \in BOOLEAN :
            Valid(r) /\ Begin(c, StartJobs(r, Live # {}), 0, r)
      BY <2>1 DEF Start
    <3>2. EndsInExport(StartJobs(r, Live # {}))
      BY <3>1, StartEnds
    <3> QED BY <3>1, <3>2 DEF Begin
  <2>2. CASE Add(c)
    <3>1. PICK type \in Type, profile \in Profile, up \in BOOLEAN :
            Begin(c, AddJobs(type, [profile |-> profile, reach |-> up]), 0, Gone)
      BY <2>2 DEF Add
    <3>2. [profile |-> profile, reach |-> up] \in As
      BY DEF As
    <3> QED BY <3>1, <3>2, AddEnds DEF Begin
  <2>3. CASE Edit(c)
    <3>1. PICK d \in Live :
            \/ Begin(c, RemoveJobs, d, Gone)
            \/ \E profile \in Profile : Begin(c, TrafficJobs(rows[d].type, profile), d, Gone)
            \/ \E up \in BOOLEAN : Begin(c, ReachJobs(up), d, Gone)
            \/ \E on \in BOOLEAN : Begin(c, NetflowJobs(on), d, Gone)
            \/ \E u \in Updates : Begin(c, UpdateJobs(rows[d], u), d, Gone)
      BY <2>3 DEF Edit
    <3>2. rows[d] \in Row /\ rows[d].type \in Type
      BY DEF IInv, Typed, Live, Row
    <3>3. PICK jobs : EndsInExport(jobs) /\ Begin(c, jobs, d, Gone)
      BY <3>1, <3>2, EditsEnd, UpdatesEnd
    <3> QED BY <3>3 DEF Begin
  <2>4. CASE Reset(c)
    BY <2>4, ResetEnds DEF Reset, Begin
  <2>5. CASE ExportOnly(c)
    BY <2>5, ExportAlone DEF ExportOnly, Begin
  <2> QED BY <2>1, <2>2, <2>3, <2>4, <2>5
<1>2. todo'[c] = jobs /\ \A b \in Command \ {c} : todo'[b] = todo[b]
  BY <1>1 DEF IInv, Typed
<1>3. \A b \in Command : Ready(b)'
  BY <1>1, <1>2 DEF ExportInv, Ready, Fits
<1>4. ASSUME NEW f \in File, NEW b \in Command, Promises(b, f) PROVE Promises(b, f)'
  <2>1. Len(todo[c]) = 0
    BY <1>1
  <2> QED BY <1>1, <1>2, <1>4, <2>1 DEF Promises
<1> QED BY <1>1, <1>3, <1>4 DEF ExportInv

\* A step of a command, from what it does to the files.
LEMMA ProceedExports ==
  ASSUME IInv, ExportInv, NEW c \in Command, todo[c] # <<>>, todo[c] # Raised,
         todo' = [todo EXCEPT ![c] = Tail(@)], slips \subseteq slips'
  PROVE  /\ \A b \in Command : Ready(b)'
         /\ Fits(todo[c])
         /\ todo'[c] = Tail(todo[c])
         /\ \A b \in Command \ {c} : todo'[b] = todo[b]
<1>1. todo'[c] = Tail(todo[c]) /\ \A b \in Command \ {c} : todo'[b] = todo[b]
  BY DEF IInv, Typed
<1>2. Fits(todo[c])
  BY DEF ExportInv, Ready
<1>3. Fits(todo'[c])
  BY <1>1, <1>2, Left
<1> QED BY <1>1, <1>2, <1>3 DEF ExportInv, Ready

\* A failure replaces what was left to do by the one step of reporting it.
LEMMA RaisedShape ==
  Len(Raised) = 1 /\ Tail(Raised) = <<>> /\ Head(Raised).do = "raised" /\ Raised # <<>>
BY DEF Raised

\* Whoever reads or writes the table has a whole Export before it.
LEMMA OtherExports ==
  ASSUME IInv, ExportInv, NEW c \in Command,
         \/ Save(c) \/ SaveFields(c) \/ Delete(c) \/ Clear(c) \/ Insert(c)
         \/ ReadIds(c) \/ ReadIps(c)
         \/ Exit(c) /\ todo[c] # Raised
  PROVE  ExportInv'
<1>1. PICK what \in {"full", "fields", "delete", "clear", "insert", "ids", "ips", "raised"} :
        Doing(c, what)
  BY DEF Save, SaveFields, Delete, Clear, Insert, ReadIds, ReadIps, Exit
<1>2. /\ todo' = [todo EXCEPT ![c] = Tail(@)] /\ slips \subseteq slips'
  BY DEF Save, SaveFields, Delete, Clear, Insert, ReadIds, ReadIps, Exit, Write, Proceed
<1>3. todo[c] # <<>> /\ Head(todo[c]).do = what /\ todo[c] # Raised
  <2>1. todo[c] = Raised => what = "raised"
    BY <1>1, RaisedShape DEF Doing
  <2>2. ASSUME what = "raised" PROVE todo[c] # Raised
    BY <1>1, <2>2 DEF Save, SaveFields, Delete, Clear, Insert, ReadIds, ReadIps, Doing
  <2> QED BY <1>1, <2>1, <2>2 DEF Doing
<1>4. /\ \A b \in Command : Ready(b)'
      /\ Fits(todo[c]) /\ todo'[c] = Tail(todo[c])
  BY <1>2, <1>3, ProceedExports
<1>5. /\ Len(todo[c]) \notin {1, 2, 3, 4} /\ Len(todo'[c]) >= 4
  <2> DEFINE s == todo[c]
  <2>1. /\ Len(s) \in Nat /\ Len(s) >= 1 /\ Len(Tail(s)) = Len(s) - 1
        /\ Len(s) \in {3, 4} => Head(s).do = "render"
        /\ Len(s) \in {1, 2} => Head(s).do = "write"
    BY <1>3, <1>4, Left
  <2> HIDE DEF s
  <2>2. Len(s) \notin {1, 2, 3, 4}
    BY <1>1, <1>3, <2>1 DEF s
  <2>3. Len(s) >= 5 /\ Len(Tail(s)) >= 4
    <3> DEFINE n == Len(s)
               m == Len(Tail(s))
    <3>1. n \in Nat /\ n >= 1 /\ n \notin {1, 2, 3, 4} /\ m = n - 1
      BY <2>1, <2>2
    <3>2. n >= 5 /\ m >= 4
      <4> HIDE DEF n, m
      <4> QED BY <3>1
    <3> QED BY <3>2
  <2> QED BY <1>4, <2>2, <2>3 DEF s
<1>6. \A f \in File : Promises(c, f)'
  BY <1>5 DEF Promises
<1> QED BY <1>4, <1>6 DEF ExportInv

\* What is rendered is current, and is yet to be written.
LEMMA RenderExports ==
  ASSUME IInv, ExportInv, NEW c \in Command, Render(c)
  PROVE  ExportInv'
<1>1. /\ todo' = [todo EXCEPT ![c] = Tail(@)] /\ UNCHANGED slips
      /\ current' = current \cup {<<c, Head(todo[c]).file>>}
      /\ todo[c] # <<>> /\ Head(todo[c]).do = "render" /\ todo[c] # Raised
  BY RaisedShape DEF Render, Proceed, Doing
<1>2. /\ \A b \in Command : Ready(b)'
      /\ Fits(todo[c]) /\ todo'[c] = Tail(todo[c])
      /\ \A b \in Command \ {c} : todo'[b] = todo[b]
  BY <1>1, ProceedExports
<1> DEFINE n == Len(todo[c])
<1>3. /\ n \in Nat /\ n >= 3 /\ Len(todo'[c]) = n - 1
      /\ n = 4 => Head(todo[c]).file = "conf"
      /\ n = 3 => Head(todo[c]).file = "hostport"
  <2> DEFINE s == todo[c]
  <2>1. /\ Fits(s) /\ s # <<>> /\ Head(s).do = "render" /\ todo'[c] = Tail(s)
    BY <1>1, <1>2
  <2> HIDE DEF s
  <2>2. /\ Len(s) \in Nat /\ Len(s) >= 1 /\ Len(Tail(s)) = Len(s) - 1
        /\ Len(s) \in {3, 4} => Head(s).do = "render"
        /\ Len(s) \in {1, 2} => Head(s).do = "write"
        /\ Len(s) \in {4, 2} => Head(s).file = "conf"
        /\ Len(s) \in {3, 1} => Head(s).file = "hostport"
    BY <2>1, Left
  <2>3. Len(s) \notin {1, 2}
    BY <2>1, <2>2
  <2>4. Len(s) >= 3
    <3> DEFINE k == Len(s)
    <3>1. k \in Nat /\ k >= 1 /\ k \notin {1, 2}
      BY <2>2, <2>3
    <3>2. k >= 3
      <4> HIDE DEF k
      <4> QED BY <3>1
    <3> QED BY <3>2
  <2> QED BY <2>1, <2>2, <2>4 DEF s
<1>4. ASSUME NEW f \in File, NEW b \in Command, Promises(b, f) PROVE Promises(b, f)'
  <2>1. CASE b # c
    BY <1>1, <1>2, <1>4, <2>1 DEF Promises
  <2>2. CASE b = c
    <3>1. CASE n >= 5
      BY <1>3, <2>2, <3>1 DEF Promises
    <3>2. CASE n = 4
      <4>1. <<c, "conf">> \in current' /\ Len(todo'[c]) = 3
        BY <1>1, <1>3, <3>2
      <4> QED BY <2>2, <4>1 DEF Promises
    <3>3. CASE n = 3
      <4>1. <<c, "hostport">> \in current' /\ Len(todo'[c]) = 2 /\ current \subseteq current'
        BY <1>1, <1>3, <3>3
      <4>2. f = "hostport" \/ <<c, f>> \in current
        BY <1>4, <2>2, <3>3 DEF Promises, File
      <4> QED BY <2>2, <4>1, <4>2 DEF Promises
    <3> HIDE DEF n
    <3>4. n = 3 \/ n = 4 \/ n >= 5
      BY <1>3
    <3> QED BY <3>1, <3>2, <3>3, <3>4
  <2> QED BY <2>1, <2>2
<1> QED BY <1>1, <1>2, <1>4 DEF ExportInv

\* A file that is written is current, or it was not before, or it is overtaken.
LEMMA WriteFileExports ==
  ASSUME IInv, ExportInv, NEW c \in Command, WriteFile(c)
  PROVE  ExportInv'
<1> DEFINE g == Head(todo[c]).file
           n == Len(todo[c])
<1>1. /\ todo' = [todo EXCEPT ![c] = Tail(@)]
      /\ current' = (current \ {<<c, g>>, <<"disk", g>>})
                      \cup (IF <<c, g>> \in current THEN {<<"disk", g>>} ELSE {})
      /\ slips' = IF <<"disk", g>> \in current /\ <<c, g>> \notin current
                  THEN slips \cup {"overtaken"} ELSE slips
      /\ todo[c] # <<>> /\ Head(todo[c]).do = "write" /\ todo[c] # Raised
  BY RaisedShape DEF WriteFile, Proceed, Doing
<1>2. /\ \A b \in Command : Ready(b)'
      /\ Fits(todo[c]) /\ todo'[c] = Tail(todo[c])
      /\ \A b \in Command \ {c} : todo'[b] = todo[b]
  <2>1. slips \subseteq slips'
    BY <1>1
  <2> QED BY <1>1, <2>1, ProceedExports
<1>3. /\ n \in Nat /\ n >= 1 /\ n # 3 /\ n # 4 /\ Len(todo'[c]) = n - 1
      /\ n = 2 => g = "conf"
      /\ n = 1 => g = "hostport"
  <2> DEFINE s == todo[c]
  <2>1. /\ Fits(s) /\ s # <<>> /\ Head(s).do = "write" /\ todo'[c] = Tail(s)
    BY <1>1, <1>2
  <2> HIDE DEF s
  <2>2. /\ Len(s) \in Nat /\ Len(s) >= 1 /\ Len(Tail(s)) = Len(s) - 1
        /\ Len(s) \in {3, 4} => Head(s).do = "render"
        /\ Len(s) \in {1, 2} => Head(s).do = "write"
        /\ Len(s) \in {4, 2} => Head(s).file = "conf"
        /\ Len(s) \in {3, 1} => Head(s).file = "hostport"
    BY <2>1, Left
  <2>3. Len(s) \notin {3, 4}
    BY <2>1, <2>2
  <2> QED BY <2>1, <2>2, <2>3 DEF s
<1>4. ASSUME NEW f \in File, slips' \cap {"overtaken", "failed"} = {}
      PROVE  <<"disk", f>> \in current' \/ \E b \in Command : Promises(b, f)'
  <2>1. CASE <<"disk", f>> \in current
    <3>1. <<"disk", f>> \in current'
      BY <1>1, <1>4, <2>1, CommandAssumption
    <3> QED BY <3>1
  <2>2. ASSUME NEW b \in Command, Promises(b, f), b # c
        PROVE  Promises(b, f)'
    <3>1. \A h \in File : <<b, h>> \in current => <<b, h>> \in current'
      BY <1>1, <2>2, CommandAssumption
    <3> QED BY <1>2, <2>2, <3>1 DEF Promises, File
  <2>3. CASE Promises(c, f)
    <3>1. CASE n >= 5
      BY <1>3, <3>1 DEF Promises
    <3>2. CASE n = 2 \/ n = 1
      <4>1. <<c, f>> \in current /\ (n = 1 => f = "hostport")
        <5>1. \/ n >= 4
              \/ n = 3 /\ (f = "hostport" \/ <<c, "conf">> \in current)
              \/ n = 2 /\ <<c, f>> \in current
              \/ n = 1 /\ f = "hostport" /\ <<c, f>> \in current
          BY <2>3 DEF Promises
        <5> HIDE DEF n
        <5> QED BY <3>2, <5>1
      <4>2. CASE f = g
        BY <1>1, <4>1, <4>2
      <4>3. CASE f # g
        <5>1. n = 2 /\ f = "hostport" /\ <<c, f>> \in current'
          BY <1>1, <1>3, <3>2, <4>1, <4>3, CommandAssumption DEF File
        <5> QED BY <1>3, <5>1 DEF Promises
      <4> QED BY <4>2, <4>3
    <3>3. n = 1 \/ n = 2 \/ n >= 5
      <4> HIDE DEF n
      <4> QED BY <1>3
    <3> QED BY <3>1, <3>2, <3>3
  <2>4. slips \cap {"overtaken", "failed"} = {}
    BY <1>1, <1>4
  <2> QED BY <2>1, <2>2, <2>3, <2>4 DEF ExportInv
<1> QED BY <1>2, <1>4 DEF ExportInv

\* An exception or a death is on record.
LEMMA FailExports ==
  ASSUME IInv, ExportInv, NEW c \in Command,
         Raise(c) \/ Abort(c) \/ (Exit(c) /\ todo[c] = Raised)
  PROVE  ExportInv'
<1>1. CASE Raise(c)
  <2>1. todo' = [todo EXCEPT ![c] = Raised] /\ slips' = slips \cup {"failed"}
    BY <1>1 DEF Raise, Raised
  <2>2. todo'[c] = Raised /\ \A b \in Command \ {c} : todo'[b] = todo[b]
    BY <2>1 DEF IInv, Typed
  <2> QED BY <2>1, <2>2 DEF ExportInv, Ready
<1>2. CASE Abort(c)
  <2>1. todo' = [todo EXCEPT ![c] = <<>>] /\ slips' = slips \cup {"failed"}
    BY <1>2 DEF Abort
  <2>2. todo'[c] = <<>> /\ \A b \in Command \ {c} : todo'[b] = todo[b]
    BY <2>1 DEF IInv, Typed
  <2> QED BY <2>1, <2>2 DEF ExportInv, Ready, Fits
<1>3. CASE Exit(c) /\ todo[c] = Raised
  <2>1. todo' = [todo EXCEPT ![c] = Tail(@)] /\ UNCHANGED slips
    BY <1>3 DEF Exit, Proceed
  <2>2. todo'[c] = <<>> /\ \A b \in Command \ {c} : todo'[b] = todo[b]
    BY <1>3, <2>1, RaisedShape DEF IInv, Typed
  <2>3. "failed" \in slips
    <3>1. ~Fits(Raised)
      <4>1. Len(Raised) = 1 /\ Raised # <<>> /\ Head(Raised).do = "raised"
        BY RaisedShape
      <4>2. Fits(Raised) => Head(Raised).do = "write"
        BY <4>1, Left
      <4> QED BY <4>1, <4>2
    <3> QED BY <1>3, <3>1 DEF ExportInv, Ready
  <2> QED BY <2>1, <2>2, <2>3 DEF ExportInv, Ready, Fits
<1> QED BY <1>1, <1>2, <1>3

\* When every command is over, the Datadog files show the table as it is, unless a
\* command failed or an older rendering was written over a newer one.
THEOREM ExportsAtRest == Spec => []QuietExports
<1>1. Init => ExportInv
  BY DEF Init, ExportInv, Ready, Fits
<1>2. IInv /\ ExportInv /\ [Next]_vars => ExportInv'
  <2> SUFFICES ASSUME IInv, ExportInv, [Next]_vars PROVE ExportInv'
    OBVIOUS
  <2>1. CASE Next
    <3>1. PICK c \in Command : \/ Start(c) \/ Add(c) \/ Edit(c) \/ Reset(c) \/ ExportOnly(c)
                               \/ Step(c) \/ Abort(c)
      BY <2>1 DEF Next
    <3>2. CASE Start(c) \/ Add(c) \/ Edit(c) \/ Reset(c) \/ ExportOnly(c)
      BY <3>2, BeginExports
    <3>3. CASE Exit(c)
      BY <3>3, OtherExports, FailExports
    <3>4. CASE Save(c)
      BY <3>4, OtherExports
    <3>5. CASE SaveFields(c)
      BY <3>5, OtherExports
    <3>6. CASE Delete(c)
      BY <3>6, OtherExports
    <3>7. CASE Clear(c)
      BY <3>7, OtherExports
    <3>8. CASE Insert(c)
      BY <3>8, OtherExports
    <3>9. CASE ReadIds(c)
      BY <3>9, OtherExports
    <3>10. CASE ReadIps(c)
      BY <3>10, OtherExports
    <3>11. CASE Render(c)
      BY <3>11, RenderExports
    <3>12. CASE WriteFile(c)
      BY <3>12, WriteFileExports
    <3>13. CASE Raise(c)
      BY <3>13, FailExports
    <3>14. CASE Abort(c)
      BY <3>14, FailExports
    <3> QED BY <3>1, <3>2, <3>3, <3>4, <3>5, <3>6, <3>7, <3>8, <3>9, <3>10, <3>11, <3>12,
               <3>13, <3>14 DEF Step
  <2>2. CASE UNCHANGED vars
    BY <2>2 DEF vars, ExportInv, Ready, Promises
  <2> QED BY <2>1, <2>2
<1>3. ExportInv => QuietExports
  <2> SUFFICES ASSUME ExportInv, \A c \in Command : todo[c] = <<>>,
                      slips \cap {"overtaken", "failed"} = {}, NEW f \in File
               PROVE  <<"disk", f>> \in current
    BY DEF QuietExports
  <2>1. \A c \in Command : ~Promises(c, f)
    BY DEF Promises
  <2> QED BY <2>1 DEF ExportInv
<1> QED BY <1>1, <1>2, <1>3, Inductive, PTL DEF Spec

=============================================================================
