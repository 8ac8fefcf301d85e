--------------------------- MODULE InterfaceProofs ---------------------------
(***************************************************************************)
(* Interfaces belong to the type and the traffic profile of their device,  *)
(* for any number of commands: but for the moment between the two saves    *)
(* of an `update`, and unless a command failed or saved a stale copy.      *)
(*                                                                         *)
(* The argument: a command builds interfaces for what its own copy of the  *)
(* row will be (Shaped), so what it saves matches whatever others have     *)
(* done, and only a type that is to be followed by a profile leaves a      *)
(* device that does not match, to the same command.                        *)
(***************************************************************************)
EXTENDS InventoryProofs

-----------------------------------------------------------------------------
(* What is left of a command's list.                                       *)

Rest == {job \in Job : job.do # "full"}

ProfileChange(t, p) == Full([profile |-> p, ifaces |-> <<t, p>>])
TypeChange(t, p)    == Full([type |-> t, ifaces |-> <<t, p>>])
NoChange            == Full([name |-> "any"])

\* The full saves of a list suit the copy of the row.
Shaped(row, s) ==
  \/ s \in Seq(Rest)
  \/ \E rest \in Seq(Rest), p \in Profile : s = <<ProfileChange(row.type, p)>> \o rest
  \/ \E rest \in Seq(Rest), t \in Type : s = <<TypeChange(t, row.profile)>> \o rest
  \/ \E rest \in Seq(Rest), t \in Type, p \in Profile :
       s = <<TypeChange(t, p)>> \o (<<ProfileChange(t, p)>> \o rest)
  \/ \E rest \in Seq(Rest) : s = <<NoChange>> \o rest
  \/ \E rest \in Seq(Rest), p \in Profile :
       s = <<NoChange>> \o (<<ProfileChange(row.type, p)>> \o rest)

Matches(row) == row.ifaces = <<row.type, row.profile>>

\* A list that begins with a save of the profile.
AtProfile(s) == s # <<>> /\ Head(s).do = "full" /\ "profile" \in DOMAIN Head(s).change

\* Which columns the full saves of a change set.
LEMMA FullHead ==
  /\ \A t, p : /\ ProfileChange(t, p).do = "full" /\ TypeChange(t, p).do = "full"
               /\ ProfileChange(t, p).change = [profile |-> p, ifaces |-> <<t, p>>]
               /\ TypeChange(t, p).change = [type |-> t, ifaces |-> <<t, p>>]
  /\ NoChange.do = "full" /\ NoChange.change = [name |-> "any"]
BY DEF ProfileChange, TypeChange, NoChange, Full

\* A list that does not begin with a full save has none.
LEMMA NoFull ==
  ASSUME NEW row, NEW s, Shaped(row, s), s # <<>>, Head(s).do # "full"
  PROVE  s \in Seq(Rest) /\ Tail(s) \in Seq(Rest)
<1>1. s \in Seq(Rest)
  <2>1. ASSUME NEW rest \in Seq(Rest), NEW x, s = <<x>> \o rest, x.do = "full" PROVE FALSE
    BY <2>1, Cons
  <2>2. ASSUME NEW rest \in Seq(Rest), NEW x, NEW y, s = <<x>> \o (<<y>> \o rest), x.do = "full"
        PROVE  FALSE
    BY <2>2, Cons2
  <2> QED BY <2>1, <2>2, FullHead DEF Shaped
<1> QED BY <1>1, HeadTailProperties

\* What a full save does to the copy, and what it leaves to be done.
LEMMA FullStep ==
  ASSUME NEW row \in Row, NEW s, Shaped(row, s), s # <<>>, Head(s).do = "full"
  PROVE  LET new == With(row, Head(s).change)
         IN  /\ Shaped(new, Tail(s))
             /\ \/ Matches(new)
                \/ AtProfile(Tail(s))
                \/ Head(s) = NoChange
<1> DEFINE new == With(row, Head(s).change)
<1>1. DOMAIN row = Columns
  BY DEF Row, Columns
<1>2. s \notin Seq(Rest)
  BY HeadTailProperties DEF Rest
<1>3. ASSUME NEW rest \in Seq(Rest), NEW p \in Profile, s = <<ProfileChange(row.type, p)>> \o rest
      PROVE  Shaped(new, Tail(s)) /\ Matches(new)
  <2>1. Head(s) = ProfileChange(row.type, p) /\ Tail(s) = rest
    BY <1>3, Cons
  <2>2. Head(s).change = [profile |-> p, ifaces |-> <<row.type, p>>]
    BY <2>1, FullHead
  <2>3. new.type = row.type /\ new.profile = p /\ new.ifaces = <<row.type, p>>
    BY <1>1, <2>2 DEF With, Columns
  <2> QED BY <2>1, <2>3 DEF Shaped, Matches
<1>4. ASSUME NEW rest \in Seq(Rest), NEW t \in Type, s = <<TypeChange(t, row.profile)>> \o rest
      PROVE  Shaped(new, Tail(s)) /\ Matches(new)
  <2>1. Head(s) = TypeChange(t, row.profile) /\ Tail(s) = rest
    BY <1>4, Cons
  <2>2. Head(s).change = [type |-> t, ifaces |-> <<t, row.profile>>]
    BY <2>1, FullHead
  <2>3. new.type = t /\ new.profile = row.profile /\ new.ifaces = <<t, row.profile>>
    BY <1>1, <2>2 DEF With, Columns
  <2> QED BY <2>1, <2>3 DEF Shaped, Matches
<1>5. ASSUME NEW rest \in Seq(Rest), NEW t \in Type, NEW p \in Profile,
             s = <<TypeChange(t, p)>> \o (<<ProfileChange(t, p)>> \o rest)
      PROVE  Shaped(new, Tail(s)) /\ AtProfile(Tail(s))
  <2>1. Head(s) = TypeChange(t, p) /\ Tail(s) = <<ProfileChange(t, p)>> \o rest
    BY <1>5, Cons2
  <2>2. Head(s).change = [type |-> t, ifaces |-> <<t, p>>]
    BY <2>1, FullHead
  <2>3. new.type = t
    BY <1>1, <2>2 DEF With, Columns
  <2>4. Tail(s) # <<>> /\ Head(Tail(s)) = ProfileChange(t, p)
    BY <2>1, Cons
  <2>5. AtProfile(Tail(s))
    <3>1. Head(Tail(s)).do = "full"
      BY <2>4, FullHead
    <3>2. Head(Tail(s)).change = [profile |-> p, ifaces |-> <<t, p>>]
      BY <2>4, FullHead
    <3>3. "profile" \in DOMAIN Head(Tail(s)).change
      <4> DEFINE change == [profile |-> p, ifaces |-> <<t, p>>]
      <4>1. "profile" \in DOMAIN change
        OBVIOUS
      <4>2. Head(Tail(s)).change = change
        BY <3>2
      <4> HIDE DEF change
      <4> QED BY <4>1, <4>2
    <3> QED BY <2>4, <3>1, <3>3 DEF AtProfile
  <2>6. Shaped(new, Tail(s))
    <3> HIDE DEF new
    <3> QED BY <2>1, <2>3 DEF Shaped
  <2> QED BY <2>5, <2>6
<1>6. ASSUME NEW rest \in Seq(Rest), s = <<NoChange>> \o rest
      PROVE  Shaped(new, Tail(s)) /\ Head(s) = NoChange
  <2>1. Head(s) = NoChange /\ Tail(s) = rest
    BY <1>6, Cons
  <2>2. Shaped(new, Tail(s))
    <3> HIDE DEF new
    <3> QED BY <2>1 DEF Shaped
  <2> QED BY <2>1, <2>2
<1>7. ASSUME NEW rest \in Seq(Rest), NEW p \in Profile,
             s = <<NoChange>> \o (<<ProfileChange(row.type, p)>> \o rest)
      PROVE  Shaped(new, Tail(s)) /\ Head(s) = NoChange
  <2>1. Head(s) = NoChange /\ Tail(s) = <<ProfileChange(row.type, p)>> \o rest
    BY <1>7, Cons2
  <2>2. Head(s).change = [name |-> "any"]
    BY <2>1, FullHead
  <2>3. new.type = row.type
    BY <1>1, <2>2 DEF With, Columns
  <2>4. Shaped(new, Tail(s))
    <3> HIDE DEF new
    <3> QED BY <2>1, <2>3 DEF Shaped
  <2> QED BY <2>1, <2>4
<1> HIDE DEF new
<1>8. Shaped(new, Tail(s)) /\ (Matches(new) \/ AtProfile(Tail(s)) \/ Head(s) = NoChange)
  BY <1>2, <1>3, <1>4, <1>5, <1>6, <1>7 DEF Shaped
<1> QED BY <1>8 DEF new

-----------------------------------------------------------------------------
(* What commands begin with.                                               *)

\* What a factory or an export does is none of the saves that make interfaces,
LEMMA PlainIsRest == ASSUME NEW s \in Seq(PlainJob) PROVE s \in Seq(Rest)
<1>1. PlainJob \subseteq Rest
  BY DEF PlainJob, Rest, Job
<1> QED BY <1>1

\* and neither is a single other save followed by the export.
LEMMA OneThenRest ==
  ASSUME NEW job \in Rest PROVE <<job>> \o Export \in Seq(Rest)
<1>1. <<job>> \in Seq(Rest) /\ Export \in Seq(Rest)
  BY ExportJobs, PlainIsRest
<1> QED BY <1>1, Appended

\* Deleting, reachability and NetFlow leave the interfaces alone.
LEMMA FewColumns ==
  /\ RemoveJobs \in Seq(Rest)
  /\ \A up \in BOOLEAN : ReachJobs(up) \in Seq(Rest)
  /\ \A on \in BOOLEAN : NetflowJobs(on) \in Seq(Rest)
<1>1. [do |-> "delete"] \in Rest
  BY DEF Rest, Job, EditJob
<1>2. \A change \in FieldChange : Fields(change) \in Rest
  BY DEF Fields, Rest, Job, EditJob
<1>3. \A b \in BOOLEAN : [reach |-> b] \in FieldChange /\ [netflow |-> b] \in FieldChange
  BY DEF FieldChange
<1>4. RemoveJobs \in Seq(Rest)
  BY <1>1, OneThenRest DEF RemoveJobs
<1>5. \A up \in BOOLEAN : ReachJobs(up) \in Seq(Rest)
  BY <1>2, <1>3, OneThenRest DEF ReachJobs
<1>6. \A on \in BOOLEAN : NetflowJobs(on) \in Seq(Rest)
  BY <1>2, <1>3, OneThenRest DEF NetflowJobs
<1> QED BY <1>4, <1>5, <1>6

\* A change of the traffic profile makes the interfaces of the row's type and the new profile.
LEMMA TrafficShaped ==
  ASSUME NEW row \in Row, NEW p \in Profile
  PROVE  Shaped(row, TrafficJobs(row.type, p))
<1>1. TrafficJobs(row.type, p) = <<ProfileChange(row.type, p)>> \o Export
  BY DEF TrafficJobs, ProfileChange
<1>2. Export \in Seq(Rest)
  BY ExportJobs, PlainIsRest
<1> QED BY <1>1, <1>2 DEF Shaped

\* An update makes them of the type and profile that the row has after it.
LEMMA UpdateShaped ==
  ASSUME NEW row \in Row, NEW u \in Updates
  PROVE  Shaped(row, UpdateJobs(row, u))
<1> DEFINE type == IF "type" \in DOMAIN u THEN u.type ELSE row.type
           profile == IF "traffic" \in DOMAIN u THEN u.traffic ELSE row.profile
           change == IF "type" \in DOMAIN u THEN [type |-> type, ifaces |-> <<type, profile>>]
                     ELSE [name |-> "any"]
           traffic == IF "traffic" \in DOMAIN u THEN TrafficJobs(type, profile) ELSE <<>>
           reach == IF "reach" \in DOMAIN u THEN ReachJobs(u.reach) ELSE <<>>
           more == traffic \o reach
           after == IF more = <<>> THEN Export ELSE more
           jobs == UpdateJobs(row, u)
<1>1. type \in Type /\ profile \in Profile
  BY UpdateAssumption DEF Row
<1>2. reach \in Seq(Rest) /\ Export \in Seq(Rest)
  <2>1. ASSUME "reach" \in DOMAIN u PROVE u.reach \in BOOLEAN
    BY <2>1, UpdateAssumption
  <2>2. <<>> \in Seq(Rest)
    OBVIOUS
  <2> QED BY <2>1, <2>2, FewColumns, ExportJobs, PlainIsRest
<1>3. jobs = <<Full(change)>> \o after
  BY DEF UpdateJobs
<1>4. Full(change) = IF "type" \in DOMAIN u THEN TypeChange(type, profile) ELSE NoChange
  BY DEF TypeChange, NoChange
<1>5. CASE "traffic" \in DOMAIN u
  <2>1. more = (<<ProfileChange(type, profile)>> \o Export) \o reach
    BY <1>5 DEF TrafficJobs, ProfileChange
  <2> DEFINE change2 == ProfileChange(type, profile)
             rest == Export \o reach
  <2>2. rest \in Seq(Rest)
    <3> HIDE DEF reach
    <3> QED BY <1>2, Appended
  <2>3. more = <<change2>> \o rest
    <3> HIDE DEF reach, change2, more
    <3>1. /\ <<change2>> \in Seq(Rest \cup {change2})
          /\ Export \in Seq(Rest \cup {change2}) /\ reach \in Seq(Rest \cup {change2})
      BY <1>2
    <3> QED BY <2>1, <3>1, ConcatAssociative DEF change2
  <2>4. after = <<change2>> \o rest
    <3> HIDE DEF rest, change2, more
    <3> QED BY <2>2, <2>3, Cons
  <2> HIDE DEF rest, after
  <2>5. CASE "type" \in DOMAIN u
    <3>1. jobs = <<TypeChange(type, profile)>> \o (<<ProfileChange(type, profile)>> \o rest)
      BY <1>3, <1>4, <2>4, <2>5
    <3> HIDE DEF type, profile, jobs
    <3>2. Shaped(row, jobs)
      BY <1>1, <2>2, <3>1 DEF Shaped
    <3> QED BY <3>2 DEF jobs
  <2>6. CASE "type" \notin DOMAIN u
    <3>1. jobs = <<NoChange>> \o (<<ProfileChange(row.type, profile)>> \o rest)
      BY <1>3, <1>4, <2>4, <2>6
    <3> HIDE DEF type, profile, jobs
    <3>2. Shaped(row, jobs)
      BY <1>1, <2>2, <3>1 DEF Shaped
    <3> QED BY <3>2 DEF jobs
  <2> QED BY <2>5, <2>6
<1>6. CASE "traffic" \notin DOMAIN u
  <2>1. more = reach /\ profile = row.profile
    <3>1. traffic = <<>> /\ profile = row.profile
      BY <1>6
    <3> HIDE DEF reach, traffic, profile
    <3> QED BY <1>2, <3>1, ConcatEmptySeq
  <2>2. after \in Seq(Rest)
    <3> HIDE DEF reach, more
    <3> QED BY <1>2, <2>1
  <2> HIDE DEF after
  <2>3. CASE "type" \in DOMAIN u
    <3>1. jobs = <<TypeChange(type, row.profile)>> \o after
      BY <1>3, <1>4, <2>1, <2>3
    <3> HIDE DEF type, profile, jobs
    <3>2. Shaped(row, jobs)
      BY <1>1, <2>2, <3>1 DEF Shaped
    <3> QED BY <3>2 DEF jobs
  <2>4. CASE "type" \notin DOMAIN u
    <3>1. jobs = <<NoChange>> \o after
      BY <1>3, <1>4, <2>4
    <3> HIDE DEF type, profile, jobs
    <3>2. Shaped(row, jobs)
      BY <2>2, <3>1 DEF Shaped
    <3> QED BY <3>2 DEF jobs
  <2> QED BY <2>3, <2>4
<1> QED BY <1>5, <1>6

-----------------------------------------------------------------------------
(* The invariant.                                                          *)

Clean == slips \cap {"overwritten", "revived", "failed"} = {}

\* A command is about to complete an update of d.
Awaited(d) == \E c \in Command : local[c].pk = d /\ AtProfile(todo[c])

IfacesInv ==
  /\ \A c \in Command : Shaped(local[c].row, todo[c])
  /\ Clean => \A d \in Live : Matches(rows[d]) \/ Awaited(d)

\* A command whose list fits the row it has read keeps the invariant when it begins,
LEMMA BeginWith ==
  ASSUME IInv, IfacesInv, NEW c \in Command, NEW jobs, NEW pk, NEW request,
         Begin(c, jobs, pk, request), Shaped(IF pk = 0 THEN Gone ELSE rows[pk], jobs)
  PROVE  IfacesInv'
<1> DEFINE row == IF pk = 0 THEN Gone ELSE rows[pk]
           l == [Idle EXCEPT !.pk = pk, !.row = row, !.request = request, !.fresh = TRUE]
<1>1. /\ todo[c] = <<>> /\ todo' = [todo EXCEPT ![c] = jobs]
      /\ local' = [local EXCEPT ![c] = l] /\ UNCHANGED <<rows, slips>>
  BY DEF Begin
<1>2. l.row = row
  BY DEF Idle
<1>3. /\ todo'[c] = jobs /\ local'[c].row = row
      /\ \A b \in Command \ {c} : todo'[b] = todo[b] /\ local'[b] = local[b]
  <2> HIDE DEF l, row
  <2> QED BY <1>1, <1>2 DEF IInv, Typed
<1>4. \A b \in Command : Shaped(local[b].row, todo[b])'
  <2> HIDE DEF row
  <2>1. Shaped(row, jobs)
    BY DEF row
  <2> QED BY <1>3, <2>1 DEF IfacesInv
<1>5. ASSUME NEW d, Awaited(d) PROVE Awaited(d)'
  <2>1. PICK b \in Command : local[b].pk = d /\ AtProfile(todo[b])
    BY <1>5 DEF Awaited
  <2>2. b # c
    BY <1>1, <2>1 DEF AtProfile
  <2>3. local'[b].pk = d /\ AtProfile(todo'[b])
    BY <1>3, <2>1, <2>2
  <2> QED BY <2>3 DEF Awaited
<1> QED BY <1>1, <1>4, <1>5 DEF IfacesInv, Clean, Live

\* and every command has such a list.
LEMMA BeginIfaces ==
  ASSUME IInv, IfacesInv, NEW c \in Command,
         Start(c) \/ Add(c) \/ Edit(c) \/ Reset(c) \/ ExportOnly(c)
  PROVE  IfacesInv'
<1>1. ASSUME NEW jobs \in Seq(PlainJob), NEW request, Begin(c, jobs, 0, request)
      PROVE  IfacesInv'
  <2>1. Shaped(Gone, jobs)
    BY PlainIsRest DEF Shaped
  <2> QED BY <1>1, <2>1, BeginWith
<1>2. CASE Start(c)
  <2>1. PICK r \in Requests, replace \in BOOLEAN :
          Valid(r) /\ Begin(c, StartJobs(r, Live # {}), 0, r)
    BY <1>2 DEF Start
  <2>2. StartJobs(r, Live # {}) \in Seq(PlainJob)
    BY <2>1, StartJobsPlain
  <2> QED BY <1>1, <2>1, <2>2
<1>3. CASE Add(c)
  <2>1. PICK type \in Type, profile \in Profile, up \in BOOLEAN :
          Begin(c, AddJobs(type, [profile |-> profile, reach |-> up]), 0, Gone)
    BY <1>3 DEF Add
  <2>2. [profile |-> profile, reach |-> up] \in As
    BY DEF As
  <2> QED BY <1>1, <2>1, <2>2, AddJobsPlain
<1>4. CASE Edit(c)
  <2>1. PICK d \in Live :
          \/ Begin(c, RemoveJobs, d, Gone)
          \/ \E profile \in Profile : Begin(c, TrafficJobs(rows[d].type, profile), d, Gone)
          \/ \E up \in BOOLEAN : Begin(c, ReachJobs(up), d, Gone)
          \/ \E on \in BOOLEAN : Begin(c, NetflowJobs(on), d, Gone)
          \/ \E u \in Updates : Begin(c, UpdateJobs(rows[d], u), d, Gone)
    BY <1>4 DEF Edit
  <2>2. rows[d] \in Row /\ d # 0
    BY BoundAssumption DEF IInv, Typed, Live, Key
  <2>3. ASSUME NEW jobs, Begin(c, jobs, d, Gone), Shaped(rows[d], jobs) PROVE IfacesInv'
    BY <2>2, <2>3, BeginWith
  <2>4. ASSUME NEW jobs \in Seq(Rest), Begin(c, jobs, d, Gone) PROVE IfacesInv'
    <3>1. Shaped(rows[d], jobs)
      BY DEF Shaped
    <3> QED BY <2>3, <2>4, <3>1
  <2> QED BY <2>1, <2>2, <2>3, <2>4, FewColumns, TrafficShaped, UpdateShaped
<1>5. CASE Reset(c)
  <2>1. <<[do |-> "clear"]>> \in Seq(PlainJob)
    BY PlainJobs
  <2>2. ResetJobs \in Seq(PlainJob)
    BY <2>1, ExportJobs, Appended DEF ResetJobs
  <2> QED BY <1>1, <1>5, <2>2 DEF Reset
<1>6. CASE ExportOnly(c)
  BY <1>1, <1>6, ExportJobs DEF ExportOnly
<1> QED BY <1>2, <1>3, <1>4, <1>5, <1>6

\* An access leaves the other commands what they hold and what they have to do.
LEMMA ProceedIfaces ==
  ASSUME IInv, IfacesInv, NEW c \in Command, todo[c] # <<>>, NEW l, NEW wrote \in BOOLEAN,
         Proceed(c, l, wrote), Shaped(l.row, Tail(todo[c]))
  PROVE  /\ \A b \in Command : Shaped(local[b].row, todo[b])'
         /\ \A b \in Command \ {c} : todo'[b] = todo[b] /\ local'[b].pk = local[b].pk
         /\ todo'[c] = Tail(todo[c])
         /\ Tail(todo[c]) # <<>> => local'[c] = l
<1>1. todo'[c] = Tail(todo[c]) /\ \A b \in Command \ {c} : todo'[b] = todo[b]
  BY DEF Proceed, IInv, Typed
<1>2. ASSUME NEW b \in Command \ {c}
      PROVE  local'[b].pk = local[b].pk /\ local'[b].row = local[b].row
  <2>1. local'[b] = IF wrote THEN [local[b] EXCEPT !.fresh = FALSE] ELSE local[b]
    BY DEF Proceed
  <2> QED BY <2>1, OwnCopy DEF Local
<1>3. local'[c] = IF Len(todo[c]) = 1 THEN Idle ELSE l
  BY DEF Proceed
<1>4. Tail(todo[c]) = <<>> <=> Len(todo[c]) = 1
  <2> DEFINE s == todo[c]
  <2>1. s \in Seq(Job) /\ s # <<>>
    BY DEF IInv, Typed
  <2> HIDE DEF s
  <2>2. Len(Tail(s)) = Len(s) - 1 /\ Len(s) \in Nat /\ Tail(s) \in Seq(Job)
    <3>1. Len(s) \in Nat /\ Tail(s) \in Seq(Job)
      BY <2>1, HeadTailProperties, LenProperties
    <3>2. Len(Tail(s)) = Len(s) - 1
      BY <2>1, HeadTailProperties
    <3> QED BY <3>1, <3>2
  <2>3. Tail(s) = <<>> <=> Len(Tail(s)) = 0
    BY <2>2, EmptySeq
  <2> DEFINE n == Len(s)
             m == Len(Tail(s))
  <2>4. m = 0 <=> n = 1
    <3>1. m = n - 1 /\ n \in Nat
      BY <2>2
    <3> HIDE DEF n, m
    <3> QED BY <3>1
  <2>5. Tail(s) = <<>> <=> Len(s) = 1
    BY <2>3, <2>4
  <2> QED BY <2>5 DEF s
<1>5. Shaped(local'[c].row, todo'[c])
  <2>1. CASE Tail(todo[c]) = <<>>
    <3>1. <<>> \in Seq(Rest)
      OBVIOUS
    <3>2. todo'[c] \in Seq(Rest)
      BY <1>1, <2>1, <3>1
    <3> QED BY <3>2 DEF Shaped
  <2>2. CASE Tail(todo[c]) # <<>>
    BY <1>1, <1>3, <1>4, <2>2
  <2> QED BY <2>1, <2>2
<1>6. ASSUME NEW b \in Command \ {c} PROVE Shaped(local'[b].row, todo'[b])
  BY <1>1, <1>2 DEF IfacesInv
<1> QED BY <1>1, <1>2, <1>3, <1>4, <1>5, <1>6

\* Accesses other than a full save keep every row's three columns, or remove it, or
\* insert one that matches.
LEMMA OtherIfaces ==
  ASSUME IInv, IfacesInv, NEW c \in Command, todo[c] # <<>>, Head(todo[c]).do # "full",
         NEW l, NEW wrote \in BOOLEAN, Proceed(c, l, wrote), slips \subseteq slips',
         \A d \in Live' : Matches(rows'[d])
                         \/ (d \in Live /\ (Matches(rows[d]) => Matches(rows'[d])))
  PROVE  IfacesInv'
<1>1. Tail(todo[c]) \in Seq(Rest)
  BY NoFull DEF IfacesInv
<1>2. Shaped(l.row, Tail(todo[c]))
  BY <1>1 DEF Shaped
<1>3. /\ \A b \in Command : Shaped(local[b].row, todo[b])'
      /\ \A b \in Command \ {c} : todo'[b] = todo[b] /\ local'[b].pk = local[b].pk
  BY <1>2, ProceedIfaces
<1>4. ASSUME NEW d, Awaited(d) PROVE Awaited(d)'
  <2>1. PICK b \in Command : local[b].pk = d /\ AtProfile(todo[b])
    BY <1>4 DEF Awaited
  <2>2. b # c
    BY <2>1 DEF AtProfile
  <2>3. local'[b].pk = d /\ AtProfile(todo'[b])
    BY <1>3, <2>1, <2>2
  <2> QED BY <2>3 DEF Awaited
<1>5. Clean' => Clean
  BY DEF Clean
<1> QED BY <1>3, <1>4, <1>5 DEF IfacesInv

\* A full save leaves interfaces of the type and profile it writes.
LEMMA SaveIfaces ==
  ASSUME IInv, IfacesInv, NEW c \in Command, Save(c)
  PROVE  IfacesInv'
<1> DEFINE d == local[c].pk
           s == todo[c]
           change == Head(s).change
           new == Changed(c)
           l == [local[c] EXCEPT !.row = new]
<1>1. /\ s # <<>> /\ Head(s).do = "full" /\ d \in Key /\ local[c].row \in Row
      /\ change \in FullChange
  BY HeadShape DEF Save, Doing
<1>2. /\ rows' = [rows EXCEPT ![d] = new] /\ Proceed(c, l, TRUE)
      /\ slips \subseteq slips'
      /\ Clean' => rows[d] # Gone /\ new = With(rows[d], change)
  BY DEF Save, Write, Clean
<1>3. /\ Shaped(new, Tail(s))
      /\ Matches(new) \/ AtProfile(Tail(s)) \/ Head(s) = NoChange
  <2>1. new = With(local[c].row, change) /\ Shaped(local[c].row, s)
    BY DEF Changed, IfacesInv
  <2> HIDE DEF new, s
  <2> QED BY <1>1, <2>1, FullStep
<1>4. l.row = new /\ l.pk = d
  <2> HIDE DEF new
  <2> QED BY OwnCopy DEF Local
<1>5. /\ \A b \in Command : Shaped(local[b].row, todo[b])'
      /\ \A b \in Command \ {c} : todo'[b] = todo[b] /\ local'[b].pk = local[b].pk
      /\ todo'[c] = Tail(s)
      /\ Tail(s) # <<>> => local'[c] = l
  <2> HIDE DEF new, l
  <2> QED BY <1>1, <1>2, <1>3, <1>4, ProceedIfaces
<1>6. rows'[d] = new /\ \A e \in Key \ {d} : rows'[e] = rows[e]
  <2> HIDE DEF new, d
  <2> QED BY <1>1, <1>2 DEF IInv, Typed
<1>7. ASSUME NEW e, NEW b \in Command \ {c}, local[b].pk = e, AtProfile(todo[b])
      PROVE  Awaited(e)'
  BY <1>5, <1>7 DEF Awaited
<1>8. ASSUME Clean', NEW e \in Live', e # d
      PROVE  Matches(rows'[e]) \/ Awaited(e)'
  <2>1. e \in Live /\ rows'[e] = rows[e] /\ Clean
    BY <1>2, <1>6, <1>8 DEF Live, Clean
  <2>2. CASE Awaited(e)
    <3>1. PICK b \in Command : local[b].pk = e /\ AtProfile(todo[b])
      BY <2>2 DEF Awaited
    <3> QED BY <1>7, <1>8, <3>1
  <2> QED BY <2>1, <2>2 DEF IfacesInv
<1>9. ASSUME Clean', NEW e \in Key, e = d
      PROVE  Matches(new) \/ Awaited(e)'
  <2>1. CASE AtProfile(Tail(s))
    <3>1. Tail(s) # <<>>
      BY <2>1 DEF AtProfile
    <3> HIDE DEF s, l, d
    <3>2. local'[c].pk = e /\ AtProfile(todo'[c])
      BY <1>4, <1>5, <1>9, <2>1, <3>1
    <3> QED BY <3>2 DEF Awaited
  <2>2. CASE Head(s) = NoChange
    <3>1. change = [name |-> "any"]
      BY <2>2, FullHead
    <3>2. rows[d] \in Row /\ d \in Live
      BY <1>1, <1>2, <1>9 DEF IInv, Typed, Live
    <3>3. new.type = rows[d].type /\ new.profile = rows[d].profile /\ new.ifaces = rows[d].ifaces
      <4>1. DOMAIN rows[d] = Columns
        BY <3>2 DEF Row, Columns
      <4>2. new = With(rows[d], [name |-> "any"])
        BY <1>2, <1>9, <3>1
      <4> HIDE DEF new, d
      <4> QED BY <4>1, <4>2 DEF With, Columns
    <3>4. CASE Awaited(e)
      <4>1. PICK b \in Command : local[b].pk = e /\ AtProfile(todo[b])
        BY <3>4 DEF Awaited
      <4>2. b # c
        <5>1. "profile" \notin DOMAIN [name |-> "any"]
          OBVIOUS
        <5> HIDE DEF s
        <5>2. ~AtProfile(s)
          BY <3>1, <5>1 DEF AtProfile
        <5> QED BY <4>1, <5>2 DEF s
      <4> QED BY <1>7, <4>1, <4>2
    <3>5. CASE Matches(rows[d])
      <4> HIDE DEF new, d
      <4> QED BY <3>3, <3>5 DEF Matches
    <3>6. Clean
      BY <1>2, <1>9 DEF Clean
    <3>7. Matches(rows[d]) \/ Awaited(e)
      <4> HIDE DEF d
      <4> QED BY <1>9, <3>2, <3>6 DEF IfacesInv
    <3> QED BY <3>4, <3>5, <3>7
  <2> QED BY <1>3, <2>1, <2>2
<1>10. ASSUME Clean', NEW e \in Live' PROVE Matches(rows'[e]) \/ Awaited(e)'
  <2>1. e \in Key
    BY DEF Live
  <2> HIDE DEF new, d
  <2> QED BY <1>6, <1>8, <1>9, <1>10, <2>1
<1> QED BY <1>5, <1>10 DEF IfacesInv

\* reach and netflow are not what interfaces are built for.
LEMMA SaveFieldsIfaces ==
  ASSUME IInv, IfacesInv, NEW c \in Command, SaveFields(c)
  PROVE  IfacesInv'
<1> DEFINE d == local[c].pk
           change == Head(todo[c]).change
           new == With(rows[d], change)
           l == [local[c] EXCEPT !.row = Changed(c)]
<1>1. todo[c] # <<>> /\ Head(todo[c]).do = "fields" /\ d \in Key /\ change \in FieldChange
  BY HeadShape DEF SaveFields, Doing
<1>2. /\ rows[d] # Gone /\ rows' = [rows EXCEPT ![d] = new] /\ Proceed(c, l, TRUE)
      /\ slips \subseteq slips'
  BY DEF SaveFields, Write
<1>3. rows[d] \in Row /\ d \in Live
  BY <1>1, <1>2 DEF IInv, Typed, Live
<1>4. new.type = rows[d].type /\ new.profile = rows[d].profile /\ new.ifaces = rows[d].ifaces
  <2>1. DOMAIN rows[d] = Columns
    BY <1>3 DEF Row, Columns
  <2>2. DOMAIN change = {"reach"} \/ DOMAIN change = {"netflow"}
    BY <1>1 DEF FieldChange
  <2> HIDE DEF d, change
  <2> QED BY <2>1, <2>2 DEF With, Columns
<1>5. Matches(rows[d]) => Matches(new)
  <2> HIDE DEF d, new
  <2> QED BY <1>4 DEF Matches
<1>6. rows'[d] = new /\ \A e \in Key \ {d} : rows'[e] = rows[e]
  <2> HIDE DEF new, d
  <2> QED BY <1>1, <1>2 DEF IInv, Typed
<1>7. \A e \in Live' : e \in Live /\ (Matches(rows[e]) => Matches(rows'[e]))
  <2> HIDE DEF new, d
  <2> QED BY <1>3, <1>5, <1>6 DEF Live
<1> HIDE DEF l
<1> QED BY <1>1, <1>2, <1>7, OtherIfaces

\* An insert makes the interfaces of the row it adds.
LEMMA InsertIfaces ==
  ASSUME IInv, IfacesInv, NEW c \in Command, Insert(c)
  PROVE  IfacesInv'
<1> DEFINE new == NewRow(c)
           l == [local[c] EXCEPT !.number = @ + 1, !.used = @ \cup {new.ip}]
<1>1. todo[c] # <<>> /\ Head(todo[c]).do = "insert" /\ next \in Key
  BY DEF Insert, Doing
<1>2. rows' = [rows EXCEPT ![next] = new] /\ Proceed(c, l, TRUE) /\ slips \subseteq slips'
  BY DEF Insert, Write
<1>3. Matches(new)
  BY DEF NewRow, Payload, Matches
<1>4. rows'[next] = new /\ \A e \in Key \ {next} : rows'[e] = rows[e]
  <2> HIDE DEF new
  <2> QED BY <1>1, <1>2 DEF IInv, Typed
<1>5. \A e \in Live' : Matches(rows'[e])
                       \/ (e \in Live /\ (Matches(rows[e]) => Matches(rows'[e])))
  <2> HIDE DEF new
  <2> QED BY <1>3, <1>4 DEF Live
<1> HIDE DEF l
<1> QED BY <1>1, <1>2, <1>5, OtherIfaces

\* Reads, files and removals.
LEMMA FewerIfaces ==
  ASSUME IInv, IfacesInv, NEW c \in Command,
         \/ Delete(c) \/ Clear(c) \/ ReadIds(c) \/ ReadIps(c)
         \/ Render(c) \/ WriteFile(c) \/ Exit(c)
  PROVE  IfacesInv'
<1>1. todo[c] # <<>> /\ Head(todo[c]).do # "full"
  BY DEF Delete, Clear, ReadIds, ReadIps, Render, WriteFile, Exit, Doing
<1>2. slips \subseteq slips'
  BY DEF Delete, Clear, ReadIds, ReadIps, Render, WriteFile, Exit, Write
<1>3. PICK l : \E wrote \in BOOLEAN : Proceed(c, l, wrote)
  <2>1. CASE Delete(c) \/ Clear(c)
    <3>1. Proceed(c, local[c], TRUE)
      BY <2>1 DEF Delete, Clear, Write
    <3> QED BY <3>1
  <2>2. CASE ReadIds(c)
    <3>1. PICK number : Proceed(c, [local[c] EXCEPT !.number = number], FALSE)
      BY <2>2 DEF ReadIds
    <3> QED BY <3>1
  <2>3. CASE ReadIps(c)
    <3>1. PICK used : Proceed(c, [local[c] EXCEPT !.used = used], FALSE)
      BY <2>3 DEF ReadIps
    <3> QED BY <3>1
  <2>4. CASE Render(c) \/ WriteFile(c) \/ Exit(c)
    <3>1. Proceed(c, local[c], FALSE)
      BY <2>4 DEF Render, WriteFile, Exit
    <3> QED BY <3>1
  <2> QED BY <2>1, <2>2, <2>3, <2>4
<1>4. \A e \in Key : rows'[e] = rows[e] \/ rows'[e] = Gone
  BY DEF Delete, Clear, ReadIds, ReadIps, Render, WriteFile, Exit, Write, IInv, Typed
<1>5. \A e \in Live' : e \in Live /\ (Matches(rows[e]) => Matches(rows'[e]))
  BY <1>4 DEF Live
<1> QED BY <1>1, <1>2, <1>3, <1>5, OtherIfaces

\* A failure writes nothing.
LEMMA FailIfaces ==
  ASSUME IInv, IfacesInv, NEW c \in Command, Raise(c) \/ Abort(c)
  PROVE  IfacesInv'
<1>1. PICK s : /\ s \in Seq(Rest) /\ todo' = [todo EXCEPT ![c] = s]
               /\ \A b \in Command \ {c} : local'[b] = local[b]
  <2>1. CASE Raise(c)
    <3>1. <<[do |-> "raised"]>> \in Seq(Rest)
      <4>1. \A job \in PlainJob : <<job>> \in Seq(PlainJob)
        OBVIOUS
      <4> QED BY <4>1, PlainJobs, PlainIsRest
    <3> QED BY <2>1, <3>1 DEF Raise
  <2>2. CASE Abort(c)
    <3>1. <<>> \in Seq(Rest)
      OBVIOUS
    <3> QED BY <2>2, <3>1 DEF Abort, IInv, Typed
  <2> QED BY <2>1, <2>2
<1>2. todo'[c] \in Seq(Rest) /\ \A b \in Command \ {c} : todo'[b] = todo[b]
  BY <1>1 DEF IInv, Typed
<1>3. \A b \in Command : Shaped(local[b].row, todo[b])'
  <2>1. Shaped(local'[c].row, todo'[c])
    BY <1>2 DEF Shaped
  <2> QED BY <1>1, <1>2, <2>1 DEF IfacesInv
<1>4. ~Clean'
  BY DEF Raise, Abort, Clean
<1> QED BY <1>3, <1>4 DEF IfacesInv

\* The interfaces of a device are those of its type and traffic profile: an `update`
\* of both is completed by the command that began it, whatever the others do, unless a
\* command failed or saved a stale copy.
THEOREM InterfacesBelong == Spec => []InterfacesMatch
<1>1. Init => IfacesInv
  <2> SUFFICES ASSUME Init PROVE IfacesInv
    OBVIOUS
  <2>1. \A c \in Command : Shaped(local[c].row, todo[c])
    <3>1. \A c \in Command : todo[c] \in Seq(Rest)
      BY DEF Init
    <3> QED BY <3>1 DEF Shaped
  <2>2. \A d \in Live : Matches(rows[d])
    BY DEF Init, Live, Payload, Matches
  <2> QED BY <2>1, <2>2 DEF IfacesInv
<1>2. IInv /\ IfacesInv /\ [Next]_vars => IfacesInv'
  <2> SUFFICES ASSUME IInv, IfacesInv, [Next]_vars PROVE IfacesInv'
    OBVIOUS
  <2>1. CASE Next
    <3>1. PICK c \in Command : \/ Start(c) \/ Add(c) \/ Edit(c) \/ Reset(c) \/ ExportOnly(c)
                               \/ Step(c) \/ Abort(c)
      BY <2>1 DEF Next
    <3>2. CASE Step(c)
      BY <3>2, SaveIfaces, SaveFieldsIfaces, InsertIfaces, FewerIfaces, FailIfaces DEF Step
    <3> QED BY <3>1, <3>2, BeginIfaces, FailIfaces
  <2>2. CASE UNCHANGED vars
    BY <2>2 DEF vars, IfacesInv, Clean, Awaited, Live
  <2> QED BY <2>1, <2>2
<1>3. IfacesInv => InterfacesMatch
  BY DEF IfacesInv, InterfacesMatch, Clean, Matches, Awaited, AtProfile, Doing
<1> QED BY <1>1, <1>2, <1>3, Inductive, PTL DEF Spec

=============================================================================
