--------------------------- MODULE LabFilesProofs ---------------------------
(***************************************************************************)
(* The data files for any number of devices, contents and commands: one    *)
(* undisturbed rebuild repairs them, and at rest they are those of the     *)
(* inventory.                                                              *)
(*                                                                         *)
(* The argument: a rebuild that is the only actor leaves behind it devices *)
(* whose files are as they should be (Progress).  And as long as the files *)
(* may be wrong, someone is left to see to it (Owed): a reload is asked    *)
(* for, a restart is to be tried again, a rebuild that nobody disturbs is  *)
(* under way, or a command is, which will ask for a reload.                *)
(***************************************************************************)
EXTENDS LabFiles, TLAPS

-----------------------------------------------------------------------------
(* Types, and where an actor can be.                                       *)

Real == [reach : {"up", "down"}, data : Data]

OnPath(a) ==
  /\ pc[a] = "next" => job[a] # "device"
  /\ pc[a] \in WritePc => obj[a] \in Real
  /\ pc[a] \in {"next"} \cup WritePc /\ job[a] # "device" => todo[a] \subseteq Present(snap[a])
  /\ pc[a] \in {"sweep", "hide"} => job[a] = "rebuild"
  /\ pc[a] \in {"delete", "request"} => job[a] # "rebuild"
  /\ pc[a] \in RemovePc => job[a] # "start"

Placed ==
  /\ TypeOK
  /\ \A a \in Actor : OnPath(a)
  /\ job[Daemon] = "rebuild"
  /\ Busy(Daemon) => owing

\* A row that is there has contents.
LEMMA PresentIsReal ==
  ASSUME NEW rows \in [Device -> Row], NEW d \in Present(rows)
  PROVE  d \in Device /\ rows[d] \in Real
BY DEF Present, Row, NoRow, Real

\* An actor's file operations leave the others where they are.
LEMMA FileStepAlone ==
  ASSUME TypeOK, NEW a \in Actor, FileStep(a), NEW b \in Actor, b # a
  PROVE  /\ pc'[b] = pc[b] /\ job'[b] = job[b] /\ dev'[b] = dev[b] /\ obj'[b] = obj[b]
         /\ buf'[b] = buf[b] /\ snap'[b] = snap[b] /\ todo'[b] = todo[b]
<1> USE DEF TypeOK, Goto
<1>1. CASE MakeDir(a)
  BY <1>1 DEF MakeDir, loop, local
<1>2. CASE WritePublic(a)
  BY <1>2 DEF WritePublic, Raise, Forget
<1>3. CASE ReadPublic(a)
  BY <1>3 DEF ReadPublic, Raise, Forget
<1>4. CASE CopyAlias(a)
  BY <1>4 DEF CopyAlias, loop
<1>5. CASE RemoveAlias(a)
  BY <1>5 DEF RemoveAlias, loop, local
<1>6. CASE RemoveFiles(a)
  BY <1>6 DEF RemoveFiles, loop, local
<1>7. CASE RemoveDir(a)
  BY <1>7 DEF RemoveDir, Raise, Forget
<1>8. CASE NextDevice(a)
  BY <1>8 DEF NextDevice
<1>9. CASE HideAlias(a)
  BY <1>9 DEF HideAlias, loop, local
<1>10. CASE ListDirs(a)
  BY <1>10 DEF ListDirs, local
<1>11. CASE Sweep(a)
  BY <1>11 DEF Sweep
<1>12. CASE Swept(a)
  BY <1>12 DEF Swept, Forget
<1> QED BY <1>1, <1>2, <1>3, <1>4, <1>5, <1>6, <1>7, <1>8, <1>9, <1>10, <1>11, <1>12
        DEF FileStep

\* What a writer that ends leaves in memory is typed.
LEMMA ForgetTyped ==
  ASSUME TypeOK, NEW a \in Actor, Forget(a)
  PROVE  /\ obj' \in [Actor -> Row] /\ buf' \in [Actor -> {"none"} \cup Data]
         /\ snap' \in [Actor -> [Device -> Row]] /\ todo' \in [Actor -> SUBSET Device]
<1>1. Empty \in [Device -> Row] /\ NoRow \in Row
  BY DEF Empty, Row
<1> QED BY <1>1 DEF TypeOK, Forget

\* So is what one that fails leaves.
LEMMA RaiseTyped ==
  ASSUME TypeOK, NEW a \in Actor, Raise(a)
  PROVE  /\ obj' \in [Actor -> Row] /\ buf' \in [Actor -> {"none"} \cup Data]
         /\ snap' \in [Actor -> [Device -> Row]] /\ todo' \in [Actor -> SUBSET Device]
         /\ pc' \in [Actor -> Pc] /\ slips' \subseteq Slip
<1>1. pc' \in [Actor -> Pc] /\ slips' \subseteq Slip
  BY DEF TypeOK, Raise, Goto, Pc, Slip
<1> QED BY <1>1, ForgetTyped DEF Raise

\* A step on the files keeps the types.
LEMMA FileStepTyped ==
  ASSUME Placed, NEW a \in Actor, FileStep(a)
  PROVE  TypeOK'
<1>a. obj[a] \in Row /\ (pc[a] \in WritePc => obj[a].data \in Data)
  BY DEF Placed, TypeOK, OnPath, Real
<1> USE DEF Placed, TypeOK, Goto, Pc, WritePc, RemovePc
<1>1. CASE MakeDir(a)
  BY <1>1 DEF MakeDir, loop, local
<1>2. CASE WritePublic(a)
  <2>1. CASE public[dev[a]] # "nodir"
    <3>1. obj[a].data \in Data
      BY <1>a, <1>2 DEF WritePublic
    <3> QED BY <1>2, <2>1, <3>1 DEF WritePublic
  <2>2. CASE public[dev[a]] = "nodir"
    BY <1>2, <2>2, RaiseTyped DEF WritePublic
  <2> QED BY <2>1, <2>2
<1>3. CASE ReadPublic(a)
  <2>1. CASE public[dev[a]] \in Data
    BY <1>3, <2>1 DEF ReadPublic, store
  <2>2. CASE public[dev[a]] \notin Data
    BY <1>3, <2>2, RaiseTyped DEF ReadPublic, store
  <2> QED BY <2>1, <2>2
<1>4. CASE CopyAlias(a)
  BY <1>4 DEF CopyAlias, loop
<1>5. CASE RemoveAlias(a)
  BY <1>5 DEF RemoveAlias, loop, local
<1>6. CASE RemoveFiles(a)
  BY <1>6 DEF RemoveFiles, loop, local, AfterRemove
<1>7. CASE RemoveDir(a)
  <2>1. CASE public[dev[a]] = "empty"
    BY <1>7, <2>1 DEF RemoveDir, AfterRemove
  <2>2. CASE public[dev[a]] # "empty"
    BY <1>7, <2>2, RaiseTyped DEF RemoveDir
  <2> QED BY <2>1, <2>2
<1>8. CASE NextDevice(a)
  BY <1>8 DEF NextDevice, store
<1>9. CASE HideAlias(a)
  BY <1>9 DEF HideAlias, loop, local
<1>10. CASE ListDirs(a)
  <2>1. todo' \in [Actor -> SUBSET Device] /\ pc' \in [Actor -> Pc]
    <3> DEFINE dirs == {d \in Device : public[d] # "nodir" /\ d \notin Present(snap[a])}
    <3>1. pc' \in [Actor -> Pc] /\ todo' \in {todo, [todo EXCEPT ![a] = dirs]}
      BY <1>10 DEF ListDirs
    <3>2. dirs \in SUBSET Device
      OBVIOUS
    <3> HIDE DEF dirs
    <3> QED BY <3>1, <3>2
  <2> QED BY <1>10, <2>1 DEF ListDirs, local, store
<1>11. CASE Sweep(a)
  BY <1>11 DEF Sweep, store
<1>12. CASE Swept(a)
  BY <1>12, ForgetTyped DEF Swept, store
<1> QED BY <1>1, <1>2, <1>3, <1>4, <1>5, <1>6, <1>7, <1>8, <1>9, <1>10, <1>11, <1>12
        DEF FileStep

\* A writer stays on the path of the job it does,
LEMMA FileStepPath ==
  ASSUME Placed, NEW a \in Actor, FileStep(a)
  PROVE  OnPath(a)'
<1> USE DEF Placed, TypeOK, Goto, OnPath, WritePc, RemovePc
<1>1. CASE MakeDir(a)
  BY <1>1 DEF MakeDir, loop, local
<1>2. CASE WritePublic(a)
  BY <1>2 DEF WritePublic, Raise, Forget
<1>3. CASE ReadPublic(a)
  BY <1>3 DEF ReadPublic, Raise, Forget
<1>4. CASE CopyAlias(a)
  BY <1>4 DEF CopyAlias, loop
<1>5. CASE RemoveAlias(a)
  BY <1>5 DEF RemoveAlias, loop, local
<1>6. CASE RemoveFiles(a)
  BY <1>6 DEF RemoveFiles, loop, local, AfterRemove
<1>7. CASE RemoveDir(a)
  BY <1>7 DEF RemoveDir, Raise, Forget, AfterRemove
<1>8. CASE NextDevice(a)
  <2>1. PICK d \in todo[a] : /\ obj' = [obj EXCEPT ![a] = snap[a][d]]
                             /\ todo' = [todo EXCEPT ![a] = @ \ {d}]
    BY <1>8 DEF NextDevice
  <2>2. snap[a][d] \in Real
    BY <1>8, PresentIsReal DEF NextDevice
  <2> QED BY <1>8, <2>1, <2>2 DEF NextDevice
<1>9. CASE HideAlias(a)
  BY <1>9 DEF HideAlias, loop, local
<1>10. CASE ListDirs(a)
  BY <1>10 DEF ListDirs, local
<1>11. CASE Sweep(a)
  BY <1>11 DEF Sweep
<1>12. CASE Swept(a)
  BY <1>12 DEF Swept, Forget
<1> QED BY <1>1, <1>2, <1>3, <1>4, <1>5, <1>6, <1>7, <1>8, <1>9, <1>10, <1>11, <1>12
        DEF FileStep

\* and disturbs no other.
LEMMA FileStepPlaced ==
  ASSUME Placed, NEW a \in Actor, FileStep(a)
  PROVE  Placed' /\ \A b \in Actor \ {a} : Busy(b)' <=> Busy(b)
<1>1. \A b \in Actor \ {a} : OnPath(b)' /\ (Busy(b)' <=> Busy(b))
  BY FileStepAlone DEF Placed, OnPath, Busy
<1>2. job' = job /\ (Busy(Daemon)' => owing')
  <2>1. job' = job
    BY DEF FileStep, MakeDir, WritePublic, ReadPublic, CopyAlias, RemoveAlias, RemoveFiles,
           RemoveDir, NextDevice, HideAlias, ListDirs, Sweep, Swept, loop
  <2>2. CASE Swept(a)
    <3>1. a = Daemon => pc'[Daemon] = "idle"
      BY <2>2 DEF Swept, Goto, Placed, TypeOK
    <3>2. a # Daemon => owing' = owing
      BY <2>2 DEF Swept
    <3>3. a # Daemon => (Busy(Daemon)' <=> Busy(Daemon))
      BY <1>1 DEF Actor
    <3> QED BY <2>1, <3>1, <3>2, <3>3 DEF Busy, Placed
  <2>3. CASE ~Swept(a)
    <3>1. owing' = owing
      BY <2>3 DEF FileStep, MakeDir, WritePublic, ReadPublic, CopyAlias, RemoveAlias,
                  RemoveFiles, RemoveDir, NextDevice, HideAlias, ListDirs, Sweep
    <3>2. a = Daemon => Busy(Daemon)
      BY DEF FileStep, MakeDir, WritePublic, ReadPublic, CopyAlias, RemoveAlias,
             RemoveFiles, RemoveDir, NextDevice, HideAlias, ListDirs, Sweep, Swept, Busy
    <3>3. a # Daemon => (Busy(Daemon)' <=> Busy(Daemon))
      BY <1>1 DEF Actor
    <3> QED BY <2>1, <3>1, <3>2, <3>3 DEF Placed
  <2> QED BY <2>2, <2>3
<1> QED BY <1>1, <1>2, FileStepTyped, FileStepPath DEF Placed

\* A rebuild begins at the start of its path.
LEMMA RebuildPlaced ==
  ASSUME Placed, Rebuild
  PROVE  Placed'
<1> USE DEF Placed, TypeOK, Goto, Rebuild, store, local
<1>1. Present(row) \in SUBSET Device /\ Daemon \in Actor
  BY DEF Present, Actor
<1>2. TypeOK'
  BY <1>1 DEF Pc, Slip
<1>3. OnPath(Daemon)'
  BY <1>1 DEF OnPath, WritePc, RemovePc
<1>4. ASSUME NEW b \in Actor, b # Daemon PROVE OnPath(b)'
  BY <1>4 DEF OnPath
<1> QED BY <1>2, <1>3, <1>4

\* A step of a command is of that command alone.
LEMMA CommandPlaced ==
  ASSUME Placed, NEW c \in Client, CommandStep(c)
  PROVE  /\ Placed' /\ pc'[Daemon] = pc[Daemon] /\ owing' = owing
         /\ \A b \in Client \ {c} : pc'[b] = pc[b] /\ job'[b] = job[b]
<1> USE DEF Placed, TypeOK, Goto
<1>1. c \in Actor /\ c # Daemon /\ Daemon \in Actor
  BY DaemonAssumption DEF Actor
<1>2. slips' \subseteq Slip
  <2>1. ASSUME NEW why, Begin(c, why) PROVE slips' \in {slips, slips \cup {"reset"}}
    BY <2>1 DEF Begin
  <2>2. CASE Change(c) \/ Remove(c) \/ StartLab(c) \/ Reset(c)
    <3>1. PICK why : Begin(c, why)
      BY <2>2 DEF Change, Remove, StartLab, Reset
    <3>2. slips' \in {slips, slips \cup {"reset"}}
      BY <2>1, <3>1
    <3> QED BY <3>2 DEF Slip
  <2>3. CASE Delete(c) \/ Request(c)
    BY <2>3 DEF Delete, Request
  <2> QED BY <2>2, <2>3 DEF CommandStep
<1>3. TypeOK' /\ OnPath(c)'
  <2> USE DEF Pc
  <2>1. CASE Change(c)
    <3>1. PICK d \in Device, r \in Row \ {NoRow} :
            /\ row' = [row EXCEPT ![d] = r]
            /\ dev' = [dev EXCEPT ![c] = d]
            /\ obj' = [obj EXCEPT ![c] = r]
      BY <2>1 DEF Change
    <3>2. r \in Real /\ r \in Row
      BY DEF Row, Real
    <3>3. TypeOK'
      BY <1>1, <1>2, <2>1, <3>1, <3>2 DEF Change, Begin, Pc, WritePc
    <3>4. OnPath(c)'
      BY <1>1, <2>1, <3>1, <3>2 DEF Change, Begin, OnPath, WritePc, RemovePc
    <3> QED BY <3>3, <3>4
  <2>2. CASE Remove(c)
    <3>1. PICK d \in Device : dev' = [dev EXCEPT ![c] = d]
      BY <2>2 DEF Remove, Present
    <3>2. TypeOK'
      BY <1>1, <1>2, <2>2, <3>1 DEF Remove, Begin, Pc, RemovePc, store
    <3>3. OnPath(c)'
      BY <1>1, <2>2 DEF Remove, Begin, OnPath, WritePc, RemovePc
    <3> QED BY <3>2, <3>3
  <2>3. CASE Delete(c)
    <3>1. NoRow \in Row
      BY DEF Row
    <3>2. TypeOK'
      BY <1>1, <1>2, <2>3, <3>1 DEF Delete, Pc, loop, local
    <3>3. OnPath(c)'
      BY <1>1, <2>3 DEF Delete, OnPath, WritePc, RemovePc, loop, local
    <3> QED BY <3>2, <3>3
  <2>4. CASE StartLab(c)
    <3>1. /\ row' \in [Device -> Row] /\ snap' = [snap EXCEPT ![c] = row']
          /\ todo' = [todo EXCEPT ![c] = Present(row')] /\ Present(row') \in SUBSET Device
      BY <2>4 DEF StartLab, Present
    <3>2. TypeOK'
      BY <1>1, <1>2, <2>4, <3>1, ZenonT(40) DEF StartLab, Begin, Pc, local
    <3>3. OnPath(c)'
      BY <1>1, <2>4, <3>1 DEF StartLab, Begin, OnPath, WritePc, RemovePc, local
    <3> QED BY <3>2, <3>3
  <2>5. CASE Reset(c)
    <3>1. Empty \in [Device -> Row]
      BY DEF Empty, Row
    <3>2. TypeOK'
      BY <1>1, <1>2, <2>5, <3>1 DEF Reset, Begin, Pc, local
    <3>3. OnPath(c)'
      BY <1>1, <2>5 DEF Reset, Begin, OnPath, WritePc, RemovePc, local
    <3> QED BY <3>2, <3>3
  <2>6. CASE Request(c)
    <3>1. TypeOK'
      BY <1>1, <1>2, <2>6, ForgetTyped DEF Request, Pc, store
    <3>2. OnPath(c)'
      BY <1>1, <2>6 DEF Request, OnPath, WritePc, RemovePc
    <3> QED BY <3>1, <3>2
  <2> QED BY <2>1, <2>2, <2>3, <2>4, <2>5, <2>6 DEF CommandStep
<1>4. /\ UNCHANGED owing
      /\ \A b \in Actor \ {c} : /\ pc'[b] = pc[b] /\ job'[b] = job[b] /\ obj'[b] = obj[b]
                                /\ snap'[b] = snap[b] /\ todo'[b] = todo[b]
  <2>1. CASE Change(c)
    BY <2>1 DEF Change, Begin
  <2>2. CASE Remove(c)
    BY <2>2 DEF Remove, Begin
  <2>3. CASE Delete(c)
    BY <2>3 DEF Delete, loop, local
  <2>4. CASE StartLab(c)
    BY <2>4 DEF StartLab, Begin, local
  <2>5. CASE Reset(c)
    BY <2>5 DEF Reset, Begin, local
  <2>6. CASE Request(c)
    BY <2>6 DEF Request, Forget
  <2> QED BY <2>1, <2>2, <2>3, <2>4, <2>5, <2>6 DEF CommandStep
<1>5. \A b \in Actor \ {c} : OnPath(b)'
  BY <1>4 DEF OnPath
<1>6. \A b \in Client \ {c} : b \in Actor
  BY DEF Actor
<1> QED BY <1>1, <1>3, <1>4, <1>5, <1>6 DEF Busy

\* The initial state, and the type invariant.
LEMMA InitPlaced == Init => Placed
<1> SUFFICES ASSUME Init PROVE Placed
  OBVIOUS
<1> USE DEF Init
<1>1. Daemon \in Actor
  BY DEF Actor
<1>2. Empty \in [Device -> Row] /\ NoRow \in Row
  BY DEF Empty, Row
<1>3. TypeOK
  BY <1>2 DEF TypeOK, Pc, Slip
<1>4. \A a \in Actor : OnPath(a)
  BY DEF OnPath, WritePc, RemovePc
<1> QED BY <1>1, <1>3, <1>4 DEF Placed, Busy

-----------------------------------------------------------------------------
(* A rebuild that nobody disturbs.                                         *)

\* The files of d are those of its row.
Good(d) ==
  /\ public[d] = row[d].data
  /\ alias[d] = IF row[d].reach = "up" THEN row[d].data ELSE "none"

\* What the rebuild of a has done so far.
Progress(a) ==
  /\ snap[a] = row
  /\ pc[a] = "next" => \A d \in Present(row) \ todo[a] : Good(d)
  /\ pc[a] \in WritePc =>
       /\ dev[a] \in Present(row) /\ obj[a] = row[dev[a]]
       /\ \A d \in Present(row) \ todo[a] : d = dev[a] \/ Good(d)
  /\ pc[a] \in {"read", "copy", "hide"} => public[dev[a]] = obj[a].data
  /\ pc[a] = "copy" => buf[a] = obj[a].data
  /\ pc[a] = "hide" => obj[a].reach # "up"
  /\ pc[a] \in {"sweep"} \cup RemovePc =>
       /\ \A d \in Present(row) : Good(d) /\ d \notin todo[a]
       /\ \A d \in Device \ Present(row) :
            public[d] = "nodir" \/ d \in todo[a] \/ (pc[a] \in RemovePc /\ d = dev[a])
  /\ pc[a] \in RemovePc => dev[a] \notin Present(row)

\* A rebuild that nobody disturbs loses none of what it has done.
LEMMA ProgressKept ==
  ASSUME Placed, NEW a \in Actor, job[a] = "rebuild", Progress(a), FileStep(a), ~Swept(a)
  PROVE  pc'[a] = "idle" \/ Progress(a)'
<1> USE DEF Placed, TypeOK, Goto, Progress, WritePc, RemovePc, Good
<1>a. pc[a] \in WritePc => dev[a] \in Device /\ obj[a] = row[dev[a]]
  BY DEF Present
<1>1. CASE MakeDir(a)
  BY <1>a, <1>1 DEF MakeDir, loop, local, Present
<1>2. CASE WritePublic(a)
  BY <1>a, <1>2 DEF WritePublic, Raise, Present
<1>3. CASE ReadPublic(a)
  BY <1>a, <1>3 DEF ReadPublic, Raise, store
<1>4. CASE CopyAlias(a)
  BY <1>a, <1>4 DEF CopyAlias, loop, Present
<1>5. CASE RemoveAlias(a)
  BY <1>5 DEF RemoveAlias, loop, local, Present
<1>6. CASE RemoveFiles(a)
  BY <1>6 DEF RemoveFiles, loop, local, AfterRemove, Present
<1>7. CASE RemoveDir(a)
  BY <1>7 DEF RemoveDir, Raise, AfterRemove, Present
<1>8. CASE NextDevice(a)
  BY <1>8 DEF NextDevice, store, OnPath
<1>9. CASE HideAlias(a)
  BY <1>a, <1>9 DEF HideAlias, loop, local, Present
<1>10. CASE ListDirs(a)
  BY <1>10 DEF ListDirs, local, store
<1>11. CASE Sweep(a)
  BY <1>11 DEF Sweep, store
<1> QED BY <1>1, <1>2, <1>3, <1>4, <1>5, <1>6, <1>7, <1>8, <1>9, <1>10, <1>11
        DEF FileStep

\* The end of it.
LEMMA ProgressEnds ==
  ASSUME Placed, NEW a \in Actor, Progress(a), pc[a] = "sweep", todo[a] = {}
  PROVE  Matches
<1> SUFFICES ASSUME NEW d \in Device
             PROVE  IF row[d].reach = "absent" THEN public[d] = "nodir" ELSE Good(d)
  BY DEF Matches, Good
<1>1. d \in Present(row) <=> row[d].reach # "absent"
  BY DEF Present
<1> QED BY <1>1 DEF Progress, RemovePc

-----------------------------------------------------------------------------
(* The invariant.                                                          *)

Only(a) == \A b \in Actor \ {a} : ~Busy(b)

\* Somebody is going to see to the files, or they are as they should be.
Owed ==
  \/ flag
  \/ \E c \in Client : Busy(c)
  \/ ~Busy(Daemon) /\ (owing \/ Matches)
  \/ Busy(Daemon) /\ alone

FilesInv ==
  /\ Placed
  /\ alone => Only(Daemon)
  /\ alone /\ Busy(Daemon) => Progress(Daemon)
  /\ slips = {} => \A c \in Client : Busy(c) /\ job[c] = "rebuild" => Only(c) /\ Progress(c)
  /\ slips = {} => Owed

\* Only a writer under way takes a step on the files.
LEMMA BusyStep ==
  ASSUME NEW a \in Actor, FileStep(a)
  PROVE  Busy(a)
BY DEF FileStep, MakeDir, WritePublic, ReadPublic, CopyAlias, RemoveAlias, RemoveFiles,
       RemoveDir, NextDevice, HideAlias, ListDirs, Sweep, Swept, Busy

\* A file operation goes on, raises, or was the last of a rebuild.
LEMMA HowFileStepsEnd ==
  ASSUME Placed, NEW a \in Actor, FileStep(a)
  PROVE  /\ UNCHANGED <<flag, job, alone>>
         /\ slips' = slips \/ (a # Daemon /\ slips' = slips \cup {"aborted"})
         /\ \/ Swept(a)
            \/ owing' = owing /\ Busy(a)'
            \/ owing' = owing /\ a # Daemon /\ "aborted" \in slips'
            \/ owing' = owing /\ a = Daemon /\ ~Busy(a)'
<1> USE DEF Placed, TypeOK, Goto, Busy
<1>1. CASE MakeDir(a)
  BY <1>1 DEF MakeDir, loop, local
<1>2. CASE WritePublic(a)
  BY <1>2 DEF WritePublic, Raise
<1>3. CASE ReadPublic(a)
  BY <1>3 DEF ReadPublic, Raise
<1>4. CASE CopyAlias(a)
  BY <1>4 DEF CopyAlias, loop
<1>5. CASE RemoveAlias(a)
  BY <1>5 DEF RemoveAlias, loop, local
<1>6. CASE RemoveFiles(a)
  BY <1>6 DEF RemoveFiles, AfterRemove, loop, local
<1>7. CASE RemoveDir(a)
  BY <1>7 DEF RemoveDir, AfterRemove, Raise
<1>8. CASE NextDevice(a)
  BY <1>8 DEF NextDevice
<1>9. CASE HideAlias(a)
  BY <1>9 DEF HideAlias, loop, local
<1>10. CASE ListDirs(a)
  BY <1>10 DEF ListDirs
<1>11. CASE Sweep(a)
  BY <1>11 DEF Sweep
<1>12. CASE Swept(a)
  BY <1>12 DEF Swept
<1> QED BY <1>1, <1>2, <1>3, <1>4, <1>5, <1>6, <1>7, <1>8, <1>9, <1>10, <1>11, <1>12
        DEF FileStep

\* A step on the files keeps the invariant,
LEMMA FileStepKeeps ==
  ASSUME FilesInv, NEW a \in Actor, FileStep(a)
  PROVE  FilesInv'
<1>1. Placed' /\ Busy(a) /\ \A b \in Actor \ {a} : Busy(b)' <=> Busy(b)
  BY FileStepPlaced, BusyStep DEF FilesInv
<1>2. /\ UNCHANGED <<flag, job, alone>>
      /\ slips' = slips \/ (a # Daemon /\ slips' = slips \cup {"aborted"})
      /\ \/ Swept(a)
         \/ owing' = owing /\ Busy(a)'
         \/ owing' = owing /\ a # Daemon /\ "aborted" \in slips'
         \/ owing' = owing /\ a = Daemon /\ ~Busy(a)'
  BY HowFileStepsEnd DEF FilesInv
<1>3. ASSUME job[a] = "rebuild", Progress(a)
      PROVE  /\ Busy(a)' => Progress(a)'
             /\ Swept(a) => Matches'
  <2>1. CASE Swept(a)
    <3>1. pc'[a] = "idle" /\ UNCHANGED store /\ pc[a] = "sweep" /\ todo[a] = {}
      BY <2>1 DEF Swept, Goto, FilesInv, Placed, TypeOK
    <3>2. Matches
      BY <1>3, <3>1, ProgressEnds DEF FilesInv
    <3> QED BY <3>1, <3>2 DEF Matches, store, Busy
  <2>2. CASE ~Swept(a)
    BY <1>3, <2>2, ProgressKept DEF FilesInv, Busy
  <2> QED BY <2>1, <2>2
<1>4. Daemon \in Actor /\ Client \subseteq Actor /\ (a # Daemon => a \in Client)
  BY DEF Actor
<1>5. alone' => Only(Daemon)' /\ (Busy(Daemon)' => Progress(Daemon)')
  <2> SUFFICES ASSUME alone' PROVE Only(Daemon)' /\ (Busy(Daemon)' => Progress(Daemon)')
    OBVIOUS
  <2>1. Only(Daemon) /\ a = Daemon
    BY <1>1, <1>2 DEF FilesInv, Only
  <2>2. Progress(Daemon) /\ job[Daemon] = "rebuild"
    BY <1>1, <1>2, <2>1 DEF FilesInv, Placed
  <2> QED BY <1>1, <1>3, <2>1, <2>2 DEF Only
<1>6. ASSUME slips' = {}, NEW c \in Client, Busy(c)', job'[c] = "rebuild"
      PROVE  Only(c)' /\ Progress(c)'
  <2>1. slips = {} /\ job[c] = "rebuild" /\ c \in Actor
    BY <1>2, <1>4, <1>6
  <2>2. Busy(c)
    BY <1>1, <1>6, <2>1
  <2>3. Only(c) /\ Progress(c) /\ a = c
    BY <1>1, <1>6, <2>1, <2>2 DEF FilesInv, Only
  <2> QED BY <1>1, <1>3, <1>6, <2>1, <2>3 DEF Only
<1>7. ASSUME slips' = {} PROVE Owed'
  <2>1. slips = {} /\ Owed
    BY <1>2, <1>7 DEF FilesInv
  <2>2. CASE a = Daemon
    <3>1. \A c \in Client : Busy(c)' <=> Busy(c)
      BY <1>1, <1>4, <2>2, DaemonAssumption
    <3>2. CASE flag \/ \E c \in Client : Busy(c)
      BY <1>2, <3>1, <3>2 DEF Owed
    <3>3. CASE alone
      <4>1. Progress(a) /\ job[a] = "rebuild"
        BY <1>1, <2>2, <3>3 DEF FilesInv, Placed
      <4>2. CASE Swept(a)
        <5>1. ~Busy(Daemon)'
          BY <2>2, <4>2 DEF Swept, Goto, Busy, FilesInv, Placed, TypeOK
        <5> QED BY <1>3, <4>1, <4>2, <5>1 DEF Owed
      <4>3. CASE ~Swept(a)
        <5>1. owing' = owing /\ owing
          BY <1>1, <1>2, <2>2, <4>3 DEF FilesInv, Placed
        <5> QED BY <1>2, <3>3, <5>1 DEF Owed
      <4> QED BY <4>2, <4>3
    <3> QED BY <1>1, <2>1, <2>2, <3>2, <3>3 DEF Owed
  <2>3. CASE a # Daemon
    <3>1. a \in Client
      BY <1>4, <2>3
    <3>2. CASE Swept(a)
      <4>1. job[a] = "rebuild"
        BY <3>2 DEF Swept, FilesInv, Placed, OnPath
      <4>2. Only(a) /\ Progress(a)
        BY <1>1, <2>1, <3>1, <4>1 DEF FilesInv
      <4>3. ~Busy(Daemon)'
        BY <1>1, <1>4, <2>3, <4>2 DEF Only
      <4> QED BY <1>3, <3>2, <4>1, <4>2, <4>3 DEF Owed
    <3>3. CASE Busy(a)'
      BY <3>1, <3>3 DEF Owed
    <3> QED BY <1>2, <1>7, <2>3, <3>2, <3>3
  <2> QED BY <2>2, <2>3
<1> QED BY <1>1, <1>5, <1>6, <1>7 DEF FilesInv

\* a rebuild that begins does,
LEMMA RebuildKeeps ==
  ASSUME FilesInv, Rebuild
  PROVE  FilesInv'
<1> USE DEF Goto
<1>1. Placed' /\ Daemon \in Actor /\ Daemon \notin Client /\ Client \subseteq Actor
  BY RebuildPlaced, DaemonAssumption DEF FilesInv, Actor
<1>2. /\ Busy(Daemon)' /\ ~Busy(Daemon) /\ pc'[Daemon] = "next" /\ snap'[Daemon] = row
      /\ todo'[Daemon] = Present(row) /\ UNCHANGED <<store, job>>
      /\ \A b \in Actor \ {Daemon} : Busy(b)' <=> Busy(b)
  BY <1>1 DEF Rebuild, Busy, FilesInv, Placed, TypeOK
<1>3. Progress(Daemon)'
  BY <1>2 DEF Progress, WritePc, RemovePc, store, Present
<1>4. alone' => Only(Daemon)'
  <2>1. alone' => \A c \in Client : ~Busy(c)
    BY DEF Rebuild
  <2>2. Actor = Client \cup {Daemon}
    BY DEF Actor
  <2> QED BY <1>2, <2>1, <2>2 DEF Only
<1>5. ASSUME slips' = {}, NEW c \in Client PROVE ~(Busy(c)' /\ job'[c] = "rebuild")
  <2>1. ~Resetting
    BY <1>5 DEF Rebuild
  <2> QED BY <1>1, <1>2, <1>5, <2>1 DEF Resetting
<1>6. Owed'
  <2>1. alone' \/ \E c \in Client : Busy(c)
    BY DEF Rebuild
  <2>2. ASSUME NEW c \in Client, Busy(c) PROVE Busy(c)'
    BY <1>1, <1>2, <2>2
  <2> QED BY <1>2, <2>1, <2>2 DEF Owed
<1> QED BY <1>1, <1>3, <1>4, <1>5, <1>6 DEF FilesInv

\* and a step of a command.
LEMMA CommandKeeps ==
  ASSUME FilesInv, NEW c \in Client, CommandStep(c)
  PROVE  FilesInv'
<1>1. /\ Placed' /\ pc'[Daemon] = pc[Daemon] /\ owing' = owing
      /\ \A b \in Client \ {c} : pc'[b] = pc[b] /\ job'[b] = job[b]
  BY CommandPlaced DEF FilesInv
<1>2. c \in Actor /\ c # Daemon /\ Daemon \in Actor /\ Actor = Client \cup {Daemon}
  BY DaemonAssumption DEF Actor
<1>3. ~alone'
  <2>1. CASE Change(c) \/ Remove(c) \/ StartLab(c) \/ Reset(c)
    BY <2>1 DEF Change, Remove, StartLab, Reset, Begin
  <2>2. CASE Delete(c) \/ Request(c)
    <3>1. alone' = alone /\ Busy(c)
      BY <2>2 DEF Delete, Request, Busy
    <3> QED BY <1>2, <3>1 DEF FilesInv, Only
  <2> QED BY <2>1, <2>2 DEF CommandStep
<1>4. slips' = {} => slips = {}
  BY DEF CommandStep, Change, Remove, Delete, StartLab, Reset, Request, Begin
<1>5. slips' = {} => Owed'
  <2>1. CASE Request(c)
    BY <2>1 DEF Request, Owed
  <2>2. CASE ~Request(c)
    <3>1. Busy(c)'
      BY <1>2, <2>2 DEF CommandStep, Change, Remove, Delete, StartLab, Reset, Goto, Busy,
                        FilesInv, Placed, TypeOK
    <3> QED BY <3>1 DEF Owed
  <2> QED BY <2>1, <2>2
<1>6. ASSUME slips' = {}, NEW b \in Client, Busy(b)', job'[b] = "rebuild"
      PROVE  Only(b)' /\ Progress(b)'
  <2>1. CASE b # c
    <3>1. Busy(b) /\ job[b] = "rebuild" /\ slips = {}
      BY <1>1, <1>4, <1>6, <2>1 DEF Busy
    <3>2. Only(b) /\ Resetting
      BY <3>1 DEF FilesInv, Resetting
    <3>3. ~Busy(c)
      BY <1>2, <2>1, <3>2 DEF Only
    <3>4. \E why : Begin(c, why)
      BY <3>3 DEF CommandStep, Change, Remove, Delete, StartLab, Reset, Request, Busy
    <3> QED BY <1>6, <3>2, <3>4 DEF Begin
  <2>2. CASE b = c
    <3>1. CASE Reset(c)
      <4>1. Begin(c, "rebuild") /\ ~Busy(c)
        BY <3>1 DEF Reset, Begin, Busy
      <4>2. \A x \in Actor : ~Busy(x)
        BY <1>6, <4>1 DEF Begin
      <4>3. Only(c)'
        BY <1>1, <1>2, <4>2 DEF Only, Busy
      <4>4. /\ pc'[c] = "next" /\ row' = Empty /\ snap'[c] = Empty /\ todo'[c] = {}
        BY <1>2, <3>1 DEF Reset, Goto, FilesInv, Placed, TypeOK
      <4>5. Present(Empty) = {}
        BY DEF Present, Empty, NoRow
      <4>6. Progress(c)'
        BY <4>4, <4>5 DEF Progress, WritePc, RemovePc, Present
      <4> QED BY <2>2, <4>3, <4>6
    <3>2. CASE Change(c) \/ Remove(c) \/ StartLab(c)
      <4>1. job'[c] # "rebuild"
        BY <1>2, <3>2 DEF Change, Remove, StartLab, Begin, FilesInv, Placed, TypeOK
      <4> QED BY <1>6, <2>2, <4>1
    <3>3. CASE Delete(c)
      <4>1. pc[c] = "delete" /\ job' = job
        BY <3>3 DEF Delete, loop
      <4> QED BY <1>2, <1>6, <2>2, <4>1 DEF FilesInv, Placed, OnPath
    <3>4. CASE Request(c)
      <4>1. pc'[c] = "idle"
        BY <1>2, <3>4 DEF Request, Goto, FilesInv, Placed, TypeOK
      <4> QED BY <1>6, <2>2, <4>1 DEF Busy
    <3> QED BY <3>1, <3>2, <3>3, <3>4 DEF CommandStep
  <2> QED BY <2>1, <2>2
<1> QED BY <1>1, <1>3, <1>5, <1>6 DEF FilesInv

\* The inductive invariant holds in every reachable state of the files.
THEOREM FilesInductive == Spec => []FilesInv
<1>1. Init => FilesInv
  <2> SUFFICES ASSUME Init PROVE FilesInv
    OBVIOUS
  <2>1. Placed
    BY InitPlaced
  <2>2. Daemon \in Actor /\ \A a \in Actor : ~Busy(a)
    BY DEF Init, Busy, Actor
  <2>3. Matches
    BY DEF Init, Matches, Empty, NoRow
  <2>4. Client \subseteq Actor
    BY DEF Actor
  <2> QED BY <2>1, <2>2, <2>3, <2>4 DEF FilesInv, Only, Owed
<1>2. FilesInv /\ [Next]_vars => FilesInv'
  <2>1. FilesInv /\ Next => FilesInv'
    BY FileStepKeeps, RebuildKeeps, CommandKeeps DEF Next
  <2>2. FilesInv /\ UNCHANGED vars => FilesInv'
    BY DEF vars, FilesInv, Placed, TypeOK, OnPath, Busy, Only, Progress, Good, Owed, Matches
  <2> QED BY <2>1, <2>2
<1> QED BY <1>1, <1>2, PTL DEF Spec

\* Every variable keeps to its type: what a file holds was generated for a device, and
\* no writer has a device in hand that does not exist.
THEOREM FilesTyped == Spec => []TypeOK
BY FilesInductive, PTL DEF FilesInv, Placed

\* One rebuild that no command disturbs leaves the files of the inventory, whatever it
\* found on disk.
THEOREM OneRebuildRepairs == Spec => []RebuildRepairs
<1>1. FilesInv => RebuildRepairs
  <2> SUFFICES ASSUME FilesInv, pc[Daemon] = "sweep", todo[Daemon] = {}, alone PROVE Matches
    BY DEF RebuildRepairs
  <2>1. Progress(Daemon) /\ Daemon \in Actor
    BY DEF FilesInv, Busy, Actor
  <2> QED BY <2>1, ProgressEnds DEF FilesInv
<1> QED BY <1>1, FilesInductive, PTL

\* When commands and restarts are over, the files agree with the inventory, unless a
\* command raised or a reset ran beside somebody else.
THEOREM AgreeAtRest == Spec => []QuietMatches
<1>1. FilesInv => QuietMatches
  BY DEF FilesInv, QuietMatches, Quiet, Owed, Actor
<1> QED BY <1>1, FilesInductive, PTL

=============================================================================
