------------------------------ MODULE LabFiles ------------------------------
(***************************************************************************)
(* The SNMPSim data files: one directory per device holding public.snmprec *)
(* and, in communities/, one alias file per device, which is what answers  *)
(* the community <device-id> on the host port.                             *)
(*                                                                         *)
(* Commands write or remove the files of the device they change; the       *)
(* daemon rebuilds all of them from the inventory at every restart of the  *)
(* engine, and so does reset.  They share the directory without a lock, so *)
(* every file operation below is a step of its own.  An exists() test and  *)
(* the unlink() it guards are one step, and so are the truncation and the  *)
(* writing of a file.                                                      *)
(*                                                                         *)
(* The engine is enabled throughout: every change asks for a reload, and a *)
(* rebuild that raises is tried again, because the engine is not running.  *)
(* What a file holds is the Data of the row it was generated from.         *)
(***************************************************************************)
EXTENDS Naturals, FiniteSets

CONSTANTS
  Device,  \* device ids
  Data,    \* what write_device_snmprec can generate for a device
  Client,  \* commands that may be running at the same time
  Daemon   \* the supervisor

ASSUME DaemonAssumption == Daemon \notin Client

VARIABLES
  row,     \* Device rows
  public,  \* <device-id>/public.snmprec, and whether its directory exists
  alias,   \* communities/<device-id>.snmprec
  flag,    \* the reload flag
  owing,   \* a restart has begun and not succeeded yet
  pc,      \* where each actor is
  job,     \* why it writes or removes: a rebuild, a start, or one device
  dev,     \* the device it is at
  obj,     \* the row of that device as it has it in memory
  buf,     \* what it has read of public.snmprec
  snap,    \* the rows it has queried
  todo,    \* the devices its loop still has to visit
  alone,   \* history: no command has run since the daemon's rebuild began
  slips    \* history: the races that no later reload is asked to repair

store == <<row, public, alias>>
loop  == <<job, snap, todo>>
local == <<dev, obj, buf>>
vars  == <<row, public, alias, flag, owing, pc, job, dev, obj, buf, snap, todo,
           alone, slips>>

Actor == Client \cup {Daemon}

NoRow == [reach |-> "absent", data |-> "none"]
Row   == {NoRow} \cup [reach : {"up", "down"}, data : Data]

WritePc  == {"mkdir", "write", "read", "copy", "hide"}
RemovePc == {"rm_alias", "rm_files", "rm_dir"}
Pc       == {"idle", "next", "sweep", "delete", "request"} \cup WritePc \cup RemovePc

(***************************************************************************)
(*   aborted  a command raised, after its commit and before its request    *)
(*   reset    reset, which asks for no reload, ran beside another actor    *)
(***************************************************************************)
Slip == {"aborted", "reset"}

TypeOK ==
  /\ row \in [Device -> Row]
  /\ public \in [Device -> {"nodir", "empty"} \cup Data]
  /\ alias \in [Device -> {"none"} \cup Data]
  /\ flag \in BOOLEAN
  /\ owing \in BOOLEAN
  /\ pc \in [Actor -> Pc]
  /\ job \in [Actor -> {"device", "start", "rebuild"}]
  /\ dev \in [Actor -> Device]
  /\ obj \in [Actor -> Row]
  /\ buf \in [Actor -> {"none"} \cup Data]
  /\ snap \in [Actor -> [Device -> Row]]
  /\ todo \in [Actor -> SUBSET Device]
  /\ alone \in BOOLEAN
  /\ slips \subseteq Slip

Empty == [d \in Device |-> NoRow]

Init ==
  /\ row = Empty
  /\ public = [d \in Device |-> "nodir"]
  /\ alias = [d \in Device |-> "none"]
  /\ flag = FALSE
  /\ owing = FALSE
  /\ pc = [a \in Actor |-> "idle"]
  /\ job = [a \in Actor |-> IF a = Daemon THEN "rebuild" ELSE "device"]
  /\ dev \in {[a \in Actor |-> d] : d \in Device}
  /\ obj = [a \in Actor |-> NoRow]
  /\ buf = [a \in Actor |-> "none"]
  /\ snap = [a \in Actor |-> Empty]
  /\ todo = [a \in Actor |-> {}]
  /\ alone = TRUE
  /\ slips = {}

Present(rows) == {d \in Device : rows[d].reach # "absent"}

-----------------------------------------------------------------------------
(* What every actor does on its way.                                       *)

Goto(a, l) == pc' = [pc EXCEPT ![a] = l]

Busy(a) == pc[a] # "idle"

Resetting == \E c \in Client : Busy(c) /\ job[c] = "rebuild"

Forget(a) ==
  /\ obj' = [obj EXCEPT ![a] = NoRow]
  /\ buf' = [buf EXCEPT ![a] = "none"]
  /\ snap' = [snap EXCEPT ![a] = Empty]
  /\ todo' = [todo EXCEPT ![a] = {}]

\* An exception ends a command; the daemon catches it, still owing a restart.
Raise(a) ==
  /\ Goto(a, "idle")
  /\ Forget(a)
  /\ slips' = IF a = Daemon THEN slips ELSE slips \cup {"aborted"}

-----------------------------------------------------------------------------
(* write_device_snmprec(obj[a]).                                           *)

MakeDir(a) ==
  /\ pc[a] = "mkdir"
  /\ public' = [public EXCEPT ![dev[a]] = IF @ = "nodir" THEN "empty" ELSE @]
  /\ Goto(a, "write")
  /\ UNCHANGED <<row, alias, flag, owing, loop, local, alone, slips>>

WritePublic(a) ==
  /\ pc[a] = "write"
  /\ IF public[dev[a]] # "nodir"
     THEN /\ public' = [public EXCEPT ![dev[a]] = obj[a].data]
          /\ Goto(a, "read")
          /\ UNCHANGED <<obj, buf, snap, todo, slips>>
     ELSE Raise(a) /\ UNCHANGED public
  /\ UNCHANGED <<row, alias, flag, owing, job, dev, alone>>

\* Mutant: the source of the copy is not checked.
ReadPublicUnchecked(a) ==
  /\ pc[a] = "read"
  /\ buf' = [buf EXCEPT ![a] = public[dev[a]]]
  /\ Goto(a, "copy")
  /\ UNCHANGED <<store, flag, owing, loop, dev, obj, alone, slips>>

\* _replace_with_copy() reads what public.snmprec holds now.
ReadPublic(a) ==
  /\ pc[a] = "read"
  /\ IF public[dev[a]] \in Data
     THEN /\ buf' = [buf EXCEPT ![a] = public[dev[a]]]
          /\ Goto(a, "copy")
          /\ UNCHANGED <<obj, snap, todo, slips>>
     ELSE Raise(a)
  /\ UNCHANGED <<store, flag, owing, job, dev, alone>>

CopyAlias(a) ==
  /\ pc[a] = "copy"
  /\ alias' = [alias EXCEPT ![dev[a]] = buf[a]]
  /\ buf' = [buf EXCEPT ![a] = "none"]
  /\ Goto(a, CASE job[a] = "device"  -> "request"
               [] job[a] = "start"   -> "next"
               [] job[a] = "rebuild" -> IF obj[a].reach = "up" THEN "next" ELSE "hide")
  /\ UNCHANGED <<row, public, flag, owing, loop, dev, obj, alone, slips>>

-----------------------------------------------------------------------------
(* remove_device_snmprec(dev[a]).                                          *)

AfterRemove(a) == IF job[a] = "rebuild" THEN "sweep" ELSE "delete"

RemoveAlias(a) ==
  /\ pc[a] = "rm_alias"
  /\ alias' = [alias EXCEPT ![dev[a]] = "none"]
  /\ Goto(a, "rm_files")
  /\ UNCHANGED <<row, public, flag, owing, loop, local, alone, slips>>

RemoveFiles(a) ==
  /\ pc[a] = "rm_files"
  /\ IF public[dev[a]] = "nodir"
     THEN Goto(a, AfterRemove(a)) /\ UNCHANGED public
     ELSE Goto(a, "rm_dir") /\ public' = [public EXCEPT ![dev[a]] = "empty"]
  /\ UNCHANGED <<row, alias, flag, owing, loop, local, alone, slips>>

\* rmdir() of a directory that somebody has filled or removed raises.
RemoveDir(a) ==
  /\ pc[a] = "rm_dir"
  /\ IF public[dev[a]] = "empty"
     THEN /\ public' = [public EXCEPT ![dev[a]] = "nodir"]
          /\ Goto(a, AfterRemove(a))
          /\ UNCHANGED <<obj, buf, snap, todo, slips>>
     ELSE Raise(a) /\ UNCHANGED public
  /\ UNCHANGED <<row, alias, flag, owing, job, dev, alone>>

-----------------------------------------------------------------------------
(* rebuild_all_snmprec(), and the loop of start_simulation().              *)

\* The next device of the queryset.
NextDevice(a) ==
  /\ pc[a] = "next"
  /\ \E d \in todo[a] :
       /\ dev' = [dev EXCEPT ![a] = d]
       /\ obj' = [obj EXCEPT ![a] = snap[a][d]]
       /\ todo' = [todo EXCEPT ![a] = @ \ {d}]
  /\ Goto(a, "mkdir")
  /\ UNCHANGED <<store, flag, owing, job, buf, snap, alone, slips>>

\* Mutant: a device that is down keeps its alias.
HideAliasKeeps(a) ==
  /\ pc[a] = "hide"
  /\ Goto(a, "next")
  /\ UNCHANGED <<store, flag, owing, loop, local, alone, slips>>

\* A device that is down loses the alias that was just written.
HideAlias(a) ==
  /\ pc[a] = "hide"
  /\ alias' = [alias EXCEPT ![dev[a]] = "none"]
  /\ Goto(a, "next")
  /\ UNCHANGED <<row, public, flag, owing, loop, local, alone, slips>>

\* The directories of devices that the queryset did not return are listed.
ListDirs(a) ==
  /\ pc[a] = "next"
  /\ todo[a] = {}
  /\ IF job[a] = "start"
     THEN Goto(a, "request") /\ UNCHANGED todo
     ELSE /\ Goto(a, "sweep")
          /\ todo' = [todo EXCEPT ![a] =
                        {d \in Device : public[d] # "nodir" /\ d \notin Present(snap[a])}]
  /\ UNCHANGED <<store, flag, owing, job, local, snap, alone, slips>>

\* The next of them is removed, if it is still a directory.
Sweep(a) ==
  /\ pc[a] = "sweep"
  /\ \E d \in todo[a] :
       /\ dev' = [dev EXCEPT ![a] = d]
       /\ todo' = [todo EXCEPT ![a] = @ \ {d}]
       /\ IF public[d] # "nodir" THEN Goto(a, "rm_alias") ELSE UNCHANGED pc
  /\ UNCHANGED <<store, flag, owing, job, obj, buf, snap, alone, slips>>

\* Mutant: the flag is cleared when the restart is over, not when it begins.
SweptClears(a) ==
  /\ pc[a] = "sweep"
  /\ todo[a] = {}
  /\ Goto(a, "idle")
  /\ Forget(a)
  /\ owing' = IF a = Daemon THEN FALSE ELSE owing
  /\ flag' = IF a = Daemon THEN FALSE ELSE flag
  /\ UNCHANGED <<store, job, dev, alone, slips>>

Swept(a) ==
  /\ pc[a] = "sweep"
  /\ todo[a] = {}
  /\ Goto(a, "idle")
  /\ Forget(a)
  /\ owing' = IF a = Daemon THEN FALSE ELSE owing
  /\ UNCHANGED <<store, flag, job, dev, alone, slips>>

FileStep(a) ==
  \/ MakeDir(a) \/ WritePublic(a) \/ ReadPublic(a) \/ CopyAlias(a)
  \/ RemoveAlias(a) \/ RemoveFiles(a) \/ RemoveDir(a)
  \/ NextDevice(a) \/ HideAlias(a) \/ ListDirs(a) \/ Sweep(a) \/ Swept(a)

-----------------------------------------------------------------------------
(* The daemon: a restart, which begins with rebuild_all_snmprec().         *)

Rebuild ==
  /\ pc[Daemon] = "idle"
  /\ flag \/ owing
  /\ flag' = FALSE
  /\ owing' = TRUE
  /\ snap' = [snap EXCEPT ![Daemon] = row]
  /\ todo' = [todo EXCEPT ![Daemon] = Present(row)]
  /\ alone' = \A c \in Client : ~Busy(c)
  /\ slips' = IF Resetting THEN slips \cup {"reset"} ELSE slips
  /\ Goto(Daemon, "next")
  /\ UNCHANGED <<store, job, local>>

-----------------------------------------------------------------------------
(* The commands.                                                           *)

Begin(c, why) ==
  /\ pc[c] = "idle"
  /\ job' = [job EXCEPT ![c] = why]
  /\ alone' = FALSE
  /\ slips' = IF Resetting \/ (why = "rebuild" /\ \E a \in Actor : Busy(a))
              THEN slips \cup {"reset"} ELSE slips

\* add, set-traffic, set-reachability, update: commit, then write.
Change(c) ==
  /\ Begin(c, "device")
  /\ \E d \in Device, r \in Row \ {NoRow} :
       /\ row' = [row EXCEPT ![d] = r]
       /\ dev' = [dev EXCEPT ![c] = d]
       /\ obj' = [obj EXCEPT ![c] = r]
  /\ Goto(c, "mkdir")
  /\ UNCHANGED <<public, alias, flag, owing, buf, snap, todo>>

\* remove: the files first, then the row.
Remove(c) ==
  /\ Begin(c, "device")
  /\ \E d \in Present(row) : dev' = [dev EXCEPT ![c] = d]
  /\ Goto(c, "rm_alias")
  /\ UNCHANGED <<store, flag, owing, obj, buf, snap, todo>>

Delete(c) ==
  /\ pc[c] = "delete"
  /\ row' = [row EXCEPT ![dev[c]] = NoRow]
  /\ Goto(c, "request")
  /\ UNCHANGED <<public, alias, flag, owing, loop, local, alone, slips>>

\* start: the old lab's rows go, its files stay until the next rebuild.
StartLab(c) ==
  /\ Begin(c, "start")
  /\ row' \in [Device -> Row] \ {Empty}
  /\ snap' = [snap EXCEPT ![c] = row']
  /\ todo' = [todo EXCEPT ![c] = Present(row')]
  /\ Goto(c, "next")
  /\ UNCHANGED <<public, alias, flag, owing, local>>

\* reset: the rows go, then this command runs rebuild_all_snmprec() itself.
Reset(c) ==
  /\ Begin(c, "rebuild")
  /\ row' = Empty
  /\ snap' = [snap EXCEPT ![c] = Empty]
  /\ todo' = [todo EXCEPT ![c] = {}]
  /\ Goto(c, "next")
  /\ UNCHANGED <<public, alias, flag, owing, local>>

\* request_reload()
Request(c) ==
  /\ pc[c] = "request"
  /\ flag' = TRUE
  /\ Goto(c, "idle")
  /\ Forget(c)
  /\ UNCHANGED <<store, owing, job, dev, alone, slips>>

CommandStep(c) == Change(c) \/ Remove(c) \/ Delete(c) \/ StartLab(c) \/ Reset(c) \/ Request(c)

Next ==
  \/ \E a \in Actor : FileStep(a)
  \/ Rebuild
  \/ \E c \in Client : CommandStep(c)

Spec == Init /\ [][Next]_vars

-----------------------------------------------------------------------------
(* Properties.                                                             *)

\* The files are those of the inventory; a device that is gone has none,
\* except that its alias may be left over.
Matches ==
  \A d \in Device :
    IF row[d].reach = "absent"
    THEN public[d] = "nodir"
    ELSE /\ public[d] = row[d].data
         /\ alias[d] = IF row[d].reach = "up" THEN row[d].data ELSE "none"

(***************************************************************************)
(* Whatever commands that ran into each other or died half way have left   *)
(* on disk, one rebuild that no command disturbs repairs it.               *)
(***************************************************************************)
RebuildRepairs ==
  (pc[Daemon] = "sweep" /\ todo[Daemon] = {} /\ alone) => Matches

Quiet == ~flag /\ ~owing /\ \A a \in Actor : ~Busy(a)

(***************************************************************************)
(* When commands and restarts are over, the files agree with the           *)
(* inventory, in whatever order they wrote and removed them: every command *)
(* asks for its reload after its last write, and the flag is consumed      *)
(* before the rebuild reads the inventory.                                 *)
(***************************************************************************)
QuietMatches == Quiet /\ slips = {} => Matches

(***************************************************************************)
(* README, "`remove device-001` | Delete one device", and README on the    *)
(* host port, community = device-id: when all is over, a device that is    *)
(* gone no longer answers to its community.                                *)
(***************************************************************************)
RemovedIsSilent ==
  Quiet /\ slips = {} => \A d \in Device : row[d].reach = "absent" => alias[d] = "none"

=============================================================================
