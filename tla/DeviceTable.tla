----------------------------- MODULE DeviceTable -----------------------------
(***************************************************************************)
(* What the commands promise of the Device table, however they overlap:    *)
(* devices are added, removed and changed one at a time, a change touches  *)
(* the columns it is about and no other, and two devices never share a     *)
(* number or an address.  The two things services.py does beyond that, to  *)
(* bring back old values or a removed device, happen only with a slip.     *)
(***************************************************************************)
CONSTANTS
  Key,    \* primary keys
  Gone    \* no row

VARIABLES
  lab,    \* the row of each key
  known,  \* the keys that have ever had a row
  slips   \* which of the two have happened

Distinct(table) ==
  \A d, e \in Key :
    d # e /\ table[d] # Gone /\ table[e] # Gone =>
      table[d].number # table[e].number /\ table[d].ip # table[e].ip

Init ==
  /\ known \subseteq Key
  /\ \A d \in Key : lab[d] # Gone <=> d \in known
  /\ Distinct(lab)
  /\ slips = {}

\* Every row but d's is as it was.
Others(d) == \A e \in Key \ {d} : lab'[e] = lab[e]

Insert(d) ==
  /\ d \notin known
  /\ known' = known \cup {d}
  /\ lab'[d] # Gone
  /\ Others(d)

Delete(d) == lab'[d] = Gone /\ Others(d) /\ UNCHANGED known

DeleteAll == (\A d \in Key : lab'[d] = Gone) /\ UNCHANGED known

\* The row of d changes in the given columns at most.
Only(d, columns) ==
  /\ lab[d] # Gone /\ lab'[d] # Gone
  /\ \A c \in DOMAIN lab[d] \ columns : lab'[d][c] = lab[d][c]
  /\ Others(d)
  /\ UNCHANGED known

\* Interfaces are built for a type and a profile, and change with both.
Change(d) ==
  \/ Only(d, {"reach"})
  \/ Only(d, {"netflow"})
  \/ Only(d, {"type", "ifaces"})
  \/ Only(d, {"profile", "ifaces"})

Overwrite(d) ==
  /\ "overwritten" \in slips'
  /\ Only(d, {"type", "profile", "reach", "netflow", "ifaces"})

Revive(d) ==
  /\ "revived" \in slips'
  /\ d \in known /\ lab[d] = Gone /\ lab'[d] # Gone
  /\ Others(d)
  /\ UNCHANGED known

Next ==
  /\ Distinct(lab')
  /\ slips \subseteq slips'
  /\ \/ UNCHANGED <<lab, known>>
     \/ DeleteAll
     \/ \E d \in Key : Insert(d) \/ Delete(d) \/ Change(d) \/ Overwrite(d) \/ Revive(d)

Spec == Init /\ [][Next]_<<lab, known, slips>>

=============================================================================
