----------------------------- MODULE MCLabFiles -----------------------------
(* Small instances of LabFiles for TLC.                                    *)
EXTENDS LabFiles, TLC

Symmetric == Permutations(Client) \cup Permutations(Data) \cup Permutations(Device)

\* Bound: commands that reset the lab beside a rebuild are not followed.
NoReset == "reset" \notin slips

=============================================================================
