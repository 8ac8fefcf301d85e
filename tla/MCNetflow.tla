------------------------------ MODULE MCNetflow ------------------------------
(* Small instances of Netflow for TLC.                                      *)
EXTENDS Netflow

CONSTANT MaxSent

\* Bounds: packets that leave the host, the failures that are followed up.
FewPackets == sent <= MaxSent
OnlyCrashes == slips \subseteq {"crashed"}

=============================================================================
