------------------------------- MODULE MCFlows -------------------------------
(* Flows, and the records beside them, for the configured device types.     *)
EXTENDS Flows

\* interface_count in config/device_types.yaml: all of its values.
ConfiguredCounts ==
  [router |-> 4..8, switch |-> 8..16, firewall |-> 4..6, generic |-> 3..6]

=============================================================================
