----------------------------- MODULE MCInventory -----------------------------
(* Inventory for TLC: small labs, and one of each kind of update.           *)
EXTENDS Inventory, TLC

CONSTANTS c1, c2

\* The first request is refused: its categories do not add up.  The last
\* needs more addresses than there are.
SmallRequests ==
  {[total |-> 2, high |-> 1, medium |-> 0, low |-> 0, unreachable |-> 0],
   [total |-> 2, high |-> 1, medium |-> 0, low |-> 0, unreachable |-> 1],
   [total |-> 4, high |-> 0, medium |-> 2, low |-> 1, unreachable |-> 1]}

EachUpdate ==
  {[location |-> "any"],
   [type |-> "switch"],
   [type |-> "switch", traffic |-> "high"],
   [traffic |-> "low", reach |-> FALSE]}

TwoTypes == <<"router", "switch">>

Symmetric == Permutations(Command)

=============================================================================
