------------------------------- MODULE MCPci -------------------------------
(* Two buses that are scanned and the last one, which is not; two slots on *)
(* each.  Cards: none; one function that answers to every number; several  *)
(* functions, one of them above function three, with the bit in all of     *)
(* them or in the first only; a bridge without function 0.                 *)
EXTENDS Pci

Nothing == [id |-> NoId, bridge |-> FALSE, multi |-> FALSE]
Function(f, m) == [id |-> 100 + f, bridge |-> FALSE, multi |-> m]
Bridge == [id |-> 99, bridge |-> TRUE, multi |-> FALSE]

Card(present, multi) ==
  [f \in Functions |-> IF f \in present THEN Function(f, f \in multi) ELSE Nothing]

MCCards == {
  Card({}, {}),
  [f \in Functions |-> Function(0, FALSE)],
  Card({0, 1, 3, 6}, {0, 1, 3, 6}),
  Card({0, 1, 2, 5}, {0}),
  [Card({}, {}) EXCEPT ![2] = Bridge] }

=============================================================================
