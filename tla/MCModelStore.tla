--------------------------- MODULE MCModelStore ---------------------------
(***************************************************************************)
(* Small instances of ModelStore.  m1 holds more than it declares, because *)
(* siblings whose size the hub does not report count as 0 in _repo_plan;   *)
(* m2 has only pickle weights and declares more than the cap.              *)
(***************************************************************************)
EXTENDS ModelStore

CONSTANTS m1, m2, j1, j2, d1, p1, p2

MCParts == [m \in Models |-> IF m = m1 THEN {p1, p2} ELSE {p1}]
MCDeclared == [m \in Models |-> IF m = m1 THEN 1 ELSE 2]
=============================================================================
