------------------------- MODULE MCHandoffLifecycle -------------------------
(***************************************************************************)
(* A small instance of HandoffLifecycle: three commands in flight on one   *)
(* id (ids share nothing but the runtime lock and the brake).              *)
(***************************************************************************)
EXTENDS HandoffLifecycle, TLC

CONSTANTS p1, p2, p3, h1, plain, gated, barred

MCProcs == {p1, p2, p3}
MCIds == {h1}
MCContents == {plain, gated, barred}
\* Ids typed by callers only where creation is exclusive; and the contrary.
PreparedByName == [cmd \in {"create", "prepare"} |-> IF cmd = "prepare" THEN {h1} ELSE {}]
CreatedByName  == [cmd \in {"create", "prepare"} |-> IF cmd = "create" THEN {h1} ELSE {}]
MCBrakes == {"DRIVE", "PARK"}
Symmetry == Permutations(MCProcs)
=============================================================================
