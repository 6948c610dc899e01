--------------------------- MODULE MCStdioBridge ---------------------------
(* A reserve of six one-tick stages: actor_done at 1, the cutoffs of output *)
(* (3), encode (4), drain (5), parse (6) and commit (7), the end of the     *)
(* publication window at 8 and the hard deadline at 9.                      *)
EXTENDS StdioBridge
=============================================================================
