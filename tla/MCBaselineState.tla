--------------------------- MODULE MCBaselineState ---------------------------
(* Two agents and four signed baselines: a chain of three generations and a  *)
(* second, equivocating baseline of the middle one.                          *)
EXTENDS BaselineState, TLC

CONSTANTS a1, a2, b1, b2, b2x, b3

MCProcs == {a1, a2}
MCBaselines == {b1, b2, b2x, b3}
MCSequence == b1 :> 1 @@ b2 :> 2 @@ b2x :> 2 @@ b3 :> 3
MCPreviousDigest == b1 :> None @@ b2 :> b1 @@ b2x :> b1 @@ b3 :> b2
=============================================================================
