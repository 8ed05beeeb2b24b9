-------------------------- MODULE MCEvidenceStore --------------------------
(* Small instances of EvidenceStore.                                       *)
EXTENDS EvidenceStore, TLC

CONSTANTS p1, p2, r1, r2, c1, c2

Symmetry == Permutations({p1, p2}) \cup Permutations({r1, r2}) \cup Permutations({c1, c2})

(* The preflight evidence of one profile, then two files of its result.      *)
TwoGroups == <<<<"preflight">>, <<"command", "response">>>>
OneGroup == <<<<"command">>>>
=============================================================================
