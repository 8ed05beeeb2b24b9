---------------------------- MODULE MCDriftAgent ----------------------------
(* A small instance of DriftAgent: two certificates that share a key, and a  *)
(* third of another key with the subject of the first.                       *)
EXTENDS DriftAgent, TLC

CONSTANTS a1, a2, b1

MCSPKI == (a1 :> "A") @@ (a2 :> "A") @@ (b1 :> "B")
MCSubject == (a1 :> "first") @@ (a2 :> "second") @@ (b1 :> "first")
MCPolicy == (a1 :> "ca") @@ (a2 :> "constrained") @@ (b1 :> "ca")
MCNotAfter == (a1 :> 9) @@ (a2 :> 9) @@ (b1 :> 0)
MCHashRank == (a1 :> 1) @@ (a2 :> 2) @@ (b1 :> 3)

(* A bundle and a directory of two files.                                    *)
MCPaths == <<"bundle", "anchors", "anchors">>
MCStores == {<<{a1, a2}, Absent, {b1}>>}
MCUpdates == {Absent, {a2}}

(* Entries of this agent and of others: one that recorded the key only, one  *)
(* that computed the policy differently.  `baseline' itself makes the rest.  *)
MCFirstRoots ==
  {{RootEntryLegacy(a2), RootEntry(b1)},
   {RootEntryLegacy(a2), [RootEntry(a1) EXCEPT !.policy = "other"]}}
=============================================================================
