---------------------------- MODULE MCChaosSweep ----------------------------
(***************************************************************************)
(* The sweep on small instances: delays listed twice, a negative one, and   *)
(* status documents around each boundary of the temporal policies.          *)
(***************************************************************************)
EXTENDS ChaosSweep

MCDelayLists == {<<1, 1>>, <<2, 0>>, <<2, -1>>}
VoidDelayLists == {<<0, 1, 2>>}
MCNotBefore == -1

Bare(kind) == [kind |-> kind]
Signed(r) == [kind |-> "signed", response |-> r]

(* Each field around its boundary, the revocation time only in a response    *)
(* whose other times are in order.                                           *)
Responses ==
  {r \in [status : {"good", "unknown", "revoked"}, thisUpdate : {-2, -1, 1, 2},
          producedAt : {1, 2}, nextUpdate : {{}, {-1}, {0}},
          revokedAt : {{}, {-3}, {-2}, {1}, {2}}] :
     /\ r.status # "revoked" => r.revokedAt = {}
     /\ r.status = "revoked" =>
          r.revokedAt = {-2} \/ (r.thisUpdate = -1 /\ r.producedAt = 1 /\ r.nextUpdate = {0})
     /\ r.producedAt = 2 => r.nextUpdate = {0} /\ r.thisUpdate = 1
     /\ r.nextUpdate = {-1} => r.thisUpdate = -2}
MCAnswers == {Bare("none"), Bare("empty"), Bare("invalid")} \cup {Signed(r) : r \in Responses}

CRLs ==
  {c \in [issuer : {"same", "other"}, keyID : {"same", "absent", "other"},
          thisUpdate : {-3, -2, 1, 2}, nextUpdate : {{}, {-1}, {0}},
          entries : {{}, {{}}, {{-3}}, {{-2}}, {{1}}, {{2}}}] :
     /\ (c.issuer = "same" /\ c.keyID = "same") \/ (c.thisUpdate = -2 /\ c.nextUpdate = {0})
     /\ c.entries \in {{}, {{-2}}} \/ (c.thisUpdate = -2 /\ c.nextUpdate = {0})
     /\ c.nextUpdate # {0} => c.thisUpdate < 0}
MCCRLAnswers == {Bare("none"), Bare("empty"), Bare("invalid")} \cup {Signed(c) : c \in CRLs}
=============================================================================
