--------------------------- MODULE EvidenceArchive ---------------------------
(***************************************************************************)
(* What an evidence directory is to whoever reads it later: an archive of  *)
(* records that are written once.  Nothing is known of a record while it   *)
(* is being written, and once it is there nothing removes or replaces it,  *)
(* neither another run nor a power loss.  An envelope comes only after the *)
(* report it signs, and a run that ends without an error has left all of   *)
(* its records.                                                            *)
(***************************************************************************)

CONSTANTS
  Runs,      \* executions of a cycle
  Cycles,    \* cycle IDs
  Names,     \* the records of a cycle, "report" and "attestation" among them
  Required,  \* those of them that a run without an error leaves
  None

VARIABLES
  archive,   \* the run that each record is of
  status,    \* how far each run is
  cycle      \* the cycle ID it drew

Records == Cycles \X Names

Init ==
  /\ archive = [f \in Records |-> None]
  /\ status = [r \in Runs |-> "unused"]
  /\ cycle = [r \in Runs |-> None]

Begin(r, c) ==
  /\ status[r] = "unused"
  /\ status' = [status EXCEPT ![r] = "running"]
  /\ cycle' = [cycle EXCEPT ![r] = c]
  /\ UNCHANGED archive

(* A record that is not there yet becomes one of r, which drew its cycle ID; *)
(* an envelope only beside the report of r.                                  *)
Enters(r, f) ==
  /\ cycle[r] = f[1]
  /\ archive[f] = None
  /\ archive'[f] = r
  /\ f[2] = "attestation" => archive[<<f[1], "report">>] = r

Add(r, f) ==
  /\ status[r] = "running"
  /\ UNCHANGED <<status, cycle>>
  /\ Enters(r, f)
  /\ archive' = [archive EXCEPT ![f] = r]

Return(r, result) ==
  /\ status[r] = "running"
  /\ status' = [status EXCEPT ![r] = result]
  /\ UNCHANGED <<archive, cycle>>
  /\ result = "nil" => \A n \in Required : archive[<<cycle[r], n>>] = r

(* What was being written may turn out to be there or not.                   *)
PowerLoss ==
  /\ status' = [r \in Runs |-> IF status[r] = "running" THEN "killed" ELSE status[r]]
  /\ UNCHANGED cycle
  /\ archive' \in [Records -> Runs \cup {None}]
  /\ \A f \in Records :
       \/ archive'[f] = archive[f]
       \/ \E r \in Runs : Enters(r, f)

Next ==
  \/ \E r \in Runs : \/ \E c \in Cycles : Begin(r, c)
                     \/ \E f \in Records : Add(r, f)
                     \/ \E result \in {"nil", "error", "killed"} : Return(r, result)
  \/ PowerLoss

Spec == Init /\ [][Next]_<<archive, status, cycle>>
=============================================================================
