------------------------- MODULE MCActiveExecution -------------------------
(* One organization; each recurrence reviews the first asset.               *)
EXTENDS ActiveExecution

CONSTANTS o1, a1, c1

MCOrgOf == [a \in Assets |-> o1]
MCAssetOf == [r \in Recurrences |-> a1]
MCCapabilityOf == [r \in Recurrences |-> c1]
=============================================================================
