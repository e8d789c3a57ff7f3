--------------------------- MODULE MCContractNet ---------------------------
(* Instances of ContractNet for TLC.                                        *)
EXTENDS ContractNet

CONSTANTS a1, a2

(* The second agent answers only from the second round on.                  *)
TwoThresholds == (a1 :> 1) @@ (a2 :> 2)
=============================================================================
