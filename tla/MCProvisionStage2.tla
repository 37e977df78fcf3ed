------------------------- MODULE MCProvisionStage2 -------------------------
(* Model-checking instance of ProvisionStage2: versions with components    *)
(* 0..1 (so every order between two triples occurs), the five upload       *)
(* attempts of the code, and user lists of up to five entries.             *)
EXTENDS ProvisionStage2

MCMaxComponent == 1
MCMaxUsers == 5
MCFlashAttempts == 5
=============================================================================
