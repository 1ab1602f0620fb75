---------------------------- MODULE MCDeployment ----------------------------
(* Deployment for TLC: two collaterals, one of which is MAHA itself. *)
EXTENDS Deployment

MCTokens == <<"MAHA", "ETH">>
=============================================================================
