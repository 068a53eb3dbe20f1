----------------------------- MODULE MCPowerLoss -----------------------------
(* An instance of PowerLoss for TLC; the .cfg files give the constants.    *)
EXTENDS PowerLoss
=============================================================================
