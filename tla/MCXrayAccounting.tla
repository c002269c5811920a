------------------------- MODULE MCXrayAccounting -------------------------
(* Instances of XrayAccounting for TLC.                                    *)
EXTENDS XrayAccounting
=============================================================================
