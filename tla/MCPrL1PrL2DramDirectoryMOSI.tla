-------------------- MODULE MCPrL1PrL2DramDirectoryMOSI --------------------
(* Model-checking instance of PrL1PrL2DramDirectoryMOSI: the constants    *)
(* that are sets of model values are given in the .cfg files.             *)
EXTENDS PrL1PrL2DramDirectoryMOSI

=============================================================================
