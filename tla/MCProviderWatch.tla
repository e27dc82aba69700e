--------------------------- MODULE MCProviderWatch ---------------------------
(* Constants for model-checking ProviderWatch.                             *)
EXTENDS ProviderWatch
=============================================================================
