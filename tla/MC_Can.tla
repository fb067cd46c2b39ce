-------------------------------- MODULE MC_Can --------------------------------
(* TLC instance of Can: fewer ids and cells per frame.                        *)
EXTENDS Can
=============================================================================
