-------------------------------- MODULE MC_Bt --------------------------------
(* TLC instance of Bt: notifications of one or two bytes.                    *)
EXTENDS Bt

Chunks == {1, 2}
=============================================================================
