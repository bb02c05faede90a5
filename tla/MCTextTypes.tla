---------------------------- MODULE MCTextTypes ----------------------------
(* TextTypes for TLC: types of 5, 6, 12 and 14 bits, which lie to each other  *)
(* as 8, 16, 32 and 64 do.                                                    *)
EXTENDS TextTypes

MCBitsOf == [size \in {1, 2, 4, 8} |->
               CASE size = 1 -> 5 [] size = 2 -> 6 [] size = 4 -> 12 [] size = 8 -> 14]
=============================================================================
