-------------------------- MODULE MCCoreMessaging --------------------------
(* Constants of CoreMessaging for TLC.                                     *)
EXTENDS CoreMessaging

\* A filter that passes signature 1 and discards signature 0.
MCFilterSettings == {[op |-> "AND", mask |-> 1, sig |-> 1]}

MCSigs == {0, 1}

\* No filter is set: every packet passes the default ALL filter.
NoFilterSettings == {}

OneSig == {1}

\* The tiles are interchangeable: no action tells one tile id from another.
TileSymmetry == Permutations(Tiles)

============================================================================
