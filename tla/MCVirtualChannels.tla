------------------------- MODULE MCVirtualChannels -------------------------
(* Constants of VirtualChannels for TLC.                                   *)
EXTENDS VirtualChannels

CONSTANTS t1, t2, testChannel1, alpha, beta

\* The first character of each name: the key of Chip's map<char, int>.
MCNameKey == (testChannel1 :> "t") @@ (alpha :> "a") @@ (beta :> "b")

MCTiles == {t1, t2}

\* filter_incoming_messages polls senders 0 .. NUMBER_OF_WAVELENGTHS - 1,
\* which covers every tile, in id order.
MCWavelengths == <<t1, t2>>

\* A filter that passes signature 1 and discards signature 0.
MCVcFilterSettings == {[op |-> "AND", mask |-> 1, sig |-> 1]}

MCVcSigs == {0, 1}

============================================================================
