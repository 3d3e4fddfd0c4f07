-------------------------------- MODULE MCTcp -------------------------------
(* Small instances of Tcp.                                                 *)
EXTENDS Tcp

CONSTANTS FlagSets, SeqNums, AckNums, Windows, PayloadSizes

\* the segments of a peer and a network that may send anything
MCSegments ==
  [flags : FlagSets, seq : SeqNums, ack : AckNums, window : Windows, size : PayloadSizes]
=============================================================================
