----------------------------- MODULE MCChecksum -----------------------------
(* A small instance of Checksum: every header of FieldCount words.         *)
EXTENDS Checksum

CONSTANTS FieldCount

MCFields == [1 .. FieldCount -> Word]
MCPayloads == {<<>>, <<WordBase - 1, 2>>}
=============================================================================
