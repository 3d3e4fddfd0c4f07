------------------------- MODULE TcpBlockBufferSpec -------------------------
(***************************************************************************)
(* What a block buffer promises its user: a bounded sequence of blocks     *)
(* that is kept in sequence-number order, filled anywhere and emptied at   *)
(* the front.  TcpBlockList implements it.                                 *)
(***************************************************************************)
EXTENDS TcpBlockBuffer

CONSTANTS Seqs, Sizes  \* the sequence numbers and payload sizes of blocks

VARIABLE buffer

BlockSet == [seq : Seqs, size : Sizes]

Init == buffer = <<>>

AddBlock(block) ==
  /\ HasFree(buffer)
  /\ ~ AddFaults(buffer, block.seq)
  /\ buffer' = Add(buffer, block)

RemoveBlock ==
  /\ buffer # <<>>
  /\ buffer' = RemoveFront(buffer, 1)

Next == RemoveBlock \/ \E block \in BlockSet : AddBlock(block)

Spec == Init /\ [][Next]_buffer

-----------------------------------------------------------------------------

\* The buffer is a sequence of blocks and never longer than the free list that
\* create_tcp_block_buffer links.
TypeOK == buffer \in Seq(BlockSet) /\ Len(buffer) <= BlockCount

\* Additions in any order leave the blocks in sequence-number order.
Sorted == InOrder(buffer)
=============================================================================
