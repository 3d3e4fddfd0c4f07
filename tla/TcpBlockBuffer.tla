--------------------------- MODULE TcpBlockBuffer ---------------------------
(***************************************************************************)
(* The block buffers of a transmission control block                       *)
(* (handlers/tcp/tcp_block_buffer.c) seen through what their functions     *)
(* compute: the linked list `blocks` is a sequence of blocks, each with    *)
(* its sequence number `seq` and its payload size `size`.  Module          *)
(* TcpBlockList has the list itself, node by node, and is checked to       *)
(* implement these operators; Tcp uses them for in_buffer and out_buffer.  *)
(*                                                                         *)
(* Sequence numbers are uint32_t: sums wrap, comparisons do not.           *)
(***************************************************************************)
EXTENDS Naturals, Sequences, SequencesExt

CONSTANTS
  SeqSpace,    \* 2^32 in the code: sequence numbers are 0 .. SeqSpace - 1
  DefaultSize  \* TCP_BLOCK_BUFFER_DEFAULT_SIZE

ASSUME SeqSpaceAssumption == SeqSpace \in Nat \ {0}
ASSUME DefaultSizeAssumption == DefaultSize \in Nat \ {0}

SeqNum == 0 .. SeqSpace - 1

\* uint32_t addition
Plus(a, b) == (a + b) % SeqSpace

(***************************************************************************)
(* create_tcp_block_buffer allocates DefaultSize blocks and links one      *)
(* more: the node free_list[DefaultSize] lies behind the allocation.       *)
(***************************************************************************)
BlockCount == DefaultSize + 1

\* the length of the longest run 1, 2, ..., k of members of S, at most n
PrefixLength(n, S) ==
  CHOOSE k \in 0 .. n : /\ 1 .. k \subseteq S
                        /\ k < n => k + 1 \notin S

-----------------------------------------------------------------------------
(* tcp_block_buffer_add *)

HasFree(buffer) == Len(buffer) < BlockCount

\* Mutation of WalkedPast: the new block is appended.
WalkedPastAll(buffer, seq) == Len(buffer)

\* the blocks the insertion loop walks past
WalkedPast(buffer, seq) ==
  PrefixLength(Len(buffer), {i \in 1 .. Len(buffer) : seq >= buffer[i].seq})

(***************************************************************************)
(* The loop remembers the last block it passed in previous_block.  When it *)
(* passes none in a list that is not empty, previous_block is null and is  *)
(* dereferenced.                                                           *)
(***************************************************************************)
AddFaults(buffer, seq) ==
  HasFree(buffer) /\ buffer # <<>> /\ WalkedPast(buffer, seq) = 0

Add(buffer, block) ==
  IF HasFree(buffer)
  THEN InsertAt(buffer, WalkedPast(buffer, block.seq) + 1, block)
  ELSE buffer

-----------------------------------------------------------------------------
(* tcp_block_buffer_remove_front *)

RemoveFront(buffer, num_to_remove) ==
  SubSeq(buffer, num_to_remove + 1, Len(buffer))

-----------------------------------------------------------------------------
(* tcp_block_buffer_num_ready *)

\* where block i has to start so that it follows what is before it
StartOf(buffer, start, i) ==
  IF i = 1 THEN start ELSE Plus(buffer[i - 1].seq, buffer[i - 1].size)

\* "allow for acks": one past the start is accepted too
Follows(buffer, start, i) ==
  buffer[i].seq \in {StartOf(buffer, start, i),
                     Plus(StartOf(buffer, start, i), 1)}

NumReady(buffer, start) ==
  PrefixLength(Len(buffer), {i \in 1 .. Len(buffer) : Follows(buffer, start, i)})

-----------------------------------------------------------------------------

\* the order the list is kept in
InOrder(buffer) ==
  \A i, j \in 1 .. Len(buffer) : i < j => buffer[i].seq <= buffer[j].seq
=============================================================================
