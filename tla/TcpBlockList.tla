---------------------------- MODULE TcpBlockList ----------------------------
(***************************************************************************)
(* handlers/tcp/tcp_block_buffer.c, node by node: the two linked lists     *)
(* `blocks` and `free_list` over the array of blocks, and the loops of its *)
(* functions, one action per iteration.  A buffer has one user at a time   *)
(* here: `pc` says which call is under way.                                *)
(***************************************************************************)
EXTENDS TcpBlockBuffer

CONSTANTS
  Seqs, Sizes,  \* the sequence numbers and payload sizes the callers pass
  Null          \* the null pointer

Nodes == 0 .. DefaultSize

ASSUME ListAssumption ==
  Seqs \subseteq SeqNum /\ Sizes \subseteq Nat /\ Null \notin Nodes

VARIABLES
  next, sequence_num, payload_size,  \* the fields of every node
  free_list, blocks,                 \* the heads of the two lists
  pc,                                \* "idle" or the loop being executed
  new_block, previous_block, block,  \* locals of tcp_block_buffer_add
  num_to_remove,                     \* argument of remove_front, counted down
  start, num_ready,                  \* locals of tcp_block_buffer_num_ready
  asked,                             \* the start it was called with
  fault                              \* a null pointer was dereferenced

nodeFields == <<next, sequence_num, payload_size>>
lists == <<free_list, blocks>>
addLocals == <<new_block, previous_block>>
countLocals == <<start, num_ready, asked>>
vars == <<nodeFields, lists, pc, addLocals, block, num_to_remove, countLocals, fault>>

Pointer == Nodes \union {Null}

\* Links lead to nodes, sequence numbers stay 32-bit (SeqSpace), and the counters
\* of the three loops stay within the number of blocks.
TypeOK ==
  /\ next \in [Nodes -> Pointer]
  /\ sequence_num \in [Nodes -> SeqNum] /\ payload_size \in [Nodes -> Sizes \union {0}]
  /\ free_list \in Pointer /\ blocks \in Pointer
  /\ pc \in {"idle", "add", "remove", "count"}
  /\ new_block \in Pointer /\ previous_block \in Pointer /\ block \in Pointer
  /\ num_to_remove \in 0 .. BlockCount
  /\ start \in SeqNum /\ asked \in SeqNum /\ num_ready \in 0 .. BlockCount
  /\ fault \in BOOLEAN

\* create_tcp_block_buffer: the free list runs from node 0 to node DefaultSize
Init ==
  /\ next = [n \in Nodes |-> IF n = DefaultSize THEN Null ELSE n + 1]
  /\ sequence_num = [n \in Nodes |-> 0] /\ payload_size = [n \in Nodes |-> 0]
  /\ free_list = 0 /\ blocks = Null
  /\ pc = "idle" /\ new_block = Null /\ previous_block = Null /\ block = Null
  /\ num_to_remove = 0 /\ start = 0 /\ num_ready = 0 /\ asked = 0
  /\ fault = FALSE

-----------------------------------------------------------------------------
(* tcp_block_buffer_add *)

\* a call may be made: none is under way and the process lives
Idle == pc = "idle" /\ ~ fault

AddNoFree ==
  /\ Idle /\ free_list = Null
  /\ UNCHANGED vars

AddTake(seq, size) ==
  /\ Idle /\ free_list # Null
  /\ free_list' = next[free_list]
  /\ sequence_num' = [sequence_num EXCEPT ![free_list] = seq]
  /\ payload_size' = [payload_size EXCEPT ![free_list] = size]
  /\ next' = [next EXCEPT ![free_list] = Null]
  /\ IF blocks = Null
     THEN /\ blocks' = free_list
          /\ UNCHANGED <<pc, new_block, block>>
     ELSE /\ new_block' = free_list /\ block' = blocks /\ pc' = "add"
          /\ UNCHANGED blocks
  /\ UNCHANGED <<previous_block, num_to_remove, countLocals, fault>>

\* Mutation of PassesBlock: a block goes before those with the same number.
PassesBlockStrictly == block # Null /\ sequence_num[new_block] > sequence_num[block]

\* the loop's condition
PassesBlock == block # Null /\ sequence_num[new_block] >= sequence_num[block]

\* Mutation of AddWalk: the loop does not advance.
AddWalkStuck ==
  /\ pc = "add" /\ PassesBlock
  /\ previous_block' = block
  /\ UNCHANGED <<nodeFields, lists, pc, new_block, block, num_to_remove, countLocals, fault>>

AddWalk ==
  /\ pc = "add" /\ PassesBlock
  /\ previous_block' = block /\ block' = next[block]
  /\ UNCHANGED <<nodeFields, lists, pc, new_block, num_to_remove, countLocals, fault>>

AddLink ==
  /\ pc = "add" /\ ~ PassesBlock
  /\ IF previous_block = Null
     THEN next' = [next EXCEPT ![new_block] = block] /\ fault' = TRUE
     ELSE /\ next' = [next EXCEPT ![new_block] = block, ![previous_block] = new_block]
          /\ UNCHANGED fault
  /\ pc' = "idle" /\ new_block' = Null /\ previous_block' = Null /\ block' = Null
  /\ UNCHANGED <<sequence_num, payload_size, lists, num_to_remove, countLocals>>

-----------------------------------------------------------------------------
(* tcp_block_buffer_remove_front *)

RemoveStart(count) ==
  /\ Idle
  /\ pc' = "remove" /\ num_to_remove' = count /\ block' = blocks
  /\ UNCHANGED <<nodeFields, lists, addLocals, countLocals, fault>>

\* Mutation of RemoveStep: the rest of the free list is dropped.
RemoveStepForgetsFreeList ==
  /\ pc = "remove" /\ num_to_remove > 0 /\ block # Null
  /\ num_to_remove' = num_to_remove - 1
  /\ blocks' = next[block]
  /\ next' = [next EXCEPT ![block] = Null]
  /\ free_list' = block
  /\ block' = blocks'
  /\ UNCHANGED <<sequence_num, payload_size, pc, addLocals, countLocals, fault>>

RemoveStep ==
  /\ pc = "remove" /\ num_to_remove > 0 /\ block # Null
  /\ num_to_remove' = num_to_remove - 1
  /\ blocks' = next[block]
  /\ next' = [next EXCEPT ![block] = free_list]
  /\ free_list' = block
  /\ block' = blocks'
  /\ UNCHANGED <<sequence_num, payload_size, pc, addLocals, countLocals, fault>>

RemoveEnd ==
  /\ pc = "remove" /\ (num_to_remove = 0 \/ block = Null)
  /\ pc' = "idle" /\ num_to_remove' = 0 /\ block' = Null
  /\ UNCHANGED <<nodeFields, lists, addLocals, countLocals, fault>>

-----------------------------------------------------------------------------
(* tcp_block_buffer_num_ready *)

CountStart(start_sequence_num) ==
  /\ Idle
  /\ pc' = "count" /\ block' = blocks
  /\ start' = start_sequence_num /\ asked' = start_sequence_num /\ num_ready' = 0
  /\ UNCHANGED <<nodeFields, lists, addLocals, num_to_remove, fault>>

\* Mutation of BlockIsReady: no allowance for acks.
BlockIsReadyNoAcks == block # Null /\ sequence_num[block] = start

\* the loop's condition
BlockIsReady ==
  /\ block # Null
  /\ sequence_num[block] = start \/ sequence_num[block] = Plus(start, 1)

CountStep ==
  /\ pc = "count" /\ BlockIsReady
  /\ num_ready' = num_ready + 1
  /\ start' = Plus(sequence_num[block], payload_size[block])
  /\ block' = next[block]
  /\ UNCHANGED <<nodeFields, lists, pc, addLocals, num_to_remove, asked, fault>>

CountEnd ==
  /\ pc = "count" /\ ~ BlockIsReady
  /\ pc' = "idle" /\ block' = Null
  /\ start' = 0 /\ asked' = 0 /\ num_ready' = 0
  /\ UNCHANGED <<nodeFields, lists, addLocals, num_to_remove, fault>>

-----------------------------------------------------------------------------

Loop == AddWalk \/ AddLink \/ RemoveStep \/ RemoveEnd \/ CountStep \/ CountEnd

Next ==
  \/ Loop
  \/ AddNoFree
  \/ \E seq \in Seqs, size \in Sizes : AddTake(seq, size)
  \/ \E count \in 0 .. BlockCount : RemoveStart(count)
  \/ \E start_sequence_num \in Seqs : CountStart(start_sequence_num)

\* a call that was entered keeps executing its loop
Spec == Init /\ [][Next]_vars /\ WF_vars(Loop)

-----------------------------------------------------------------------------
(* The lists as sequences *)

\* the node at place i of a list, and the null pointer behind its end
NodeAt(list, i) == IF i <= Len(list) THEN list[i] ELSE Null

\* `list` is what one finds from p along the links
IsList(list, p) ==
  /\ p = NodeAt(list, 1)
  /\ \A i \in 1 .. Len(list) : next[list[i]] = NodeAt(list, i + 1)

ListFrom(p) ==
  CHOOSE list \in UNION {[1 .. n -> Nodes] : n \in 0 .. BlockCount} : IsList(list, p)

Contents(p) ==
  LET list == ListFrom(p)
  IN  [i \in 1 .. Len(list) |->
         [seq |-> sequence_num[list[i]], size |-> payload_size[list[i]]]]

-----------------------------------------------------------------------------

(***************************************************************************)
(* No block is lost, shared or linked twice: at every moment each node is  *)
(* exactly once in `blocks`, in `free_list` or in the hand of              *)
(* tcp_block_buffer_add.                                                   *)
(***************************************************************************)
BlocksPartitioned ==
  ~ fault =>
    LET inHand == IF pc = "add" THEN <<new_block>> ELSE <<>>
        all == ListFrom(blocks) \o ListFrom(free_list) \o inHand
    IN  Len(all) = BlockCount /\ Range(all) = Nodes

(***************************************************************************)
(* When the loop of tcp_block_buffer_num_ready stops it has counted the    *)
(* blocks that follow each other from the start it was asked about, no     *)
(* fewer and no more.                                                      *)
(***************************************************************************)
CountsTheReadyRun ==
  [][ CountEnd => num_ready = NumReady(Contents(blocks), asked) ]_vars

\* The list implements the abstract buffer (its user sees `blocks` only).
Abstract == INSTANCE TcpBlockBufferSpec WITH buffer <- Contents(blocks)
ImplementsBuffer == Abstract!Spec

\* The list is in sequence-number order whatever the order of the additions.
ListSorted == InOrder(Contents(blocks))

(***************************************************************************)
(* The list is well-formed between any two steps: typed, sorted, and no    *)
(* block of it lost or linked twice.                                       *)
(***************************************************************************)
ListWellFormed == TypeOK /\ BlocksPartitioned /\ ListSorted

\* Every loop over the list ends: no call of the three functions can spin.
CallsReturn == (pc # "idle") ~> (pc = "idle")

(***************************************************************************)
(* tcp_block_buffer.c:30 says of the new block "Place the new block        *)
(* between these 2 blocks", whatever its sequence number.                  *)
(***************************************************************************)
AddPlacesEveryBlock == ~ fault

(***************************************************************************)
(* create_tcp_block_buffer allocates "tcp block buffer: free_list" with    *)
(* TCP_BLOCK_BUFFER_DEFAULT_SIZE blocks; only those may be handed out.     *)
(***************************************************************************)
OnlyAllocatedBlocks == \A i \in 1 .. Len(ListFrom(blocks)) : ListFrom(blocks)[i] < DefaultSize
=============================================================================
