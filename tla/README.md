# Verification of net_stack

TLA+ modules for the network stack in this repository: a DPDK process that
receives Ethernet frames, hands them through protocol handlers (Ethernet, ARP,
IPv4, TCP) and writes responses. TLC checks the modules on small instances;
TLAPS proves the core invariants for every value of the constants.

Run `tlc -config X.cfg M` for the runs below and `tlapm M.tla` for the modules
whose names end in `_proofs`. `PROJECT.json` maps every definition to the source
lines it models and lists the runs, the mutations that each property must
notice, the findings, the hazards and the theorems.

## 1. Inventory

| Component | State | Operations | Shared with |
|---|---|---|---|
| segment buffer `handlers/tcp/tcp_block_buffer.c` | list `blocks`, `free_list` | add, remove_front, num_ready | every TCP connection has two |
| TCP connection `handlers/tcp/*` | the tcb (state, send and receive variables, `out_header`), both buffers | `tcp_read` and the state functions `tcp_listen`, `tcp_syn_sent`, `tcp_others`; `tcp_write`; the socket's `connect` and `send` | worker and application thread, without a common lock |
| TCP tables `handlers/tcp/socket.c` | the handler's list of sockets, each socket's 32 tcbs, a lock for each | look up, add and delete a tcb; `tcp_create_socket`, `tcp_add_socket`, `tcp_get_socket` | worker and application threads; the lock is held for the scan only |
| header writing `ethernet.c`, `ipv4.c`, `arp.c`, `tcp.c` | an `out_packet_stack_t`: handlers, arguments, `stack_idx`, `offset` | the `write` functions, each calling the one below | the thread that writes |
| dispatch `handlers/protocol_map.c`, `ethernet.c`, `ipv4.c`, `net_stack.c` | two priority maps | `add_value`, `get_value`, the `read` functions | the worker only |
| checksums `ipv4.c`, `tcp_shared.c` | the checksum field of `out_header` | the two sums, `ipv4_write`, `tcp_write`, `ipv4_read` | - |
| start-up `main.c` | ports, `interfaces`, the locals of the link check | EAL and pool, one port after another, `check_all_ports_link_status`, `net_stack_init` | signal handler, NIC |
| pipeline `main.c`, `worker.c`, `dpdk/*` | work ring, write ring, mbuf pool, NIC queues, `force_quit` | `offloader_loop`, `consume_tasks`, `dpdk_write_write` | main lcore, worker lcore, NIC |
| ARP `handlers/arp/*`, `programs/arp/arp.c` | resolution list, `insert_idx`, a read-write lock | `arp_read`, insert, lookup, `status` | worker and the program's thread |

Hard behaviours: two threads on one tcb; segments out of order, duplicated or
outside the window; queued blocks that outlive the packet they point to;
sequence numbers that wrap; byte orders; rings and pools at their limits; calls
whose failure is only logged; a lock that is released before the entry it
protects is written; memory that `malloc` leaves uninitialised.

What makes each component correct: the buffer is a sorted sequence and its
nodes are partitioned; TCP never reads an absent head, never delivers before the
handshake, is established only after connect has counted its SYN, moves
`receive_next` only forward and closes its window by what it delivers; a
connection is found until it is reset and its tcb is not freed in somebody's
hands; a packet leaves once, in order and with one header of each layer, and a
write ends; dispatch keeps every registration and confuses protocols only where
an entry moves; the sums are one's complement sums; an mbuf has one owner and
nothing is reordered; the resolution list has no duplicates, no gaps and the
latest address of each sender.

## 2. Modules

| Module | Models | State and actions |
|---|---|---|
| `TcpBlockBuffer` | what the buffer functions compute | operators `Add`, `RemoveFront`, `NumReady` on sequences of blocks |
| `TcpBlockBufferSpec` | abstract specification of a buffer | `buffer`; `AddBlock`, `RemoveBlock` |
| `TcpBlockList` | `tcp_block_buffer.c`, pointer by pointer | `next`, `free_list`, `blocks` and the locals of the three loops; one action per loop iteration. Implements `TcpBlockBufferSpec` through `buffer <- Contents(blocks)` |
| `Tcp` | one connection of one socket | `tcb`, `in_buffer`, `out_buffer` (built on `TcpBlockBuffer`), the worker's place in a packet, the application's thread; one action per branch of the state functions |
| `TcbTable` | the socket list and the tables of tcbs, several connections | `tcp_sockets`, `trans_control_block`, the blocks ever created, the places of worker and applications; one action per critical section, and per use of a pointer after it |
| `TcpWrite` | `tcp_write` in steps, the writes below it and the other writers of `send_next` | `out_header`, `send_next`, `out_buffer` of one connection, the packets with their arguments, index and headers, the places of both threads; one action per access to what the threads share |
| `Dispatch` | `net_stack_init`, `protocol_map.c`, `ethernet_read`, `ipv4_read` | the two maps; one action per outcome of a read |
| `Checksum` | both sums and their uses | `out_checksum`, the words last sent; `Ipv4Write`, `TcpWrite`, and the network altering a word |
| `Startup` | `main` up to the start of the worker, `signal_handler` | ports found and started, `interface`, the locals of the link check; one action per port, per port and round of the link check, and per way out |
| `Pipeline` | the rest of `main`, `offloader_loop`, `consume_tasks`, `dpdk_write_write` | extends `Startup` with rings, pool, NIC queues; one action per call that another lcore can observe |
| `Arp` | `arp_read`, the resolution list, `status` | list, heap of entries, the places of the two threads; one action per step outside or inside the lock |
| `MC*` | instances for TLC | sets too long for a cfg, symmetry |
| `*_proofs` | theorems | |

`Tcp` composes the connection with `TcpBlockBuffer`, the abstraction that
`TcpBlockList` is shown to implement, and so does `TcpWrite`. The three views of
TCP divide the work: `Tcp` has the protocol of one connection, with a write as
one step; `TcpWrite` has the steps of a write, with the protocol reduced to the
window and the numbers it may set; `TcbTable` has many connections, each reduced to what
decides whether its block is stored, found or deleted. `Pipeline` continues
`Startup`; `Pipeline` and `Dispatch` describe what happens to a packet before
`tcp_read` and `arp_read` see it.

### How the models read the code

- **Faults.** A null dereference, an overrun, a stack index below zero, dangling
  arguments or a race inside the block list sets `fault`, after which nothing
  happens: the process has crashed or is beyond what C defines, and everything
  is stated up to that point. Those runs say `CHECK_DEADLOCK FALSE` for this reason;
  `Pipeline` does because its bounded number of frames runs out.
- **Sequence numbers** are `0 .. SeqSpace - 1` and wrap as `uint32_t` does;
  windows are two "bytes" of base `ByteBase`, so that `ntohs` is a swap and not
  the identity. `HeaderRoom` and `LowerRoom` are what of a payload leaves room
  for the TCP header and for the headers below it.
- **Stack frames.** `tcp_read` queues a pointer to the worker's `packet_stack`,
  a local of `consume_tasks` that each packet reuses. In `Tcp` every block is
  therefore read as the packet the worker has now, as in the build, where the
  frame is at the same address each time.
- **The handler above TCP** is `custom.c`: it writes one response, possibly
  empty, or there is none. `WritePayload` is that write and the application's.
- **A payload's size** is a `uint16_t` computed from two unchecked length fields:
  any number of that width, larger than the window too. `tcp_others` tests it
  against the window, `tcp_syn_sent` (tcp_states.c:162) does not, which is why
  `WindowCloses` is about the former.
- **The index above TCP.** `tcp_receive_payload` increments `stack_idx`
  (tcp_states.c:105) and nobody takes it back. The answer to a FIN that came with
  payload (tcp_states.c:328) is therefore begun one handler above TCP: `tcp_write`
  hands it to `tcp_write`, whose arguments were a local of a call that has
  returned. It finds no socket there and gives up, with the block still queued,
  or goes on with whatever is there, which is the fault `dangling_args`
  (`TcpWriteAbove` in `Tcp`, `LowerAgain` in `TcpWrite`). A block kept in this
  way makes later writes recur too (`Recurs`).
- **Two tcbs for one connection.** `tcp_socket_connect` looks nothing up before it
  adds its tcb, and `tcp_read` looks up and adds under two locks. In `Tcp` the
  lookup and the creation are two steps (`TcpReadNew`, `CreateTcb`); if the other
  thread has added one by then, the later tcb is a second one that no lookup
  finds (`CreateSecond`, `app = "duplicate"`). `tcp_listen` then runs for it but
  writes through the first, and its reset frees both (`app = "dangling"`).
- **Writes are atomic** in `Tcp`: the interleavings it explores are those
  between the application's calls and the worker's steps. `tcp_socket_connect`
  is two steps, the write of the SYN with the publication of the tcb, and the
  increment of `send_next` after it. `TcpWrite` takes the write apart:
  `tcb->send_next += n` is a load and a store, and the loop over `out_buffer`
  looks at the head, writes it and removes the front in three steps. The
  functions of `tcp_block_buffer.c` take no lock: when two threads are inside
  them at once, the outcome may be the one of some order of the two, or a list
  that is no list any more, which is the fault `list_race` (`ListRace`).
- **Other writers of `send_next`** in `TcpWrite`: the state functions give it a
  value afresh before a reset or a SYN (`Renumber`; tcp_states.c:300, 378, 390),
  and `send_next++` after a SYN or a FIN is a load and a store (`CountLoad`,
  `CountStore`; tcp_states.c:330, 395, socket.c:217). `misnumbered` remembers the
  packets from before such an assignment and those under way during such an
  increment.
- **Races** in `TcpWrite`. `mixed` remembers every packet that was being written
  or was queued while two threads were inside `tcp_write`. What the code
  promises can only hold for the others; the properties say that the damage does
  not spread to them. What is said about the bytes of the stream also excepts
  `misnumbered`. `HeaderNotMixed` is the promise without these exceptions.
- **Arguments are pointers.** Those of a response point to locals of the read
  functions and of `tcp_write`'s caller. `Layer` records whether the frame still
  existed when a header was written from them.
- **`tcp_listen`'s test for SYN** (tcp_states.c:382) is `bits | (SYN == SYN)`,
  which is always true; the models have no such guard.
- **Fresh tables.** Neither `tcp_init_handler` nor `tcp_create_socket` clears its
  table. `ListMemory` and `TableMemory` are what `malloc` may leave there: 0 or a
  `Wild` pointer, which is a fault once it is followed. `tcb->lock` is never
  initialised either, so locking it may fail (`DeleteTcb`).
- **Byte order in `Dispatch`.** Fields are compared as they lie in memory, on a
  little-endian machine; `htons` is modelled as the swap. An ARP packet that
  ends up in `ipv4_read` fails the checksum: its first byte is 0, so the sum is
  over no words. `arp_read` goes by the body alone (arp.c:123-124), so that a
  frame of IPv4's type with such a body is processed as ARP when a lookup
  misdirects it; a frame has an `arp_body` or not, whatever its type.
- **`pro_type` in `arp_read`** is compared with `ETHERNET_TYPE_IPV6`, which is
  0x8, the memory order of IPv4's type: IPv4 packets pass. `Arp` calls such
  packets `supported`.
- **Memory.** The Makefile passes both `-D` options as one quoted word, which
  defines `RTE_THREAD_MANAGEMENT` only: threads are lcores, and
  `NET_STACK_MALLOC` is `malloc`. Fresh memory is arbitrary (`InitialIndex`,
  `Garbage`): `insert_idx` may start anywhere. Outside the list the first
  insertion frees what it finds there, which is undefined, or stores the entry
  where no search finds it (`InsertOutside`).

## 3. Runs

Passing runs:

| Run | Bounds | Shows |
|---|---|---|
| `TcpBlockList` | 3 nodes, sequence numbers 0..3 with wrap | nodes partitioned between the two lists and sorted, the count equals the abstract one, each call returns, and the list implements the abstract buffer |
| `Tcp_passive` | 2 blocks, 8 sequence numbers with the wrap inside the window, every flag combination the code tells apart, peer arbitrary | all properties of a listening connection, and that every packet is finished with |
| `Tcp_active` | 2 blocks, 16 sequence numbers, connect and sends, payloads of 0, 1 and, above the window, 3 | connect's tcb is deleted under its hands only by the reset of a second tcb; the connection is established only when connect has counted its SYN; nothing is sent with data in SYN_SENT |
| `TcbTable` | 2 sockets, a list of 3, tables of 2, 3 tcbs, 2 remote ports, one application beside the worker | lookups, additions and deletions under separate locks, full tables, gaps, uninitialised memory |
| `TcpWrite` | 3 packets of sizes 0, 2, 3 in buffers of 6, begun at TCP or above it, windows 1 and 3, a queue of 2 blocks, one change of `send_next` from outside, both threads | what a race damages, headers, order, loss and termination, up to a fault |
| `Dispatch` | ARP, IPv4, an unknown type and two lengths; every outcome of the IPv4 tests and of ARP's; 4 lookups of each type | registrations survive reordering; a supported frame is lost at most once in a row; the wrong protocol processes a frame only when its type moves to the front |
| `Checksum` | words to base 6, headers of 2 words and a checksum, payloads of 0 and 2 words, 2 words of memory behind the TCP header | both sums agree with the definition; the IPv4 checksum protects |
| `Pipeline` | no port, port 0, port 1 or both; a link check of 3 rounds; with and without a worker lcore; 2 frames, 3 responses each, 4 mbufs, work ring 1, write ring 3 | the link report, ownership, order, start-up, handling of what is queued, the way out after a signal |
| `Arp` | list of 2, 3 senders, 2 addresses; `insert_idx` starting at 0, 1 or outside the list | list invariants through wrap-around, with a concurrent status; no gap, duplicate or old address from a start at 0 |

Why the bounds are enough: three nodes give a front, a middle and an end to
insert at and a full list; a window of 3 and payloads of 2 (in `Tcp_wrap` 1 and
3) close it partly, exactly and not at all; 8 sequence numbers put the wrap
inside a window. A table
of two with three tcbs is full, has gaps after a deletion and holds duplicates;
a list of three is full with two sockets. In `TcpWrite` the windows admit only
empty packets, or any, so that packets are kept and sent later together; a queue
of two refuses the third; three packets leave room for both threads to be inside
twice; a buffer of 6 has room for the headers of a packet or, when its index was
moved by another, not; one change of `send_next` falls before, into and after
the writes of either thread. In `Pipeline` a work ring of one and a burst of two
overflow it, six responses overflow the write ring and the transmit queue, and
four mbufs run out. The link check's limit of 2 has a first, a middle and the
printing round. A list of two with three senders wraps.

`Tcp_large` (3 blocks, 16 sequence numbers, all safety properties) and
`Tcp_wrap` (other sizes at the wrap) are larger instances of `Tcp_passive` that
also pass.

Runs that are expected to find a violation state what a comment, a test or a
document says and the code does not do. Each is a finding in `PROJECT.json`:

| Run | Where | What |
|---|---|---|
| `TcpBlockList_head` | tcp_block_buffer.c:43 | no place before the first block: null dereference |
| `Dispatch_lost` | protocol_map.c:42 | the lookup that swaps returns the wrong handler |
| `Checksum_tcp` | tcp.c:134 | the checksum covers the wrong bytes |

### Further configurations

The modules state more than the runs check, and each has a configuration beside
it. One holds: `Arp_returns` (list of 2, 2 senders: an insertion gets the write
lock although status takes the read lock again and again), which is apart from
`Arp` because a liveness property must not be checked under symmetry. The others
are further places where TLC finds the code to differ from what its comments,
tests or documents say. `Pipeline_exhausted`, `_leak` and `_dropped` use
`MCPipeline`, which adds the symmetry of the mbufs; the `Tcp_*` configurations
use `MCTcp`, the `Arp_*` ones `MCArp`, and the others the module they are named
after. Where the table names the configuration of a passing run, TLC finds the
violation with that run's constants when the property takes the place of the
run's own:

| Configuration | Property | Where | What |
|---|---|---|---|
| `TcpBlockList_overrun` | `OnlyAllocatedBlocks` | tcp_block_buffer.c:97 | one block more than allocated |
| `Tcp_connect_race` | `SynAckAccepted` | socket.c:217 | the SYN-ACK can overtake `send_next++` |
| `Tcp_window` | `KeptOnlyIfTooLarge` | tcp.c:150 | send window byte-swapped once too often |
| `Tcp_queued` | `QueuedPacketIntact` | tcp.c:156 | a kept packet is sent with another packet's index |
| `Tcp_reset` | `ResetFlushes` | tcp_states.c:222 | `==` for `=`, nothing flushed |
| `Tcp_skip` | `DeliveredInSequence` | tcp_block_buffer.c:71 | a byte is skipped |
| `Tcp_stale` | `ReadsOwnBlock` | tcp.c:203 | a queued block outlives its packet |
| `Tcp_early_data` | `SendWaitsForHandshake` | socket.c:223 | data before the handshake |
| `Tcp_terminated` | `TerminationSignalled` | socket.c:227 | send on a deleted tcb |
| `Tcp_fin_payload` | `AcknowledgedStaysAcknowledged` | tcp_states.c:327 | FIN with payload moves `receive_next` back |
| `Tcp_wrap_window` | `WindowAccounting` | tcp_states.c:26 | window underflow at the wrap |
| `Pipeline_leak` | `MbufsAccounted` | main.c:178 | two mbufs leak per idle round |
| `Pipeline_exhausted` | `MbufOwnedAlways` | main.c:180 | mbufs in use are filled and sent again |
| `Pipeline_dropped` | `EveryMbufQueued` | main.c:174 | a full work ring loses the packet and its mbuf |
| `Pipeline_unserviced` | `WritesServiced` | main.c:177 | a single response is never sent |
| `Pipeline` | `SignalEnds` | main.c:399 | after a signal main waits for a worker that nobody stops ("does not work in current implementation", main.c:147) |
| `Pipeline` | `InterfaceExists` | main.c:359 | without a port `interfaces` is null |
| `TcbTable_shared` | `OwnConnection` | tcp_shared.c:21 | two hosts with the same ports share a tcb |
| `TcbTable` | `NoUseAfterFree` | socket.c:112 | a reset frees the tcb that connect still uses |
| `TcbTable` | `ScanEnds` | socket.c:160 | a scan beside `tcp_add_socket` runs past the end of the list |
| `TcpWrite` | `TcpAboveIpv4` | tcp.c:156 | a kept packet leaves without its IPv4 header |
| `TcpWrite` | `ArgumentsLive` | tcp.c:153 | a kept packet is written from arguments that are gone |
| `TcpWrite` | `HeaderNotMixed` | tcp.c:118 | a packet carries the header of another |
| `Arp_index` | `LookupFindsEvery` | arp.c:57 | `insert_idx` uninitialised |
| `Arp_torn` | `StatusNotTorn` | arp.c:128 | unlocked update against `status` |
| `Arp_count` | `StatusCountsEntries` | arp/socket.c:35 | count uninitialised for a full list |

### Fairness

- `TcpBlockList`, `Tcp`: weak fairness of a call or packet already begun. The
  code is sequential there and waits for nothing.
- `TcpWrite`: none. `CallsEnd` says that a call ends without it: every step of a
  thread inside `tcp_write` leaves it less to do (`Left`), and no step of the
  other gives it more, however much the other queues.
- `Pipeline`: weak fairness of the main lcore, of the worker's dequeue and of the
  return from a handler (both are polling loops on lcores of their own), and of
  the NIC's transmission. None for arriving frames, writes or the signal.
- `Arp`: weak fairness of the steps of `arp_read` and `status`, strong fairness
  of the insertion: there is one reader, and its unlock wakes the waiting
  writer. None for packets or for the start of a status.

## 4. Proofs

`TcpBlockBuffer_proofs` has the lemmas on the operators: what the walk passes,
that inserting there keeps the sequence sorted and one longer (`AddProperties`),
that removing from the front keeps it sorted (`RemoveFrontProperties`), and
that no more blocks are ready than there are (`NumReadyBound`).

`TcpBlockList_proofs` proves every property of `TcpBlockList` that its run checks,
liveness apart, for every number of blocks, sequence numbers, sizes and sequence
of calls: `ListWellFormed`, `CountsTheReadyRun`, the refinement
`ImplementsBuffer`, and from these `BufferSorted`, what a user sees of the buffer.
The invariant `ListInv` says that there are two sequences of nodes, `used` and
`free`, such that `Shape(used, free)`: each is what the links lead to from
`blocks` and from `free_list`; together with the node in the hand of
tcp_block_buffer_add they have every node once (`Parted`); `used` is sorted; and
the loop under way stands behind as many nodes as its locals say (`Passed`,
`Counting`). The sequences are witnesses, not read by recursion: `OneList` shows
that the links determine a list, so `ListFrom` finds exactly these (`Found`), and a
step only has to name the new ones, a node put in front (`InFront`) or behind the
k it passed (`Inserted`). `ListStep` does so for each action and records in
`Changes` what became of `used`; `BufferStep` reads off the step of the abstract
buffer. The null dereference of tcp_block_buffer_add is inside the theorems: it
sets `fault`, after which the list is still sorted and no call is made, and what
was in hand is lost, which is why `BlocksPartitioned` speaks of the time before.

`Tcp_proofs` proves, for every sequence space, capacity, window, set of segments
and behaviour of the application, every property of `Tcp` that the runs check,
liveness apart. None is inductive alone. The first invariant is

    IInv == OutOK /\ WorkOK /\ ConnOK

`OutOK` types and sorts the out_buffer and types what is sent; `WorkOK` says the same of the in_buffer
and relates it to the worker's place: while a packet is handled, `num_ready`
lies between 1 and the length of the in_buffer. That needs `NumReadyBound` when
the worker starts and the sorted buffer when a block is removed. `ConnOK` types the
tcb and the application's place and says that `delivered` is 0 unless the
connection is established or closing; it has to be carried along with the
types of the tcb because `receive_next` and the window move with the delivery.
`TypeOK`, `BuffersSorted`, `HeadPresent` and `DataAfterHandshake` follow from it.
The second invariant, proved on top of the first, is `CInv`:

    UnderWay /\ EarlyPlace /\ SynSentFields /\ Connecting /\ LocalState /\ SeenInWindow

It relates a packet under way to the state of the connection. `Connecting` is
why `ConnectHoldsTcb` and `CountedBeforeEstablished` hold: while connect's tcb is
the connection's and its SYN is not counted, send_next is `Iss`, so no
acknowledgement is acceptable, no SYN-ACK establishes the connection and no reset
handled for that tcb deletes it. The reset of a second tcb does, which is the
exception that `ConnectHoldsTcb` makes. `SeenInWindow` is what the window test at the start of tcp_others still
says when the FIN bit is looked at, three steps later; `ReceiveNextMonotone`
needs it, and the case of a closed window at the last sequence number was found
by trying to prove it without. `WindowCloses`, `ConnectHoldsTcb`,
`CountedBeforeEstablished` and `ReceiveNextMonotone` are properties of steps and follow from both invariants;
`NoDataInSynSent` is inductive relative to them, because the send window is 0
in SYN_SENT. There is one lemma per group of actions (tcp_read, tcp_listen,
tcp_syn_sent, the branches of tcp_others, the application) for each invariant,
`NextInv` and `NextC` join them and the theorems follow.

`TcbTable_proofs` proves all invariants of `TcbTable` that its run checks, for
every number of sockets, slots, hosts, application threads and segments and
whatever memory malloc returned. The invariant is

    TInv == TablesOK /\ ListOK /\ PassiveUnique /\ WorkerOK /\ AppsOK /\ FoundUntilReset

`TablesOK` adds to `StoredOnce` and `LostOnlyWhenFull` that a socket which was
not created yet has an empty table, so that the memory of a new one overwrites
nothing. `WorkerOK` says that between tcp_read's lookup and its add no block of
its own making is stored for the connection, which is why two separate locks
do no harm (`PassiveUnique` is not inductive without it). `AppOK` ties the block
that connect or send holds to their socket and id; since a deletion clears
every slot of what it frees, the block is freed only together with a reset of
that id. Adding, deleting, writing a field and creating a socket each have a
lemma on the tables and one on what they leave to the threads that do not move
(`BlocksKept`, `MatchesKept`, `WorkerSafe`); each action then has a lemma of its
own. `SamePorts` and `SocketListUsable` need one further invariant each:
`PortsOK`, that a block's id is the one of its own addresses and that the block
the worker holds has the id and the socket of the segment, and `ListShape`, that the used places of the socket
list come first and are followed by a terminator, with the exception that
tcp_add_socket makes of it while it holds the lock.

`Pipeline_proofs` proves the four invariants of `Pipeline`, for every set of
ports, number of rounds and mbufs and every capacity. `LinkInv` relates the
round of the link check to
`print_flag`: the round that reaches the bound has the flag set, so the bound
never ends the loop before the round that prints, and that round has reported
every port it no longer has to look at. `RingInv` says that the work ring is
empty until main is in offloader_loop and that the write ring exists by then,
so a worker that starts first finds nothing to answer. For `QueuesConsistent`

    QInv == LinkInv /\ RingInv /\ PlaceOK /\ BootOK /\ FlowOK /\ SendOK

`FlowOK` has a received packet's way: each queue is in the order of arrival,
every frame of a queue is below every frame of the queues behind it, and all
are below the next frame; `SendOK` says the same of the way back. `PlaceOK` ties
the locals of both loops to their places. `MbufOwnedOnce` follows from

    OwnInv == ~ exhausted => Owned

on top of it: the five queues, the mbufs about to be filled and the pool are
pairwise apart and none holds one twice. The queue lemmas (`PacketSplit`,
`PacketTail`, `PacketAppend`, `PacketConcat`) say what the queue operations do
to the frames and to the mbufs; a lemma for each move of an mbuf (`OwnedArrive`
to `OwnedTransmit`) is about sets and sequences only, and the actions are
instances of them.

`Arp_proofs` proves the three invariants of `Arp`, for every length of the list,
every set of senders and addresses and every start of `insert_idx`. `SInv`
(`HeapOK`, `IndexOK`, `WorkerOK`, `ProgramOK`) holds wherever it starts: what the
list points to is allocated, an `insert_idx` outside the list is the one it
started with and the list is empty then, the entry that arp_read found stays in
the list because only arp_read inserts, and status copies under the read lock.
`NoUseAfterFree` follows from it. What `ListConsistent` and `MappingIsLatest` say
of the search they say of behaviours that started at 0 (`start = 0`), since
`Arp_index` shows that it fails otherwise. `RInv`, which holds in those, adds
`NoGap`, that the used places come first and end at `insert_idx` until the list
has wrapped, `MissOK`, that the address about to be inserted is in no entry, and
`LatestOK`, that an entry is behind its sender only while arp_read is about to
write it.

`Packet_proofs` is about `Dispatch` and `Checksum`. It proves `MapsConsistent`,
`MisroutedOnlyOnMove` and, for maps with room for both types (`MaxSize >= 2`, 512 in
the code), `NotLostTwice`. The invariant `DInv` has `MapsOK`, that the entries are
those registered in some order, `FrameOK`, the types, and `LostOK`, that a lost
frame's type is at the front of the map: the swap that loses it puts it there,
and the lookup of what is at the front never swaps. `MisroutedOnlyOnMove` follows
from `MapsOK`: a lookup that returns another type's handler has swapped. The lemmas on get_value (`CountedKeeps`,
`SwappedKeeps`, `Lookup`) are about any map, and `HtonsTypes` says that the swap
of the two bytes loses nothing.

Its second half proves both invariants of `Checksum`, for every word size, every
header and every payload whose sum fits the 32-bit accumulator (the assumption
`LengthAssumption`, which the 16-bit length of a packet guarantees). The sums are
compared through `Represents(t, r)`: r is between 0 and 2^16 - 1, is 0 only if the
total t is, and differs from t by a multiple of 2^16 - 1. There is one such r
(`OneRepresentative`); the arithmetic definition has the property
(`ResidueRepresents`), an addition with end-around carry keeps it
(`AddWordRepresents`), and so does a pass of the folding loop (`FoldOnce`). What
the recursive functions compute follows by taking the least place where it would
not hold (`SummingRuns`, `Ipv4SumRepresents`, `FoldedRepresents`). `ChecksumInv`
adds that at most one word of what was sent is changed, and that an IPv4 header
was sent with a total that is represented by all ones; `TotalExcept` and
`AlteredShows` then say that a changed word shows, unless the change is between
the two zeros. That the sums agree is a statement about the two functions; that
tcp_write applies its one to the wrong bytes is what `Checksum_tcp` shows.

`TcpWrite_proofs` proves the five properties of `TcpWrite`, for every set of sizes,
windows and bounds and every interleaving of the two threads, up to a fault. What
makes them hold is `Solo`: a thread whose packet is not in `mixed` is the only one
inside tcp_write, its packet is the last that TCP began, and the head it works on
is the head of the queue; one whose packet is mixed meets only mixed packets in
the queue. It holds because a call that begins while another is under way puts
both packets, and all that are queued, into `mixed`. Three invariants build on it:

    Control   == Types /\ Names /\ Fresh /\ Solo /\ Places
    Layers    == OwnPacket /\ InOneCall /\ ArpReplies
    Sequenced == NoOverflow /\ Marked /\ Stream /\ UnderWay /\ Ahead /\ Order

`Fresh` says that nobody else names a packet before it is queued and `Places`
where a packet is: under way, queued, on the wire or refused, each at most once,
and in two places only between its write and its removal. `QueueConsistent`
follows from `Control`. `OwnPacket` and `InOneCall` say how much of a packet's
headers is written at each place of the call, which gives `Encapsulated`; a packet
that was begun above TCP recurs at its first step down, so it has TCP's header
only and never leaves in its call. `Marked` says that a header is its packet's
own, `Stream` that send_next, and whatever a thread has loaded of it to store it
back later, is behind every header that is done, `UnderWay` and `Ahead` how the
header being built follows from it, and `Order` that the queue is in the order of
sequence numbers and of beginning and behind what has left. The last three are
about packets that are not `misnumbered`: while one of those is under way nobody
is between the load and the store of a `send_next++`. `OwnHeader` and
`LeaveInOrder` follow from `Sequenced`, under the hypothesis

    NoWrap == Highest + PacketBound * (Room - 1) + MoveBound < SeqSpace

that all that is ever counted does not fill the space of sequence numbers:
`tcp_block_buffer_add` compares the numbers as plain integers, so that after a
wrap-around a later packet is put before an earlier one. The run's constants
satisfy it (1 + 3 * 5 + 1 < 32). `NoOverflow` turns it into a bound on `send_next`
that counts what a thread may still add (`Budget`); a race can only lose an
increment, so the bound survives it. `CallsEnd` needs no hypothesis and no
`Sequenced`: `LessLeft` goes through the steps, `IndexStep` says that no step
raises the index of any packet, which bounds the turns of the loop at tcp.c:144,
and `WaitsOn` that a thread which does not move has therefore no more left to do.

The assumptions are the named `ASSUME`s of the modules, which TLC evaluates in
the runs of those modules; that a null pointer differs from every number and,
in `Pipeline`, from every sequence of packets is one of them. In `Dispatch`, that
both registered types pass the test for a length as the bytes lie in memory is
an assumption on the three constants, true of 0x0806, 0x0800 and 0x0600; in
`Arp`, that no address, half of it overwritten or not, is the null pointer.

Only model-checked: liveness, that is `CallsReturn`, `PacketsFinish`,
`QueuedIsHandled` and `QuitReachesWait`, which need fairness.

## 5. Plan

Done: the modules of section 2, in the order buffer, connection, dispatch,
checksum, pipeline, ARP, start-up, tables, writing; the proofs of section 4.

Open, models: a well-behaved peer composed with `Tcp`, for end-to-end
properties; `Pipeline` with the memory of the responses; what a race inside the
block list, which has no lock, leaves behind, beyond that it is a fault.

Open, proofs: none; every invariant, action property and refinement that a
passing run checks is stated by a theorem, and only liveness is left to TLC.

## 6. Not modelled

- `tls/`, `http/`, `llc/`, `pcapng/`, `execution_pool.c`, `main_dev.c`,
  `overwrite.c`: not built. `dhcp.c` does not compile. `server_start` has an
  empty body and is not called.
- The states FIN_WAIT_1, FIN_WAIT_2, CLOSING, LAST_ACK, TIME_WAIT and CLOSED:
  nothing sets them, `tcp_socket_close` and `tcp_socket_abort` are empty. So
  `tcp_close` and the branches for those states are unreachable.
- Retransmission and timers: the code has none.
- `stop` of an execution context, `tcp_delete_socket` and the handlers' `close`:
  nobody calls them. So `consume_tasks` never returns, and main closes the ports
  only when there is no worker.
- `arp_spoof`, and passing ARP packets to a socket's next handler: the only
  socket has no next handler and `arp_spoof` is not called.
- What a port is configured with, logging, the contents of headers beyond what a
  property is about.
