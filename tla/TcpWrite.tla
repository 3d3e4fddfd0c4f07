------------------------------ MODULE TcpWrite ------------------------------
(***************************************************************************)
(* tcp_write in steps, and the writes below it: how a packet gets its      *)
(* headers.  The worker writes responses to the packet it reads and an     *)
(* application thread sends, both through the one out_header, send_next    *)
(* and out_buffer of the connection and without a lock; the state          *)
(* functions and connect move send_next as well.                           *)
(*                                                                         *)
(* `fault` ends what is modelled: from there on the code's behaviour is    *)
(* undefined, and everything stated below is stated up to that point.      *)
(* Among the faults is a race inside tcp_block_buffer_add and              *)
(* tcp_block_buffer_remove_front, which no lock protects (ListRace).       *)
(*                                                                         *)
(* A packet is an out_packet_stack_t: its handlers by index (Ethernet is 0,*)
(* IPv4 or ARP 1, TCP 2), stack_idx, the arguments of each handler and the *)
(* room left in front of the payload, in headers.  The arguments are       *)
(* pointers: TCP's to a local of tcp_write's caller, those of a response   *)
(* below TCP to locals of the read functions, which end with the packet    *)
(* being read, and those of an application's packet to memory that stays.  *)
(***************************************************************************)
EXTENDS TcpBlockBuffer, FiniteSets

CONSTANTS
  Threads,      \* "worker" and "app"
  ReplySizes,   \* payloads the worker writes; 0 is a bare acknowledgement
  SendSizes,    \* payloads the application sends
  Room,         \* headers and payload that fit a packet's buffer
  Windows,      \* what send_window may be
  Renumbers,    \* values a state function gives send_next afresh
  Highest,      \* the highest of them
  ReadBound,    \* bound: packets the worker reads
  PacketBound,  \* bound: packets written
  MoveBound     \* bound: changes of send_next outside tcp_write

ASSUME TcpWriteAssumption ==
  /\ Threads \subseteq {"worker", "app"} /\ "worker" \in Threads
  /\ ReplySizes \union SendSizes \subseteq Nat /\ Windows \subseteq Nat
  /\ Highest \in Nat /\ Renumbers \subseteq (0 .. Highest) \intersect SeqNum
  /\ Room \in Nat \ {0} /\ ReadBound \in Nat /\ PacketBound \in Nat /\ MoveBound \in Nat

VARIABLES
  out_header,   \* sequence number and owner of the fields last written to it
  send_next,
  send_window,
  out_buffer,   \* blocks: sequence number, size and packet
  packets,      \* every packet written so far
  frame,        \* the packet the worker reads, 0 when it reads none
  reads,
  threads,      \* each thread's place in tcp_write and its locals
  wire,         \* packets in the order they reached the interface
  fault,
  mixed,        \* packets written or queued while two threads were writing
  refused,      \* packets that a full out_buffer did not take
  counting,     \* the value each thread's send_next++ has loaded, or None
  moves,        \* changes of send_next outside tcp_write
  misnumbered   \* packets from before send_next was given a value afresh, and
                \* those under way during a send_next++

shared == <<out_header, send_next, send_window, out_buffer>>
numbers == <<counting, moves, misnumbered>>
vars == <<shared, packets, frame, reads, threads, wire, fault, mixed, refused, numbers>>

None == SeqSpace
Alive == fault = "none"
Idle == [pc |-> "idle", packet |-> 0, loaded |-> 0, head |-> 0]
At(t, pc) == Alive /\ threads[t].pc = pc
Free(t) == At(t, "idle") /\ counting[t] = None
Mine(t) == packets[threads[t].packet]
Goto(t, pc) == threads' = [threads EXCEPT ![t].pc = pc]

TcpStack == <<"ethernet", "ipv4", "tcp">>
ArpStack == <<"ethernet", "arp">>
TcpIndex == 2
ArpIndex == 1

-----------------------------------------------------------------------------
(* A new packet, and the headers it gets *)

\* handler_create_out_package_stack, and its likes in custom_read and
\* tcp_socket_send; `owner` is the frame that the arguments lie in
NewPacket(handlers, stack_idx, owner, size) ==
  [handlers |-> handlers, stack_idx |-> stack_idx, owner |-> owner, size |-> size,
   offset |-> Room - size, header |-> [seq |-> 0, of |-> 0], layers |-> <<>>,
   alone |-> FALSE, kept |-> FALSE]

\* `kept` packets were left in out_buffer by the call that wrote them
Layer(packet, handler, idx) ==
  [kind |-> packet.handlers[handler + 1], args |-> idx,
   live |-> IF idx >= TcpIndex THEN ~ packet.kept
            ELSE packet.owner = 0 \/ packet.owner = frame]

(***************************************************************************)
(* The write of the handler with index `handler`, and of those below it: a *)
(* handler takes its arguments at stack_idx, puts its header in front and, *)
(* unless stack_idx is 0, decrements it and calls the handler it finds     *)
(* there; at 0 it writes to the interface.                                 *)
(***************************************************************************)
Chain(packet, handler) ==
  <<Layer(packet, handler, packet.stack_idx)>> \o
    [i \in 1 .. packet.stack_idx |->
       Layer(packet, packet.stack_idx - i, packet.stack_idx - i)]

\* every handler finds room for its header
Fitting(packet, handler) == packet.offset >= Len(Chain(packet, handler))

\* Mutation of Encapsulate: a handler's write does not move the offset.
EncapsulateInPlace(packet, handler) ==
  LET count == IF Fitting(packet, handler) THEN Len(Chain(packet, handler)) ELSE packet.offset
  IN  [packet EXCEPT !.layers = @ \o SubSeq(Chain(packet, handler), 1, count),
                     !.stack_idx = IF Fitting(packet, handler) THEN 0 ELSE @ - count]

\* the packet afterwards: a handler that finds no room stops the chain
Encapsulate(packet, handler) ==
  LET count == IF Fitting(packet, handler) THEN Len(Chain(packet, handler)) ELSE packet.offset
  IN  [packet EXCEPT !.layers = @ \o SubSeq(Chain(packet, handler), 1, count),
                     !.offset = @ - count,
                     !.stack_idx = IF Fitting(packet, handler) THEN 0 ELSE @ - count]

-----------------------------------------------------------------------------
(* What starts a write, and what ends it *)

Inside == {t \in Threads : threads[t].pc # "idle"}
QueuedPackets == {out_buffer[i].packet : i \in DOMAIN out_buffer}

IsTcp(p) == packets[p].handlers = TcpStack

\* what was written in answer to the packet the worker reads
Answers == {p \in DOMAIN packets : packets[p].owner = frame}

\* the last packet the thread wrote has no payload, as a SYN and a FIN
Writers(t) == IF t = "worker" THEN {frame} \ {0} ELSE {0}
WroteFlags(t) ==
  \E p \in DOMAIN packets :
    /\ IsTcp(p) /\ packets[p].size = 0 /\ packets[p].owner \in Writers(t)
    /\ \A q \in DOMAIN packets : q > p => packets[q].owner \notin Writers(t)

\* tcp_write returns: its packet may stay in the queue
Returns(t, written) ==
  /\ threads' = [threads EXCEPT ![t] = Idle]
  /\ packets' = [written EXCEPT ![threads[t].packet].kept = threads[t].packet \in QueuedPackets]

\* consume_tasks and the read functions down to tcp_read
Receive ==
  /\ Alive /\ frame = 0 /\ reads < ReadBound
  /\ reads' = reads + 1 /\ frame' = reads + 1
  /\ UNCHANGED <<shared, packets, threads, wire, fault, mixed, refused, numbers>>

\* the read functions return, and their frames are gone
Return ==
  /\ frame # 0 /\ Free("worker")
  /\ frame' = 0
  /\ UNCHANGED <<shared, packets, reads, threads, wire, fault, mixed, refused, numbers>>

\* tcp_others and the like: the peer advertises another window
UpdateWindow(window) ==
  /\ frame # 0 /\ Free("worker") /\ window # send_window
  /\ send_window' = window
  /\ UNCHANGED <<out_header, send_next, out_buffer, packets, frame, reads, threads, wire,
                 fault, mixed, refused, numbers>>

(***************************************************************************)
(* tcb->send_next++ after the answer to a FIN or a SYN, or after connect's *)
(* SYN: a load and a store, around which the other thread may be anywhere  *)
(* in tcp_write.                                                           *)
(***************************************************************************)
CountLoad(t) ==
  /\ Free(t) /\ moves < MoveBound /\ WroteFlags(t)
  /\ counting' = [counting EXCEPT ![t] = send_next] /\ moves' = moves + 1
  /\ misnumbered' = misnumbered \union {threads[other].packet : other \in Inside}
  /\ UNCHANGED <<shared, packets, frame, reads, threads, wire, fault, mixed, refused>>

CountStore(t) ==
  /\ Alive /\ counting[t] # None
  /\ send_next' = Plus(counting[t], 1) /\ counting' = [counting EXCEPT ![t] = None]
  /\ UNCHANGED <<out_header, send_window, out_buffer, packets, frame, reads, threads, wire,
                 fault, mixed, refused, moves, misnumbered>>

(***************************************************************************)
(* A thread calls tcp_write: the worker from tcp_internal_write or, with a *)
(* payload, from custom_write; the application from tcp_socket_send or,    *)
(* with no payload, from tcp_socket_connect.  Nothing shared is touched    *)
(* before tcp_write builds the header.                                     *)
(***************************************************************************)
Call(t, size, stack_idx) ==
  /\ Free(t) /\ Len(packets) < PacketBound /\ size < Room
  /\ t = "worker" => frame # 0 /\ size \in ReplySizes /\ \A p \in Answers : IsTcp(p)
  /\ t = "app" => size \in SendSizes
  /\ packets' = Append(packets, NewPacket(TcpStack, stack_idx,
                                          IF t = "worker" THEN frame ELSE 0, size))
  /\ threads' = [threads EXCEPT ![t] = [Idle EXCEPT !.pc = "fields", !.packet = Len(packets) + 1]]
  /\ mixed' = IF Inside = {} THEN mixed
              ELSE mixed \union {Len(packets) + 1} \union QueuedPackets
                         \union {threads[other].packet : other \in Inside}
  /\ UNCHANGED <<out_header, send_window, out_buffer, frame, reads, wire, fault, refused, counting>>

\* the new packet, if a send_next++ is under way
Overtaken == IF \A t \in Threads : counting[t] = None THEN {} ELSE {Len(packets) + 1}

\* the answer to a FIN whose payload tcp_receive_payload has delivered is
\* written with the stack_idx that it left behind, one above TCP's
Begin(t, size, stack_idx) ==
  /\ Call(t, size, stack_idx)
  /\ stack_idx # TcpIndex => t = "worker" /\ size = 0
  /\ misnumbered' = misnumbered \union Overtaken
  /\ UNCHANGED <<send_next, moves>>

\* tcp_listen and tcp_others give send_next the acknowledgement number of a
\* segment before they answer it with a reset, tcp_listen the initial sequence
\* number before its SYN
Renumber(value) ==
  /\ Call("worker", 0, TcpIndex)
  /\ moves < MoveBound /\ moves' = moves + 1
  /\ send_next' = value /\ misnumbered' = DOMAIN packets \union Overtaken

\* arp_read answers a request: no queue, and no other thread
ArpRead ==
  /\ frame # 0 /\ Free("worker") /\ Answers = {} /\ Len(packets) < PacketBound
  /\ packets' = Append(packets, Encapsulate(NewPacket(ArpStack, ArpIndex, frame, 0), ArpIndex))
  /\ wire' = IF Fitting(NewPacket(ArpStack, ArpIndex, frame, 0), ArpIndex)
             THEN Append(wire, Len(packets) + 1) ELSE wire
  /\ UNCHANGED <<shared, frame, reads, threads, fault, mixed, refused, numbers>>

-----------------------------------------------------------------------------
(* tcp_write: the header *)

\* ports, window and flags
Fields(t) ==
  /\ At(t, "fields") /\ Goto(t, "sequence")
  /\ out_header' = [out_header EXCEPT !.of = threads[t].packet]
  /\ UNCHANGED <<send_next, send_window, out_buffer, packets, frame, reads, wire, fault,
                 mixed, refused, numbers>>

Sequence(t) ==
  /\ At(t, "sequence") /\ Goto(t, IF Mine(t).size > 0 THEN "load" ELSE "copy")
  /\ out_header' = [out_header EXCEPT !.seq = send_next]
  /\ UNCHANGED <<send_next, send_window, out_buffer, packets, frame, reads, wire, fault,
                 mixed, refused, numbers>>

\* tcb->send_next += payload_size is a load and a store
Load(t) ==
  /\ At(t, "load")
  /\ threads' = [threads EXCEPT ![t].pc = "store", ![t].loaded = send_next]
  /\ UNCHANGED <<shared, packets, frame, reads, wire, fault, mixed, refused, numbers>>

\* Mutation of Store: send_next moves only by what the window admits.
StoreIfFits(t) ==
  /\ At(t, "store") /\ Goto(t, "copy")
  /\ send_next' = IF Mine(t).size <= send_window
                  THEN Plus(threads[t].loaded, Mine(t).size) ELSE send_next
  /\ UNCHANGED <<out_header, send_window, out_buffer, packets, frame, reads, wire, fault,
                 mixed, refused, numbers>>

Store(t) ==
  /\ At(t, "store") /\ Goto(t, "copy")
  /\ send_next' = Plus(threads[t].loaded, Mine(t).size)
  /\ UNCHANGED <<out_header, send_window, out_buffer, packets, frame, reads, wire, fault,
                 mixed, refused, numbers>>

\* the checksum, and out_header copied into the packet
Copy(t) ==
  /\ At(t, "copy") /\ Goto(t, "add")
  /\ packets' = [packets EXCEPT ![threads[t].packet] =
                   [Mine(t) EXCEPT !.header = out_header, !.offset = @ - 1,
                                   !.layers = <<Layer(Mine(t), TcpIndex, Mine(t).stack_idx)>>]]
  /\ UNCHANGED <<shared, frame, reads, wire, fault, mixed, refused, numbers>>

-----------------------------------------------------------------------------
(* tcp_write: the queue *)

\* the sequence number is read from out_header again; nobody looks at the result
AddBlock(t) ==
  LET block == [seq |-> out_header.seq, size |-> Mine(t).size, packet |-> threads[t].packet]
  IN  /\ At(t, "add")
      /\ IF AddFaults(out_buffer, block.seq)
         THEN fault' = "null_previous" /\ UNCHANGED <<out_buffer, packets, threads, refused>>
         ELSE /\ out_buffer' = Add(out_buffer, block)
              /\ packets' = [packets EXCEPT ![threads[t].packet].alone = out_buffer = <<>>]
              /\ refused' = IF HasFree(out_buffer) THEN refused
                            ELSE refused \union {threads[t].packet}
              /\ Goto(t, "pick") /\ UNCHANGED fault
      /\ UNCHANGED <<out_header, send_next, send_window, frame, reads, wire, mixed,
                     numbers>>

\* Mutation of Pick: the first block that fits is moved to the front.
PickFitting(t) ==
  LET fits == {i \in DOMAIN out_buffer : out_buffer[i].size <= send_window}
      first == CHOOSE i \in fits : \A j \in fits : i <= j
  IN  /\ At(t, "pick")
      /\ IF fits # {}
         THEN /\ UNCHANGED packets
              /\ out_buffer' = <<out_buffer[first]>> \o RemoveAt(out_buffer, first)
              /\ threads' = [threads EXCEPT ![t].pc = "lower", ![t].head = out_buffer[first].packet]
         ELSE Returns(t, packets) /\ UNCHANGED out_buffer
      /\ UNCHANGED <<out_header, send_next, send_window, frame, reads, wire, fault, mixed,
                     refused, numbers>>

\* the loop's condition and the test of the window
Pick(t) ==
  /\ At(t, "pick")
  /\ IF out_buffer # <<>> /\ Head(out_buffer).size <= send_window
     THEN /\ threads' = [threads EXCEPT ![t].pc = "lower", ![t].head = Head(out_buffer).packet]
          /\ UNCHANGED packets
     ELSE Returns(t, packets)
  /\ UNCHANGED <<shared, frame, reads, wire, fault, mixed, refused, numbers>>

(***************************************************************************)
(* The handler below is looked up with the decremented stack_idx of the    *)
(* packet that is being written, whichever packet is at the head.          *)
(***************************************************************************)
Handler(t) == Mine(t).stack_idx - 1

\* Mutation of Moved: the index of the head packet is decremented.
MovedHead(t) == [packets EXCEPT ![threads[t].head].stack_idx = Handler(t)]

Moved(t) == [packets EXCEPT ![threads[t].packet].stack_idx = Handler(t)]

\* the handlers of the head packet lead from this one back to tcp_write
Recurs(t) ==
  /\ Mine(t).stack_idx > 0
  /\ Handler(t) = TcpIndex \/ Moved(t)[threads[t].head].stack_idx > TcpIndex

\* the head packet when tcp_write is called for it again
Again(t) ==
  LET packet == Moved(t)[threads[t].head]
  IN  IF Handler(t) = TcpIndex \/ packet.offset = 0 THEN packet
      ELSE [packet EXCEPT !.layers = Append(@, Layer(packet, Handler(t), packet.stack_idx)),
                          !.offset = @ - 1, !.stack_idx = @ - 1]

(***************************************************************************)
(* tcp_write for a packet that has its TCP header.  Unless it is refused   *)
(* outright, the arguments are taken from where an earlier call had its    *)
(* locals: it finds no socket there and gives up, or it goes on, which is  *)
(* undefined (a second header and a second block, for one).                *)
(***************************************************************************)
LowerAgain(t) ==
  /\ At(t, "lower") /\ Recurs(t)
  /\ \/ /\ Again(t).stack_idx > 0 /\ Again(t).offset > 0
        /\ fault' = "dangling_args" /\ UNCHANGED <<packets, threads>>
     \/ Returns(t, [Moved(t) EXCEPT ![threads[t].head] = Again(t)]) /\ UNCHANGED fault
  /\ UNCHANGED <<shared, frame, reads, wire, mixed, refused, numbers>>

Lower(t) ==
  LET own == threads[t].packet
      head == threads[t].head
      handler == Handler(t)
      moved == Moved(t)
      written == [moved EXCEPT ![head] = Encapsulate(moved[head], handler)]
  IN  /\ At(t, "lower") /\ ~ Recurs(t)
      /\ IF packets[own].stack_idx = 0
         THEN fault' = "stack_underflow" /\ UNCHANGED <<packets, threads, wire>>
         ELSE /\ IF Fitting(moved[head], handler)
                 THEN /\ packets' = written /\ wire' = Append(wire, head)
                      /\ Goto(t, "remove")
                 ELSE Returns(t, written) /\ UNCHANGED wire
              /\ UNCHANGED fault
      /\ UNCHANGED <<shared, frame, reads, mixed, refused, numbers>>

\* Mutation of RemoveHead: the block stays.
RemoveHeadNot(t) ==
  /\ At(t, "remove") /\ threads' = [threads EXCEPT ![t] = Idle]
  /\ UNCHANGED <<shared, packets, frame, reads, wire, fault, mixed, refused, numbers>>

RemoveHead(t) ==
  /\ At(t, "remove") /\ Goto(t, "pick")
  /\ out_buffer' = RemoveFront(out_buffer, 1)
  /\ UNCHANGED <<out_header, send_next, send_window, packets, frame, reads, wire, fault,
                 mixed, refused, numbers>>

(***************************************************************************)
(* Two threads in the functions of the one list at once, without a lock:   *)
(* both may take the same free block and link it to itself, or a block     *)
(* gets into both lists.                                                   *)
(***************************************************************************)
ListRace(t, other) ==
  /\ t # other /\ Alive
  /\ threads[t].pc \in {"add", "remove"} /\ threads[other].pc \in {"add", "pick", "remove"}
  /\ fault' = "list_race"
  /\ UNCHANGED <<shared, packets, frame, reads, threads, wire, mixed, refused, numbers>>

-----------------------------------------------------------------------------

Init ==
  /\ out_header = [seq |-> 0, of |-> 0] /\ send_next = 0 /\ send_window \in Windows
  /\ out_buffer = <<>> /\ packets = <<>> /\ frame = 0 /\ reads = 0
  /\ threads = [t \in Threads |-> Idle]
  /\ wire = <<>> /\ fault = "none" /\ mixed = {} /\ refused = {}
  /\ counting = [t \in Threads |-> None] /\ moves = 0 /\ misnumbered = {}

Step(t) ==
  \/ Fields(t) \/ Sequence(t) \/ Load(t) \/ Store(t) \/ Copy(t)
  \/ AddBlock(t) \/ Pick(t) \/ Lower(t) \/ LowerAgain(t) \/ RemoveHead(t)

Next ==
  \/ Receive \/ Return \/ ArpRead
  \/ \E window \in Windows : UpdateWindow(window)
  \/ \E value \in Renumbers : Renumber(value)
  \/ \E t \in Threads :
       \/ Step(t) \/ CountLoad(t) \/ CountStore(t)
       \/ \E other \in Threads : ListRace(t, other)
       \/ \E size \in ReplySizes \union SendSizes, stack_idx \in {TcpIndex, TcpIndex + 1} :
            Begin(t, size, stack_idx)

Spec == Init /\ [][Next]_vars
-----------------------------------------------------------------------------
(* Properties *)

Index == 0 .. TcpIndex + 1
Faults == {"none", "null_previous", "stack_underflow", "dangling_args", "list_race"}
Times(p) == Cardinality({i \in DOMAIN wire : wire[i] = p})
Busy(p) == \E t \in Threads :
  threads[t].packet = p \/ (threads[t].pc = "remove" /\ threads[t].head = p)
Undisturbed == {p \in DOMAIN packets : p \notin mixed}
Numbered == Undisturbed \ misnumbered
HeaderDone(p) ==
  IsTcp(p) /\ \A t \in Threads :
    threads[t].packet = p => threads[t].pc \in {"add", "pick", "lower", "remove"}

\* Every variable has its type: no packet runs out of its buffer, and the
\* queue holds no more blocks than there are.
TypeOK ==
  /\ send_next \in SeqNum /\ send_window \in Windows /\ out_header.seq \in SeqNum
  /\ \A i \in DOMAIN out_buffer : out_buffer[i].packet \in DOMAIN packets
  /\ Len(out_buffer) <= BlockCount
  /\ \A p \in DOMAIN packets : packets[p].offset \in 0 .. Room /\ packets[p].stack_idx \in Index
  /\ frame \in 0 .. ReadBound /\ fault \in Faults

(***************************************************************************)
(* A race damages only the packets under way: one that no other tcp_write  *)
(* touched carries the header built for it, and no two of them that were   *)
(* written since send_next was last given a value afresh, and not during   *)
(* another thread's send_next++, carry the same bytes of the stream.       *)
(***************************************************************************)
OwnHeader ==
  \A p \in Undisturbed : HeaderDone(p) =>
    /\ packets[p].header.of = p
    /\ \A q \in Numbered : p \in Numbered /\ q < p /\ HeaderDone(q) =>
         packets[p].header.seq >= packets[q].header.seq + packets[q].size

Headers(p) == [i \in DOMAIN packets[p].layers |->
                 <<packets[p].layers[i].kind, packets[p].layers[i].args>>]

(***************************************************************************)
(* A packet that finds out_buffer empty and leaves in the same call is     *)
(* well-formed: one header of each handler of its stack, from the top to   *)
(* Ethernet, each written from that handler's own arguments while the      *)
(* frame they lie in still exists.  The same holds of ARP replies.  The    *)
(* answer to a FIN with payload never leaves so: it recurs (LowerAgain).   *)
(***************************************************************************)
Encapsulated ==
  \A p \in Undisturbed :
    Times(p) > 0 /\ (IsTcp(p) => packets[p].alone /\ ~ packets[p].kept) =>
      /\ Headers(p) = IF IsTcp(p)
                      THEN << <<"tcp", 2>>, <<"ipv4", 1>>, <<"ethernet", 0>> >>
                      ELSE << <<"arp", 1>>, <<"ethernet", 0>> >>
      /\ \A i \in DOMAIN packets[p].layers : packets[p].layers[i].live
      /\ packets[p].offset + Len(packets[p].layers) + packets[p].size = Room

(***************************************************************************)
(* "else just abort but keep the buffer for later" (tcp.c:153): a packet   *)
(* that no race touched has left exactly once, or still waits in           *)
(* out_buffer, or was refused by a full one, as long as the threads are    *)
(* not in the functions of the list at once.                               *)
(***************************************************************************)
SentOrQueued ==
  \A p \in Undisturbed : Alive /\ IsTcp(p) /\ ~ Busy(p) =>
    Times(p) + (IF p \in QueuedPackets THEN 1 ELSE 0) = IF p \in refused THEN 0 ELSE 1

(***************************************************************************)
(* The queue is consistent until a fault: no packet runs out of its        *)
(* buffer, and none that no race touched is lost or sent twice.            *)
(***************************************************************************)
QueueConsistent == TypeOK /\ SentOrQueued

(***************************************************************************)
(* Packets leave in the order of the stream: one that was kept holds back  *)
(* every later one, acknowledgements included, unless send_next was given  *)
(* a value afresh or incremented under one of them.                        *)
(***************************************************************************)
LeaveInOrder ==
  \A i, j \in DOMAIN wire :
    i < j /\ {wire[i], wire[j]} \subseteq Numbered /\ IsTcp(wire[i]) /\ IsTcp(wire[j])
      => wire[i] < wire[j]

\* what a thread has left to do in tcp_write: the index of its packet counts
\* the turns of the loop that remain
Rank == [fields |-> 9, sequence |-> 8, load |-> 7, store |-> 6, copy |-> 5, add |-> 4,
         remove |-> 3, pick |-> 2, lower |-> 1, idle |-> 0]
Left(t) == 10 * Mine(t).stack_idx + Rank[threads[t].pc]

(***************************************************************************)
(* tcp_write returns or meets a fault although both threads empty one      *)
(* queue and each may queue behind the other without end: with every step  *)
(* of its own a thread has less left to do, and no step of the other ever  *)
(* gives it more.  No thread waits for another.                            *)
(***************************************************************************)
CallsEnd ==
  [][\A t \in Threads :
       threads[t].pc # "idle" /\ threads'[t].pc # "idle" =>
         \/ Left(t)' < Left(t)
         \/ threads'[t] = threads[t] /\ Left(t)' <= Left(t)]_vars

-----------------------------------------------------------------------------
(* What the code's comments say, and the code does not do *)

(***************************************************************************)
(* tcp.c:155: "this can't be the bottom if the stack because TCP is        *)
(* dependent on IP, hence no check for the bottom": below a TCP header     *)
(* there is an IPv4 header.                                                *)
(***************************************************************************)
TcpAboveIpv4 ==
  \A p \in DOMAIN packets : Times(p) > 0 /\ IsTcp(p) => packets[p].layers[2].kind = "ipv4"

(***************************************************************************)
(* tcp.c:153: a packet that is kept "for later" is then written from the   *)
(* arguments that came with it; those of a response lie in frames of read  *)
(* functions that have returned.                                           *)
(***************************************************************************)
ArgumentsLive ==
  \A p \in DOMAIN packets : \A i \in DOMAIN packets[p].layers : packets[p].layers[i].live

(***************************************************************************)
(* tcp_write builds "the" header of a packet in tcb->out_header: what is   *)
(* copied into a packet was built for it, whoever else writes.             *)
(***************************************************************************)
HeaderNotMixed == \A p \in DOMAIN packets : HeaderDone(p) => packets[p].header.of = p
=============================================================================
