--------------------------- MODULE TcpWrite_proofs ---------------------------
(***************************************************************************)
(* What TcpWrite keeps invariant, for every set of sizes, windows and      *)
(* bounds: the packets that one thread writes while the other does not are *)
(* safe, whatever the two do to each other before and after.               *)
(***************************************************************************)
EXTENDS TcpWrite, TcpBlockBuffer_proofs, FiniteSetTheorems

Pcs == {"idle", "fields", "sequence", "load", "store", "copy", "add", "pick", "lower", "remove"}

\* the packet is not in out_buffer yet
Early == {"fields", "sequence", "load", "store", "copy", "add"}

LayerSet == [kind : {"ethernet", "ipv4", "tcp", "arp"}, args : Index, live : BOOLEAN]
Header == [seq : SeqNum, of : Nat]
Packet ==
  [handlers : {TcpStack, ArpStack}, stack_idx : Index, owner : Nat, size : 0 .. Room - 1,
   offset : 0 .. Room, header : Header, layers : Seq(LayerSet), alone : BOOLEAN, kept : BOOLEAN]
Block == [seq : SeqNum, size : Nat, packet : Nat]
Thread == [pc : Pcs, packet : Nat, loaded : SeqNum, head : Nat]

\* The variables, each by itself.
Types ==
  /\ send_next \in SeqNum /\ send_window \in Windows /\ out_header \in Header
  /\ out_buffer \in Seq(Block) /\ Len(out_buffer) <= BlockCount
  /\ packets \in Seq(Packet) /\ wire \in Seq(Nat)
  /\ frame \in 0 .. ReadBound /\ reads \in 0 .. ReadBound
  /\ threads \in [Threads -> Thread]
  /\ fault \in Faults
  /\ mixed \subseteq Nat /\ refused \subseteq Nat
  /\ counting \in [Threads -> SeqNum \union {None}] /\ moves \in 0 .. MoveBound

InQueue(p) == \E i \in DOMAIN out_buffer : out_buffer[i].packet = p
OnWire(p) == \E i \in DOMAIN wire : wire[i] = p
TcpPacket(p) == p \in DOMAIN packets /\ IsTcp(p)
Writes(t) == threads[t].pc # "idle"
HasHead(t) == threads[t].pc \in {"lower", "remove"}

\* Threads, queue and wire name packets that exist, and TCP's where TCP does it.
Names ==
  /\ \A i \in DOMAIN out_buffer : TcpPacket(out_buffer[i].packet)
  /\ \A i \in DOMAIN wire : wire[i] \in DOMAIN packets
  /\ mixed \subseteq DOMAIN packets /\ refused \subseteq DOMAIN packets
  /\ \A t \in Threads : IF Writes(t) THEN TcpPacket(threads[t].packet) ELSE threads[t].packet = 0
  /\ \A t \in Threads : HasHead(t) => TcpPacket(threads[t].head)
  /\ \A t, u \in Threads : Writes(t) /\ threads[t].packet = threads[u].packet => t = u

\* A packet is its thread's own until it is queued.
FreshOK(p) ==
  /\ ~ InQueue(p) /\ ~ OnWire(p) /\ p \notin refused
  /\ \A u \in Threads : HasHead(u) => threads[u].head # p

Fresh == \A t \in Threads : threads[t].pc \in Early => FreshOK(threads[t].packet)

(***************************************************************************)
(* A thread whose packet is not mixed writes alone, and its packet is the  *)
(* last that TCP began; the head it works on is the head of the queue.     *)
(* One whose packet is mixed meets only mixed packets.                     *)
(***************************************************************************)
SoloOK(t) ==
  IF threads[t].packet \notin mixed
  THEN /\ \A u \in Threads : Writes(u) => u = t
       /\ \A p \in DOMAIN packets : IsTcp(p) => p <= threads[t].packet
       /\ HasHead(t) => out_buffer # <<>> /\ out_buffer[1].packet = threads[t].head
  ELSE /\ \A i \in DOMAIN out_buffer : out_buffer[i].packet \in mixed
       /\ HasHead(t) => threads[t].head \in mixed

Solo == \A t \in Threads : Writes(t) => SoloOK(t)

Removing(p) == \E t \in Threads : threads[t].pc = "remove" /\ threads[t].head = p
NotQueuedYet(p) == \E t \in Threads : threads[t].packet = p /\ threads[t].pc \in Early

\* Where a packet that no race touched is.
PlaceOK(p) ==
  /\ OnWire(p) /\ InQueue(p) => Removing(p)
  /\ Removing(p) => OnWire(p)
  /\ p \in refused => ~ OnWire(p) /\ ~ InQueue(p)
  /\ NotQueuedYet(p) \/ p \in refused \/ OnWire(p) \/ InQueue(p)

QueuedOnce ==
  \A i, j \in DOMAIN out_buffer :
    out_buffer[i].packet = out_buffer[j].packet /\ out_buffer[i].packet \notin mixed => i = j

SentOnce == \A i, j \in DOMAIN wire : wire[i] = wire[j] /\ wire[i] \notin mixed => i = j

Places ==
  /\ QueuedOnce /\ SentOnce
  /\ \A p \in DOMAIN packets : IsTcp(p) /\ p \notin mixed => PlaceOK(p)

Control == Types /\ Names /\ Fresh /\ Solo /\ Places

-----------------------------------------------------------------------------
LayerOf(name, index) == [kind |-> name, args |-> index, live |-> TRUE]
TcpLayers == <<LayerOf("tcp", 2), LayerOf("ipv4", 1), LayerOf("ethernet", 0)>>
ArpLayers == <<LayerOf("arp", 1), LayerOf("ethernet", 0)>>
Complete(p, layers) ==
  packets[p].layers = layers /\ packets[p].offset + Len(layers) + packets[p].size = Room

\* TCP has put its header in front of the payload
Started(p) ==
  /\ packets[p].stack_idx \in {2, 3} /\ packets[p].layers = <<LayerOf("tcp", packets[p].stack_idx)>>
  /\ packets[p].offset + 1 + packets[p].size = Room

\* What thread t finds of its packet p before it is queued, and whose arguments.
OwnOK(t, p) ==
  /\ threads[t].pc \in Early =>
       /\ ~ packets[p].alone
       /\ IF threads[t].pc = "add" THEN Started(p)
          ELSE packets[p].stack_idx \in {2, 3} /\ packets[p].offset + packets[p].size = Room
  /\ Writes(t) =>
       /\ ~ packets[p].kept
       /\ packets[p].owner = IF t = "worker" THEN frame ELSE 0
       /\ t = "worker" => frame # 0

OwnPacket == \A t \in Threads : OwnOK(t, threads[t].packet)

OnlyBlock(p) == Len(out_buffer) = 1 /\ out_buffer[1].packet = p

\* A packet that found out_buffer empty, in its own call and after it.
OneCallOK(p) ==
  /\ \A t \in Threads : threads[t].packet = p =>
       \/ threads[t].pc \in {"pick", "lower"} /\ OnlyBlock(p) /\ Started(p)
       \/ threads[t].pc = "remove" /\ OnlyBlock(p) /\ Complete(p, TcpLayers)
       \/ threads[t].pc = "pick" /\ out_buffer = <<>> /\ Complete(p, TcpLayers)
  /\ (\A t \in Threads : threads[t].packet # p) => Complete(p, TcpLayers) /\ ~ InQueue(p)

InOneCall ==
  \A p \in DOMAIN packets :
    IsTcp(p) /\ p \notin mixed /\ packets[p].alone /\ ~ packets[p].kept => OneCallOK(p)

ArpReplies == \A p \in DOMAIN packets : ~ IsTcp(p) /\ OnWire(p) => Complete(p, ArpLayers)

Layers == OwnPacket /\ InOneCall /\ ArpReplies

-----------------------------------------------------------------------------
End(p) == packets[p].header.seq + packets[p].size

\* packets that no race touched, and those of them that send_next counted
Apart(p) == TcpPacket(p) /\ p \notin mixed
Clear(p) == Apart(p) /\ p \notin misnumbered
Ready(p) == Apart(p) /\ HeaderDone(p)
Done(p) == Clear(p) /\ HeaderDone(p)

\* what a thread may still add to send_next
Debt(t) == IF t \in Threads /\ threads[t].pc \in {"fields", "sequence", "load", "store"}
           THEN Room - 1 ELSE 0
Budget == Highest + Len(packets) * (Room - 1) + moves - Debt("worker") - Debt("app")

NoOverflow ==
  /\ Len(packets) <= PacketBound /\ Highest <= Budget
  /\ send_next <= Budget
  /\ \A t \in Threads : threads[t].pc = "store" => threads[t].loaded <= Budget
  /\ \A t \in Threads : counting[t] # None => counting[t] + 1 <= Budget

\* The header of a packet that no race touched was built for it.
Marked == \A p \in DOMAIN packets : Ready(p) => packets[p].header.of = p

\* The stream has passed every header that is done, whoever writes send_next next.
Stream ==
  \A p \in DOMAIN packets : Done(p) =>
    /\ send_next >= End(p)
    /\ \A t \in Threads : threads[t].pc = "store" => threads[t].loaded >= End(p)
    /\ \A t \in Threads : counting[t] # None => counting[t] >= End(p)
    /\ \A q \in DOMAIN packets : Done(q) /\ q < p => packets[p].header.seq >= End(q)

\* The header that is under way, while its thread writes alone,
UnderWayOK(t, p) ==
  /\ threads[t].pc \in {"sequence", "load", "store", "copy"} => out_header.of = p
  /\ threads[t].pc = "add" => packets[p].header = out_header

UnderWay ==
  \A t \in Threads :
    Writes(t) /\ threads[t].packet \notin mixed => UnderWayOK(t, threads[t].packet)

\* and its sequence number, while nobody else moves send_next.
AheadOK(t, p) ==
  /\ \A u \in Threads : counting[u] = None
  /\ threads[t].pc \in {"load", "store", "copy"} =>
       \A q \in DOMAIN packets : Done(q) => out_header.seq >= End(q)
  /\ threads[t].pc = "load" => send_next = out_header.seq
  /\ threads[t].pc = "store" => threads[t].loaded = out_header.seq
  /\ threads[t].pc = "copy" => send_next = out_header.seq + packets[p].size

Ahead ==
  \A t \in Threads :
    Writes(t) /\ Clear(threads[t].packet) => AheadOK(t, threads[t].packet)

\* A block has the sequence number of its packet's header.
SeqKept ==
  \A i \in DOMAIN out_buffer : Clear(out_buffer[i].packet) =>
    out_buffer[i].seq = packets[out_buffer[i].packet].header.seq

\* The queue is in the order in which the packets were begun,
Rising ==
  \A i, j \in DOMAIN out_buffer :
    i < j /\ Clear(out_buffer[i].packet) /\ Clear(out_buffer[j].packet)
      => out_buffer[i].packet < out_buffer[j].packet

\* and behind what has left, but for a block that is about to be removed.
Behind ==
  \A i \in DOMAIN wire, j \in DOMAIN out_buffer :
    Clear(wire[i]) /\ Clear(out_buffer[j].packet) =>
      \/ wire[i] < out_buffer[j].packet
      \/ wire[i] = out_buffer[j].packet /\ Removing(wire[i]) /\ j = 1

Order == InOrder(out_buffer) /\ SeqKept /\ Rising /\ Behind /\ LeaveInOrder

Sequenced == NoOverflow /\ Marked /\ Stream /\ UnderWay /\ Ahead /\ Order

-----------------------------------------------------------------------------
(* The headers of one packet *)

\* The stacks of TCP and of ARP are not the same.
LEMMA StacksDiffer ==
  /\ TcpStack # ArpStack
  /\ TcpStack[1] = "ethernet" /\ TcpStack[2] = "ipv4" /\ TcpStack[3] = "tcp"
  /\ ArpStack[1] = "ethernet" /\ ArpStack[2] = "arp"
BY DEF TcpStack, ArpStack

\* What `packet` may be when a handler's write is called with it.
Writable(packet, handler) ==
  /\ packet \in Packet /\ handler \in 0 .. TcpIndex
  /\ \/ packet.handlers = TcpStack
     \/ packet.handlers = ArpStack /\ handler <= ArpIndex /\ packet.stack_idx <= ArpIndex

\* A handler's write puts one header of a known kind.
LEMMA LayerType ==
  ASSUME NEW packet, NEW handler, NEW idx \in Index, Writable(packet, handler)
  PROVE  Layer(packet, handler, idx) \in LayerSet
<1>1. handler \in {0, 1, 2}
  BY DEF Writable, TcpIndex
<1>2. packet.handlers[handler + 1] \in {"ethernet", "ipv4", "tcp", "arp"}
  <2>1. handler = 2 => packet.handlers = TcpStack
    BY DEF Writable, ArpIndex
  <2>2. packet.handlers = TcpStack \/ packet.handlers = ArpStack
    BY DEF Writable
  <2> QED BY <1>1, <2>1, <2>2, StacksDiffer
<1>3. packet.kept \in BOOLEAN
  BY DEF Writable, Packet
<1>4. (IF idx >= TcpIndex THEN ~ packet.kept
            ELSE packet.owner = 0 \/ packet.owner = frame) \in BOOLEAN
  BY <1>3
<1> QED BY <1>2, <1>4 DEF Layer, LayerSet

\* The headers that a handler and those below it put, from the top down.
LEMMA ChainElements ==
  ASSUME NEW packet, NEW handler, Writable(packet, handler)
  PROVE  /\ Chain(packet, handler) \in Seq(LayerSet)
         /\ Len(Chain(packet, handler)) = packet.stack_idx + 1
         /\ Chain(packet, handler)[1] = Layer(packet, handler, packet.stack_idx)
         /\ \A i \in 1 .. packet.stack_idx :
              Chain(packet, handler)[i + 1] = Layer(packet, packet.stack_idx - i, packet.stack_idx - i)
<1>1. PICK s \in Index : s = packet.stack_idx
  BY DEF Writable, Packet
<1>2. PICK first : first = Layer(packet, handler, s)
  OBVIOUS
<1>3. first \in LayerSet
  BY <1>1, <1>2, LayerType
<1>4. PICK rest : rest = [i \in 1 .. s |-> Layer(packet, s - i, s - i)]
  OBVIOUS
<1>5. s \in Nat
  BY DEF Index, TcpIndex
<1>6. \A i \in 1 .. s : Layer(packet, s - i, s - i) \in LayerSet
  <2> TAKE i \in 1 .. s
  <2>1. s - i \in Index /\ s - i \in 0 .. TcpIndex
    BY DEF Index, TcpIndex
  <2>2. Writable(packet, s - i)
    <3>1. packet.handlers = TcpStack \/ (packet.handlers = ArpStack /\ s <= 1)
      BY <1>1 DEF Writable, ArpIndex
    <3>2. s <= 1 => s - i <= 1
      BY <1>5
    <3> QED BY <1>1, <2>1, <3>1, <3>2 DEF Writable, ArpIndex
  <2> QED BY <2>1, <2>2, LayerType
<1>7. rest \in [1 .. s -> LayerSet]
  BY <1>4, <1>6
<1>8. rest \in Seq(LayerSet) /\ Len(rest) = s
  BY <1>5, <1>7
<1>9. <<first>> \in Seq(LayerSet) /\ Len(<<first>>) = 1 /\ <<first>>[1] = first
  BY <1>3
<1>10. PICK one \in Seq(LayerSet) : one = <<first>> /\ Len(one) = 1 /\ one[1] = first
  BY <1>9
<1>11. /\ one \o rest \in Seq(LayerSet) /\ Len(one \o rest) = s + 1
       /\ (one \o rest)[1] = one[1]
       /\ \A i \in 1 .. s : (one \o rest)[i + 1] = rest[i]
  BY <1>5, <1>8, <1>10, ConcatProperties
<1>12. Chain(packet, handler) = one \o rest
  BY <1>1, <1>2, <1>4, <1>10 DEF Chain
<1>13. \A i \in 1 .. s : rest[i] = Layer(packet, s - i, s - i)
  BY <1>4
<1> QED BY <1>1, <1>2, <1>10, <1>11, <1>12, <1>13

\* Encapsulate yields a packet again: the headers fit the room that is left.
LEMMA EncapsulateType ==
  ASSUME NEW packet, NEW handler, Writable(packet, handler)
  PROVE  LET result == Encapsulate(packet, handler) IN
         /\ result \in Packet
         /\ result.handlers = packet.handlers /\ result.owner = packet.owner
         /\ result.size = packet.size /\ result.header = packet.header
         /\ result.alone = packet.alone /\ result.kept = packet.kept
         /\ result.stack_idx <= packet.stack_idx
<1>1. PICK chain \in Seq(LayerSet) : chain = Chain(packet, handler) /\ Len(chain) = packet.stack_idx + 1
  BY ChainElements
<1>2. /\ packet \in Packet /\ packet.stack_idx \in 0 .. 3 /\ packet.offset \in 0 .. Room
      /\ packet.layers \in Seq(LayerSet)
  BY DEF Writable, Packet, Index, TcpIndex
<1>3. PICK count : count = IF Fitting(packet, handler) THEN Len(chain) ELSE packet.offset
  OBVIOUS
<1>4. Fitting(packet, handler) <=> packet.offset >= Len(chain)
  BY <1>1 DEF Fitting
<1>5. /\ count \in 0 .. Len(chain) /\ count <= packet.offset
      /\ ~ Fitting(packet, handler) => count <= packet.stack_idx
  BY <1>1, <1>2, <1>3, <1>4, TcpWriteAssumption
<1>6. PICK top \in Seq(LayerSet) : top = SubSeq(chain, 1, count)
  <2>1. SubSeq(chain, 1, count) \in Seq(LayerSet)
    BY <1>5
  <2> QED BY <2>1
<1>7. PICK layers \in Seq(LayerSet) : layers = packet.layers \o top
  <2>1. PICK old \in Seq(LayerSet) : old = packet.layers
    BY <1>2
  <2>2. old \o top \in Seq(LayerSet)
    OBVIOUS
  <2> QED BY <2>1, <2>2
<1>8. PICK offset \in 0 .. Room : offset = packet.offset - count
  BY <1>2, <1>5, TcpWriteAssumption
<1>9. PICK idx \in Index : /\ idx = IF Fitting(packet, handler) THEN 0 ELSE packet.stack_idx - count
                           /\ idx <= packet.stack_idx
  <2>1. CASE Fitting(packet, handler)
    BY <1>2, <2>1 DEF Index, TcpIndex
  <2>2. CASE ~ Fitting(packet, handler)
    <3>1. packet.stack_idx - count \in Index /\ packet.stack_idx - count <= packet.stack_idx
      BY <1>2, <1>5, <2>2 DEF Index, TcpIndex
    <3> QED BY <2>2, <3>1
  <2> QED BY <2>1, <2>2
<1>10. Encapsulate(packet, handler) =
         [packet EXCEPT !.layers = layers, !.offset = offset, !.stack_idx = idx]
  BY <1>1, <1>3, <1>6, <1>7, <1>8, <1>9 DEF Encapsulate
<1>11. [packet EXCEPT !.layers = layers, !.offset = offset, !.stack_idx = idx] \in Packet
  BY <1>2 DEF Packet
<1> QED BY <1>2, <1>9, <1>10, <1>11 DEF Packet

\* With room for all of them, the headers follow those that are there.
LEMMA EncapsulateFitting ==
  ASSUME NEW packet, NEW handler, Writable(packet, handler), Fitting(packet, handler)
  PROVE  LET result == Encapsulate(packet, handler) IN
         /\ result.layers = packet.layers \o Chain(packet, handler)
         /\ result.offset = packet.offset - (packet.stack_idx + 1)
         /\ result.stack_idx = 0
<1>1. PICK chain \in Seq(LayerSet) : chain = Chain(packet, handler) /\ Len(chain) = packet.stack_idx + 1
  BY ChainElements
<1>2. packet \in Packet
  BY DEF Writable
<1>3. SubSeq(chain, 1, Len(chain)) = chain
  <2>1. Len(SubSeq(chain, 1, Len(chain))) = Len(chain)
    OBVIOUS
  <2>2. \A i \in 1 .. Len(chain) : SubSeq(chain, 1, Len(chain))[i] = chain[i]
    OBVIOUS
  <2>3. SubSeq(chain, 1, Len(chain)) \in Seq(LayerSet)
    OBVIOUS
  <2> QED BY <2>1, <2>2, <2>3
<1>4. PICK layers : layers = packet.layers \o chain
  OBVIOUS
<1>5. Encapsulate(packet, handler) =
        [packet EXCEPT !.layers = layers, !.offset = packet.offset - Len(chain), !.stack_idx = 0]
  BY <1>1, <1>3, <1>4 DEF Encapsulate
<1> QED BY <1>1, <1>2, <1>4, <1>5 DEF Packet

\* A new packet of TCP, and one of ARP.
LEMMA NewPacketType ==
  ASSUME NEW handlers \in {TcpStack, ArpStack}, NEW idx \in Index, NEW owner \in Nat,
         NEW size \in Nat, size < Room
  PROVE  LET packet == NewPacket(handlers, idx, owner, size) IN
         /\ packet \in Packet /\ packet.handlers = handlers /\ packet.stack_idx = idx
         /\ packet.owner = owner /\ packet.size = size /\ packet.offset = Room - size
         /\ packet.layers = <<>> /\ ~ packet.alone /\ ~ packet.kept
<1>1. 0 \in SeqNum
  BY SeqSpaceAssumption DEF SeqNum
<1>2. [seq |-> 0, of |-> 0] \in Header
  BY <1>1 DEF Header
<1>3. Room - size \in 0 .. Room /\ size \in 0 .. Room - 1
  BY TcpWriteAssumption
<1>4. <<>> \in Seq(LayerSet)
  OBVIOUS
<1> QED BY <1>2, <1>3, <1>4 DEF NewPacket, Packet

-----------------------------------------------------------------------------
(* The queue *)

\* Where Add puts a block: behind every block that is not later.
LEMMA AddElements ==
  ASSUME NEW B, NEW buf \in Seq(B), NEW b \in B, HasFree(buf)
  PROVE  \E w \in 0 .. Len(buf) :
           /\ Add(buf, b) \in Seq(B) /\ Len(Add(buf, b)) = Len(buf) + 1
           /\ \A j \in 1 .. w : Add(buf, b)[j] = buf[j]
           /\ Add(buf, b)[w + 1] = b
           /\ \A j \in w + 1 .. Len(buf) : Add(buf, b)[j + 1] = buf[j]
           /\ w < Len(buf) => ~ (b.seq >= buf[w + 1].seq)
           /\ \A j \in 1 .. w : b.seq >= buf[j].seq
<1>1. PICK w \in 0 .. Len(buf) :
        /\ w = WalkedPast(buf, b.seq)
        /\ 1 .. w \subseteq {i \in 1 .. Len(buf) : b.seq >= buf[i].seq}
        /\ w < Len(buf) => w + 1 \notin {i \in 1 .. Len(buf) : b.seq >= buf[i].seq}
  <2>1. PICK S : S = {i \in 1 .. Len(buf) : b.seq >= buf[i].seq}
    OBVIOUS
  <2>2. PICK w : w = PrefixLength(Len(buf), S)
    OBVIOUS
  <2>3. w \in 0 .. Len(buf) /\ 1 .. w \subseteq S /\ (w < Len(buf) => w + 1 \notin S)
    BY <2>2, PrefixLengthRun
  <2>4. w = WalkedPast(buf, b.seq)
    BY <2>1, <2>2 DEF WalkedPast
  <2> QED BY <2>1, <2>3, <2>4
<1>2. PICK k \in 1 .. Len(buf) + 1 : k = w + 1
  OBVIOUS
<1>3. Add(buf, b) = InsertAt(buf, k, b)
  BY <1>1, <1>2 DEF Add
<1>4. PICK new : new = InsertAt(buf, k, b)
  OBVIOUS
<1>5. /\ new \in Seq(B) /\ Len(new) = Len(buf) + 1
      /\ \A j \in 1 .. Len(buf) + 1 :
           new[j] = IF j < k THEN buf[j] ELSE IF j = k THEN b ELSE buf[j - 1]
  <2>1. InsertAt(buf, k, b) \in Seq(B)
    BY InsertAtElements
  <2>2. Len(InsertAt(buf, k, b)) = Len(buf) + 1
    BY InsertAtElements
  <2>3. ASSUME NEW j \in 1 .. Len(buf) + 1
        PROVE  InsertAt(buf, k, b)[j] =
                 IF j < k THEN buf[j] ELSE IF j = k THEN b ELSE buf[j - 1]
    BY InsertAtElements
  <2> QED BY <1>4, <2>1, <2>2, <2>3
<1>6. \A j \in 1 .. w : new[j] = buf[j]
  BY <1>2, <1>5
<1>7. new[w + 1] = b
  BY <1>2, <1>5
<1>8. \A j \in w + 1 .. Len(buf) : new[j + 1] = buf[j]
  <2> TAKE j \in w + 1 .. Len(buf)
  <2>1. j + 1 \in 1 .. Len(buf) + 1 /\ ~ (j + 1 < k) /\ j + 1 # k /\ (j + 1) - 1 = j
    BY <1>2
  <2>2. new[j + 1] = buf[(j + 1) - 1]
    BY <1>5, <2>1
  <2> QED BY <2>1, <2>2
<1>9. \A j \in 1 .. w : b.seq >= buf[j].seq
  BY <1>1
<1>10. w < Len(buf) => ~ (b.seq >= buf[w + 1].seq)
  BY <1>1
<1> QED BY <1>3, <1>4, <1>5, <1>6, <1>7, <1>8, <1>9, <1>10

\* What is left behind the head.
LEMMA RemoveFrontElements ==
  ASSUME NEW B, NEW buf \in Seq(B)
  PROVE  /\ RemoveFront(buf, 1) \in Seq(B)
         /\ buf = <<>> => RemoveFront(buf, 1) = <<>>
         /\ buf # <<>> => /\ Len(RemoveFront(buf, 1)) = Len(buf) - 1
                          /\ \A i \in 1 .. Len(buf) - 1 : RemoveFront(buf, 1)[i] = buf[i + 1]
<1>1. CASE buf = <<>>
  <2>1. Len(buf) = 0
    BY <1>1
  <2>2. RemoveFront(buf, 1) = SubSeq(buf, 2, 0)
    BY <2>1 DEF RemoveFront
  <2>3. SubSeq(buf, 2, 0) = <<>>
    OBVIOUS
  <2> QED BY <1>1, <2>2, <2>3
<1>2. CASE buf # <<>>
  <2>1. Len(buf) \in Nat /\ Len(buf) >= 1
    BY <1>2
  <2>2. RemoveFront(buf, 1) = SubSeq(buf, 2, Len(buf))
    BY DEF RemoveFront
  <2>3. SubSeq(buf, 2, Len(buf)) \in Seq(B) /\ Len(SubSeq(buf, 2, Len(buf))) = Len(buf) - 1
    <3>1. RemoveFront(buf, 1) \in Seq(B)
      <4>1. \A n \in Nat : RemoveFront(buf, n) \in Seq(B)
        BY RemoveFrontProperties
      <4> QED BY <4>1
    <3>2. CASE Len(buf) = 1
      <4>1. SubSeq(buf, 2, 1) = <<>>
        OBVIOUS
      <4> QED BY <2>2, <3>1, <3>2, <4>1
    <3>3. CASE Len(buf) > 1
      <4>1. Len(SubSeq(buf, 2, Len(buf))) = Len(buf) - 2 + 1
        BY <2>1, <3>3, SubSeqProperties
      <4>2. Len(SubSeq(buf, 2, Len(buf))) = Len(buf) - 1
        BY <2>1, <4>1
      <4>3. SubSeq(buf, 2, Len(buf)) \in Seq(B)
        BY <2>2, <3>1
      <4> QED BY <4>2, <4>3
    <3>4. Len(buf) = 1 \/ Len(buf) > 1
      <4>1. PICK n \in Nat : n = Len(buf) /\ n >= 1
        BY <2>1
      <4>2. n = 1 \/ n > 1
        BY <4>1
      <4> QED BY <4>1, <4>2
    <3> QED BY <3>2, <3>3, <3>4, Zenon
  <2>4. \A i \in 1 .. Len(buf) - 1 : SubSeq(buf, 2, Len(buf))[i] = buf[i + 1]
    <3> TAKE i \in 1 .. Len(buf) - 1
    <3>1. 2 + i - 1 = i + 1
      OBVIOUS
    <3>2. SubSeq(buf, 2, Len(buf))[i] = buf[2 + i - 1]
      BY <2>1
    <3> QED BY <3>1, <3>2
  <2> QED BY <1>2, <2>2, <2>3, <2>4
<1> QED BY <1>1, <1>2

-----------------------------------------------------------------------------
(* What a step does to the threads and to the packets *)

\* thread t is at pc, with the same packet and head
Moves(t, pc) ==
  /\ threads' \in [Threads -> Thread]
  /\ \A u \in Threads : u # t => threads'[u] = threads[u]
  /\ threads'[t].pc = pc /\ threads'[t].packet = threads[t].packet
  /\ threads'[t].head = threads[t].head

\* thread t returns from tcp_write
Leaves(t) ==
  /\ threads' \in [Threads -> Thread]
  /\ \A u \in Threads : u # t => threads'[u] = threads[u]
  /\ threads'[t].pc = "idle" /\ threads'[t].packet = 0

\* the same packets, with the same handlers, size and owner
SamePackets ==
  /\ packets' \in Seq(Packet) /\ Len(packets') = Len(packets)
  /\ \A p \in 1 .. Len(packets) :
       /\ packets'[p].handlers = packets[p].handlers
       /\ packets'[p].size = packets[p].size /\ packets'[p].owner = packets[p].owner

\* Goto is a move.
LEMMA GotoMoves ==
  ASSUME Types, NEW t \in Threads, NEW pc \in Pcs, Goto(t, pc)
  PROVE  Moves(t, pc) /\ threads'[t].loaded = threads[t].loaded
<1>1. threads \in [Threads -> Thread] /\ threads[t] \in Thread
  BY DEF Types
<1>2. threads' = [threads EXCEPT ![t] = [threads[t] EXCEPT !.pc = pc]]
  BY DEF Goto
<1>3. PICK new : new = [threads[t] EXCEPT !.pc = pc]
  OBVIOUS
<1>4. /\ new \in Thread /\ new.pc = pc /\ new.packet = threads[t].packet
      /\ new.head = threads[t].head /\ new.loaded = threads[t].loaded
  BY <1>1, <1>3 DEF Thread
<1> QED BY <1>1, <1>2, <1>3, <1>4 DEF Moves

\* Load is a move, and takes send_next.
LEMMA LoadMoves ==
  ASSUME Types, NEW t \in Threads, Load(t)
  PROVE  Moves(t, "store") /\ threads'[t].loaded = send_next
<1>1. threads \in [Threads -> Thread] /\ threads[t] \in Thread /\ send_next \in SeqNum
  BY DEF Types
<1>2. threads' = [threads EXCEPT ![t] = [threads[t] EXCEPT !.pc = "store", !.loaded = send_next]]
  BY <1>1 DEF Load
<1>3. PICK new : new = [threads[t] EXCEPT !.pc = "store", !.loaded = send_next]
  OBVIOUS
<1>4. /\ new \in Thread /\ new.pc = "store" /\ new.packet = threads[t].packet
      /\ new.head = threads[t].head /\ new.loaded = send_next
  BY <1>1, <1>3 DEF Thread, Pcs
<1> QED BY <1>1, <1>2, <1>3, <1>4 DEF Moves

\* Pick goes on with the head of the queue.
LEMMA PickMoves ==
  ASSUME Types, NEW t \in Threads, Pick(t), ~ Returns(t, packets)
  PROVE  /\ \A u \in Threads : u # t => threads'[u] = threads[u]
         /\ threads'[t].pc = "lower" /\ threads'[t].packet = threads[t].packet
         /\ 1 \in DOMAIN out_buffer /\ threads'[t].head = out_buffer[1].packet
<1>1. /\ out_buffer # <<>>
      /\ threads' = [threads EXCEPT ![t].pc = "lower", ![t].head = Head(out_buffer).packet]
  BY DEF Pick
<1>2. PICK h : h = out_buffer[1].packet
  OBVIOUS
<1>3. 1 \in DOMAIN out_buffer /\ Head(out_buffer).packet = h
  <2>1. out_buffer \in Seq(Block)
    BY DEF Types
  <2> QED BY <1>1, <1>2, <2>1
<1>4. threads \in [Threads -> Thread] /\ threads[t] \in Thread
  BY DEF Types
<1>5. threads' = [threads EXCEPT ![t] = [threads[t] EXCEPT !.pc = "lower", !.head = h]]
  BY <1>1, <1>3, <1>4
<1>6. PICK new : new = [threads[t] EXCEPT !.pc = "lower", !.head = h]
  OBVIOUS
<1>7. new.pc = "lower" /\ new.head = h /\ new.packet = threads[t].packet
  BY <1>4, <1>6 DEF Thread
<1> QED BY <1>2, <1>3, <1>4, <1>5, <1>6, <1>7

\* An idle thread has the type of one.
LEMMA IdleType == Idle \in Thread /\ Idle.pc = "idle" /\ Idle.packet = 0
<1>1. 0 \in SeqNum
  BY SeqSpaceAssumption DEF SeqNum
<1> QED BY <1>1 DEF Idle, Thread, Pcs

\* A packet with another field is a packet.
LEMMA PacketFields ==
  ASSUME NEW packet \in Packet
  PROVE  /\ [packet EXCEPT !.kept = TRUE] \in Packet /\ [packet EXCEPT !.kept = FALSE] \in Packet
         /\ [packet EXCEPT !.alone = TRUE] \in Packet /\ [packet EXCEPT !.alone = FALSE] \in Packet
         /\ \A i \in Index : [packet EXCEPT !.stack_idx = i] \in Packet
BY DEF Packet

\* Replacing one packet by another of the same stack keeps the rest.
LEMMA ReplacePacket ==
  ASSUME NEW old \in Seq(Packet), NEW p \in 1 .. Len(old), NEW packet \in Packet
  PROVE  /\ [old EXCEPT ![p] = packet] \in Seq(Packet)
         /\ Len([old EXCEPT ![p] = packet]) = Len(old)
         /\ \A q \in 1 .. Len(old) : [old EXCEPT ![p] = packet][q] = IF q = p THEN packet ELSE old[q]
OBVIOUS

\* Returns leaves tcp_write, and may set the packet's kept.
LEMMA ReturnsLeaves ==
  ASSUME Types, NEW t \in Threads, NEW written \in Seq(Packet), Returns(t, written),
         NEW p \in 1 .. Len(written), p = threads[t].packet
  PROVE  /\ Leaves(t)
         /\ packets' \in Seq(Packet) /\ Len(packets') = Len(written)
         /\ \A q \in 1 .. Len(written) : q # p => packets'[q] = written[q]
         /\ InQueue(p) => packets'[p] = [written[p] EXCEPT !.kept = TRUE]
         /\ ~ InQueue(p) => packets'[p] = [written[p] EXCEPT !.kept = FALSE]
<1>1. Leaves(t)
  <2>1. threads' = [threads EXCEPT ![t] = Idle] /\ threads \in [Threads -> Thread]
    BY DEF Returns, Types
  <2>2. threads' \in [Threads -> Thread] /\ threads'[t] = Idle
        /\ \A u \in Threads : u # t => threads'[u] = threads[u]
    BY <2>1, IdleType
  <2> QED BY <2>2, IdleType DEF Leaves
<1>2. InQueue(p) <=> p \in QueuedPackets
  BY DEF InQueue, QueuedPackets
<1>3. packets' = [written EXCEPT ![p] = [written[p] EXCEPT !.kept = p \in QueuedPackets]]
  BY DEF Returns
<1>4. CASE InQueue(p)
  <2>1. PICK packet : packet = [written[p] EXCEPT !.kept = TRUE]
    OBVIOUS
  <2>2. packet \in Packet
    <3>1. PICK before \in Packet : before = written[p]
      OBVIOUS
    <3>2. [before EXCEPT !.kept = TRUE] \in Packet
      BY PacketFields
    <3> QED BY <2>1, <3>1, <3>2
  <2>3. (p \in QueuedPackets) = TRUE
    BY <1>2, <1>4
  <2>4. packets' = [written EXCEPT ![p] = packet]
    BY <1>3, <2>1, <2>3
  <2>5. /\ packets' \in Seq(Packet) /\ Len(packets') = Len(written)
        /\ \A q \in 1 .. Len(written) : packets'[q] = IF q = p THEN packet ELSE written[q]
    BY <2>2, <2>4, ReplacePacket
  <2>6. packets'[p] = packet /\ \A q \in 1 .. Len(written) : q # p => packets'[q] = written[q]
    BY <2>5
  <2> QED BY <1>1, <1>4, <2>1, <2>5, <2>6
<1>5. CASE ~ InQueue(p)
  <2>1. PICK packet : packet = [written[p] EXCEPT !.kept = FALSE]
    OBVIOUS
  <2>2. packet \in Packet
    <3>1. PICK before \in Packet : before = written[p]
      OBVIOUS
    <3>2. [before EXCEPT !.kept = FALSE] \in Packet
      BY PacketFields
    <3> QED BY <2>1, <3>1, <3>2
  <2>3. (p \in QueuedPackets) = FALSE
    BY <1>2, <1>5
  <2>4. packets' = [written EXCEPT ![p] = packet]
    BY <1>3, <2>1, <2>3
  <2>5. /\ packets' \in Seq(Packet) /\ Len(packets') = Len(written)
        /\ \A q \in 1 .. Len(written) : packets'[q] = IF q = p THEN packet ELSE written[q]
    BY <2>2, <2>4, ReplacePacket
  <2>6. packets'[p] = packet /\ \A q \in 1 .. Len(written) : q # p => packets'[q] = written[q]
    BY <2>5
  <2> QED BY <1>1, <1>5, <2>1, <2>5, <2>6
<1> QED BY <1>4, <1>5

\* The packet of a thread that writes, and the head it works on, exist.
LEMMA PacketOfThread ==
  ASSUME Types, Names, NEW t \in Threads, Writes(t)
  PROVE  /\ threads[t].packet \in 1 .. Len(packets) /\ packets[threads[t].packet] \in Packet
         /\ packets[threads[t].packet].handlers = TcpStack
         /\ HasHead(t) => /\ threads[t].head \in 1 .. Len(packets)
                          /\ packets[threads[t].head] \in Packet
                          /\ packets[threads[t].head].handlers = TcpStack
<1>1. packets \in Seq(Packet) /\ DOMAIN packets = 1 .. Len(packets)
  BY DEF Types
<1>2. TcpPacket(threads[t].packet) /\ (HasHead(t) => TcpPacket(threads[t].head))
  BY DEF Names
<1> QED BY <1>1, <1>2 DEF TcpPacket, IsTcp

\* Copy puts out_header in front of the payload.
LEMMA CopyEffect ==
  ASSUME Types, Names, OwnPacket, NEW t \in Threads, Copy(t)
  PROVE  /\ Writes(t) /\ Moves(t, "add") /\ threads'[t].loaded = threads[t].loaded
         /\ SamePackets
         /\ LET p == threads[t].packet IN
            /\ \A q \in 1 .. Len(packets) : q # p => packets'[q] = packets[q]
            /\ packets'[p].header = out_header /\ packets'[p].offset = packets[p].offset - 1
            /\ packets'[p].layers = <<LayerOf("tcp", packets[p].stack_idx)>>
            /\ packets'[p].stack_idx = packets[p].stack_idx
            /\ packets'[p].alone = packets[p].alone /\ packets'[p].kept = packets[p].kept
<1>1. threads[t].pc = "copy" /\ Goto(t, "add")
  BY DEF Copy, At
<1>2. Writes(t) /\ "add" \in Pcs
  BY <1>1 DEF Writes, Pcs
<1>3. Moves(t, "add") /\ threads'[t].loaded = threads[t].loaded
  BY <1>1, <1>2, GotoMoves
<1>4. PICK p \in 1 .. Len(packets) : p = threads[t].packet
  BY <1>2, PacketOfThread
<1>5. PICK packet \in Packet : packet = packets[p] /\ packet.handlers = TcpStack
  BY <1>2, <1>4, PacketOfThread
<1>6. packet.kept = FALSE /\ packet.offset + packet.size = Room /\ packet.stack_idx \in {2, 3}
  <2>1. threads[t].pc \in Early /\ threads[t].pc # "add"
    BY <1>1 DEF Early
  <2>2. packet.kept \in BOOLEAN
    BY DEF Packet
  <2> QED BY <1>2, <1>4, <1>5, <2>1, <2>2 DEF OwnPacket, OwnOK
<1>7. packet.offset - 1 \in 0 .. Room
  <2>1. packet.offset \in 0 .. Room /\ packet.size \in 0 .. Room - 1
    BY DEF Packet
  <2> QED BY <1>6, <2>1, TcpWriteAssumption
<1>i. PICK idx \in {2, 3} : idx = packet.stack_idx
  BY <1>6
<1>8. Layer(packet, TcpIndex, idx) = LayerOf("tcp", idx)
  <2>1. packet.handlers[TcpIndex + 1] = "tcp"
    BY <1>5, StacksDiffer DEF TcpIndex
  <2>2. idx >= TcpIndex
    BY DEF TcpIndex
  <2>3. (IF idx >= TcpIndex THEN ~ packet.kept
         ELSE packet.owner = 0 \/ packet.owner = frame) = TRUE
    BY <1>6, <2>2
  <2>4. Layer(packet, TcpIndex, idx) = [kind |-> "tcp", args |-> idx, live |-> TRUE]
    BY <2>1, <2>3 DEF Layer
  <2> QED BY <2>4 DEF LayerOf
<1>9. PICK layers \in Seq(LayerSet) : layers = <<LayerOf("tcp", idx)>>
  <2>1. LayerOf("tcp", idx) \in LayerSet
    BY DEF LayerOf, LayerSet, Index, TcpIndex
  <2>2. PICK layer \in LayerSet : layer = LayerOf("tcp", idx)
    BY <2>1
  <2>3. <<layer>> \in Seq(LayerSet)
    OBVIOUS
  <2> QED BY <2>2, <2>3
<1>h. PICK header \in Header : header = out_header
  BY DEF Types
<1>o. PICK offset \in 0 .. Room : offset = packet.offset - 1
  BY <1>7
<1>10. PICK new : new = [packet EXCEPT !.header = header, !.offset = offset, !.layers = layers]
  OBVIOUS
<1>11. /\ new \in Packet /\ new.header = out_header /\ new.offset = packet.offset - 1
       /\ new.layers = layers /\ new.stack_idx = packet.stack_idx /\ new.alone = packet.alone
       /\ new.kept = packet.kept /\ new.handlers = packet.handlers /\ new.size = packet.size
       /\ new.owner = packet.owner
  BY <1>10, <1>h, <1>o DEF Packet
<1>12. packets' = [packets EXCEPT ![p] = new]
  <2>1. packets' = [packets EXCEPT ![p] =
                      [packets[p] EXCEPT !.header = out_header, !.offset = packets[p].offset - 1,
                                         !.layers = <<Layer(packets[p], TcpIndex, packets[p].stack_idx)>>]]
    <3>1. packets' = [packets EXCEPT ![threads[t].packet] =
                        [packets[threads[t].packet] EXCEPT
                           !.header = out_header, !.offset = packets[threads[t].packet].offset - 1,
                           !.layers = <<Layer(packets[threads[t].packet], TcpIndex,
                                              packets[threads[t].packet].stack_idx)>>]]
      BY DEF Copy, Mine
    <3> QED BY <1>4, <3>1
  <2>2. [packets[p] EXCEPT !.header = out_header, !.offset = packets[p].offset - 1,
                           !.layers = <<Layer(packets[p], TcpIndex, packets[p].stack_idx)>>] = new
    BY <1>5, <1>8, <1>9, <1>10, <1>h, <1>i, <1>o
  <2> QED BY <2>1, <2>2
<1>13. /\ packets' \in Seq(Packet) /\ Len(packets') = Len(packets)
       /\ \A q \in 1 .. Len(packets) : packets'[q] = IF q = p THEN new ELSE packets[q]
  <2>1. PICK old \in Seq(Packet) : old = packets
    BY DEF Types
  <2> QED BY <1>11, <1>12, <2>1, ReplacePacket
<1>14. packets'[p] = new /\ \A q \in 1 .. Len(packets) : q # p => packets'[q] = packets[q]
  BY <1>13
<1>15. SamePackets
  BY <1>5, <1>11, <1>13 DEF SamePackets
<1> QED BY <1>2, <1>3, <1>4, <1>5, <1>9, <1>11, <1>14, <1>15, <1>i

\* AddBlock queues a block for the packet, or has none for it.
LEMMA AddEffect ==
  ASSUME Types, Names, NEW t \in Threads, AddBlock(t), fault' = fault
  PROVE  /\ Writes(t) /\ Moves(t, "pick") /\ threads'[t].loaded = threads[t].loaded
         /\ SamePackets
         /\ LET p == threads[t].packet IN
            /\ \A q \in 1 .. Len(packets) : q # p => packets'[q] = packets[q]
            /\ packets'[p].alone <=> out_buffer = <<>>
            /\ packets'[p].header = packets[p].header /\ packets'[p].offset = packets[p].offset
            /\ packets'[p].layers = packets[p].layers /\ packets'[p].kept = packets[p].kept
            /\ packets'[p].stack_idx = packets[p].stack_idx
<1>1. threads[t].pc = "add" /\ fault = "none"
  BY DEF AddBlock, At, Alive
<1>2. Goto(t, "pick")
      /\ packets' = [packets EXCEPT ![threads[t].packet].alone = out_buffer = <<>>]
  BY <1>1 DEF AddBlock
<1>3. Writes(t) /\ "pick" \in Pcs
  BY <1>1 DEF Writes, Pcs
<1>4. Moves(t, "pick") /\ threads'[t].loaded = threads[t].loaded
  BY <1>2, <1>3, GotoMoves
<1>5. PICK p \in 1 .. Len(packets) : p = threads[t].packet
  BY <1>3, PacketOfThread
<1>6. PICK packet \in Packet : packet = packets[p]
  BY <1>3, <1>5, PacketOfThread
<1>7. PICK new \in Packet :
        /\ packets' = [packets EXCEPT ![p] = new]
        /\ new.alone <=> out_buffer = <<>>
        /\ new.header = packet.header /\ new.offset = packet.offset
        /\ new.layers = packet.layers /\ new.stack_idx = packet.stack_idx
        /\ new.kept = packet.kept /\ new.handlers = packet.handlers /\ new.size = packet.size
        /\ new.owner = packet.owner
  <2>1. CASE out_buffer = <<>>
    <3>1. PICK new : new = [packet EXCEPT !.alone = TRUE]
      OBVIOUS
    <3>2. (out_buffer = <<>>) = TRUE
      BY <2>1
    <3>3. packets' = [packets EXCEPT ![p] = new]
      BY <1>2, <1>5, <1>6, <3>1, <3>2
    <3>4. new \in Packet /\ new.alone
      BY <3>1 DEF Packet
    <3> QED BY <2>1, <3>1, <3>3, <3>4 DEF Packet
  <2>2. CASE out_buffer # <<>>
    <3>1. PICK new : new = [packet EXCEPT !.alone = FALSE]
      OBVIOUS
    <3>2. (out_buffer = <<>>) = FALSE
      BY <2>2
    <3>3. packets' = [packets EXCEPT ![p] = new]
      BY <1>2, <1>5, <1>6, <3>1, <3>2
    <3>4. new \in Packet /\ ~ new.alone
      BY <3>1 DEF Packet
    <3> QED BY <2>2, <3>1, <3>3, <3>4 DEF Packet
  <2> QED BY <2>1, <2>2
<1>8. /\ packets' \in Seq(Packet) /\ Len(packets') = Len(packets)
      /\ \A q \in 1 .. Len(packets) : packets'[q] = IF q = p THEN new ELSE packets[q]
  <2>1. PICK old \in Seq(Packet) : old = packets
    BY DEF Types
  <2> QED BY <1>7, <2>1, ReplacePacket
<1>9. packets'[p] = new /\ \A q \in 1 .. Len(packets) : q # p => packets'[q] = packets[q]
  BY <1>8
<1>10. SamePackets
  BY <1>6, <1>7, <1>8 DEF SamePackets
<1> QED BY <1>3, <1>4, <1>5, <1>6, <1>7, <1>9, <1>10

\* `new` is the packet with other headers in front, further down its stack
SameBut(new, packet) ==
  /\ new \in Packet
  /\ new.handlers = packet.handlers /\ new.size = packet.size
  /\ new.owner = packet.owner /\ new.header = packet.header
  /\ new.alone = packet.alone /\ new.kept = packet.kept
  /\ new.stack_idx <= packet.stack_idx

MovedResult(old, own, handler, moved) ==
  /\ moved \in Seq(Packet) /\ Len(moved) = Len(old)
  /\ \A q \in 1 .. Len(old) : SameBut(moved[q], old[q])
  /\ \A q \in 1 .. Len(old) : q # own => moved[q] = old[q]
  /\ moved[own] = [old[own] EXCEPT !.stack_idx = handler] /\ moved[own].stack_idx = handler

\* The index of a packet is a number.
LEMMA StackIndex ==
  ASSUME NEW packet \in Packet
  PROVE  packet.stack_idx \in 0 .. 3 /\ packet.stack_idx \in Int
         /\ packet.stack_idx <= packet.stack_idx
<1>1. packet.stack_idx \in 0 .. 3
  BY DEF Packet, Index, TcpIndex
<1> QED BY <1>1

\* The thread's own packet gets another stack_idx.
LEMMA LowerMoves ==
  ASSUME NEW old \in Seq(Packet), NEW own \in 1 .. Len(old), NEW handler \in Index,
         handler <= old[own].stack_idx,
         NEW moved, moved = [old EXCEPT ![own].stack_idx = handler]
  PROVE  MovedResult(old, own, handler, moved)
<1>1. PICK packet \in Packet : packet = old[own]
  OBVIOUS
<1>2. PICK first \in Packet : first = [packet EXCEPT !.stack_idx = handler]
  BY PacketFields
<1>3. /\ first.handlers = packet.handlers /\ first.size = packet.size
      /\ first.owner = packet.owner /\ first.header = packet.header
      /\ first.alone = packet.alone /\ first.kept = packet.kept
      /\ first.stack_idx = handler
  BY <1>2 DEF Packet
<1>4. moved = [old EXCEPT ![own] = first]
  BY <1>1, <1>2
<1>5. /\ moved \in Seq(Packet) /\ Len(moved) = Len(old)
      /\ \A q \in 1 .. Len(old) : moved[q] = IF q = own THEN first ELSE old[q]
  <2>1. /\ [old EXCEPT ![own] = first] \in Seq(Packet)
        /\ Len([old EXCEPT ![own] = first]) = Len(old)
        /\ \A q \in 1 .. Len(old) : [old EXCEPT ![own] = first][q] = IF q = own THEN first ELSE old[q]
    BY ReplacePacket
  <2> QED BY <1>4, <2>1
<1>6. \A q \in 1 .. Len(old) : SameBut(moved[q], old[q])
  <2> TAKE q \in 1 .. Len(old)
  <2>1. CASE q = own
    BY <1>1, <1>3, <1>5, <2>1 DEF SameBut
  <2>2. CASE q # own
    <3>1. PICK same \in Packet : same = old[q]
      OBVIOUS
    <3>2. same.stack_idx <= same.stack_idx
      BY StackIndex
    <3> QED BY <1>5, <2>2, <3>1, <3>2 DEF SameBut
  <2> QED BY <2>1, <2>2
<1>7. moved[own] = first /\ \A q \in 1 .. Len(old) : q # own => moved[q] = old[q]
  BY <1>5
<1> QED BY <1>1, <1>2, <1>3, <1>5, <1>6, <1>7 DEF MovedResult

\* What Lower writes: the head gets the headers of the handlers below, and the
\* thread's own packet another stack_idx.
LowerResult(old, own, head, handler, second, written) ==
  /\ written \in Seq(Packet) /\ Len(written) = Len(old)
  /\ \A q \in 1 .. Len(old) : q # own /\ q # head => written[q] = old[q]
  /\ \A q \in 1 .. Len(old) : SameBut(written[q], old[q])
  /\ written[own].stack_idx <= handler /\ written[head] = second

\* Lower writes that.
LEMMA LowerWrites ==
  ASSUME NEW old \in Seq(Packet), NEW own \in 1 .. Len(old), NEW head \in 1 .. Len(old),
         NEW handler \in Index, NEW moved, MovedResult(old, own, handler, moved),
         NEW second, SameBut(second, moved[head]),
         NEW written, written = [moved EXCEPT ![head] = second]
  PROVE  LowerResult(old, own, head, handler, second, written)
<1>1. /\ moved \in Seq(Packet) /\ Len(moved) = Len(old)
      /\ \A q \in 1 .. Len(old) : SameBut(moved[q], old[q])
      /\ \A q \in 1 .. Len(old) : q # own => moved[q] = old[q]
      /\ moved[own].stack_idx = handler
  BY Zenon DEF MovedResult
<1>2. /\ written \in Seq(Packet) /\ Len(written) = Len(moved)
      /\ \A q \in 1 .. Len(moved) : written[q] = IF q = head THEN second ELSE moved[q]
  <2>1. head \in 1 .. Len(moved)
    BY <1>1
  <2>2. second \in Packet
    BY DEF SameBut
  <2> QED BY <1>1, <2>1, <2>2, ReplacePacket
<1>3. \A q \in 1 .. Len(old) : SameBut(written[q], old[q])
  <2> TAKE q \in 1 .. Len(old)
  <2>1. CASE q = head
    <3>1. written[q] = second
      BY <1>1, <1>2, <2>1
    <3>2. PICK target \in Packet, before \in Packet : target = moved[q] /\ before = old[q]
      BY <1>1
    <3>3. SameBut(second, target) /\ SameBut(target, before)
      BY <1>1, <2>1, <3>2
    <3>4. second.stack_idx <= before.stack_idx
      <4>1. second.stack_idx \in Int /\ target.stack_idx \in Int /\ before.stack_idx \in Int
        <5>1. second \in Packet
          BY <3>3 DEF SameBut
        <5> QED BY <5>1, StackIndex
      <4>2. second.stack_idx <= target.stack_idx /\ target.stack_idx <= before.stack_idx
        BY <3>3 DEF SameBut
      <4> QED BY <4>1, <4>2
    <3>5. SameBut(second, before)
      BY <3>3, <3>4 DEF SameBut
    <3> QED BY <3>1, <3>2, <3>5
  <2>2. CASE q # head
    BY <1>1, <1>2, <2>2
  <2> QED BY <2>1, <2>2
<1>4. \A q \in 1 .. Len(old) : q # own /\ q # head => written[q] = old[q]
  BY <1>1, <1>2
<1>5. written[head] = second /\ (own # head => written[own] = moved[own])
  BY <1>1, <1>2
<1>6. written[own].stack_idx <= handler
  <2>1. CASE own = head
    BY <1>1, <1>5, <2>1 DEF SameBut
  <2>2. CASE own # head
    <3>1. handler <= handler
      BY DEF Index, TcpIndex
    <3> QED BY <1>1, <1>5, <2>2, <3>1
  <2> QED BY <2>1, <2>2
<1> QED BY <1>1, <1>2, <1>3, <1>4, <1>5, <1>6 DEF LowerResult

\* The head packet when tcp_write is called for it again is still that packet.
LEMMA AgainSame ==
  ASSUME NEW t \in Threads, NEW packet \in Packet, packet = Moved(t)[threads[t].head],
         packet.handlers = TcpStack, Handler(t) \in 0 .. 2,
         Handler(t) = 2 \/ packet.stack_idx > 2
  PROVE  SameBut(Again(t), packet)
<1>1. packet.stack_idx \in 0 .. 3 /\ packet.offset \in 0 .. Room /\ packet.layers \in Seq(LayerSet)
  BY DEF Packet, Index, TcpIndex
<1>2. CASE Handler(t) = TcpIndex \/ packet.offset = 0
  <2>1. Again(t) = packet
    BY <1>2 DEF Again
  <2> QED BY <1>1, <2>1 DEF SameBut
<1>3. CASE ~ (Handler(t) = TcpIndex \/ packet.offset = 0)
  <2>1. PICK handler \in 0 .. TcpIndex : handler = Handler(t)
    BY DEF TcpIndex
  <2>2. Writable(packet, handler)
    BY DEF Writable
  <2>3. PICK layer \in LayerSet : layer = Layer(packet, handler, packet.stack_idx)
    <3>1. packet.stack_idx \in Index
      BY DEF Packet
    <3> QED BY <2>2, <3>1, LayerType
  <2>4. PICK layers \in Seq(LayerSet) : layers = Append(packet.layers, layer)
    <3>1. PICK l \in Seq(LayerSet) : l = packet.layers
      BY <1>1
    <3>2. Append(l, layer) \in Seq(LayerSet)
      OBVIOUS
    <3> QED BY <3>1, <3>2
  <2>5. PICK offset \in 0 .. Room : offset = packet.offset - 1
    BY <1>1, <1>3, TcpWriteAssumption
  <2>6. PICK idx \in Index : idx = packet.stack_idx - 1 /\ idx <= packet.stack_idx
    BY <1>1, <1>3 DEF TcpIndex, Index
  <2>7. Again(t) = [packet EXCEPT !.layers = layers, !.offset = offset, !.stack_idx = idx]
    BY <1>3, <2>1, <2>3, <2>4, <2>5, <2>6 DEF Again
  <2>8. PICK new : new = [packet EXCEPT !.layers = layers, !.offset = offset, !.stack_idx = idx]
    OBVIOUS
  <2>9. /\ new \in Packet /\ new.handlers = packet.handlers /\ new.size = packet.size
        /\ new.owner = packet.owner /\ new.header = packet.header
        /\ new.alone = packet.alone /\ new.kept = packet.kept /\ new.stack_idx = idx
    BY <2>8 DEF Packet
  <2> QED BY <2>6, <2>7, <2>8, <2>9 DEF SameBut
<1> QED BY <1>2, <1>3

\* the handler below is called: for it, or for tcp_write again
Lowers(t) == Lower(t) \/ LowerAgain(t)

\* The lower handlers send the head, or stop for want of room.
LEMMA LowerEffect ==
  ASSUME Types, Names, NEW t \in Threads, Lowers(t), fault' = fault
  PROVE  /\ threads[t].pc = "lower" /\ Writes(t) /\ HasHead(t) /\ SamePackets
         /\ LET own == threads[t].packet
                head == threads[t].head
                target == [packets[own] EXCEPT !.stack_idx = packets[own].stack_idx - 1]
                handler == packets[own].stack_idx - 1
            IN
            /\ \A q \in 1 .. Len(packets) : q # own /\ q # head => packets'[q] = packets[q]
            /\ \A q \in 1 .. Len(packets) : /\ packets'[q].header = packets[q].header
                                            /\ packets'[q].alone = packets[q].alone
                                            /\ q # own => packets'[q].kept = packets[q].kept
                                            /\ packets'[q].stack_idx <= packets[q].stack_idx
            /\ \/ /\ Moves(t, "remove") /\ threads'[t].loaded = threads[t].loaded
                  /\ wire' = Append(wire, head)
                  /\ packets'[own].kept = packets[own].kept
                  /\ packets'[own].stack_idx < packets[own].stack_idx
                  /\ own = head => /\ Writable(target, handler) /\ Fitting(target, handler)
                                   /\ packets'[own] = Encapsulate(target, handler)
                                   /\ handler \in 0 .. 1
               \/ /\ Leaves(t) /\ UNCHANGED wire
                  /\ InQueue(own) => packets'[own].kept
<1>1. threads[t].pc = "lower" /\ fault = "none"
  BY DEF Lowers, Lower, LowerAgain, At, Alive
<1>2. Writes(t) /\ HasHead(t)
  BY <1>1 DEF Writes, HasHead
<1>3. PICK old \in Seq(Packet) : old = packets
  BY DEF Types
<1>4. PICK own \in 1 .. Len(old) : own = threads[t].packet
  BY <1>2, <1>3, PacketOfThread
<1>5. PICK head \in 1 .. Len(old) : head = threads[t].head
  BY <1>2, <1>3, PacketOfThread
<1>6. old[own].handlers = TcpStack /\ old[head].handlers = TcpStack
  BY <1>2, <1>3, <1>4, <1>5, PacketOfThread
<1>i. PICK idx \in 0 .. 3 : idx = old[own].stack_idx
  <2>1. PICK packet \in Packet : packet = old[own]
    OBVIOUS
  <2>2. packet.stack_idx \in 0 .. 3
    BY DEF Packet, Index, TcpIndex
  <2> QED BY <2>1, <2>2
<1>7. idx > 0
  <2>1. Mine(t).stack_idx = idx
    BY <1>3, <1>4, <1>i DEF Mine
  <2>2. LowerAgain(t) => idx > 0
    BY <2>1 DEF LowerAgain, Recurs
  <2>3. Lower(t) => idx # 0
    BY <1>1, <1>3, <1>4, <1>i DEF Lower
  <2> QED BY <2>2, <2>3 DEF Lowers
<1>8. PICK handler \in 0 .. 2 : handler = idx - 1
  BY <1>7
<1>h. Handler(t) = handler /\ handler \in Index /\ handler <= old[own].stack_idx
  BY <1>3, <1>4, <1>8, <1>i DEF Handler, Mine, Index, TcpIndex
<1>9. PICK moved : moved = [old EXCEPT ![own].stack_idx = handler]
  OBVIOUS
<1>m. Moved(t) = moved
  BY <1>3, <1>4, <1>9, <1>h DEF Moved
<1>10. MovedResult(old, own, handler, moved)
  BY <1>9, <1>h, LowerMoves
<1>11. PICK target \in Packet : target = moved[head] /\ target.handlers = TcpStack
  <2>1. moved \in Seq(Packet) /\ Len(moved) = Len(old) /\ SameBut(moved[head], old[head])
    BY <1>10, Zenon DEF MovedResult
  <2> QED BY <1>6, <2>1 DEF SameBut
<1>12. Writable(target, handler)
  BY <1>11 DEF Writable, TcpIndex
<1>13. PICK second : /\ SameBut(second, target)
                     /\ \/ /\ second = Encapsulate(target, handler) /\ Fitting(target, handler)
                           /\ handler \in 0 .. 1
                           /\ packets' = [moved EXCEPT ![head] = second]
                           /\ wire' = Append(wire, head) /\ Goto(t, "remove")
                        \/ Returns(t, [moved EXCEPT ![head] = second]) /\ UNCHANGED wire
  <2>1. CASE Lower(t)
    <3>1. PICK second : second = Encapsulate(target, handler)
      OBVIOUS
    <3>2. SameBut(second, target)
      BY <1>12, <3>1, EncapsulateType DEF SameBut
    <3>3. handler \in 0 .. 1
      <4>1. ~ Recurs(t) /\ Mine(t).stack_idx > 0
        BY <1>3, <1>4, <1>7, <1>i, <2>1 DEF Lower, Mine
      <4>2. Handler(t) # 2
        BY <4>1 DEF Recurs, TcpIndex
      <4> QED BY <1>h, <4>2
    <3>4. packets[threads[t].packet].stack_idx # 0
      BY <1>3, <1>4, <1>7, <1>i
    <3>5. IF Fitting(target, handler)
          THEN packets' = [moved EXCEPT ![head] = second] /\ wire' = Append(wire, head) /\ Goto(t, "remove")
          ELSE Returns(t, [moved EXCEPT ![head] = second]) /\ UNCHANGED wire
      BY <1>5, <1>11, <1>h, <1>m, <2>1, <3>1, <3>4 DEF Lower
    <3> QED BY <3>1, <3>2, <3>3, <3>5
  <2>2. CASE LowerAgain(t)
    <3>1. PICK second : second = Again(t)
      OBVIOUS
    <3>2. SameBut(second, target)
      <4>1. handler = 2 \/ target.stack_idx > 2
        BY <1>5, <1>11, <1>h, <1>m, <2>2 DEF LowerAgain, Recurs, TcpIndex
      <4>2. target = Moved(t)[threads[t].head] /\ Handler(t) = handler
        BY <1>5, <1>11, <1>h, <1>m
      <4> QED BY <1>11, <3>1, <4>1, <4>2, AgainSame
    <3>3. Returns(t, [moved EXCEPT ![head] = second]) /\ UNCHANGED wire
      BY <1>1, <1>5, <1>m, <2>2, <3>1 DEF LowerAgain
    <3> QED BY <3>2, <3>3
  <2> QED BY <2>1, <2>2 DEF Lowers
<1>14. PICK written : written = [moved EXCEPT ![head] = second]
  OBVIOUS
<1>15. /\ written \in Seq(Packet) /\ Len(written) = Len(old)
       /\ \A q \in 1 .. Len(old) : q # own /\ q # head => written[q] = old[q]
       /\ \A q \in 1 .. Len(old) : SameBut(written[q], old[q])
       /\ written[own].stack_idx <= handler /\ written[head] = second
  <2>1. SameBut(second, moved[head])
    BY <1>11, <1>13
  <2>2. LowerResult(old, own, head, handler, second, written)
    BY <1>10, <1>14, <1>h, <2>1, LowerWrites
  <2> QED BY <2>2, Zenon DEF LowerResult
<1>16. \A q \in 1 .. Len(old) :
         /\ written[q].handlers = old[q].handlers /\ written[q].size = old[q].size
         /\ written[q].owner = old[q].owner /\ written[q].header = old[q].header
         /\ written[q].alone = old[q].alone /\ written[q].kept = old[q].kept
         /\ written[q].stack_idx <= old[q].stack_idx
  BY <1>15 DEF SameBut
<1>17. CASE /\ second = Encapsulate(target, handler) /\ Fitting(target, handler)
            /\ handler \in 0 .. 1 /\ packets' = written
            /\ wire' = Append(wire, head) /\ Goto(t, "remove")
  <2>1. Moves(t, "remove") /\ threads'[t].loaded = threads[t].loaded
    <3>1. "remove" \in Pcs
      BY DEF Pcs
    <3> QED BY <1>17, <3>1, GotoMoves
  <2>2. SamePackets
    BY <1>3, <1>15, <1>16, <1>17 DEF SamePackets
  <2>3. own = head =>
          /\ Writable([packets[own] EXCEPT !.stack_idx = packets[own].stack_idx - 1], handler)
          /\ Fitting([packets[own] EXCEPT !.stack_idx = packets[own].stack_idx - 1], handler)
          /\ packets'[own] =
               Encapsulate([packets[own] EXCEPT !.stack_idx = packets[own].stack_idx - 1], handler)
    <3> HAVE own = head
    <3>1. moved[own] = [old[own] EXCEPT !.stack_idx = handler]
      BY <1>10, Zenon DEF MovedResult
    <3>2. target = [packets[own] EXCEPT !.stack_idx = packets[own].stack_idx - 1]
      BY <1>3, <1>8, <1>11, <1>i, <3>1
    <3>3. packets'[own] = Encapsulate(target, handler)
      BY <1>15, <1>17
    <3> QED BY <1>12, <1>17, <3>2, <3>3
  <2>4. packets'[own].stack_idx < packets[own].stack_idx
    <3>1. PICK low \in Int : low = written[own].stack_idx
      <4>1. PICK packet \in Packet : packet = written[own]
        BY <1>15
      <4>2. packet.stack_idx \in Int
        BY StackIndex
      <4> QED BY <4>1, <4>2
    <3>2. low < idx
      BY <1>8, <1>15, <3>1
    <3> QED BY <1>3, <1>17, <1>i, <3>1, <3>2
  <2>5. /\ \A q \in 1 .. Len(packets) : q # own /\ q # head => packets'[q] = packets[q]
        /\ \A q \in 1 .. Len(packets) : /\ packets'[q].header = packets[q].header
                                        /\ packets'[q].alone = packets[q].alone
                                        /\ packets'[q].kept = packets[q].kept
                                        /\ packets'[q].stack_idx <= packets[q].stack_idx
    BY <1>3, <1>15, <1>16, <1>17
  <2>6. packets[own].stack_idx - 1 = handler
    BY <1>3, <1>8, <1>i
  <2>7. packets'[own].kept = packets[own].kept
    BY <1>3, <2>5
  <2> QED BY <1>1, <1>2, <1>4, <1>5, <1>17, <2>1, <2>2, <2>3, <2>4, <2>5, <2>6, <2>7
<1>18. CASE Returns(t, written) /\ UNCHANGED wire
  <2>2. own \in 1 .. Len(written)
    BY <1>15
  <2>3. /\ Leaves(t)
        /\ packets' \in Seq(Packet) /\ Len(packets') = Len(written)
        /\ \A q \in 1 .. Len(written) : q # own => packets'[q] = written[q]
        /\ InQueue(own) => packets'[own] = [written[own] EXCEPT !.kept = TRUE]
        /\ ~ InQueue(own) => packets'[own] = [written[own] EXCEPT !.kept = FALSE]
    BY <1>4, <1>15, <1>18, <2>2, ReturnsLeaves
  <2>4. PICK mine \in Packet : mine = written[own]
    BY <1>15, <2>2
  <2>5. /\ packets'[own].handlers = mine.handlers /\ packets'[own].size = mine.size
        /\ packets'[own].owner = mine.owner /\ packets'[own].header = mine.header
        /\ packets'[own].alone = mine.alone /\ packets'[own].stack_idx = mine.stack_idx
        /\ InQueue(own) => packets'[own].kept
    <3>1. CASE InQueue(own)
      <4>1. packets'[own] = [mine EXCEPT !.kept = TRUE]
        BY <2>3, <2>4, <3>1
      <4> QED BY <4>1 DEF Packet
    <3>2. CASE ~ InQueue(own)
      <4>1. packets'[own] = [mine EXCEPT !.kept = FALSE]
        BY <2>3, <2>4, <3>2
      <4> QED BY <3>2, <4>1 DEF Packet
    <3> QED BY <3>1, <3>2
  <2>6. \A q \in 1 .. Len(old) :
          /\ packets'[q].handlers = old[q].handlers /\ packets'[q].size = old[q].size
          /\ packets'[q].owner = old[q].owner /\ packets'[q].header = old[q].header
          /\ packets'[q].alone = old[q].alone
          /\ q # own => packets'[q].kept = old[q].kept
          /\ packets'[q].stack_idx <= old[q].stack_idx
    <3> TAKE q \in 1 .. Len(old)
    <3>1. CASE q = own
      <4>1. /\ mine.handlers = old[own].handlers /\ mine.size = old[own].size
            /\ mine.owner = old[own].owner /\ mine.header = old[own].header
            /\ mine.alone = old[own].alone /\ mine.stack_idx <= old[own].stack_idx
        BY <1>16, <2>4
      <4> QED BY <2>5, <3>1, <4>1
    <3>2. CASE q # own
      <4>1. packets'[q] = written[q]
        BY <1>15, <2>3, <3>2
      <4> QED BY <1>16, <3>2, <4>1
    <3> QED BY <3>1, <3>2
  <2>7. SamePackets
    BY <1>3, <1>15, <2>3, <2>6 DEF SamePackets
  <2>8. \A q \in 1 .. Len(old) : q # own /\ q # head => packets'[q] = old[q]
    BY <1>15, <2>3
  <2>9. \A q \in 1 .. Len(packets) : /\ packets'[q].header = packets[q].header
                                     /\ packets'[q].alone = packets[q].alone
                                     /\ q # own => packets'[q].kept = packets[q].kept
                                     /\ packets'[q].stack_idx <= packets[q].stack_idx
    BY <1>3, <2>6
  <2>10. \A q \in 1 .. Len(packets) : q # own /\ q # head => packets'[q] = packets[q]
    BY <1>3, <2>8
  <2>11. InQueue(own) => packets'[own].kept
    BY <2>5
  <2> QED BY <1>1, <1>2, <1>4, <1>5, <1>18, <2>3, <2>7, <2>9, <2>10, <2>11, Zenon
<1> QED BY <1>13, <1>14, <1>17, <1>18

\* What the call of the handler below leaves alone.
LEMMA LowersFrame ==
  ASSUME NEW t \in Threads, Lowers(t)
  PROVE  /\ threads[t].pc = "lower"
         /\ UNCHANGED <<out_header, send_next, send_window, out_buffer>>
         /\ UNCHANGED <<frame, reads, mixed, refused, counting, moves, misnumbered>>
         /\ fault' \in {fault, "stack_underflow", "dangling_args"}
         /\ fault' # fault => UNCHANGED <<packets, threads, wire>>
<1>1. CASE Lower(t)
  BY <1>1 DEF Lower, shared, numbers, At
<1>2. CASE LowerAgain(t)
  BY <1>2 DEF LowerAgain, shared, numbers, At
<1> QED BY <1>1, <1>2 DEF Lowers

\* the steps that touch the numbers or the fault, and nothing else
Aside ==
  UNCHANGED <<out_header, send_window, out_buffer, packets, frame, reads, threads, wire,
              mixed, refused>>

\* The steps, with the calls of tcp_write together, and what is beside it.
LEMMA NextCases ==
  ASSUME [Next]_vars
  PROVE  \/ Receive \/ Return \/ ArpRead \/ Aside
         \/ \E window \in Windows : UpdateWindow(window)
         \/ \E t \in Threads, size \in ReplySizes \union SendSizes, idx \in {2, 3} : Call(t, size, idx)
         \/ \E t \in Threads : Step(t)
<1>1. CASE UNCHANGED vars
  BY <1>1 DEF vars, shared, Aside
<1>2. ASSUME NEW value \in Renumbers, Renumber(value)
      PROVE  \E t \in Threads, size \in ReplySizes \union SendSizes, idx \in {2, 3} : Call(t, size, idx)
  <2>1. Call("worker", 0, 2)
    BY <1>2 DEF Renumber, TcpIndex
  <2>2. 0 \in ReplySizes \union SendSizes
    BY <2>1 DEF Call
  <2>3. "worker" \in Threads
    BY TcpWriteAssumption
  <2> QED BY <2>1, <2>2, <2>3
<1>3. ASSUME NEW t \in Threads, CountLoad(t) \/ CountStore(t) \/ \E other \in Threads : ListRace(t, other)
      PROVE  Aside
  BY <1>3 DEF CountLoad, CountStore, ListRace, Aside, shared
<1>4. ASSUME NEW t \in Threads, NEW size \in ReplySizes \union SendSizes,
             NEW idx \in {TcpIndex, TcpIndex + 1}, Begin(t, size, idx)
      PROVE  \E i \in {2, 3} : Call(t, size, i)
  <2>1. idx \in {2, 3}
    BY DEF TcpIndex
  <2> QED BY <1>4, <2>1 DEF Begin
<1> QED BY <1>1, <1>2, <1>3, <1>4, Zenon DEF Next

\* one packet more, and the others as they were
OneMore ==
  /\ packets' \in Seq(Packet) /\ Len(packets') = Len(packets) + 1
  /\ \A p \in 1 .. Len(packets) : packets'[p] = packets[p]

\* A packet is appended.
LEMMA AppendPacket ==
  ASSUME Types, NEW packet \in Packet, packets' = Append(packets, packet)
  PROVE  OneMore /\ packets'[Len(packets) + 1] = packet
<1>1. PICK old \in Seq(Packet) : old = packets
  BY DEF Types
<1>2. /\ Append(old, packet) \in Seq(Packet) /\ Len(Append(old, packet)) = Len(old) + 1
      /\ \A p \in 1 .. Len(old) : Append(old, packet)[p] = old[p]
      /\ Append(old, packet)[Len(old) + 1] = packet
  OBVIOUS
<1> QED BY <1>1, <1>2 DEF OneMore

\* Call: a new packet of TCP for an idle thread.
LEMMA CallEffect ==
  ASSUME Types, NEW t \in Threads, NEW size \in ReplySizes \union SendSizes, NEW idx \in {2, 3},
         Call(t, size, idx)
  PROVE  /\ ~ Writes(t) /\ OneMore
         /\ threads' \in [Threads -> Thread]
         /\ \A u \in Threads : u # t => threads'[u] = threads[u]
         /\ threads'[t].pc = "fields" /\ threads'[t].packet = Len(packets) + 1
         /\ LET new == packets'[Len(packets) + 1] IN
            /\ new.handlers = TcpStack /\ new.stack_idx = idx
            /\ new.offset + new.size = Room /\ ~ new.alone /\ ~ new.kept
            /\ new.owner = IF t = "worker" THEN frame ELSE 0
<1>1. threads[t].pc = "idle"
  BY DEF Call, Free, At
<1>2. size \in Nat /\ size < Room
  BY TcpWriteAssumption DEF Call
<1>3. PICK owner \in Nat : owner = IF t = "worker" THEN frame ELSE 0
  <2>1. (IF t = "worker" THEN frame ELSE 0) \in Nat
    BY TcpWriteAssumption DEF Types
  <2> QED BY <2>1
<1>4. PICK new : new = NewPacket(TcpStack, idx, owner, size)
  OBVIOUS
<1>5. /\ new \in Packet /\ new.handlers = TcpStack /\ new.stack_idx = idx
      /\ new.owner = owner /\ new.size = size /\ new.offset = Room - size
      /\ ~ new.alone /\ ~ new.kept
  <2>1. idx \in Index
    BY DEF TcpIndex, Index
  <2> QED BY <1>2, <1>4, <2>1, NewPacketType
<1>6. new.offset + new.size = Room
  BY <1>2, <1>5, TcpWriteAssumption
<1>7. packets' = Append(packets, new)
  BY <1>3, <1>4 DEF Call
<1>8. OneMore /\ packets'[Len(packets) + 1] = new
  BY <1>5, <1>7, AppendPacket
<1>9. PICK n \in Nat : n = Len(packets) + 1
  BY DEF Types
<1>10. PICK thread : thread = [Idle EXCEPT !.pc = "fields", !.packet = n]
  OBVIOUS
<1>11. thread \in Thread /\ thread.pc = "fields" /\ thread.packet = n
  <2>1. 0 \in SeqNum
    BY SeqSpaceAssumption DEF SeqNum
  <2> QED BY <1>10, <2>1 DEF Idle, Thread, Pcs
<1>12. threads' = [threads EXCEPT ![t] = thread]
  BY <1>9, <1>10 DEF Call
<1>13. threads \in [Threads -> Thread]
  BY DEF Types
<1>14. threads' \in [Threads -> Thread] /\ threads'[t] = thread
       /\ \A u \in Threads : u # t => threads'[u] = threads[u]
  BY <1>11, <1>12, <1>13
<1> QED BY <1>1, <1>3, <1>5, <1>6, <1>8, <1>9, <1>11, <1>14 DEF Writes

\* What Encapsulate makes of an ARP reply: both headers, from live arguments.
LEMMA ArpEncapsulated ==
  ASSUME NEW packet \in Packet, packet.handlers = ArpStack, packet.stack_idx = ArpIndex,
         packet.owner = frame, packet.layers = <<>>, packet.offset + packet.size = Room,
         Fitting(packet, ArpIndex)
  PROVE  LET result == Encapsulate(packet, ArpIndex) IN
         /\ result.layers = ArpLayers
         /\ result.offset + Len(ArpLayers) + result.size = Room
<1>1. Writable(packet, ArpIndex)
  BY DEF Writable, ArpIndex, Index, TcpIndex
<1>2. PICK chain \in Seq(LayerSet) : chain = Chain(packet, ArpIndex)
  BY <1>1, ChainElements
<1>3. Len(chain) = 2 /\ chain[1] = Layer(packet, 1, 1) /\ chain[2] = Layer(packet, 0, 0)
  <2>1. Len(chain) = ArpIndex + 1 /\ chain[1] = Layer(packet, ArpIndex, ArpIndex)
        /\ \A i \in 1 .. ArpIndex : chain[i + 1] = Layer(packet, ArpIndex - i, ArpIndex - i)
    BY <1>1, <1>2, ChainElements
  <2>2. chain[1 + 1] = Layer(packet, 1 - 1, 1 - 1)
    BY <2>1 DEF ArpIndex
  <2>3. 1 + 1 = 2 /\ 1 - 1 = 0
    OBVIOUS
  <2> QED BY <2>1, <2>2, <2>3 DEF ArpIndex
<1>4. Layer(packet, 1, 1) = LayerOf("arp", 1) /\ Layer(packet, 0, 0) = LayerOf("ethernet", 0)
  <2>1. packet.handlers[1 + 1] = "arp" /\ packet.handlers[0 + 1] = "ethernet"
    BY StacksDiffer
  <2>2. (packet.owner = 0 \/ packet.owner = frame) = TRUE
    OBVIOUS
  <2>3. Layer(packet, 1, 1) = [kind |-> "arp", args |-> 1, live |-> TRUE]
    <3>1. (IF 1 >= TcpIndex THEN ~ packet.kept
           ELSE packet.owner = 0 \/ packet.owner = frame) = TRUE
      BY <2>2 DEF TcpIndex
    <3> QED BY <2>1, <3>1 DEF Layer
  <2>4. Layer(packet, 0, 0) = [kind |-> "ethernet", args |-> 0, live |-> TRUE]
    <3>1. (IF 0 >= TcpIndex THEN ~ packet.kept
           ELSE packet.owner = 0 \/ packet.owner = frame) = TRUE
      BY <2>2 DEF TcpIndex
    <3> QED BY <2>1, <3>1 DEF Layer
  <2> QED BY <2>3, <2>4 DEF LayerOf
<1>5. chain = ArpLayers
  BY <1>3, <1>4 DEF ArpLayers
<1>6. Len(ArpLayers) = 2
  BY DEF ArpLayers
<1>7. PICK result : result = Encapsulate(packet, ArpIndex)
  OBVIOUS
<1>8. result.layers = packet.layers \o chain /\ result.offset = packet.offset - (ArpIndex + 1)
  BY <1>1, <1>2, <1>7, EncapsulateFitting
<1>9. result.size = packet.size
  BY <1>1, <1>7, EncapsulateType
<1>10. <<>> \o chain = chain
  OBVIOUS
<1>11. packet.offset \in Nat /\ packet.size \in Nat
  BY TcpWriteAssumption DEF Packet
<1>12. result.layers = ArpLayers
  BY <1>5, <1>8, <1>10
<1>13. result.offset + 2 + result.size = Room
  BY <1>8, <1>9, <1>11, TcpWriteAssumption DEF ArpIndex
<1> QED BY <1>6, <1>7, <1>12, <1>13

\* ArpRead: a reply, which is on the wire when its headers fit.
LEMMA ArpEffect ==
  ASSUME Types, ArpRead
  PROVE  /\ OneMore
         /\ LET new == packets'[Len(packets) + 1] IN
            /\ new.handlers = ArpStack
            /\ \/ UNCHANGED wire
               \/ /\ wire' = Append(wire, Len(packets) + 1)
                  /\ new.layers = ArpLayers /\ new.offset + Len(ArpLayers) + new.size = Room
<1>1. frame \in Nat
  BY TcpWriteAssumption DEF Types
<1>2. PICK reply : reply = NewPacket(ArpStack, ArpIndex, frame, 0)
  OBVIOUS
<1>3. /\ reply \in Packet /\ reply.handlers = ArpStack /\ reply.stack_idx = ArpIndex
      /\ reply.owner = frame /\ reply.size = 0 /\ reply.offset = Room - 0 /\ reply.layers = <<>>
  <2>1. ArpIndex \in Index /\ 0 \in Nat /\ 0 < Room
    BY TcpWriteAssumption DEF TcpIndex, Index, ArpIndex
  <2> QED BY <1>1, <1>2, <2>1, NewPacketType
<1>4. Writable(reply, ArpIndex)
  BY <1>3 DEF Writable, ArpIndex, Index, TcpIndex
<1>5. PICK new : new = Encapsulate(reply, ArpIndex)
  OBVIOUS
<1>6. new \in Packet /\ new.handlers = ArpStack
  BY <1>3, <1>4, <1>5, EncapsulateType
<1>7. packets' = Append(packets, new)
  BY <1>2, <1>5 DEF ArpRead
<1>8. OneMore /\ packets'[Len(packets) + 1] = new
  BY <1>6, <1>7, AppendPacket
<1>9. wire' = IF Fitting(reply, ArpIndex) THEN Append(wire, Len(packets) + 1) ELSE wire
  BY <1>2 DEF ArpRead
<1>10. reply.offset + reply.size = Room
  BY <1>3, TcpWriteAssumption
<1>11. Fitting(reply, ArpIndex) =>
         new.layers = ArpLayers /\ new.offset + Len(ArpLayers) + new.size = Room
  BY <1>3, <1>5, <1>10, ArpEncapsulated
<1> QED BY <1>6, <1>8, <1>9, <1>11

\* One header and two more are three.
LEMMA OneAndTwo ==
  ASSUME NEW S, NEW a \in S, NEW b \in S, NEW c \in S
  PROVE  <<a>> \o <<b, c>> = <<a, b, c>>
<1>1. <<a>> \in Seq(S) /\ Len(<<a>>) = 1 /\ <<a>>[1] = a
  OBVIOUS
<1>2. <<b, c>> \in Seq(S) /\ Len(<<b, c>>) = 2 /\ <<b, c>>[1] = b /\ <<b, c>>[2] = c
  OBVIOUS
<1>3. /\ <<a, b, c>> \in Seq(S) /\ Len(<<a, b, c>>) = 3
      /\ <<a, b, c>>[1] = a /\ <<a, b, c>>[2] = b /\ <<a, b, c>>[3] = c
  OBVIOUS
<1>4. PICK one \in Seq(S), two \in Seq(S), all \in Seq(S) :
        one = <<a>> /\ two = <<b, c>> /\ all = <<a, b, c>>
  BY <1>1, <1>2, <1>3
<1>5. Len(one) = 1 /\ one[1] = a /\ Len(two) = 2 /\ two[1] = b /\ two[2] = c
  BY <1>1, <1>2, <1>4
<1>6. Len(all) = 3 /\ all[1] = a /\ all[2] = b /\ all[3] = c
  BY <1>3, <1>4
<1>7. PICK cat \in Seq(S) :
        /\ cat = one \o two /\ Len(cat) = Len(one) + Len(two)
        /\ \A i \in 1 .. Len(one) : cat[i] = one[i]
        /\ \A i \in 1 .. Len(two) : cat[i + Len(one)] = two[i]
  <2>1. one \o two \in Seq(S) /\ Len(one \o two) = Len(one) + Len(two)
    OBVIOUS
  <2>2. \A i \in 1 .. Len(one) : (one \o two)[i] = one[i]
    OBVIOUS
  <2>3. \A i \in 1 .. Len(two) : (one \o two)[i + Len(one)] = two[i]
    OBVIOUS
  <2> QED BY <2>1, <2>2, <2>3, Zenon
<1>8. Len(cat) = 3 /\ cat[1] = a /\ cat[1 + 1] = b /\ cat[2 + 1] = c
  BY <1>5, <1>7
<1>9. \A i \in 1 .. 3 : cat[i] = all[i]
  BY <1>6, <1>8
<1>10. cat = all
  BY <1>6, <1>8, <1>9, SeqEqual
<1> QED BY <1>4, <1>7, <1>10

\* What Encapsulate makes of a packet that TCP has started: the headers of IPv4
\* and Ethernet follow, from live arguments.
LEMMA TcpEncapsulated ==
  ASSUME NEW packet \in Packet, packet.handlers = TcpStack, packet.stack_idx = 1,
         packet.owner = 0 \/ packet.owner = frame, packet.layers = <<LayerOf("tcp", 2)>>,
         packet.offset + 1 + packet.size = Room, Fitting(packet, 1)
  PROVE  LET result == Encapsulate(packet, 1) IN
         /\ result.layers = TcpLayers
         /\ result.offset + Len(TcpLayers) + result.size = Room
<1>1. Writable(packet, 1)
  BY DEF Writable, Index, TcpIndex
<1>2. PICK chain \in Seq(LayerSet) : chain = Chain(packet, 1)
  BY <1>1, ChainElements
<1>3. Len(chain) = 2 /\ chain[1] = Layer(packet, 1, 1) /\ chain[2] = Layer(packet, 0, 0)
  <2>1. Len(chain) = 1 + 1 /\ chain[1] = Layer(packet, 1, 1)
        /\ \A i \in 1 .. 1 : chain[i + 1] = Layer(packet, 1 - i, 1 - i)
    BY <1>1, <1>2, ChainElements
  <2>2. chain[1 + 1] = Layer(packet, 1 - 1, 1 - 1)
    BY <2>1
  <2>3. 1 + 1 = 2 /\ 1 - 1 = 0
    OBVIOUS
  <2> QED BY <2>1, <2>2, <2>3
<1>4. Layer(packet, 1, 1) = LayerOf("ipv4", 1) /\ Layer(packet, 0, 0) = LayerOf("ethernet", 0)
  <2>1. packet.handlers[1 + 1] = "ipv4" /\ packet.handlers[0 + 1] = "ethernet"
    BY StacksDiffer
  <2>2. (packet.owner = 0 \/ packet.owner = frame) = TRUE
    OBVIOUS
  <2>3. Layer(packet, 1, 1) = [kind |-> "ipv4", args |-> 1, live |-> TRUE]
    <3>1. (IF 1 >= TcpIndex THEN ~ packet.kept
           ELSE packet.owner = 0 \/ packet.owner = frame) = TRUE
      BY <2>2 DEF TcpIndex
    <3> QED BY <2>1, <3>1 DEF Layer
  <2>4. Layer(packet, 0, 0) = [kind |-> "ethernet", args |-> 0, live |-> TRUE]
    <3>1. (IF 0 >= TcpIndex THEN ~ packet.kept
           ELSE packet.owner = 0 \/ packet.owner = frame) = TRUE
      BY <2>2 DEF TcpIndex
    <3> QED BY <2>1, <3>1 DEF Layer
  <2> QED BY <2>3, <2>4 DEF LayerOf
<1>5. PICK first, second, third : /\ first = LayerOf("tcp", 2) /\ second = LayerOf("ipv4", 1)
                                  /\ third = LayerOf("ethernet", 0)
  OBVIOUS
<1>6. chain = <<second, third>>
  BY <1>3, <1>4, <1>5
<1>7. <<first>> \o <<second, third>> = <<first, second, third>>
  <2>1. first \in LayerSet /\ second \in LayerSet /\ third \in LayerSet
    BY <1>5 DEF LayerOf, LayerSet, Index, TcpIndex
  <2> QED BY <2>1, OneAndTwo
<1>8. TcpLayers = <<first, second, third>> /\ Len(TcpLayers) = 3
  BY <1>5 DEF TcpLayers
<1>9. PICK result : result = Encapsulate(packet, 1)
  OBVIOUS
<1>10. result.layers = packet.layers \o chain /\ result.offset = packet.offset - (1 + 1)
  BY <1>1, <1>2, <1>9, EncapsulateFitting
<1>11. result.size = packet.size
  BY <1>1, <1>9, EncapsulateType
<1>12. packet.offset \in Nat /\ packet.size \in Nat
  BY TcpWriteAssumption DEF Packet
<1>13. result.layers = TcpLayers
  BY <1>5, <1>6, <1>7, <1>8, <1>10
<1>14. result.offset + 3 + result.size = Room
  BY <1>10, <1>11, <1>12, TcpWriteAssumption
<1> QED BY <1>8, <1>9, <1>13, <1>14

-----------------------------------------------------------------------------
(* The types *)

\* Every step keeps the types; a packet is not written outside its buffer.
LEMMA TypesStep ==
  ASSUME Types, Names, OwnPacket, [Next]_vars
  PROVE  Types'
<1> DEFINE Rest == /\ send_next' \in SeqNum /\ send_window' \in Windows /\ out_header' \in Header
                   /\ out_buffer' \in Seq(Block) /\ Len(out_buffer') <= BlockCount
                   /\ wire' \in Seq(Nat) /\ frame' \in 0 .. ReadBound /\ reads' \in 0 .. ReadBound
                   /\ fault' \in Faults /\ mixed' \subseteq Nat /\ refused' \subseteq Nat
                   /\ counting' \in [Threads -> SeqNum \union {None}] /\ moves' \in 0 .. MoveBound
<1>0. SUFFICES Rest /\ packets' \in Seq(Packet) /\ threads' \in [Threads -> Thread]
  BY Zenon DEF Types
<1>a. send_next \in SeqNum /\ send_window \in Windows /\ out_header \in Header
  BY DEF Types
<1>b. out_buffer \in Seq(Block) /\ Len(out_buffer) <= BlockCount /\ wire \in Seq(Nat)
  BY DEF Types
<1>c. frame \in 0 .. ReadBound /\ reads \in 0 .. ReadBound
      /\ fault \in Faults /\ mixed \subseteq Nat /\ refused \subseteq Nat
      /\ counting \in [Threads -> SeqNum \union {None}] /\ moves \in 0 .. MoveBound
  BY DEF Types
<1>d. packets \in Seq(Packet) /\ threads \in [Threads -> Thread]
  BY DEF Types
<1>1. CASE UNCHANGED vars
  BY <1>1, <1>a, <1>b, <1>c, <1>d DEF vars, shared, numbers
<1>2. CASE Receive
  <2>1. frame' \in 0 .. ReadBound /\ reads' \in 0 .. ReadBound
    BY <1>2, <1>c, TcpWriteAssumption DEF Receive
  <2> QED BY <1>2, <1>a, <1>b, <1>c, <1>d, <2>1 DEF Receive, shared, numbers
<1>3. CASE Return
  <2>1. frame' \in 0 .. ReadBound
    BY <1>3, TcpWriteAssumption DEF Return
  <2> QED BY <1>3, <1>a, <1>b, <1>c, <1>d, <2>1 DEF Return, shared, numbers
<1>4. CASE ArpRead
  <2>1. packets' \in Seq(Packet)
    BY <1>4, ArpEffect DEF OneMore
  <2>2. Len(packets) + 1 \in Nat
    BY <1>d
  <2>3. wire' \in Seq(Nat)
    BY <1>4, <1>b, <2>2 DEF ArpRead
  <2> QED BY <1>4, <1>a, <1>b, <1>c, <1>d, <2>1, <2>3 DEF ArpRead, shared, numbers
<1>5. ASSUME NEW window \in Windows, UpdateWindow(window) PROVE Rest /\ packets' \in Seq(Packet) /\ threads' \in [Threads -> Thread]
  BY <1>5, <1>a, <1>b, <1>c, <1>d DEF UpdateWindow, numbers
<1>6. ASSUME NEW t \in Threads, NEW size \in ReplySizes \union SendSizes, NEW idx \in {2, 3},
             Call(t, size, idx), send_next' \in SeqNum, moves' \in 0 .. MoveBound
      PROVE  Rest /\ packets' \in Seq(Packet) /\ threads' \in [Threads -> Thread]
  <2>1. packets' \in Seq(Packet) /\ threads' \in [Threads -> Thread]
    BY <1>6, CallEffect DEF OneMore
  <2>2. Len(packets) + 1 \in Nat
    BY <1>d
  <2>3. QueuedPackets \subseteq Nat
    <3>1. \A i \in DOMAIN out_buffer : out_buffer[i].packet \in Nat
      <4> TAKE i \in DOMAIN out_buffer
      <4>1. out_buffer[i] \in Block
        BY <1>b
      <4> QED BY <4>1 DEF Block
    <3> QED BY <3>1 DEF QueuedPackets
  <2>4. {threads[other].packet : other \in Inside} \subseteq Nat
    <3>1. \A u \in Threads : threads[u].packet \in Nat
      BY <1>d DEF Thread
    <3> QED BY <3>1 DEF Inside
  <2>5. mixed' \subseteq Nat
    BY <1>6, <1>c, <2>2, <2>3, <2>4 DEF Call
  <2> QED BY <1>6, <1>a, <1>b, <1>c, <2>1, <2>5 DEF Call
<1>8. ASSUME NEW t \in Threads, NEW size \in ReplySizes \union SendSizes,
             NEW idx \in {TcpIndex, TcpIndex + 1}, Begin(t, size, idx)
      PROVE  Rest /\ packets' \in Seq(Packet) /\ threads' \in [Threads -> Thread]
  <2>1. idx \in {2, 3}
    BY DEF TcpIndex
  <2>2. Call(t, size, idx) /\ send_next' = send_next /\ moves' = moves
    BY <1>8 DEF Begin
  <2> QED BY <1>6, <1>a, <1>c, <2>1, <2>2
<1>9. ASSUME NEW value \in Renumbers, Renumber(value)
      PROVE  Rest /\ packets' \in Seq(Packet) /\ threads' \in [Threads -> Thread]
  <2>1. Call("worker", 0, 2) /\ send_next' = value /\ moves < MoveBound /\ moves' = moves + 1
    BY <1>9 DEF Renumber, TcpIndex
  <2>2. 0 \in ReplySizes \union SendSizes
    BY <2>1 DEF Call
  <2>3. "worker" \in Threads /\ send_next' \in SeqNum /\ moves' \in 0 .. MoveBound
    BY <1>c, <2>1, TcpWriteAssumption
  <2> QED BY <1>6, <2>1, <2>2, <2>3
<1>10. ASSUME NEW t \in Threads, CountLoad(t)
       PROVE  Rest /\ packets' \in Seq(Packet) /\ threads' \in [Threads -> Thread]
  <2>1. moves' \in 0 .. MoveBound
    BY <1>10, <1>c, TcpWriteAssumption DEF CountLoad
  <2>2. counting' \in [Threads -> SeqNum \union {None}]
    BY <1>10, <1>a, <1>c DEF CountLoad
  <2> QED BY <1>10, <1>a, <1>b, <1>c, <1>d, <2>1, <2>2 DEF CountLoad, shared
<1>11. ASSUME NEW t \in Threads, CountStore(t)
       PROVE  Rest /\ packets' \in Seq(Packet) /\ threads' \in [Threads -> Thread]
  <2>1. counting[t] \in SeqNum
    BY <1>11, <1>c DEF CountStore
  <2>2. counting[t] \in Nat
    BY <2>1, SeqSpaceAssumption DEF SeqNum
  <2>3. send_next' \in SeqNum
    BY <1>11, <2>2, PlusType DEF CountStore
  <2>4. counting' \in [Threads -> SeqNum \union {None}]
    BY <1>11, <1>c DEF CountStore
  <2> QED BY <1>11, <1>a, <1>b, <1>c, <1>d, <2>3, <2>4 DEF CountStore
<1>12. ASSUME NEW t \in Threads, NEW other \in Threads, ListRace(t, other)
       PROVE  Rest /\ packets' \in Seq(Packet) /\ threads' \in [Threads -> Thread]
  <2>1. fault' \in Faults
    BY <1>12 DEF ListRace, Faults
  <2> QED BY <1>12, <1>a, <1>b, <1>c, <1>d, <2>1 DEF ListRace, shared, numbers
<1>7. ASSUME NEW t \in Threads, Step(t)
      PROVE  Rest /\ packets' \in Seq(Packet) /\ threads' \in [Threads -> Thread]
  <2>0. threads[t] \in Thread
    BY <1>d
  <2>1. CASE Fields(t)
    <3>1. threads' \in [Threads -> Thread]
      BY <2>1, GotoMoves DEF Fields, Pcs, Moves
    <3>2. threads[t].pc = "fields"
      BY <2>1 DEF Fields, At
    <3>3. threads[t].packet \in Nat
      BY <2>0 DEF Thread
    <3>4. out_header' \in Header
      BY <1>a, <2>1, <3>3 DEF Fields, Header
    <3> QED BY <1>a, <1>b, <1>c, <1>d, <2>1, <3>1, <3>4 DEF Fields, numbers
  <2>2. CASE Sequence(t)
    <3>1. threads' \in [Threads -> Thread]
      BY <2>2, GotoMoves DEF Sequence, Pcs, Moves
    <3>2. out_header' \in Header
      BY <1>a, <2>2 DEF Sequence, Header
    <3> QED BY <1>a, <1>b, <1>c, <1>d, <2>2, <3>1, <3>2 DEF Sequence, numbers
  <2>3. CASE Load(t)
    <3>1. threads' = [threads EXCEPT ![t] = [threads[t] EXCEPT !.pc = "store", !.loaded = send_next]]
      BY <1>d, <2>3 DEF Load
    <3>2. [threads[t] EXCEPT !.pc = "store", !.loaded = send_next] \in Thread
      BY <1>a, <2>0 DEF Thread, Pcs
    <3>3. threads' \in [Threads -> Thread]
      BY <1>d, <3>1, <3>2
    <3> QED BY <1>a, <1>b, <1>c, <1>d, <2>3, <3>3 DEF Load, shared, numbers
  <2>4. CASE Store(t)
    <3>1. threads' \in [Threads -> Thread]
      BY <2>4, GotoMoves DEF Store, Pcs, Moves
    <3>2. Writes(t)
      BY <2>4 DEF Store, At, Writes
    <3>3. Mine(t) \in Packet
      BY <3>2, PacketOfThread DEF Mine
    <3>4. Mine(t).size \in Nat
      BY <3>3, TcpWriteAssumption DEF Packet
    <3>5. threads[t].loaded \in Nat
      BY <2>0, SeqSpaceAssumption DEF Thread, SeqNum
    <3>6. send_next' \in SeqNum
      BY <2>4, <3>4, <3>5, PlusType DEF Store
    <3> QED BY <1>a, <1>b, <1>c, <1>d, <2>4, <3>1, <3>6 DEF Store, numbers
  <2>5. CASE Copy(t)
    <3>1. threads' \in [Threads -> Thread] /\ packets' \in Seq(Packet)
      BY <2>5, CopyEffect DEF Moves, SamePackets
    <3> QED BY <1>a, <1>b, <1>c, <2>5, <3>1 DEF Copy, shared, numbers
  <2>6. CASE AddBlock(t)
    <3>1. CASE fault' = fault
      <4>1. threads' \in [Threads -> Thread] /\ packets' \in Seq(Packet)
        BY <2>6, <3>1, AddEffect DEF Moves, SamePackets
      <4>2. PICK block : block = [seq |-> out_header.seq, size |-> Mine(t).size,
                                  packet |-> threads[t].packet]
        OBVIOUS
      <4>3. Writes(t)
        BY <2>6, <3>1, AddEffect
      <4>4. Mine(t) \in Packet
        BY <4>3, PacketOfThread DEF Mine
      <4>5. Mine(t).size \in Nat /\ threads[t].packet \in Nat /\ out_header.seq \in SeqNum
        BY <1>a, <2>0, <4>4, TcpWriteAssumption DEF Packet, Thread, Header
      <4>6. block \in Block
        BY <4>2, <4>5 DEF Block
      <4>7. out_buffer' = Add(out_buffer, block) /\ refused' \subseteq refused \union {threads[t].packet}
        BY <2>6, <3>1, <4>2 DEF AddBlock, At, Alive
      <4>8. \A c \in Block : c.seq \in SeqNum
        BY DEF Block
      <4>9. Add(out_buffer, block) \in Seq(Block) /\ Len(Add(out_buffer, block)) <= BlockCount
        BY <1>b, <4>6, <4>8, AddProperties
      <4>10. refused' \subseteq Nat
        BY <1>c, <4>5, <4>7
      <4> QED BY <1>a, <1>b, <1>c, <2>6, <3>1, <4>1, <4>7, <4>9, <4>10 DEF AddBlock, numbers
    <3>2. CASE fault' # fault
      <4>1. fault' \in Faults /\ UNCHANGED <<out_buffer, packets, threads, refused>>
        BY <2>6, <3>2 DEF AddBlock, Faults
      <4> QED BY <1>a, <1>b, <1>c, <1>d, <2>6, <4>1 DEF AddBlock, numbers
    <3> QED BY <3>1, <3>2
  <2>7. CASE Pick(t)
    <3>1. CASE Returns(t, packets)
      <4>1. Writes(t)
        BY <2>7 DEF Pick, At, Writes
      <4>2. threads' \in [Threads -> Thread] /\ packets' \in Seq(Packet)
        BY <1>d, <3>1, <4>1, ReturnsLeaves, PacketOfThread DEF Leaves
      <4> QED BY <1>a, <1>b, <1>c, <2>7, <4>2 DEF Pick, shared, numbers
    <3>2. CASE ~ Returns(t, packets)
      <4>1. /\ out_buffer # <<>> /\ UNCHANGED packets
            /\ threads' = [threads EXCEPT ![t].pc = "lower", ![t].head = Head(out_buffer).packet]
        BY <2>7, <3>2 DEF Pick
      <4>2. Head(out_buffer).packet \in Nat
        <5>1. Head(out_buffer) \in Block
          BY <1>b, <4>1
        <5> QED BY <5>1 DEF Block
      <4>3. PICK head \in Nat : head = Head(out_buffer).packet
        BY <4>2
      <4>4. [threads[t] EXCEPT !.pc = "lower", !.head = head] \in Thread
        BY <2>0 DEF Thread, Pcs
      <4>5. threads' = [threads EXCEPT ![t] = [threads[t] EXCEPT !.pc = "lower", !.head = head]]
        BY <1>d, <4>1, <4>3
      <4>6. threads' \in [Threads -> Thread]
        BY <1>d, <4>4, <4>5
      <4> QED BY <1>a, <1>b, <1>c, <1>d, <2>7, <4>1, <4>6 DEF Pick, shared, numbers
    <3> QED BY <3>1, <3>2
  <2>8. CASE Lowers(t)
    <3>1. CASE fault' = fault
      <4>1. threads' \in [Threads -> Thread] /\ packets' \in Seq(Packet)
        BY <2>8, <3>1, LowerEffect DEF Moves, Leaves, SamePackets
      <4>2. threads[t].head \in Nat
        BY <2>0 DEF Thread
      <4>3. wire' = wire \/ wire' = Append(wire, threads[t].head)
        BY <2>8, <3>1, LowerEffect
      <4>4. wire' \in Seq(Nat)
        <5>1. PICK head \in Nat : head = threads[t].head
          BY <4>2
        <5>2. Append(wire, head) \in Seq(Nat)
          BY <1>b
        <5> QED BY <1>b, <4>3, <5>1, <5>2
      <4> QED BY <1>a, <1>b, <1>c, <2>8, <3>1, <4>1, <4>4, LowersFrame
    <3>2. CASE fault' # fault
      <4>1. fault' \in Faults /\ UNCHANGED <<packets, threads, wire>>
        BY <2>8, <3>2, LowersFrame DEF Faults
      <4> QED BY <1>a, <1>b, <1>c, <1>d, <2>8, <4>1, LowersFrame
    <3> QED BY <3>1, <3>2
  <2>9. CASE RemoveHead(t)
    <3>1. threads' \in [Threads -> Thread]
      BY <2>9, GotoMoves DEF RemoveHead, Pcs, Moves
    <3>2. out_buffer' = RemoveFront(out_buffer, 1)
      BY <2>9 DEF RemoveHead
    <3>3. RemoveFront(out_buffer, 1) \in Seq(Block)
      BY <1>b, RemoveFrontElements
    <3>4. Len(RemoveFront(out_buffer, 1)) <= Len(out_buffer)
      BY <1>b, RemoveFrontElements
    <3>5. Len(out_buffer') <= BlockCount
      <4>1. BlockCount \in Nat
        BY DefaultSizeAssumption DEF BlockCount
      <4>2. Len(RemoveFront(out_buffer, 1)) \in Nat /\ Len(out_buffer) \in Nat
        BY <1>b, <3>3
      <4> QED BY <1>b, <3>2, <3>4, <4>1, <4>2
    <3> QED BY <1>a, <1>b, <1>c, <1>d, <2>9, <3>1, <3>2, <3>3, <3>5 DEF RemoveHead, numbers
  <2> QED BY <1>7, <2>1, <2>2, <2>3, <2>4, <2>5, <2>6, <2>7, <2>8, <2>9 DEF Step, Lowers
<1> QED BY <1>0, <1>1, <1>2, <1>3, <1>4, <1>5, <1>7, <1>8, <1>9, <1>10, <1>11, <1>12 DEF Next

-----------------------------------------------------------------------------
(* Steps that touch neither queue nor wire *)

Quiet ==
  /\ SamePackets /\ UNCHANGED <<out_buffer, wire, mixed, refused>>
  /\ \A u \in Threads :
       /\ threads'[u].packet = threads[u].packet /\ threads'[u].head = threads[u].head
       /\ \/ threads'[u].pc = threads[u].pc
          \/ threads[u].pc \in Early /\ threads'[u].pc \in Early

\* What the control part of the invariant looks at.
LEMMA SameViews ==
  ASSUME Types, SamePackets
  PROVE  /\ DOMAIN packets = 1 .. Len(packets) /\ DOMAIN packets' = DOMAIN packets
         /\ \A p \in DOMAIN packets : IsTcp(p)' <=> IsTcp(p)
         /\ \A p : TcpPacket(p)' <=> TcpPacket(p)
<1>1. DOMAIN packets = 1 .. Len(packets)
  BY DEF Types
<1>2. DOMAIN packets' = 1 .. Len(packets)
  BY DEF SamePackets
<1>3. \A p \in DOMAIN packets : IsTcp(p)' <=> IsTcp(p)
  BY <1>1 DEF SamePackets, IsTcp
<1> QED BY <1>1, <1>2, <1>3 DEF TcpPacket

\* A quiet step keeps the control part.
LEMMA QuietKeeps ==
  ASSUME Types, Names, Fresh, Solo, Places, Quiet
  PROVE  Names' /\ Fresh' /\ Solo' /\ Places'
<1>1. /\ DOMAIN packets' = DOMAIN packets
      /\ \A p \in DOMAIN packets : IsTcp(p)' <=> IsTcp(p)
      /\ \A p : TcpPacket(p)' <=> TcpPacket(p)
  BY SameViews DEF Quiet
<1>2. \A u \in Threads :
        threads'[u].packet = threads[u].packet /\ threads'[u].head = threads[u].head
  BY DEF Quiet
<1>3. \A u \in Threads :
        /\ threads'[u].pc = "remove" <=> threads[u].pc = "remove"
        /\ threads'[u].pc \in Early <=> threads[u].pc \in Early
        /\ Writes(u)' <=> Writes(u)
        /\ HasHead(u)' <=> HasHead(u)
  BY DEF Quiet, Writes, HasHead, Early
<1>4. out_buffer' = out_buffer /\ wire' = wire /\ mixed' = mixed /\ refused' = refused
  BY DEF Quiet
<1>5. \A p : /\ InQueue(p)' <=> InQueue(p)
             /\ OnWire(p)' <=> OnWire(p)
             /\ Removing(p)' <=> Removing(p)
             /\ NotQueuedYet(p)' <=> NotQueuedYet(p)
  BY <1>2, <1>3, <1>4 DEF InQueue, OnWire, Removing, NotQueuedYet
<1>6. Names'
  BY <1>1, <1>2, <1>3, <1>4 DEF Names
<1>7. Fresh'
  BY <1>2, <1>3, <1>4, <1>5 DEF Fresh, FreshOK
<1>8. Solo'
  BY <1>1, <1>2, <1>3, <1>4 DEF Solo, SoloOK
<1>9. Places'
  BY <1>1, <1>4, <1>5 DEF Places, PlaceOK, QueuedOnce, SentOnce
<1> QED BY <1>6, <1>7, <1>8, <1>9

\* The steps that are quiet.
LEMMA QuietSteps ==
  ASSUME Types, Names, OwnPacket, NEW t \in Threads,
         Fields(t) \/ Sequence(t) \/ Load(t) \/ Store(t) \/ Copy(t)
  PROVE  Quiet
<1>1. packets \in Seq(Packet) /\ threads \in [Threads -> Thread]
  BY DEF Types
<1>2. packets' = packets => SamePackets
  BY <1>1 DEF SamePackets
<1>3. ASSUME NEW pc \in Pcs, Moves(t, pc), threads[t].pc \in Early, pc \in Early, SamePackets,
             UNCHANGED <<out_buffer, wire, mixed, refused>>
      PROVE  Quiet
  <2> SUFFICES ASSUME NEW u \in Threads
               PROVE  /\ threads'[u].packet = threads[u].packet /\ threads'[u].head = threads[u].head
                      /\ \/ threads'[u].pc = threads[u].pc
                         \/ threads[u].pc \in Early /\ threads'[u].pc \in Early
    BY <1>3 DEF Quiet
  <2>1. CASE u = t
    BY <1>3, <2>1 DEF Moves
  <2>2. CASE u # t
    BY <1>3, <2>2 DEF Moves
  <2> QED BY <2>1, <2>2
<1>4. CASE Fields(t)
  <2>1. threads[t].pc = "fields" /\ Goto(t, "sequence") /\ packets' = packets
        /\ UNCHANGED <<out_buffer, wire, mixed, refused>>
    BY <1>4 DEF Fields, At
  <2>2. "sequence" \in Pcs /\ "sequence" \in Early /\ "fields" \in Early
    BY DEF Pcs, Early
  <2> QED BY <1>2, <1>3, <2>1, <2>2, GotoMoves
<1>5. CASE Sequence(t)
  <2>1. PICK pc \in {"load", "copy"} : Goto(t, pc)
    BY <1>5 DEF Sequence
  <2>2. threads[t].pc = "sequence" /\ packets' = packets
        /\ UNCHANGED <<out_buffer, wire, mixed, refused>>
    BY <1>5 DEF Sequence, At
  <2>3. pc \in Pcs /\ pc \in Early /\ "sequence" \in Early
    BY DEF Pcs, Early
  <2> QED BY <1>2, <1>3, <2>1, <2>2, <2>3, GotoMoves
<1>6. CASE Load(t)
  <2>1. threads[t].pc = "load" /\ packets' = packets
        /\ UNCHANGED <<out_buffer, wire, mixed, refused>>
    BY <1>6 DEF Load, At, shared
  <2>6. Moves(t, "store")
    BY <1>6, LoadMoves
  <2>7. "store" \in Pcs /\ "store" \in Early /\ "load" \in Early
    BY DEF Pcs, Early
  <2> QED BY <1>2, <1>3, <2>1, <2>6, <2>7
<1>7. CASE Store(t)
  <2>1. threads[t].pc = "store" /\ Goto(t, "copy") /\ packets' = packets
        /\ UNCHANGED <<out_buffer, wire, mixed, refused>>
    BY <1>7 DEF Store, At
  <2>2. "store" \in Early /\ "copy" \in Early /\ "copy" \in Pcs
    BY DEF Pcs, Early
  <2> QED BY <1>2, <1>3, <2>1, <2>2, GotoMoves
<1>8. CASE Copy(t)
  <2>1. threads[t].pc = "copy" /\ UNCHANGED <<out_buffer, wire, mixed, refused>>
    BY <1>8 DEF Copy, At, shared
  <2>2. Moves(t, "add") /\ SamePackets
    BY <1>8, CopyEffect
  <2>3. "add" \in Pcs /\ "add" \in Early /\ "copy" \in Early
    BY DEF Pcs, Early
  <2> QED BY <1>3, <2>1, <2>2, <2>3
<1> QED BY <1>4, <1>5, <1>6, <1>7, <1>8

-----------------------------------------------------------------------------
(* Steps that begin a packet *)

\* What a packet more does to the views of the others.
LEMMA MoreViews ==
  ASSUME Types, OneMore
  PROVE  /\ Len(packets) \in Nat /\ DOMAIN packets = 1 .. Len(packets)
         /\ DOMAIN packets' = 1 .. Len(packets) + 1
         /\ \A p \in DOMAIN packets : IsTcp(p)' <=> IsTcp(p)
         /\ \A p \in DOMAIN packets : TcpPacket(p)' <=> TcpPacket(p)
         /\ Len(packets) + 1 \notin DOMAIN packets
<1>1. DOMAIN packets = 1 .. Len(packets) /\ Len(packets) \in Nat
  BY DEF Types
<1>2. DOMAIN packets' = 1 .. Len(packets) + 1
  BY DEF OneMore
<1>3. \A p \in DOMAIN packets : IsTcp(p)' <=> IsTcp(p)
  BY <1>1 DEF OneMore, IsTcp
<1>4. \A p \in DOMAIN packets : p \in DOMAIN packets'
  BY <1>1, <1>2
<1>5. \A p \in DOMAIN packets : TcpPacket(p)' <=> TcpPacket(p)
  BY <1>3, <1>4 DEF TcpPacket
<1>6. Len(packets) + 1 \notin DOMAIN packets
  BY <1>1
<1> QED BY <1>1, <1>2, <1>3, <1>5, <1>6

\* A sequence with one element more.
LEMMA AppendView ==
  ASSUME NEW S, NEW s \in Seq(S), NEW e \in S
  PROVE  /\ DOMAIN s = 1 .. Len(s) /\ DOMAIN s \subseteq DOMAIN Append(s, e)
         /\ \A i \in DOMAIN Append(s, e) :
              i \in DOMAIN s \/ (i = Len(s) + 1 /\ Append(s, e)[i] = e)
         /\ \A i \in DOMAIN s : Append(s, e)[i] = s[i]
         /\ Len(s) + 1 \in DOMAIN Append(s, e) /\ Append(s, e)[Len(s) + 1] = e
OBVIOUS

\* ArpRead keeps the control part.
LEMMA ArpKeeps ==
  ASSUME Types, Names, Fresh, Solo, Places, ArpRead
  PROVE  Names' /\ Fresh' /\ Solo' /\ Places'
<1>1. OneMore
  BY ArpEffect
<1>2. PICK n : n = Len(packets) + 1
  OBVIOUS
<1>3. /\ Len(packets) \in Nat /\ DOMAIN packets = 1 .. Len(packets)
      /\ DOMAIN packets' = 1 .. n
      /\ \A p \in DOMAIN packets : IsTcp(p)' <=> IsTcp(p)
      /\ \A p \in DOMAIN packets : TcpPacket(p)' <=> TcpPacket(p)
      /\ n \notin DOMAIN packets
  BY <1>1, <1>2, MoreViews
<1>4. \A p \in DOMAIN packets' : p = n \/ p \in DOMAIN packets
  BY <1>2, <1>3
<1>5. \A p \in DOMAIN packets : p \in DOMAIN packets'
  BY <1>2, <1>3
<1>6. ~ IsTcp(n)'
  <2>1. packets'[n].handlers = ArpStack
    BY <1>2, ArpEffect
  <2> QED BY <2>1, StacksDiffer DEF IsTcp
<1>7. /\ out_buffer' = out_buffer /\ threads' = threads /\ mixed' = mixed /\ refused' = refused
  BY DEF ArpRead, shared
<1>9. \A u \in Threads :
        /\ threads'[u] = threads[u]
        /\ Writes(u)' <=> Writes(u)
        /\ HasHead(u)' <=> HasHead(u)
  BY <1>7 DEF Writes, HasHead
<1>10. \A p : /\ InQueue(p)' <=> InQueue(p)
              /\ Removing(p)' <=> Removing(p)
              /\ NotQueuedYet(p)' <=> NotQueuedYet(p)
  BY <1>7 DEF InQueue, Removing, NotQueuedYet
<1>11. /\ DOMAIN wire \subseteq DOMAIN wire'
       /\ \A i \in DOMAIN wire' : i \in DOMAIN wire \/ (i = Len(wire) + 1 /\ wire'[i] = n)
       /\ \A i \in DOMAIN wire : wire'[i] = wire[i]
  <2>1. wire \in Seq(Nat) /\ n \in Nat
    BY <1>2, <1>3 DEF Types
  <2>2. CASE wire' = wire
    BY <2>2
  <2>3. CASE wire' = Append(wire, n)
    BY <2>1, <2>3, AppendView
  <2> QED BY <1>2, <2>2, <2>3, ArpEffect
<1>12. \A p \in DOMAIN packets : OnWire(p)' <=> OnWire(p)
  BY <1>3, <1>11 DEF OnWire
<1>t. \A p : TcpPacket(p) => TcpPacket(p)'
  BY <1>3 DEF TcpPacket
<1>13. Names'
  <2>1. \A i \in DOMAIN out_buffer : TcpPacket(out_buffer[i].packet)'
    <3> TAKE i \in DOMAIN out_buffer
    <3>1. PICK p : p = out_buffer[i].packet
      OBVIOUS
    <3>2. out_buffer'[i].packet = p /\ TcpPacket(p)'
      BY <1>7, <1>t, <3>1 DEF Names
    <3> QED BY <3>2 DEF TcpPacket, IsTcp
  <2>2. \A i \in DOMAIN wire' : wire'[i] \in DOMAIN packets'
    BY <1>2, <1>3, <1>5, <1>11 DEF Names
  <2>3. mixed' \subseteq DOMAIN packets' /\ refused' \subseteq DOMAIN packets'
    BY <1>5, <1>7 DEF Names
  <2>4. \A u \in Threads :
          IF Writes(u)' THEN TcpPacket(threads[u].packet)' ELSE threads'[u].packet = 0
    <3> TAKE u \in Threads
    <3>1. PICK p : p = threads[u].packet
      OBVIOUS
    <3>2. threads'[u].packet = p /\ (Writes(u) => TcpPacket(p)') /\ (~ Writes(u) => p = 0)
      BY <1>9, <1>t, <3>1 DEF Names
    <3> QED BY <1>9, <3>2 DEF TcpPacket, IsTcp
  <2>5. \A u \in Threads : HasHead(u)' => TcpPacket(threads[u].head)'
    <3> TAKE u \in Threads
    <3>1. PICK p : p = threads[u].head
      OBVIOUS
    <3>2. threads'[u].head = p /\ (HasHead(u) => TcpPacket(p)')
      BY <1>9, <1>t, <3>1 DEF Names
    <3> QED BY <1>9, <3>2 DEF TcpPacket, IsTcp
  <2>6. \A u, v \in Threads : Writes(u)' /\ threads'[u].packet = threads'[v].packet => u = v
    BY <1>9 DEF Names
  <2> QED BY <1>7, <2>1, <2>2, <2>3, <2>4, <2>5, <2>6 DEF Names
<1>14. Fresh'
  <2> SUFFICES ASSUME NEW u \in Threads, threads'[u].pc \in Early
               PROVE  FreshOK(threads[u].packet)'
    BY Zenon DEF Fresh
  <2>1. threads[u].pc \in Early /\ threads'[u] = threads[u]
    BY <1>9
  <2>2. Writes(u)
    BY <2>1 DEF Early, Writes
  <2>3. PICK p \in DOMAIN packets : p = threads[u].packet
    BY <2>2 DEF Names, TcpPacket
  <2>4. FreshOK(p)
    BY <2>1, <2>3 DEF Fresh
  <2>5. FreshOK(p)'
    BY <1>7, <1>9, <1>10, <1>12, <2>4 DEF FreshOK
  <2>6. p = threads'[u].packet
    BY <2>1, <2>3
  <2> QED BY <2>5, <2>6 DEF FreshOK, InQueue, OnWire
<1>15. Solo'
  <2>1. ASSUME NEW u \in Threads, NEW p \in DOMAIN packets', IsTcp(p)',
               \A q \in DOMAIN packets : IsTcp(q) => q <= threads[u].packet
        PROVE  p <= threads'[u].packet
    BY <1>3, <1>4, <1>6, <1>9, <2>1
  <2> QED BY <1>7, <1>9, <2>1 DEF Solo, SoloOK
<1>16. Places'
  <2>1. SentOnce'
    <3> SUFFICES ASSUME NEW i \in DOMAIN wire', NEW j \in DOMAIN wire', wire'[i] = wire'[j],
                        wire'[i] \notin mixed'
                 PROVE  i = j
      BY DEF SentOnce
    <3>1. \A k \in DOMAIN wire : wire[k] # n
      BY <1>3 DEF Names
    <3>2. CASE i \in DOMAIN wire /\ j \in DOMAIN wire
      BY <1>7, <1>11, <3>2 DEF Places, SentOnce
    <3>3. CASE i \notin DOMAIN wire \/ j \notin DOMAIN wire
      BY <1>11, <3>1, <3>3
    <3> QED BY <3>2, <3>3
  <2>2. ASSUME NEW p \in DOMAIN packets', IsTcp(p)', p \notin mixed'
        PROVE  PlaceOK(p)'
    <3>1. p \in DOMAIN packets /\ IsTcp(p) /\ p \notin mixed
      BY <1>3, <1>4, <1>6, <1>7, <2>2
    <3>2. PlaceOK(p)
      BY <3>1 DEF Places
    <3> QED BY <1>7, <1>10, <1>12, <3>1, <3>2 DEF PlaceOK
  <2>3. QueuedOnce'
    BY <1>7 DEF Places, QueuedOnce
  <2> QED BY <2>1, <2>2, <2>3 DEF Places
<1> QED BY <1>13, <1>14, <1>15, <1>16

\* Call keeps the control part: what was under way or queued is mixed now.
LEMMA CallKeeps ==
  ASSUME Types, Names, Fresh, Solo, Places,
         NEW t \in Threads, NEW size \in ReplySizes \union SendSizes,
         NEW idx \in {2, 3}, Call(t, size, idx)
  PROVE  Names' /\ Fresh' /\ Solo' /\ Places'
<1>1. /\ ~ Writes(t) /\ OneMore
      /\ \A u \in Threads : u # t => threads'[u] = threads[u]
      /\ threads'[t].pc = "fields" /\ threads'[t].packet = Len(packets) + 1
  BY CallEffect
<1>2. PICK n : n = Len(packets) + 1
  OBVIOUS
<1>3. /\ Len(packets) \in Nat /\ DOMAIN packets = 1 .. Len(packets)
      /\ DOMAIN packets' = 1 .. n
      /\ \A p \in DOMAIN packets : IsTcp(p)' <=> IsTcp(p)
      /\ \A p \in DOMAIN packets : TcpPacket(p)' <=> TcpPacket(p)
      /\ n \notin DOMAIN packets
  BY <1>1, <1>2, MoreViews
<1>4. \A p \in DOMAIN packets' : p <= n /\ (p = n \/ p \in DOMAIN packets)
  BY <1>2, <1>3
<1>5. \A p \in DOMAIN packets : p \in DOMAIN packets'
  BY <1>2, <1>3
<1>6. TcpPacket(n)'
  <2>1. packets'[n].handlers = TcpStack
    BY <1>2, CallEffect
  <2>2. n \in DOMAIN packets'
    BY <1>2, <1>3
  <2> QED BY <2>1, <2>2 DEF IsTcp, TcpPacket
<1>7. /\ out_buffer' = out_buffer /\ wire' = wire /\ refused' = refused
  BY DEF Call
<1>8. /\ mixed \subseteq mixed' /\ \A p \in mixed' : p = n \/ p \in DOMAIN packets
      /\ IF \A u \in Threads : ~ Writes(u)
         THEN mixed' = mixed
         ELSE /\ n \in mixed' /\ \A u \in Threads : Writes(u) => threads[u].packet \in mixed'
              /\ \A i \in DOMAIN out_buffer : out_buffer[i].packet \in mixed'
  <2>1. mixed' = IF Inside = {} THEN mixed
                 ELSE mixed \union {n} \union QueuedPackets
                         \union {threads[other].packet : other \in Inside}
    BY <1>2 DEF Call
  <2>2. Inside = {} <=> \A u \in Threads : ~ Writes(u)
    BY DEF Inside, Writes
  <2>3. \A u \in Threads : u \in Inside <=> Writes(u)
    BY DEF Inside, Writes
  <2>4. \A i \in DOMAIN out_buffer : out_buffer[i].packet \in QueuedPackets
    BY DEF QueuedPackets
  <2>5. QueuedPackets \subseteq DOMAIN packets
    BY DEF QueuedPackets, Names, TcpPacket
  <2>6. \A u \in Threads : u \in Inside => threads[u].packet \in DOMAIN packets
    BY <2>3 DEF Names, TcpPacket
  <2>7. Inside \subseteq Threads
    BY DEF Inside
  <2>8. mixed \subseteq DOMAIN packets
    BY DEF Names
  <2>9. CASE Inside = {}
    BY <2>1, <2>2, <2>8, <2>9
  <2>10. CASE Inside # {}
    <3>1. mixed' = mixed \union {n} \union QueuedPackets
                    \union {threads[other].packet : other \in Inside}
      BY <2>1, <2>10
    <3>2. \A p \in mixed' : p = n \/ p \in DOMAIN packets
      BY <2>5, <2>6, <2>7, <2>8, <3>1
    <3>3. n \in mixed' /\ mixed \subseteq mixed'
      BY <3>1
    <3>4. \A u \in Threads : Writes(u) => threads[u].packet \in mixed'
      BY <2>3, <3>1
    <3>5. \A i \in DOMAIN out_buffer : out_buffer[i].packet \in mixed'
      BY <2>4, <3>1
    <3> QED BY <2>2, <2>10, <3>2, <3>3, <3>4, <3>5
  <2> QED BY <2>9, <2>10
<1>9. \A u \in Threads :
        /\ Writes(u)' <=> (u = t \/ Writes(u))
        /\ HasHead(u)' <=> HasHead(u)
        /\ u # t => threads'[u] = threads[u]
        /\ HasHead(u) => u # t
        /\ threads'[u].pc \in Early <=> u = t \/ threads[u].pc \in Early
        /\ threads'[u].pc = "remove" <=> threads[u].pc = "remove"
  BY <1>1 DEF Writes, HasHead, Early
<1>10. /\ \A p : InQueue(p)' <=> InQueue(p)
       /\ \A p : OnWire(p)' <=> OnWire(p)
       /\ \A p \in DOMAIN packets : Removing(p)' <=> Removing(p)
       /\ \A p \in DOMAIN packets : NotQueuedYet(p) => NotQueuedYet(p)'
  <2>1. \A p : (InQueue(p)' <=> InQueue(p)) /\ (OnWire(p)' <=> OnWire(p))
    BY <1>7 DEF InQueue, OnWire
  <2>2. \A u \in Threads : threads[u].pc = "remove" => u # t
    BY <1>1 DEF Writes
  <2>3. \A p \in DOMAIN packets : Removing(p)' <=> Removing(p)
    BY <1>9, <2>2 DEF Removing
  <2>4. \A u \in Threads : threads[u].pc \in Early => u # t
    BY <1>1 DEF Writes, Early
  <2>5. \A p \in DOMAIN packets : NotQueuedYet(p) => NotQueuedYet(p)'
    BY <1>9, <2>4 DEF NotQueuedYet
  <2> QED BY <2>1, <2>3, <2>5
<1>t. \A p : TcpPacket(p) => TcpPacket(p)'
  BY <1>3 DEF TcpPacket
<1>n. threads'[t].packet = n
  BY <1>1, <1>2
<1>13. Names'
  <2>1. \A i \in DOMAIN out_buffer : TcpPacket(out_buffer[i].packet)'
    <3> TAKE i \in DOMAIN out_buffer
    <3>1. PICK p : p = out_buffer[i].packet
      OBVIOUS
    <3>2. out_buffer'[i].packet = p /\ TcpPacket(p)'
      BY <1>7, <1>t, <3>1 DEF Names
    <3> QED BY <3>2 DEF TcpPacket, IsTcp
  <2>2. \A i \in DOMAIN wire' : wire'[i] \in DOMAIN packets'
    BY <1>5, <1>7 DEF Names
  <2>3. mixed' \subseteq DOMAIN packets' /\ refused' \subseteq DOMAIN packets'
    <3>1. n \in DOMAIN packets'
      BY <1>2, <1>3
    <3> QED BY <1>5, <1>7, <1>8, <3>1 DEF Names
  <2>4. \A u \in Threads :
          IF Writes(u)' THEN TcpPacket(threads[u].packet)' ELSE threads'[u].packet = 0
    <3> TAKE u \in Threads
    <3>1. CASE u = t
      <4>1. Writes(u)' /\ threads'[u].packet = n
        BY <1>9, <1>n, <3>1
      <4> QED BY <1>6, <4>1 DEF TcpPacket, IsTcp
    <3>2. CASE u # t
      <4>1. PICK p : p = threads[u].packet
        OBVIOUS
      <4>2. threads'[u].packet = p /\ (Writes(u) => TcpPacket(p)') /\ (~ Writes(u) => p = 0)
        BY <1>9, <1>t, <3>2, <4>1 DEF Names
      <4> QED BY <1>9, <3>2, <4>2 DEF TcpPacket, IsTcp
    <3> QED BY <3>1, <3>2
  <2>5. \A u \in Threads : HasHead(u)' => TcpPacket(threads[u].head)'
    <3> TAKE u \in Threads
    <3>1. PICK p : p = threads[u].head
      OBVIOUS
    <3>2. HasHead(u) => threads'[u].head = p /\ TcpPacket(p)'
      BY <1>9, <1>t, <3>1 DEF Names
    <3> QED BY <1>9, <3>2 DEF TcpPacket, IsTcp
  <2>6. \A u, v \in Threads : Writes(u)' /\ threads'[u].packet = threads'[v].packet => u = v
    <3>1. \A u \in Threads : u # t => threads'[u].packet # n
      <4> SUFFICES ASSUME NEW u \in Threads, u # t PROVE threads'[u].packet # n
        OBVIOUS
      <4>1. threads'[u].packet = threads[u].packet
        BY <1>9
      <4>2. threads[u].packet = 0 \/ threads[u].packet \in DOMAIN packets
        BY DEF Names, TcpPacket
      <4> QED BY <1>2, <1>3, <4>1, <4>2
    <3> QED BY <1>9, <1>n, <3>1 DEF Names
  <2> QED BY <1>7, <2>1, <2>2, <2>3, <2>4, <2>5, <2>6 DEF Names
<1>14. Fresh'
  <2> SUFFICES ASSUME NEW u \in Threads, threads'[u].pc \in Early
               PROVE  FreshOK(threads[u].packet)'
    BY Zenon DEF Fresh
  <2>1. PICK p : p = threads'[u].packet
    OBVIOUS
  <2>2. FreshOK(p)'
    <3>1. CASE u = t
      <4>1. p = n
        BY <1>n, <2>1, <3>1
      <4>2. ~ InQueue(p) /\ ~ OnWire(p) /\ p \notin refused
        BY <1>3, <4>1 DEF Names, InQueue, OnWire, TcpPacket
      <4>3. \A v \in Threads : HasHead(v) => threads[v].head # p
        BY <1>3, <4>1 DEF Names, TcpPacket
      <4> QED BY <1>7, <1>9, <1>10, <4>2, <4>3 DEF FreshOK
    <3>2. CASE u # t
      <4>1. threads[u].pc \in Early /\ threads[u].packet = p
        BY <1>9, <2>1, <3>2
      <4>2. FreshOK(p)
        BY <4>1 DEF Fresh
      <4> QED BY <1>7, <1>9, <1>10, <4>2 DEF FreshOK
    <3> QED BY <3>1, <3>2
  <2> QED BY <2>1, <2>2 DEF FreshOK, InQueue, OnWire
<1>15. Solo'
  <2>1. CASE \A u \in Threads : ~ Writes(u)
    <3>1. \A u \in Threads : Writes(u)' => u = t
      BY <1>9, <2>1
    <3>2. ~ HasHead(t)'
      BY <1>9
    <3>3. \A p \in DOMAIN packets' : IsTcp(p)' => p <= threads'[t].packet
      BY <1>4, <1>n
    <3>4. n \notin mixed'
      BY <1>3, <1>8, <2>1 DEF Names
    <3>5. SoloOK(t)'
      BY <1>n, <3>1, <3>2, <3>3, <3>4 DEF SoloOK
    <3> QED BY <3>1, <3>5 DEF Solo
  <2>2. CASE ~ \A u \in Threads : ~ Writes(u)
    <3> SUFFICES ASSUME NEW u \in Threads, Writes(u)' PROVE SoloOK(u)'
      BY DEF Solo
    <3>1. threads'[u].packet \in mixed'
      BY <1>8, <1>9, <1>n, <2>2
    <3>2. \A i \in DOMAIN out_buffer' : out_buffer'[i].packet \in mixed'
      BY <1>7, <1>8, <2>2
    <3>3. HasHead(u)' => threads'[u].head \in mixed'
      <4> HAVE HasHead(u)'
      <4>1. HasHead(u) /\ u # t /\ threads'[u].head = threads[u].head
        BY <1>9
      <4>2. Writes(u)
        BY <4>1 DEF HasHead, Writes
      <4>3. SoloOK(u)
        BY <4>2 DEF Solo
      <4>4. CASE threads[u].packet \in mixed
        BY <1>8, <4>1, <4>3, <4>4 DEF SoloOK
      <4>5. CASE threads[u].packet \notin mixed
        <5>1. out_buffer # <<>> /\ out_buffer[1].packet = threads[u].head
          BY <4>1, <4>3, <4>5 DEF SoloOK
        <5>2. 1 \in DOMAIN out_buffer
          BY <5>1 DEF Types
        <5> QED BY <1>7, <3>2, <4>1, <5>1, <5>2
      <4> QED BY <4>4, <4>5
    <3> QED BY <3>1, <3>2, <3>3 DEF SoloOK
  <2> QED BY <2>1, <2>2
<1>16. Places'
  <2>1. QueuedOnce' /\ SentOnce'
    BY <1>7, <1>8 DEF Places, QueuedOnce, SentOnce
  <2>2. ASSUME NEW p \in DOMAIN packets', IsTcp(p)', p \notin mixed'
        PROVE  PlaceOK(p)'
    <3>1. CASE p \in DOMAIN packets
      <4>1. IsTcp(p) /\ p \notin mixed
        BY <1>3, <1>8, <2>2, <3>1
      <4>2. PlaceOK(p)
        BY <3>1, <4>1 DEF Places
      <4> QED BY <1>7, <1>10, <3>1, <4>2 DEF PlaceOK
    <3>2. CASE p = n
      <4>1. NotQueuedYet(p)'
        BY <1>9, <1>n, <3>2 DEF NotQueuedYet
      <4>2. ~ InQueue(p) /\ ~ OnWire(p) /\ p \notin refused
        BY <1>3, <3>2 DEF Names, InQueue, OnWire, TcpPacket
      <4>3. ~ Removing(p)'
        <5>1. \A v \in Threads : threads[v].pc = "remove" => threads[v].head # p
          BY <1>3, <3>2 DEF Names, TcpPacket, HasHead
        <5> QED BY <1>1, <5>1 DEF Removing
      <4> QED BY <1>7, <1>10, <4>1, <4>2, <4>3 DEF PlaceOK
    <3> QED BY <1>4, <3>1, <3>2
  <2> QED BY <2>1, <2>2 DEF Places
<1> QED BY <1>13, <1>14, <1>15, <1>16

-----------------------------------------------------------------------------
(* Steps that work on the queue *)

\* block b is in new behind the first w blocks of old
InsertedAt(old, new, b, w) ==
  /\ new \in Seq(Block) /\ Len(new) = Len(old) + 1
  /\ \A j \in 1 .. w : new[j] = old[j]
  /\ new[w + 1] = b
  /\ \A j \in w + 1 .. Len(old) : new[j + 1] = old[j]
  /\ w < Len(old) => ~ (b.seq >= old[w + 1].seq)
  /\ \A j \in 1 .. w : b.seq >= old[j].seq

\* What AddBlock does to the queue.
LEMMA AddQueue ==
  ASSUME Types, Names, NEW t \in Threads, AddBlock(t), fault' = fault
  PROVE  \/ /\ out_buffer' = out_buffer /\ refused' = refused \union {threads[t].packet}
            /\ ~ HasFree(out_buffer)
         \/ /\ refused' = refused
            /\ \E b \in Block, w \in 0 .. Len(out_buffer) :
                 /\ b.packet = threads[t].packet /\ b.seq = out_header.seq
                 /\ InsertedAt(out_buffer, out_buffer', b, w)
<1>1. fault = "none"
  BY DEF AddBlock, At, Alive
<1>2. PICK b : b = [seq |-> out_header.seq, size |-> Mine(t).size, packet |-> threads[t].packet]
  OBVIOUS
<1>3. /\ out_buffer' = Add(out_buffer, b)
      /\ refused' = IF HasFree(out_buffer) THEN refused ELSE refused \union {threads[t].packet}
  BY <1>1, <1>2 DEF AddBlock
<1>4. CASE ~ HasFree(out_buffer)
  BY <1>3, <1>4 DEF Add
<1>5. CASE HasFree(out_buffer)
  <2>1. Writes(t) /\ threads[t] \in Thread /\ out_header \in Header /\ out_buffer \in Seq(Block)
    BY AddEffect DEF Types
  <2>2. Mine(t) \in Packet
    BY <2>1, PacketOfThread DEF Mine
  <2>3. Mine(t).size \in Nat /\ threads[t].packet \in Nat /\ out_header.seq \in SeqNum
    BY <2>1, <2>2, TcpWriteAssumption DEF Packet, Thread, Header
  <2>4. b \in Block /\ b.packet = threads[t].packet /\ b.seq = out_header.seq
    BY <1>2, <2>3 DEF Block
  <2>5. PICK w \in 0 .. Len(out_buffer) : InsertedAt(out_buffer, Add(out_buffer, b), b, w)
    BY <1>5, <2>1, <2>4, AddElements DEF InsertedAt
  <2>6. InsertedAt(out_buffer, out_buffer', b, w)
    BY <1>3, <2>5
  <2> QED BY <1>3, <1>5, <2>4, <2>6
<1> QED BY <1>4, <1>5

\* Every block of the new queue is the new one or one of the old queue.
LEMMA InsertedView ==
  ASSUME NEW old \in Seq(Block), NEW new, NEW b \in Block, NEW w \in 0 .. Len(old),
         InsertedAt(old, new, b, w)
  PROVE  /\ w + 1 \in DOMAIN new /\ new[w + 1] = b
         /\ \A j \in DOMAIN old : \E i \in DOMAIN new : new[i] = old[j]
         /\ \A i \in DOMAIN new : i # w + 1 =>
              \E j \in DOMAIN old : j = (IF i <= w THEN i ELSE i - 1) /\ new[i] = old[j]
<1>1. DOMAIN old = 1 .. Len(old) /\ DOMAIN new = 1 .. Len(old) + 1 /\ Len(old) \in Nat
  BY DEF InsertedAt
<1>2. w + 1 \in DOMAIN new /\ new[w + 1] = b
  BY <1>1 DEF InsertedAt
<1>3. ASSUME NEW j \in DOMAIN old PROVE \E i \in DOMAIN new : new[i] = old[j]
  <2>1. CASE j <= w
    BY <1>1, <2>1 DEF InsertedAt
  <2>2. CASE ~ (j <= w)
    <3>1. j + 1 \in DOMAIN new /\ j \in w + 1 .. Len(old)
      BY <1>1, <2>2
    <3>2. new[j + 1] = old[j]
      BY <3>1 DEF InsertedAt
    <3> QED BY <3>1, <3>2
  <2> QED BY <2>1, <2>2
<1>4. ASSUME NEW i \in DOMAIN new, i # w + 1
      PROVE  \E j \in DOMAIN old : j = (IF i <= w THEN i ELSE i - 1) /\ new[i] = old[j]
  <2>1. CASE i <= w
    <3>1. i \in DOMAIN old /\ i \in 1 .. w
      BY <1>1, <2>1
    <3>2. new[i] = old[i]
      BY <3>1 DEF InsertedAt
    <3> QED BY <2>1, <3>1, <3>2
  <2>2. CASE ~ (i <= w)
    <3>1. i - 1 \in DOMAIN old /\ i - 1 \in w + 1 .. Len(old) /\ (i - 1) + 1 = i
      BY <1>1, <1>4, <2>2
    <3>2. PICK k \in DOMAIN old : k = i - 1 /\ k \in w + 1 .. Len(old) /\ k + 1 = i
      BY <3>1
    <3>3. new[k + 1] = old[k]
      BY <3>2 DEF InsertedAt
    <3> QED BY <2>2, <3>2, <3>3
  <2> QED BY <2>1, <2>2
<1> QED BY <1>2, <1>3, <1>4

\* AddBlock keeps the control part.
LEMMA AddKeeps ==
  ASSUME Types, Names, Fresh, Solo, Places, NEW t \in Threads, AddBlock(t), fault' = fault
  PROVE  Names' /\ Fresh' /\ Solo' /\ Places'
<1>1. Writes(t) /\ Moves(t, "pick") /\ SamePackets
  BY AddEffect
<1>2. PICK p : p = threads[t].packet
  OBVIOUS
<1>3. TcpPacket(p)
  BY <1>1, <1>2 DEF Names
<1>4. /\ DOMAIN packets' = DOMAIN packets
      /\ \A q \in DOMAIN packets : IsTcp(q)' <=> IsTcp(q)
      /\ \A q : TcpPacket(q)' <=> TcpPacket(q)
  BY <1>1, SameViews
<1>5. threads[t].pc = "add" /\ wire' = wire /\ mixed' = mixed
  BY DEF AddBlock, At
<1>6. FreshOK(p)
  BY <1>2, <1>5 DEF Fresh, Early
<1>7. out_buffer \in Seq(Block) /\ out_buffer' \in Seq(Block)
  <2>1. out_buffer \in Seq(Block)
    BY DEF Types
  <2> QED BY <2>1, AddQueue DEF InsertedAt
<1>8. /\ \A q : InQueue(q) => InQueue(q)'
      /\ \A q : InQueue(q)' => InQueue(q) \/ q = p
      /\ QueuedOnce'
      /\ refused \subseteq refused' /\ refused' \subseteq refused \union {p}
      /\ p \in refused' => ~ InQueue(p)'
      /\ p \in refused' \/ InQueue(p)'
  <2>1. CASE out_buffer' = out_buffer /\ refused' = refused \union {p}
    <3>1. \A q : InQueue(q)' <=> InQueue(q)
      BY <2>1 DEF InQueue
    <3>2. QueuedOnce'
      BY <1>5, <2>1 DEF QueuedOnce, Places
    <3> QED BY <1>6, <2>1, <3>1, <3>2 DEF FreshOK
  <2>2. CASE /\ refused' = refused
             /\ \E b \in Block, w \in 0 .. Len(out_buffer) :
                 /\ b.packet = p /\ b.seq = out_header.seq
                 /\ InsertedAt(out_buffer, out_buffer', b, w)
    <3>1. PICK b \in Block, w \in 0 .. Len(out_buffer) :
            b.packet = p /\ InsertedAt(out_buffer, out_buffer', b, w)
      BY <2>2
    <3>2. /\ w + 1 \in DOMAIN out_buffer' /\ out_buffer'[w + 1] = b
          /\ \A j \in DOMAIN out_buffer : \E i \in DOMAIN out_buffer' : out_buffer'[i] = out_buffer[j]
          /\ \A i \in DOMAIN out_buffer' : i # w + 1 =>
               \E j \in DOMAIN out_buffer :
                 j = (IF i <= w THEN i ELSE i - 1) /\ out_buffer'[i] = out_buffer[j]
      BY <1>7, <3>1, InsertedView
    <3>3. \A q : InQueue(q) => InQueue(q)'
      BY <3>2 DEF InQueue
    <3>4. \A q : InQueue(q)' => InQueue(q) \/ q = p
      BY <3>1, <3>2 DEF InQueue
    <3>5. InQueue(p)'
      BY <3>1, <3>2 DEF InQueue
    <3>6. p \notin refused
      BY <1>6 DEF FreshOK
    <3>7. QueuedOnce'
      <4> SUFFICES ASSUME NEW i \in DOMAIN out_buffer', NEW j \in DOMAIN out_buffer',
                          out_buffer'[i].packet = out_buffer'[j].packet,
                          out_buffer'[i].packet \notin mixed'
                   PROVE  i = j
        BY DEF QueuedOnce
      <4>1. \A k \in DOMAIN out_buffer : out_buffer[k].packet # p
        BY <1>6 DEF FreshOK, InQueue
      <4>2. CASE i = w + 1 \/ j = w + 1
        <5>1. out_buffer'[i].packet = p /\ out_buffer'[j].packet = p
          BY <3>1, <3>2, <4>2
        <5>2. i = w + 1 /\ j = w + 1
          BY <3>2, <4>1, <5>1
        <5> QED BY <5>2
      <4>3. CASE i # w + 1 /\ j # w + 1
        <5>1. PICK k \in DOMAIN out_buffer :
                k = (IF i <= w THEN i ELSE i - 1) /\ out_buffer'[i] = out_buffer[k]
          BY <3>2, <4>3
        <5>2. PICK l \in DOMAIN out_buffer :
                l = (IF j <= w THEN j ELSE j - 1) /\ out_buffer'[j] = out_buffer[l]
          BY <3>2, <4>3
        <5>3. k = l
          BY <1>5, <5>1, <5>2 DEF QueuedOnce, Places
        <5>4. i \in Nat /\ j \in Nat /\ w \in Nat
          BY <1>7
        <5> QED BY <4>3, <5>1, <5>2, <5>3, <5>4
      <4> QED BY <4>2, <4>3
    <3> QED BY <2>2, <3>3, <3>4, <3>5, <3>6, <3>7
  <2> QED BY <1>2, <2>1, <2>2, AddQueue
<1>9. \A u \in Threads :
        /\ Writes(u)' <=> Writes(u)
        /\ threads'[u].packet = threads[u].packet
        /\ HasHead(u)' <=> HasHead(u)
        /\ HasHead(u) => u # t /\ threads'[u] = threads[u]
        /\ threads'[u].pc \in Early <=> u # t /\ threads[u].pc \in Early
        /\ threads'[u].pc = "remove" <=> threads[u].pc = "remove"
        /\ u # t => threads'[u] = threads[u]
  BY <1>1, <1>5 DEF Writes, HasHead, Early, Moves
<1>10. \A q : /\ OnWire(q)' <=> OnWire(q)
              /\ Removing(q)' <=> Removing(q)
              /\ NotQueuedYet(q) => q = p \/ NotQueuedYet(q)'
  <2>1. \A q : Removing(q)' <=> Removing(q)
    BY <1>5, <1>9 DEF Removing
  <2>2. \A q : NotQueuedYet(q) => q = p \/ NotQueuedYet(q)'
    BY <1>2, <1>9 DEF NotQueuedYet
  <2>3. \A q : OnWire(q)' <=> OnWire(q)
    BY <1>5 DEF OnWire
  <2> QED BY <2>1, <2>2, <2>3
<1>11. \A i \in DOMAIN out_buffer' :
         out_buffer'[i].packet = p \/ \E j \in DOMAIN out_buffer : out_buffer'[i].packet = out_buffer[j].packet
  BY <1>8 DEF InQueue
<1>12. Names'
  <2>1. \A i \in DOMAIN out_buffer' : TcpPacket(out_buffer[i].packet)'
    <3> TAKE i \in DOMAIN out_buffer'
    <3>1. PICK q : q = out_buffer'[i].packet
      OBVIOUS
    <3>2. TcpPacket(q)
      BY <1>3, <1>11, <3>1 DEF Names
    <3>3. TcpPacket(q)'
      BY <1>4, <3>2
    <3> QED BY <3>1, <3>3 DEF TcpPacket, IsTcp
  <2>2. \A i \in DOMAIN wire' : wire'[i] \in DOMAIN packets'
    BY <1>4, <1>5 DEF Names
  <2>3. mixed' \subseteq DOMAIN packets' /\ refused' \subseteq DOMAIN packets'
    BY <1>3, <1>4, <1>5, <1>8 DEF Names, TcpPacket
  <2>4. \A u \in Threads :
          IF Writes(u)' THEN TcpPacket(threads[u].packet)' ELSE threads'[u].packet = 0
    <3> TAKE u \in Threads
    <3>1. PICK q : q = threads[u].packet
      OBVIOUS
    <3>2. threads'[u].packet = q /\ (Writes(u) => TcpPacket(q)') /\ (~ Writes(u) => q = 0)
      BY <1>4, <1>9, <3>1 DEF Names
    <3> QED BY <1>9, <3>2 DEF TcpPacket, IsTcp
  <2>5. \A u \in Threads : HasHead(u)' => TcpPacket(threads[u].head)'
    <3> TAKE u \in Threads
    <3>1. PICK q : q = threads[u].head
      OBVIOUS
    <3>2. HasHead(u) => threads'[u].head = q /\ TcpPacket(q)'
      BY <1>4, <1>9, <3>1 DEF Names
    <3> QED BY <1>9, <3>2 DEF TcpPacket, IsTcp
  <2>6. \A u, v \in Threads : Writes(u)' /\ threads'[u].packet = threads'[v].packet => u = v
    BY <1>9 DEF Names
  <2> QED BY <2>1, <2>2, <2>3, <2>4, <2>5, <2>6 DEF Names
<1>13. Fresh'
  <2> SUFFICES ASSUME NEW u \in Threads, threads'[u].pc \in Early
               PROVE  FreshOK(threads[u].packet)'
    BY Zenon DEF Fresh
  <2>1. u # t /\ threads[u].pc \in Early
    BY <1>9
  <2>2. PICK q : q = threads[u].packet
    OBVIOUS
  <2>3. FreshOK(q) /\ q # p
    <3>1. Writes(u)
      BY <2>1 DEF Writes, Early
    <3> QED BY <1>2, <2>1, <2>2, <3>1 DEF Fresh, Names
  <2>4. FreshOK(q)'
    BY <1>8, <1>9, <1>10, <2>3 DEF FreshOK
  <2>5. threads'[u].packet = q
    BY <1>9, <2>2
  <2> QED BY <2>4, <2>5 DEF FreshOK, InQueue, OnWire
<1>14. Solo'
  <2> SUFFICES ASSUME NEW u \in Threads, Writes(u)' PROVE SoloOK(u)'
    BY DEF Solo
  <2>1. Writes(u) /\ SoloOK(u) /\ SoloOK(t)
    BY <1>1, <1>9 DEF Solo
  <2>2. CASE threads[u].packet \notin mixed
    <3>1. u = t
      BY <1>1, <2>1, <2>2 DEF SoloOK
    <3>2. ~ HasHead(u)'
      BY <1>9, <3>1
    <3>3. \A v \in Threads : Writes(v)' => v = u
      BY <1>9, <2>1, <2>2 DEF SoloOK
    <3>4. \A q \in DOMAIN packets' : IsTcp(q)' => q <= threads'[u].packet
      BY <1>4, <1>9, <2>1, <2>2 DEF SoloOK
    <3> QED BY <1>5, <1>9, <2>2, <3>2, <3>3, <3>4 DEF SoloOK
  <2>3. CASE threads[u].packet \in mixed
    <3>1. p \in mixed
      <4> SUFFICES ASSUME p \notin mixed PROVE FALSE
        OBVIOUS
      <4>1. u = t
        BY <1>2, <2>1 DEF SoloOK
      <4> QED BY <1>2, <2>3, <4>1
    <3>2. \A i \in DOMAIN out_buffer' : out_buffer'[i].packet \in mixed'
      BY <1>5, <1>11, <2>1, <2>3, <3>1 DEF SoloOK
    <3>3. HasHead(u)' => threads'[u].head \in mixed'
      BY <1>5, <1>9, <2>1, <2>3 DEF SoloOK
    <3> QED BY <1>5, <1>9, <2>3, <3>2, <3>3 DEF SoloOK
  <2> QED BY <2>2, <2>3
<1>15. Places'
  <2>1. SentOnce'
    BY <1>5 DEF Places, SentOnce
  <2>2. ASSUME NEW q \in DOMAIN packets', IsTcp(q)', q \notin mixed'
        PROVE  PlaceOK(q)'
    <3>1. PlaceOK(q)
      BY <1>4, <1>5, <2>2 DEF Places
    <3>2. CASE q = p
      <4>1. ~ OnWire(q)' /\ ~ Removing(q)'
        <5>1. ~ Removing(q)
          BY <1>6, <3>2 DEF FreshOK, Removing, HasHead
        <5> QED BY <1>6, <1>10, <3>2, <5>1 DEF FreshOK
      <4> QED BY <1>8, <3>2, <4>1 DEF PlaceOK
    <3>3. CASE q # p
      <4>1. InQueue(q)' <=> InQueue(q)
        BY <1>8, <3>3
      <4>2. q \in refused' <=> q \in refused
        BY <1>8, <3>3
      <4> QED BY <1>10, <3>1, <3>3, <4>1, <4>2 DEF PlaceOK
    <3> QED BY <3>2, <3>3
  <2> QED BY <1>8, <2>1, <2>2 DEF Places
<1> QED BY <1>12, <1>13, <1>14, <1>15

\* A return from tcp_write keeps the control part: what is queued stays.
LEMMA LeaveKeeps ==
  ASSUME Types, Names, Fresh, Solo, Places, NEW t \in Threads, threads[t].pc \in {"pick", "lower"},
         Leaves(t), SamePackets, UNCHANGED <<out_buffer, wire, mixed, refused>>
  PROVE  Names' /\ Fresh' /\ Solo' /\ Places'
<1>1. Writes(t)
  BY DEF Writes
<1>2. /\ DOMAIN packets' = DOMAIN packets
      /\ \A q \in DOMAIN packets : IsTcp(q)' <=> IsTcp(q)
      /\ \A q : TcpPacket(q)' <=> TcpPacket(q)
  BY SameViews
<1>3. \A u \in Threads :
        /\ Writes(u)' <=> u # t /\ Writes(u)
        /\ u # t => threads'[u] = threads[u]
        /\ HasHead(u)' <=> u # t /\ HasHead(u)
        /\ threads'[u].pc \in Early <=> threads[u].pc \in Early
        /\ threads'[u].pc \in Early => u # t
        /\ threads'[u].pc = "remove" <=> threads[u].pc = "remove"
        /\ threads'[u].pc = "remove" => u # t
  BY DEF Writes, HasHead, Early, Leaves
<1>4. out_buffer' = out_buffer /\ wire' = wire /\ mixed' = mixed /\ refused' = refused
      /\ threads'[t].packet = 0
  BY DEF Leaves
<1>5. \A q : /\ OnWire(q)' <=> OnWire(q)
             /\ InQueue(q)' <=> InQueue(q)
             /\ Removing(q)' <=> Removing(q)
             /\ NotQueuedYet(q)' <=> NotQueuedYet(q)
  BY <1>3, <1>4 DEF OnWire, InQueue, Removing, NotQueuedYet
<1>6. Names'
  <2>1. \A i \in DOMAIN out_buffer : TcpPacket(out_buffer[i].packet)'
    <3> TAKE i \in DOMAIN out_buffer
    <3>1. PICK q : q = out_buffer[i].packet
      OBVIOUS
    <3>2. out_buffer'[i].packet = q /\ TcpPacket(q)'
      BY <1>2, <1>4, <3>1 DEF Names
    <3> QED BY <3>2 DEF TcpPacket, IsTcp
  <2>2. \A i \in DOMAIN wire' : wire'[i] \in DOMAIN packets'
    BY <1>2, <1>4 DEF Names
  <2>3. mixed' \subseteq DOMAIN packets' /\ refused' \subseteq DOMAIN packets'
    BY <1>2, <1>4 DEF Names
  <2>4. \A u \in Threads :
          IF Writes(u)' THEN TcpPacket(threads[u].packet)' ELSE threads'[u].packet = 0
    <3> TAKE u \in Threads
    <3>1. CASE u = t
      BY <1>3, <1>4, <3>1
    <3>2. CASE u # t
      <4>1. PICK q : q = threads[u].packet
        OBVIOUS
      <4>2. threads'[u].packet = q /\ (Writes(u) => TcpPacket(q)') /\ (~ Writes(u) => q = 0)
        BY <1>2, <1>3, <3>2, <4>1 DEF Names
      <4> QED BY <1>3, <3>2, <4>2 DEF TcpPacket, IsTcp
    <3> QED BY <3>1, <3>2
  <2>5. \A u \in Threads : HasHead(u)' => TcpPacket(threads[u].head)'
    <3> TAKE u \in Threads
    <3>1. PICK q : q = threads[u].head
      OBVIOUS
    <3>2. u # t /\ HasHead(u) => threads'[u].head = q /\ TcpPacket(q)'
      BY <1>2, <1>3, <3>1 DEF Names
    <3> QED BY <1>3, <3>2 DEF TcpPacket, IsTcp
  <2>6. \A u, v \in Threads : Writes(u)' /\ threads'[u].packet = threads'[v].packet => u = v
    <3> SUFFICES ASSUME NEW u \in Threads, NEW v \in Threads, Writes(u)',
                        threads'[u].packet = threads'[v].packet
                 PROVE  u = v
      OBVIOUS
    <3>1. u # t /\ Writes(u) /\ threads'[u].packet = threads[u].packet
      BY <1>3
    <3>2. threads[u].packet # 0
      <4>1. DOMAIN packets = 1 .. Len(packets)
        BY DEF Types
      <4>2. threads[u].packet \in DOMAIN packets
        BY <3>1 DEF Names, TcpPacket
      <4> QED BY <4>1, <4>2
    <3>3. v # t
      BY <1>4, <3>1, <3>2
    <3> QED BY <1>3, <3>1, <3>3 DEF Names
  <2> QED BY <1>4, <2>1, <2>2, <2>3, <2>4, <2>5, <2>6 DEF Names
<1>7. Fresh'
  <2> SUFFICES ASSUME NEW u \in Threads, threads'[u].pc \in Early
               PROVE  FreshOK(threads[u].packet)'
    BY Zenon DEF Fresh
  <2>1. PICK q : q = threads[u].packet
    OBVIOUS
  <2>2. threads'[u].packet = q /\ FreshOK(q)
    BY <1>3, <2>1 DEF Fresh
  <2>3. FreshOK(q)'
    BY <1>3, <1>4, <1>5, <2>2 DEF FreshOK
  <2> QED BY <2>2, <2>3 DEF FreshOK, InQueue, OnWire
<1>8. Solo'
  <2> SUFFICES ASSUME NEW u \in Threads, Writes(u)' PROVE SoloOK(u)'
    BY DEF Solo
  <2>1. u # t /\ Writes(u) /\ SoloOK(u)
    BY <1>3 DEF Solo
  <2>2. threads[u].packet \in mixed
    BY <1>1, <2>1 DEF SoloOK
  <2> QED BY <1>3, <1>4, <2>1, <2>2 DEF SoloOK
<1>9. Places'
  BY <1>2, <1>4, <1>5 DEF Places, PlaceOK, QueuedOnce, SentOnce
<1> QED BY <1>6, <1>7, <1>8, <1>9

\* The loop of tcp_write goes on with the head of the queue.
LEMMA PickKeeps ==
  ASSUME Types, Names, Fresh, Solo, Places, NEW t \in Threads, Pick(t), ~ Returns(t, packets)
  PROVE  Names' /\ Fresh' /\ Solo' /\ Places'
<1>1. /\ out_buffer # <<>> /\ packets' = packets /\ threads[t].pc = "pick"
      /\ out_buffer' = out_buffer /\ wire' = wire /\ mixed' = mixed /\ refused' = refused
  BY DEF Pick, At, shared
<1>2. PICK h : h = out_buffer[1].packet
  OBVIOUS
<1>3. 1 \in DOMAIN out_buffer
  BY PickMoves
<1>4. /\ \A u \in Threads : u # t => threads'[u] = threads[u]
      /\ threads'[t].pc = "lower" /\ threads'[t].head = h /\ threads'[t].packet = threads[t].packet
  BY <1>2, PickMoves
<1>5. \A u \in Threads :
        /\ Writes(u)' <=> Writes(u)
        /\ threads'[u].packet = threads[u].packet
        /\ HasHead(u)' <=> u = t \/ HasHead(u)
        /\ threads'[u].pc \in Early <=> threads[u].pc \in Early
        /\ threads'[u].pc = "remove" <=> threads[u].pc = "remove"
        /\ threads[u].pc = "remove" => u # t
        /\ u # t => threads'[u].head = threads[u].head
  BY <1>1, <1>4 DEF Writes, HasHead, Early
<1>6. \A q : /\ OnWire(q)' <=> OnWire(q)
             /\ InQueue(q)' <=> InQueue(q)
             /\ Removing(q)' <=> Removing(q)
             /\ NotQueuedYet(q)' <=> NotQueuedYet(q)
             /\ TcpPacket(q)' <=> TcpPacket(q)
             /\ IsTcp(q)' <=> IsTcp(q)
  BY <1>1, <1>5 DEF OnWire, InQueue, Removing, NotQueuedYet, TcpPacket, IsTcp
<1>7. InQueue(h) /\ TcpPacket(h)
  BY <1>2, <1>3 DEF InQueue, Names
<1>8. Names'
  <2>1. \A i \in DOMAIN out_buffer : TcpPacket(out_buffer[i].packet)'
    BY <1>1 DEF Names, TcpPacket, IsTcp
  <2>2. \A u \in Threads :
          IF Writes(u)' THEN TcpPacket(threads[u].packet)' ELSE threads'[u].packet = 0
    <3> TAKE u \in Threads
    <3>1. PICK q : q = threads[u].packet
      OBVIOUS
    <3>2. threads'[u].packet = q /\ (Writes(u) => TcpPacket(q)') /\ (~ Writes(u) => q = 0)
      BY <1>5, <1>6, <3>1 DEF Names
    <3> QED BY <1>5, <3>2 DEF TcpPacket, IsTcp
  <2>3. \A u \in Threads : HasHead(u)' => TcpPacket(threads[u].head)'
    <3> TAKE u \in Threads
    <3>1. PICK q : q = threads'[u].head
      OBVIOUS
    <3>2. HasHead(u)' => TcpPacket(q)
      BY <1>4, <1>5, <1>7, <3>1 DEF Names
    <3> QED BY <1>6, <3>1, <3>2 DEF TcpPacket, IsTcp
  <2>4. \A i \in DOMAIN wire' : wire'[i] \in DOMAIN packets'
    BY <1>1 DEF Names
  <2>5. mixed' \subseteq DOMAIN packets' /\ refused' \subseteq DOMAIN packets'
    BY <1>1 DEF Names
  <2>6. \A u, v \in Threads : Writes(u)' /\ threads'[u].packet = threads'[v].packet => u = v
    BY <1>5 DEF Names
  <2>7. DOMAIN out_buffer' = DOMAIN out_buffer
    BY <1>1
  <2> QED BY <2>1, <2>2, <2>3, <2>4, <2>5, <2>6, <2>7 DEF Names
<1>9. Fresh'
  <2> SUFFICES ASSUME NEW u \in Threads, threads'[u].pc \in Early
               PROVE  FreshOK(threads[u].packet)'
    BY Zenon DEF Fresh
  <2>1. PICK q : q = threads[u].packet
    OBVIOUS
  <2>2. threads'[u].packet = q /\ FreshOK(q)
    BY <1>5, <2>1 DEF Fresh
  <2>3. q # h
    BY <1>7, <2>2 DEF FreshOK
  <2>4. \A v \in Threads : HasHead(v)' => threads'[v].head # q
    BY <1>4, <1>5, <2>2, <2>3 DEF FreshOK
  <2>5. FreshOK(q)'
    BY <1>1, <1>6, <2>2, <2>4 DEF FreshOK
  <2> QED BY <2>2, <2>5 DEF FreshOK, InQueue, OnWire
<1>m. mixed' = mixed /\ out_buffer' = out_buffer /\ out_buffer # <<>>
  BY <1>1
<1>10. Solo'
  <2> SUFFICES ASSUME NEW u \in Threads, Writes(u)' PROVE SoloOK(u)'
    BY DEF Solo
  <2>1. SoloOK(u)
    BY <1>5 DEF Solo
  <2>2. CASE threads[u].packet \notin mixed
    <3>1. \A v \in Threads : Writes(v)' => v = u
      BY <1>5, <2>1, <2>2 DEF SoloOK
    <3>2. \A q \in DOMAIN packets' : IsTcp(q)' => q <= threads'[u].packet
      BY <1>1, <1>5, <1>6, <2>1, <2>2 DEF SoloOK
    <3>3. HasHead(u)' => out_buffer'[1].packet = threads'[u].head
      BY <1>1, <1>2, <1>4, <1>5, <2>1, <2>2 DEF SoloOK
    <3>4. threads'[u].packet \notin mixed' /\ out_buffer' # <<>>
      BY <1>5, <1>m, <2>2
    <3> QED BY <3>1, <3>2, <3>3, <3>4 DEF SoloOK
  <2>3. CASE threads[u].packet \in mixed
    <3>1. \A i \in DOMAIN out_buffer : out_buffer[i].packet \in mixed
      BY <2>1, <2>3 DEF SoloOK
    <3>2. HasHead(u)' => threads'[u].head \in mixed
      BY <1>2, <1>3, <1>4, <1>5, <2>1, <2>3, <3>1 DEF SoloOK
    <3>3. threads'[u].packet \in mixed' /\ mixed' = mixed /\ out_buffer' = out_buffer
      BY <1>5, <1>m, <2>3
    <3> QED BY <3>1, <3>2, <3>3 DEF SoloOK
  <2> QED BY <2>2, <2>3
<1>11. Places'
  BY <1>1, <1>6 DEF Places, PlaceOK, QueuedOnce, SentOnce
<1> QED BY <1>8, <1>9, <1>10, <1>11

\* A packet that no race touched is sent by a thread that writes alone.
LEMMA HeadAlone ==
  ASSUME Types, Names, Solo, NEW t \in Threads, HasHead(t), threads[t].head \notin mixed
  PROVE  /\ threads[t].packet \notin mixed
         /\ \A u \in Threads : Writes(u) => u = t
         /\ 1 \in DOMAIN out_buffer /\ out_buffer[1].packet = threads[t].head
         /\ InQueue(threads[t].head)
<1>1. Writes(t)
  BY DEF HasHead, Writes
<1>2. SoloOK(t)
  BY <1>1 DEF Solo
<1>3. threads[t].packet \notin mixed
  BY <1>2 DEF SoloOK
<1>4. out_buffer # <<>> /\ out_buffer[1].packet = threads[t].head
  BY <1>2, <1>3 DEF SoloOK
<1>5. 1 \in DOMAIN out_buffer
  BY <1>4 DEF Types
<1>6. \A u \in Threads : Writes(u) => u = t
  BY <1>2, <1>3 DEF SoloOK
<1> QED BY <1>3, <1>4, <1>5, <1>6 DEF InQueue

\* Lower keeps the control part when it sends the head.
LEMMA SendKeeps ==
  ASSUME Types, Names, Fresh, Solo, Places, NEW t \in Threads, threads[t].pc = "lower",
         Moves(t, "remove"), SamePackets, wire' = Append(wire, threads[t].head),
         UNCHANGED <<out_buffer, mixed, refused>>
  PROVE  Names' /\ Fresh' /\ Solo' /\ Places'
<1>1. Writes(t) /\ HasHead(t)
  BY DEF Writes, HasHead
<1>2. PICK h : h = threads[t].head
  OBVIOUS
<1>3. TcpPacket(h) /\ h \in Nat
  <2>1. TcpPacket(h)
    BY <1>1, <1>2 DEF Names
  <2>2. DOMAIN packets = 1 .. Len(packets)
    BY DEF Types
  <2> QED BY <2>1, <2>2 DEF TcpPacket
<1>4. /\ DOMAIN packets' = DOMAIN packets
      /\ \A q \in DOMAIN packets : IsTcp(q)' <=> IsTcp(q)
      /\ \A q : TcpPacket(q)' <=> TcpPacket(q)
  BY SameViews
<1>5. \A u \in Threads :
        /\ Writes(u)' <=> Writes(u)
        /\ threads'[u].packet = threads[u].packet
        /\ threads'[u].head = threads[u].head
        /\ HasHead(u)' <=> HasHead(u)
        /\ threads'[u].pc \in Early <=> threads[u].pc \in Early
        /\ threads'[u].pc = "remove" <=> u = t \/ threads[u].pc = "remove"
  BY DEF Writes, HasHead, Early, Moves
<1>6. out_buffer' = out_buffer /\ mixed' = mixed /\ refused' = refused
  OBVIOUS
<1>7. /\ DOMAIN wire \subseteq DOMAIN wire'
      /\ \A i \in DOMAIN wire' : i \in DOMAIN wire \/ (i = Len(wire) + 1 /\ wire'[i] = h)
      /\ \A i \in DOMAIN wire : wire'[i] = wire[i]
      /\ Len(wire) + 1 \in DOMAIN wire' /\ wire'[Len(wire) + 1] = h
  <2>1. wire \in Seq(Nat)
    BY DEF Types
  <2> QED BY <1>2, <1>3, <2>1, AppendView
<1>8. /\ \A q : InQueue(q)' <=> InQueue(q)
      /\ \A q : NotQueuedYet(q)' <=> NotQueuedYet(q)
      /\ \A q : OnWire(q)' <=> q = h \/ OnWire(q)
      /\ \A q : Removing(q)' <=> q = h \/ Removing(q)
  <2>1. \A q : InQueue(q)' <=> InQueue(q)
    BY <1>6 DEF InQueue
  <2>2. \A q : NotQueuedYet(q)' <=> NotQueuedYet(q)
    BY <1>5 DEF NotQueuedYet
  <2>3. \A q : OnWire(q)' <=> q = h \/ OnWire(q)
    BY <1>7 DEF OnWire
  <2>4. \A q : Removing(q)' <=> q = h \/ Removing(q)
    BY <1>2, <1>5 DEF Removing
  <2> QED BY <2>1, <2>2, <2>3, <2>4
<1>9. Names'
  <2>1. \A i \in DOMAIN out_buffer' : TcpPacket(out_buffer[i].packet)'
    <3> TAKE i \in DOMAIN out_buffer'
    <3>1. PICK q : q = out_buffer[i].packet
      OBVIOUS
    <3>2. out_buffer'[i].packet = q /\ TcpPacket(q)'
      BY <1>4, <1>6, <3>1 DEF Names
    <3> QED BY <3>2 DEF TcpPacket, IsTcp
  <2>2. \A i \in DOMAIN wire' : wire'[i] \in DOMAIN packets'
    BY <1>3, <1>4, <1>7 DEF Names, TcpPacket
  <2>3. mixed' \subseteq DOMAIN packets' /\ refused' \subseteq DOMAIN packets'
    BY <1>4, <1>6 DEF Names
  <2>4. \A u \in Threads :
          IF Writes(u)' THEN TcpPacket(threads[u].packet)' ELSE threads'[u].packet = 0
    <3> TAKE u \in Threads
    <3>1. PICK q : q = threads[u].packet
      OBVIOUS
    <3>2. threads'[u].packet = q /\ (Writes(u) => TcpPacket(q)') /\ (~ Writes(u) => q = 0)
      BY <1>4, <1>5, <3>1 DEF Names
    <3> QED BY <1>5, <3>2 DEF TcpPacket, IsTcp
  <2>5. \A u \in Threads : HasHead(u)' => TcpPacket(threads[u].head)'
    <3> TAKE u \in Threads
    <3>1. PICK q : q = threads[u].head
      OBVIOUS
    <3>2. HasHead(u) => threads'[u].head = q /\ TcpPacket(q)'
      BY <1>4, <1>5, <3>1 DEF Names
    <3> QED BY <1>5, <3>2 DEF TcpPacket, IsTcp
  <2>6. \A u, v \in Threads : Writes(u)' /\ threads'[u].packet = threads'[v].packet => u = v
    BY <1>5 DEF Names
  <2> QED BY <2>1, <2>2, <2>3, <2>4, <2>5, <2>6 DEF Names
<1>10. Fresh'
  <2> SUFFICES ASSUME NEW u \in Threads, threads'[u].pc \in Early
               PROVE  FreshOK(threads[u].packet)'
    BY Zenon DEF Fresh
  <2>1. PICK q : q = threads[u].packet
    OBVIOUS
  <2>2. threads'[u].packet = q /\ FreshOK(q)
    BY <1>5, <2>1 DEF Fresh
  <2>3. q # h
    BY <1>1, <1>2, <2>2 DEF FreshOK
  <2>4. FreshOK(q)'
    BY <1>5, <1>6, <1>8, <2>2, <2>3 DEF FreshOK
  <2> QED BY <2>2, <2>4 DEF FreshOK, InQueue, OnWire
<1>11. Solo'
  BY <1>4, <1>5, <1>6 DEF Solo, SoloOK
<1>12. h \notin mixed => InQueue(h) /\ ~ OnWire(h)
  <2> HAVE h \notin mixed
  <2>1. InQueue(h) /\ \A u \in Threads : Writes(u) => u = t
    BY <1>1, <1>2, HeadAlone
  <2>2. ~ Removing(h)
    BY <2>1 DEF Removing, Writes
  <2>3. PlaceOK(h)
    BY <1>3 DEF Places, TcpPacket
  <2> QED BY <2>1, <2>2, <2>3 DEF PlaceOK
<1>13. Places'
  <2>1. QueuedOnce'
    BY <1>6 DEF Places, QueuedOnce
  <2>2. SentOnce'
    <3> SUFFICES ASSUME NEW i \in DOMAIN wire', NEW j \in DOMAIN wire', wire'[i] = wire'[j],
                        wire'[i] \notin mixed'
                 PROVE  i = j
      BY DEF SentOnce
    <3>1. CASE i \in DOMAIN wire /\ j \in DOMAIN wire
      BY <1>6, <1>7, <3>1 DEF Places, SentOnce
    <3>2. CASE i \notin DOMAIN wire \/ j \notin DOMAIN wire
      <4>1. wire'[i] = h /\ wire'[j] = h
        BY <1>7, <3>2
      <4>2. \A k \in DOMAIN wire : wire[k] # h
        BY <1>6, <1>12, <4>1 DEF OnWire
      <4>3. i = Len(wire) + 1 /\ j = Len(wire) + 1
        BY <1>7, <4>1, <4>2
      <4> QED BY <4>3
    <3> QED BY <3>1, <3>2
  <2>3. ASSUME NEW q \in DOMAIN packets', IsTcp(q)', q \notin mixed'
        PROVE  PlaceOK(q)'
    <3>1. PlaceOK(q)
      BY <1>4, <1>6, <2>3 DEF Places
    <3>2. CASE q = h
      <4>1. InQueue(h) /\ ~ OnWire(h)
        BY <1>6, <1>12, <2>3, <3>2
      <4> QED BY <1>6, <1>8, <3>1, <3>2, <4>1 DEF PlaceOK
    <3>3. CASE q # h
      BY <1>6, <1>8, <3>1, <3>3 DEF PlaceOK
    <3> QED BY <3>2, <3>3
  <2> QED BY <2>1, <2>2, <2>3 DEF Places
<1> QED BY <1>9, <1>10, <1>11, <1>13

\* What RemoveHead leaves in the queue.
LEMMA RemoveQueue ==
  ASSUME Types, NEW t \in Threads, RemoveHead(t)
  PROVE  /\ out_buffer' \in Seq(Block)
         /\ \A i \in DOMAIN out_buffer' : i + 1 \in DOMAIN out_buffer /\ out_buffer'[i] = out_buffer[i + 1]
         /\ \A i \in DOMAIN out_buffer :
              i # 1 => \E j \in DOMAIN out_buffer' : i = j + 1 /\ out_buffer'[j] = out_buffer[i]
         /\ Len(out_buffer) = 1 => out_buffer' = <<>>
<1>1. PICK old \in Seq(Block) : old = out_buffer
  BY DEF Types
<1>2. PICK new : new = RemoveFront(old, 1)
  OBVIOUS
<1>3. out_buffer' = new
  BY <1>1, <1>2 DEF RemoveHead
<1>4. /\ new \in Seq(Block) /\ (old = <<>> => new = <<>>)
      /\ old # <<>> => /\ Len(new) = Len(old) - 1
                       /\ \A i \in 1 .. Len(old) - 1 : new[i] = old[i + 1]
  BY <1>2, RemoveFrontElements
<1>5. CASE old = <<>>
  <2>1. new = <<>> /\ DOMAIN new = {} /\ DOMAIN old = {} /\ Len(old) = 0
    BY <1>4, <1>5
  <2> QED BY <1>1, <1>3, <1>4, <2>1
<1>6. CASE old # <<>>
  <2>1. PICK n \in Nat : n = Len(old) /\ n >= 1
    BY <1>6
  <2>2. DOMAIN old = 1 .. n /\ DOMAIN new = 1 .. n - 1
    BY <1>4, <1>6, <2>1
  <2>3. \A i \in DOMAIN new : i + 1 \in DOMAIN old /\ new[i] = old[i + 1]
    BY <1>4, <1>6, <2>1, <2>2
  <2>4. \A i \in DOMAIN old : i # 1 => \E j \in DOMAIN new : i = j + 1 /\ new[j] = old[i]
    <3> SUFFICES ASSUME NEW i \in DOMAIN old, i # 1
                 PROVE  \E j \in DOMAIN new : i = j + 1 /\ new[j] = old[i]
      OBVIOUS
    <3>1. PICK j \in DOMAIN new : i = j + 1
      <4>1. i - 1 \in DOMAIN new /\ i = (i - 1) + 1
        BY <2>1, <2>2
      <4> QED BY <4>1
    <3> QED BY <2>3, <3>1
  <2>5. Len(old) = 1 => new = <<>>
    BY <1>4, <1>6
  <2> QED BY <1>1, <1>3, <1>4, <2>3, <2>4, <2>5
<1> QED BY <1>5, <1>6

\* RemoveHead keeps the control part: it takes the block of what was sent.
LEMMA RemoveKeeps ==
  ASSUME Types, Names, Fresh, Solo, Places, NEW t \in Threads, RemoveHead(t)
  PROVE  Names' /\ Fresh' /\ Solo' /\ Places'
<1>1. /\ threads[t].pc = "remove" /\ Goto(t, "pick") /\ packets' = packets /\ wire' = wire
      /\ mixed' = mixed /\ refused' = refused
  BY DEF RemoveHead, At
<1>2. Writes(t) /\ HasHead(t) /\ SoloOK(t)
  BY <1>1 DEF Writes, HasHead, Solo
<1>3. PICK h : h = threads[t].head
  OBVIOUS
<1>4. \A u \in Threads :
        /\ Writes(u)' <=> Writes(u)
        /\ threads'[u].packet = threads[u].packet
        /\ threads'[u].head = threads[u].head
        /\ HasHead(u)' <=> u # t /\ HasHead(u)
        /\ threads'[u].pc \in Early <=> threads[u].pc \in Early
        /\ threads'[u].pc = "remove" <=> u # t /\ threads[u].pc = "remove"
  <2>1. "pick" \in Pcs
    BY DEF Pcs
  <2>2. Moves(t, "pick")
    BY <1>1, <2>1, GotoMoves
  <2> QED BY <1>1, <2>2 DEF Writes, HasHead, Early, Moves
<1>5. /\ \A i \in DOMAIN out_buffer' : i + 1 \in DOMAIN out_buffer /\ out_buffer'[i] = out_buffer[i + 1]
      /\ \A i \in DOMAIN out_buffer :
           i # 1 => \E j \in DOMAIN out_buffer' : i = j + 1 /\ out_buffer'[j] = out_buffer[i]
      /\ DOMAIN out_buffer' \subseteq Nat \ {0}
  <2>1. out_buffer' \in Seq(Block)
    BY RemoveQueue
  <2> QED BY <2>1, RemoveQueue
<1>6. /\ \A q : InQueue(q)' => InQueue(q)
      /\ \A q : q \notin mixed /\ q # h /\ InQueue(q) => InQueue(q)'
      /\ h \notin mixed => ~ InQueue(h)'
  <2>1. \A q : InQueue(q)' => InQueue(q)
    BY <1>5 DEF InQueue
  <2>2. ASSUME NEW q, q \notin mixed, q # h, InQueue(q) PROVE InQueue(q)'
    <3>1. PICK i \in DOMAIN out_buffer : out_buffer[i].packet = q
      BY <2>2 DEF InQueue
    <3>2. i # 1
      BY <1>2, <1>3, <2>2, <3>1 DEF SoloOK
    <3> QED BY <1>5, <3>1, <3>2 DEF InQueue
  <2>3. ASSUME h \notin mixed, InQueue(h)' PROVE FALSE
    <3>1. PICK i \in DOMAIN out_buffer' : out_buffer'[i].packet = h
      BY <2>3 DEF InQueue
    <3>2. i + 1 \in DOMAIN out_buffer /\ out_buffer[i + 1].packet = h /\ i + 1 # 1
      BY <1>5, <3>1
    <3>3. 1 \in DOMAIN out_buffer /\ out_buffer[1].packet = h
      BY <1>2, <1>3, <2>3, HeadAlone
    <3> QED BY <2>3, <3>2, <3>3 DEF Places, QueuedOnce
  <2> QED BY <2>1, <2>2, <2>3
<1>7. /\ \A q : OnWire(q)' <=> OnWire(q)
      /\ \A q : NotQueuedYet(q)' <=> NotQueuedYet(q)
      /\ \A q : TcpPacket(q)' <=> TcpPacket(q)
      /\ \A q : IsTcp(q)' <=> IsTcp(q)
      /\ \A q : Removing(q)' => Removing(q)
      /\ \A q : q # h /\ Removing(q) => Removing(q)'
      /\ Removing(h)
  <2>1. \A q : OnWire(q)' <=> OnWire(q)
    BY <1>1 DEF OnWire
  <2>2. \A q : NotQueuedYet(q)' <=> NotQueuedYet(q)
    BY <1>4 DEF NotQueuedYet
  <2>3. \A q : (TcpPacket(q)' <=> TcpPacket(q)) /\ (IsTcp(q)' <=> IsTcp(q))
    BY <1>1 DEF TcpPacket, IsTcp
  <2>4. \A q : Removing(q)' => Removing(q)
    BY <1>4 DEF Removing
  <2>5. \A q : q # h /\ Removing(q) => Removing(q)'
    BY <1>3, <1>4 DEF Removing
  <2>6. Removing(h)
    BY <1>1, <1>3 DEF Removing
  <2> QED BY <2>1, <2>2, <2>3, <2>4, <2>5, <2>6
<1>8. Names'
  <2>1. \A i \in DOMAIN out_buffer' : TcpPacket(out_buffer[i].packet)'
    <3> TAKE i \in DOMAIN out_buffer'
    <3>1. PICK q : q = out_buffer'[i].packet
      OBVIOUS
    <3>2. TcpPacket(q)
      BY <1>5, <3>1 DEF Names
    <3> QED BY <1>7, <3>1, <3>2 DEF TcpPacket, IsTcp
  <2>2. \A i \in DOMAIN wire' : wire'[i] \in DOMAIN packets'
    BY <1>1 DEF Names
  <2>3. mixed' \subseteq DOMAIN packets' /\ refused' \subseteq DOMAIN packets'
    BY <1>1 DEF Names
  <2>4. \A u \in Threads :
          IF Writes(u)' THEN TcpPacket(threads[u].packet)' ELSE threads'[u].packet = 0
    <3> TAKE u \in Threads
    <3>1. PICK q : q = threads[u].packet
      OBVIOUS
    <3>2. threads'[u].packet = q /\ (Writes(u) => TcpPacket(q)') /\ (~ Writes(u) => q = 0)
      BY <1>4, <1>7, <3>1 DEF Names
    <3> QED BY <1>4, <3>2 DEF TcpPacket, IsTcp
  <2>5. \A u \in Threads : HasHead(u)' => TcpPacket(threads[u].head)'
    <3> TAKE u \in Threads
    <3>1. PICK q : q = threads[u].head
      OBVIOUS
    <3>2. HasHead(u) => threads'[u].head = q /\ TcpPacket(q)'
      BY <1>4, <1>7, <3>1 DEF Names
    <3> QED BY <1>4, <3>2 DEF TcpPacket, IsTcp
  <2>6. \A u, v \in Threads : Writes(u)' /\ threads'[u].packet = threads'[v].packet => u = v
    BY <1>4 DEF Names
  <2> QED BY <2>1, <2>2, <2>3, <2>4, <2>5, <2>6 DEF Names
<1>9. Fresh'
  <2> SUFFICES ASSUME NEW u \in Threads, threads'[u].pc \in Early
               PROVE  FreshOK(threads[u].packet)'
    BY Zenon DEF Fresh
  <2>1. PICK q : q = threads[u].packet
    OBVIOUS
  <2>2. threads'[u].packet = q /\ FreshOK(q)
    BY <1>4, <2>1 DEF Fresh
  <2>3. FreshOK(q)'
    BY <1>1, <1>4, <1>6, <1>7, <2>2 DEF FreshOK
  <2> QED BY <2>2, <2>3 DEF FreshOK, InQueue, OnWire
<1>m. mixed' = mixed /\ refused' = refused /\ DOMAIN packets' = DOMAIN packets
  BY <1>1
<1>10. Solo'
  <2> SUFFICES ASSUME NEW u \in Threads, Writes(u)' PROVE SoloOK(u)'
    BY DEF Solo
  <2>1. SoloOK(u)
    BY <1>4 DEF Solo
  <2>2. CASE threads[u].packet \notin mixed
    <3>1. \A v \in Threads : Writes(v)' => v = u
      BY <1>4, <2>1, <2>2 DEF SoloOK
    <3>2. \A q \in DOMAIN packets' : IsTcp(q)' => q <= threads'[u].packet
      BY <1>4, <1>7, <1>m, <2>1, <2>2 DEF SoloOK
    <3>3. u = t
      BY <1>2, <2>1, <2>2 DEF SoloOK
    <3>4. threads'[u].packet \notin mixed' /\ ~ HasHead(u)'
      BY <1>4, <1>m, <2>2, <3>3
    <3> QED BY <3>1, <3>2, <3>4 DEF SoloOK
  <2>3. CASE threads[u].packet \in mixed
    <3>1. \A i \in DOMAIN out_buffer' : out_buffer'[i].packet \in mixed
      BY <1>5, <2>1, <2>3 DEF SoloOK
    <3>2. HasHead(u)' => threads'[u].head \in mixed
      BY <1>4, <2>1, <2>3 DEF SoloOK
    <3>3. threads'[u].packet \in mixed' /\ mixed' = mixed
      BY <1>4, <1>m, <2>3
    <3> QED BY <3>1, <3>2, <3>3 DEF SoloOK
  <2> QED BY <2>2, <2>3
<1>11. Places'
  <2>1. QueuedOnce'
    <3> SUFFICES ASSUME NEW i \in DOMAIN out_buffer', NEW j \in DOMAIN out_buffer',
                        out_buffer'[i].packet = out_buffer'[j].packet,
                        out_buffer'[i].packet \notin mixed'
                 PROVE  i = j
      BY DEF QueuedOnce
    <3>1. i + 1 = j + 1
      BY <1>5, <1>m DEF Places, QueuedOnce
    <3> QED BY <1>5, <3>1
  <2>2. SentOnce'
    BY <1>1 DEF Places, SentOnce
  <2>3. ASSUME NEW q \in DOMAIN packets', IsTcp(q)', q \notin mixed'
        PROVE  PlaceOK(q)'
    <3>1. PlaceOK(q)
      BY <1>7, <1>m, <2>3 DEF Places
    <3>2. CASE q = h
      BY <1>6, <1>7, <1>m, <2>3, <3>1, <3>2 DEF PlaceOK
    <3>3. CASE q # h
      BY <1>6, <1>7, <1>m, <2>3, <3>1, <3>3 DEF PlaceOK
    <3> QED BY <3>2, <3>3
  <2> QED BY <2>1, <2>2, <2>3 DEF Places
<1> QED BY <1>8, <1>9, <1>10, <1>11

\* tcp_write returns when the queue is empty or its head does not fit the window.
LEMMA PickReturns ==
  ASSUME Types, Names, NEW t \in Threads, Pick(t), Returns(t, packets)
  PROVE  /\ threads[t].pc = "pick" /\ Writes(t) /\ Leaves(t) /\ SamePackets
         /\ LET own == threads[t].packet IN
            /\ \A q \in 1 .. Len(packets) : q # own => packets'[q] = packets[q]
            /\ packets'[own].header = packets[own].header /\ packets'[own].alone = packets[own].alone
            /\ packets'[own].offset = packets[own].offset /\ packets'[own].layers = packets[own].layers
            /\ packets'[own].stack_idx = packets[own].stack_idx
            /\ InQueue(own) => packets'[own].kept
<1>1. threads[t].pc = "pick"
  BY DEF Pick, At
<1>2. Writes(t)
  BY <1>1 DEF Writes
<1>3. PICK old \in Seq(Packet) : old = packets
  BY DEF Types
<1>4. PICK own \in 1 .. Len(old) : own = threads[t].packet
  BY <1>2, <1>3, PacketOfThread
<1>5. PICK packet \in Packet : packet = old[own]
  OBVIOUS
<1>6. /\ Leaves(t)
      /\ packets' \in Seq(Packet) /\ Len(packets') = Len(old)
      /\ \A q \in 1 .. Len(old) : q # own => packets'[q] = old[q]
      /\ InQueue(own) => packets'[own] = [packet EXCEPT !.kept = TRUE]
      /\ ~ InQueue(own) => packets'[own] = [packet EXCEPT !.kept = FALSE]
  BY <1>3, <1>4, <1>5, ReturnsLeaves
<1>7. /\ packets'[own].header = packet.header /\ packets'[own].alone = packet.alone
      /\ packets'[own].offset = packet.offset /\ packets'[own].layers = packet.layers
      /\ packets'[own].stack_idx = packet.stack_idx
      /\ packets'[own].handlers = packet.handlers
      /\ packets'[own].size = packet.size /\ packets'[own].owner = packet.owner
      /\ InQueue(own) => packets'[own].kept
  <2>1. CASE InQueue(own)
    <3>1. PICK new : new = [packet EXCEPT !.kept = TRUE]
      OBVIOUS
    <3>2. new = packets'[own]
      BY <1>6, <2>1, <3>1
    <3>3. /\ new.header = packet.header /\ new.alone = packet.alone
          /\ new.offset = packet.offset /\ new.layers = packet.layers
          /\ new.stack_idx = packet.stack_idx /\ new.handlers = packet.handlers
          /\ new.size = packet.size /\ new.owner = packet.owner /\ new.kept = TRUE
      BY <3>1 DEF Packet
    <3> QED BY <3>2, <3>3
  <2>2. CASE ~ InQueue(own)
    <3>1. PICK new : new = [packet EXCEPT !.kept = FALSE]
      OBVIOUS
    <3>2. new = packets'[own]
      BY <1>6, <2>2, <3>1
    <3>3. /\ new.header = packet.header /\ new.alone = packet.alone
          /\ new.offset = packet.offset /\ new.layers = packet.layers
          /\ new.stack_idx = packet.stack_idx /\ new.handlers = packet.handlers
          /\ new.size = packet.size /\ new.owner = packet.owner
      BY <3>1 DEF Packet
    <3> QED BY <2>2, <3>2, <3>3
  <2> QED BY <2>1, <2>2
<1>8. SamePackets
  BY <1>3, <1>4, <1>5, <1>6, <1>7 DEF SamePackets
<1> QED BY <1>1, <1>2, <1>3, <1>4, <1>5, <1>6, <1>7, <1>8

\* Every step keeps the control part.
LEMMA ControlStep ==
  ASSUME Types, Names, Fresh, Solo, Places, OwnPacket, [Next]_vars
  PROVE  Names' /\ Fresh' /\ Solo' /\ Places'
<1>1. ASSUME UNCHANGED <<out_buffer, packets, threads, wire, mixed, refused>>
      PROVE  Names' /\ Fresh' /\ Solo' /\ Places'
  <2>1. packets \in Seq(Packet)
    BY DEF Types
  <2>2. Quiet
    BY <1>1, <2>1 DEF Quiet, SamePackets
  <2> QED BY <2>2, QuietKeeps
<1>2. CASE Aside
  BY <1>1, <1>2 DEF Aside
<1>3. CASE Receive
  BY <1>1, <1>3 DEF Receive, shared
<1>4. CASE Return
  BY <1>1, <1>4 DEF Return, shared
<1>5. CASE ArpRead
  BY <1>5, ArpKeeps
<1>6. CASE \E window \in Windows : UpdateWindow(window)
  BY <1>1, <1>6 DEF UpdateWindow
<1>7. CASE \E t \in Threads, size \in ReplySizes \union SendSizes, idx \in {2, 3} : Call(t, size, idx)
  BY <1>7, CallKeeps
<1>8. ASSUME NEW t \in Threads, Step(t)
      PROVE  Names' /\ Fresh' /\ Solo' /\ Places'
  <2>1. CASE Fields(t) \/ Sequence(t) \/ Load(t) \/ Store(t) \/ Copy(t)
    BY <2>1, QuietSteps, QuietKeeps
  <2>2. CASE AddBlock(t)
    <3>1. CASE fault' = fault
      BY <2>2, <3>1, AddKeeps
    <3>2. CASE fault' # fault
      <4>1. UNCHANGED <<out_buffer, packets, threads, wire, mixed, refused>>
        BY <2>2, <3>2 DEF AddBlock
      <4> QED BY <1>1, <4>1
    <3> QED BY <3>1, <3>2
  <2>3. CASE Pick(t)
    <3>1. CASE ~ Returns(t, packets)
      BY <2>3, <3>1, PickKeeps
    <3>2. CASE Returns(t, packets)
      <4>1. threads[t].pc = "pick" /\ Leaves(t) /\ SamePackets
        BY <2>3, <3>2, PickReturns
      <4>2. UNCHANGED <<out_buffer, wire, mixed, refused>>
        BY <2>3 DEF Pick, shared
      <4> QED BY <4>1, <4>2, LeaveKeeps
    <3> QED BY <3>1, <3>2
  <2>4. CASE Lowers(t)
    <3>1. CASE fault' = fault
      <4>1. UNCHANGED <<out_buffer, mixed, refused>>
        BY <2>4, LowersFrame
      <4>2. threads[t].pc = "lower" /\ SamePackets
        BY <2>4, <3>1, LowerEffect
      <4>3. \/ Moves(t, "remove") /\ wire' = Append(wire, threads[t].head)
            \/ Leaves(t) /\ UNCHANGED wire
        BY <2>4, <3>1, LowerEffect
      <4>4. CASE Moves(t, "remove") /\ wire' = Append(wire, threads[t].head)
        BY <4>1, <4>2, <4>4, SendKeeps
      <4>5. CASE Leaves(t) /\ UNCHANGED wire
        BY <4>1, <4>2, <4>5, LeaveKeeps
      <4> QED BY <4>3, <4>4, <4>5
    <3>2. CASE fault' # fault
      <4>1. UNCHANGED <<out_buffer, packets, threads, wire, mixed, refused>>
        BY <2>4, <3>2, LowersFrame
      <4> QED BY <1>1, <4>1
    <3> QED BY <3>1, <3>2
  <2>5. CASE RemoveHead(t)
    BY <2>5, RemoveKeeps
  <2> QED BY <1>8, <2>1, <2>2, <2>3, <2>4, <2>5 DEF Step, Lowers
<1> QED BY <1>2, <1>3, <1>4, <1>5, <1>6, <1>7, <1>8, NextCases

-----------------------------------------------------------------------------
(* What a thread finds of its packet *)

\* A step that leaves the thread where it is and its packet alone.
LEMMA OwnSame ==
  ASSUME NEW u \in Threads, NEW p, OwnOK(u, p), threads'[u].pc = threads[u].pc, frame' = frame,
         Writes(u) => /\ packets'[p].kept = packets[p].kept
                      /\ packets'[p].owner = packets[p].owner,
         threads[u].pc \in Early => packets'[p] = packets[p]
  PROVE  OwnOK(u, p)'
<1>1. threads[u].pc \in Early => OwnOK(u, p)'
  BY DEF OwnOK, Started, Early, Writes
<1>2. threads[u].pc \notin Early => OwnOK(u, p)'
  BY DEF OwnOK, Writes
<1> QED BY <1>1, <1>2

\* Every step keeps what the threads find of their packets.
LEMMA OwnStep ==
  ASSUME Types, Names, Fresh, OwnPacket, [Next]_vars
  PROVE  OwnPacket'
<1> SUFFICES ASSUME NEW u \in Threads PROVE OwnOK(u, threads[u].packet)'
  BY DEF OwnPacket
<1>1. PICK p : p = threads'[u].packet
  OBVIOUS
<1>2. SUFFICES OwnOK(u, p)'
  BY <1>1 DEF OwnOK, Started
<1>3. PICK old : old = threads[u].packet
  OBVIOUS
<1>4. OwnOK(u, old)
  BY <1>3 DEF OwnPacket
<1>5. Writes(u) => old \in 1 .. Len(packets)
  BY <1>3, PacketOfThread
<1>6. ~ Writes(u)' => OwnOK(u, p)'
  BY DEF OwnOK, Writes, Early
<1>7. CASE UNCHANGED <<packets, threads, frame>>
  BY <1>1, <1>3, <1>4, <1>7, OwnSame
<1>8. ASSUME UNCHANGED <<packets, threads>>, u = "worker" => ~ Writes(u)
      PROVE  OwnOK(u, p)'
  <2>1. CASE u = "worker"
    BY <1>6, <1>8, <2>1 DEF Writes
  <2>2. CASE u # "worker"
    BY <1>1, <1>3, <1>4, <1>8, <2>2 DEF OwnOK, Started, Writes
  <2> QED BY <2>1, <2>2
<1>9. CASE Aside
  BY <1>7, <1>9 DEF Aside
<1>10. CASE Receive
  <2>1. u = "worker" => ~ Writes(u)
    BY <1>4, <1>10 DEF OwnOK, Receive
  <2> QED BY <1>8, <1>10, <2>1 DEF Receive
<1>11. CASE Return
  <2>1. u = "worker" => ~ Writes(u)
    BY <1>11 DEF Return, Free, At, Writes
  <2> QED BY <1>8, <1>11, <2>1 DEF Return
<1>12. CASE \E window \in Windows : UpdateWindow(window)
  BY <1>7, <1>12 DEF UpdateWindow
<1>13. CASE ArpRead
  <2>1. threads' = threads /\ frame' = frame
    BY <1>13 DEF ArpRead
  <2>2. Writes(u) => packets'[old] = packets[old]
    BY <1>5, <1>13, ArpEffect DEF OneMore
  <2>3. threads[u].pc \in Early => Writes(u)
    BY DEF Early, Writes
  <2> QED BY <1>1, <1>3, <1>4, <2>1, <2>2, <2>3, OwnSame
<1>14. ASSUME NEW t \in Threads, NEW size \in ReplySizes \union SendSizes, NEW idx \in {2, 3},
             Call(t, size, idx)
       PROVE  OwnOK(u, p)'
  <2>1. frame' = frame
    BY <1>14 DEF Call
  <2>2. CASE u = t
    <3>1. PICK n : n = Len(packets) + 1
      OBVIOUS
    <3>2. threads'[u].pc = "fields" /\ p = n
      BY <1>1, <1>14, <2>2, <3>1, CallEffect
    <3>3. /\ packets'[n].stack_idx \in {2, 3} /\ packets'[n].offset + packets'[n].size = Room
          /\ ~ packets'[n].alone /\ ~ packets'[n].kept
          /\ packets'[n].owner = IF u = "worker" THEN frame ELSE 0
      BY <1>14, <2>2, <3>1, CallEffect
    <3>4. u = "worker" => frame # 0
      BY <1>14, <2>2 DEF Call
    <3> QED BY <2>1, <3>2, <3>3, <3>4 DEF OwnOK
  <2>3. CASE u # t
    <3>1. threads'[u] = threads[u]
      BY <1>14, <2>3, CallEffect
    <3>2. Writes(u) => packets'[old] = packets[old]
      BY <1>5, <1>14, CallEffect DEF OneMore
    <3>3. threads[u].pc \in Early => Writes(u)
      BY DEF Early, Writes
    <3> QED BY <1>1, <1>3, <1>4, <2>1, <3>1, <3>2, <3>3, OwnSame
  <2> QED BY <2>2, <2>3
<1>15. ASSUME NEW t \in Threads, Step(t) PROVE OwnOK(u, p)'
  <2>1. CASE UNCHANGED <<packets, threads, frame>>
    BY <1>7, <2>1
  <2>2. frame' = frame
    BY <1>15, LowersFrame DEF Step, Fields, Sequence, Load, Store, Copy, AddBlock, Pick, Lowers, RemoveHead
  <2>3. ASSUME NEW pc \in Early \ {"add"}, Moves(t, pc), threads[t].pc \in Early \ {"add"},
               packets' = packets
        PROVE  OwnOK(u, p)'
    <3>1. threads'[u].packet = threads[u].packet
      BY <2>3 DEF Moves
    <3>2. CASE u = t
      BY <1>1, <1>3, <1>4, <2>2, <2>3, <3>1, <3>2 DEF OwnOK, Moves, Writes, Early
    <3>3. CASE u # t
      BY <1>1, <1>3, <1>4, <2>2, <2>3, <3>1, <3>3, OwnSame DEF Moves
    <3> QED BY <3>2, <3>3
  <2>4. ASSUME NEW pc \in {"pick", "lower", "remove"},
               /\ \A v \in Threads : v # t => threads'[v] = threads[v]
               /\ threads'[t].pc = pc /\ threads'[t].packet = threads[t].packet,
               Writes(t), SamePackets,
               Writes(u) => packets'[old].kept = packets[old].kept,
               threads[u].pc \in Early /\ u # t => packets'[old] = packets[old]
        PROVE  OwnOK(u, p)'
    <3>1. threads'[u].packet = threads[u].packet
      BY <2>4
    <3>2. Writes(u) => packets'[old].owner = packets[old].owner
      BY <1>5, <2>4 DEF SamePackets
    <3>3. CASE u = t
      BY <1>1, <1>3, <1>4, <2>2, <2>4, <3>1, <3>2, <3>3 DEF OwnOK, Writes, Early
    <3>4. CASE u # t
      BY <1>1, <1>3, <1>4, <2>2, <2>4, <3>1, <3>2, <3>4, OwnSame
    <3> QED BY <3>3, <3>4
  <2>5. ASSUME Leaves(t), SamePackets, Writes(u) /\ u # t => packets'[old].kept = packets[old].kept,
               threads[u].pc \in Early /\ u # t => packets'[old] = packets[old]
        PROVE  OwnOK(u, p)'
    <3>1. CASE u = t
      BY <1>6, <2>5, <3>1 DEF Leaves, Writes
    <3>2. CASE u # t
      <4>1. Writes(u) => packets'[old].owner = packets[old].owner
        BY <1>5, <2>5 DEF SamePackets
      <4> QED BY <1>1, <1>3, <1>4, <2>2, <2>5, <3>2, <4>1, OwnSame DEF Leaves
    <3> QED BY <3>1, <3>2
  <2>6. u # t /\ Writes(t) /\ Writes(u) => old # threads[t].packet
    BY <1>3 DEF Names
  <2>7. threads[u].pc \in Early => Writes(u)
    BY DEF Early, Writes
  <2>8. CASE Fields(t)
    <3>1. threads[t].pc = "fields" /\ Goto(t, "sequence") /\ packets' = packets
      BY <2>8 DEF Fields, At
    <3>2. "sequence" \in Pcs /\ "sequence" \in Early \ {"add"} /\ "fields" \in Early \ {"add"}
      BY DEF Pcs, Early
    <3> QED BY <2>3, <3>1, <3>2, GotoMoves
  <2>9. CASE Sequence(t)
    <3>1. PICK pc \in {"load", "copy"} : Goto(t, pc)
      BY <2>9 DEF Sequence
    <3>2. threads[t].pc = "sequence" /\ packets' = packets
      BY <2>9 DEF Sequence, At
    <3>3. pc \in Pcs /\ pc \in Early \ {"add"} /\ "sequence" \in Early \ {"add"}
      BY DEF Pcs, Early
    <3> QED BY <2>3, <3>1, <3>2, <3>3, GotoMoves
  <2>10. CASE Load(t)
    <3>1. Moves(t, "store") /\ threads[t].pc = "load" /\ packets' = packets
      BY <2>10, LoadMoves DEF Load, At
    <3>2. "store" \in Early \ {"add"} /\ "load" \in Early \ {"add"}
      BY DEF Early
    <3> QED BY <2>3, <3>1, <3>2
  <2>11. CASE Store(t)
    <3>1. threads[t].pc = "store" /\ Goto(t, "copy") /\ packets' = packets
      BY <2>11 DEF Store, At
    <3>2. "copy" \in Pcs /\ "copy" \in Early \ {"add"} /\ "store" \in Early \ {"add"}
      BY DEF Pcs, Early
    <3> QED BY <2>3, <3>1, <3>2, GotoMoves
  <2>12. CASE Copy(t)
    <3>1. Writes(t) /\ Moves(t, "add") /\ SamePackets
          /\ \A q \in 1 .. Len(packets) : q # threads[t].packet => packets'[q] = packets[q]
      BY <2>12, CopyEffect
    <3>2. threads[t].pc = "copy"
      BY <2>12 DEF Copy, At
    <3>3. CASE u = t
      <4>1. p = old /\ threads'[u].pc = "add"
        BY <1>1, <1>3, <3>1, <3>3 DEF Moves
      <4>2. /\ packets'[old].offset = packets[old].offset - 1
            /\ packets'[old].layers = <<LayerOf("tcp", packets[old].stack_idx)>>
            /\ packets'[old].stack_idx = packets[old].stack_idx
            /\ packets'[old].alone = packets[old].alone /\ packets'[old].kept = packets[old].kept
        BY <1>3, <2>12, <3>3, CopyEffect
      <4>3. packets'[old].owner = packets[old].owner /\ packets'[old].size = packets[old].size
        BY <1>5, <3>1, <3>3 DEF SamePackets
      <4>4. /\ ~ packets[old].alone /\ ~ packets[old].kept /\ packets[old].stack_idx \in {2, 3}
            /\ packets[old].offset + packets[old].size = Room
            /\ packets[old].owner = IF u = "worker" THEN frame ELSE 0
            /\ u = "worker" => frame # 0
        BY <1>4, <3>1, <3>2, <3>3 DEF OwnOK, Early
      <4>5. packets[old].offset \in Int /\ packets[old].size \in Int
        <5>1. packets[old] \in Packet
          BY <1>3, <3>1, <3>3, PacketOfThread
        <5> QED BY <5>1, TcpWriteAssumption DEF Packet
      <4>6. Started(p)'
        BY <4>1, <4>2, <4>3, <4>4, <4>5, TcpWriteAssumption DEF Started
      <4> QED BY <2>2, <4>1, <4>2, <4>3, <4>4, <4>6 DEF OwnOK, Early
    <3>4. CASE u # t
      <4>1. Writes(u) => packets'[old] = packets[old]
        BY <1>5, <2>6, <3>1, <3>4
      <4> QED BY <1>1, <1>3, <1>4, <2>2, <2>7, <3>1, <3>4, <4>1, OwnSame DEF Moves
    <3> QED BY <3>3, <3>4
  <2>13. CASE AddBlock(t) /\ fault' = fault
    <3>1. /\ Writes(t) /\ Moves(t, "pick") /\ SamePackets
          /\ \A q \in 1 .. Len(packets) : q # threads[t].packet => packets'[q] = packets[q]
          /\ packets'[threads[t].packet].kept = packets[threads[t].packet].kept
      BY <2>13, AddEffect
    <3>2. Writes(u) => packets'[old].kept = packets[old].kept
      BY <1>3, <1>5, <3>1
    <3>3. threads[u].pc \in Early /\ u # t => packets'[old] = packets[old]
      BY <1>5, <2>6, <2>7, <3>1
    <3> QED BY <2>4, <3>1, <3>2, <3>3 DEF Moves
  <2>14. CASE Pick(t)
    <3>1. CASE Returns(t, packets)
      <4>1. /\ Writes(t) /\ Leaves(t) /\ SamePackets
            /\ \A q \in 1 .. Len(packets) : q # threads[t].packet => packets'[q] = packets[q]
        BY <2>14, <3>1, PickReturns
      <4> QED BY <1>5, <2>5, <2>6, <2>7, <4>1
    <3>2. CASE ~ Returns(t, packets)
      <4>1. threads[t].pc = "pick" /\ packets' = packets
        BY <2>14, <3>2 DEF Pick, At
      <4>2. /\ \A v \in Threads : v # t => threads'[v] = threads[v]
            /\ threads'[t].pc = "lower" /\ threads'[t].packet = threads[t].packet
        BY <2>14, <3>2, PickMoves
      <4>3. SamePackets /\ Writes(t)
        BY <4>1 DEF Types, SamePackets, Writes
      <4> QED BY <2>4, <4>1, <4>2, <4>3
    <3> QED BY <3>1, <3>2
  <2>15. CASE Lowers(t) /\ fault' = fault
    <3>1. /\ Writes(t) /\ HasHead(t) /\ SamePackets
          /\ \A q \in 1 .. Len(packets) :
               q # threads[t].packet /\ q # threads[t].head => packets'[q] = packets[q]
          /\ \A q \in 1 .. Len(packets) : q # threads[t].packet => packets'[q].kept = packets[q].kept
      BY <2>15, LowerEffect
    <3>2. \/ Moves(t, "remove") /\ packets'[threads[t].packet].kept = packets[threads[t].packet].kept
          \/ Leaves(t)
      BY <2>15, LowerEffect
    <3>3. threads[u].pc \in Early /\ u # t => packets'[old] = packets[old]
      <4> HAVE threads[u].pc \in Early /\ u # t
      <4>1. old # threads[t].head
        BY <1>3, <3>1 DEF Fresh, FreshOK
      <4> QED BY <1>5, <2>6, <2>7, <3>1, <4>1
    <3>4. CASE Leaves(t)
      BY <1>5, <2>5, <2>6, <3>1, <3>3, <3>4
    <3>5. CASE Moves(t, "remove") /\ packets'[threads[t].packet].kept = packets[threads[t].packet].kept
      <4>1. Writes(u) => packets'[old].kept = packets[old].kept
        BY <1>3, <1>5, <3>1, <3>5
      <4> QED BY <2>4, <3>1, <3>3, <3>5, <4>1 DEF Moves
    <3> QED BY <3>2, <3>4, <3>5
  <2>16. CASE RemoveHead(t)
    <3>1. threads[t].pc = "remove" /\ Goto(t, "pick") /\ packets' = packets
      BY <2>16 DEF RemoveHead, At
    <3>2. "pick" \in Pcs /\ SamePackets /\ Writes(t)
      BY <3>1 DEF Pcs, SamePackets, Types, Writes
    <3>3. Moves(t, "pick")
      BY <3>1, <3>2, GotoMoves
    <3> QED BY <2>4, <3>1, <3>2, <3>3 DEF Moves
  <2>17. (AddBlock(t) \/ Lowers(t)) /\ fault' # fault => UNCHANGED <<packets, threads>>
    BY LowersFrame DEF AddBlock
  <2> QED BY <1>15, <2>1, <2>2, <2>8, <2>9, <2>10, <2>11, <2>12, <2>13, <2>14, <2>15, <2>16, <2>17 DEF Step, Lowers
<1> QED BY <1>9, <1>10, <1>11, <1>12, <1>13, <1>14, <1>15, NextCases

-----------------------------------------------------------------------------
(* The headers of packets that found the queue empty *)

\* What is under way and was touched by no race is the one packet under way.
LEMMA OnlyWriter ==
  ASSUME Types, Names, Solo, NEW t \in Threads, Writes(t), NEW v \in Threads,
         threads[v].packet \in DOMAIN packets, threads[v].packet \notin mixed
  PROVE  v = t
<1>1. DOMAIN packets = 1 .. Len(packets)
  BY DEF Types
<1>2. Writes(v)
  BY <1>1 DEF Names
<1>3. SoloOK(v)
  BY <1>2 DEF Solo
<1> QED BY <1>3 DEF SoloOK

\* A packet that is nobody's, and that the step leaves alone.
LEMMA OneCallOutside ==
  ASSUME NEW p, OneCallOK(p), \A v \in Threads : threads[v].packet # p,
         \A v \in Threads : threads'[v].packet # p, packets'[p] = packets[p],
         InQueue(p)' => InQueue(p)
  PROVE  OneCallOK(p)'
<1>1. Complete(p, TcpLayers) /\ ~ InQueue(p)
  BY DEF OneCallOK
<1>2. Complete(p, TcpLayers)'
  BY <1>1 DEF Complete, TcpLayers, LayerOf
<1>3. ~ InQueue(p)'
  BY <1>1
<1> QED BY <1>2, <1>3 DEF OneCallOK

\* A step that touches neither threads nor queue nor the packet.
LEMMA OneCallSame ==
  ASSUME NEW p, OneCallOK(p), packets'[p] = packets[p], UNCHANGED <<threads, out_buffer>>
  PROVE  OneCallOK(p)'
BY DEF OneCallOK, Complete, Started, OnlyBlock, InQueue, TcpLayers, LayerOf

\* A queue with one block.
LEMMA OnlyBlockQueued ==
  ASSUME Types, NEW p, OnlyBlock(p)
  PROVE  /\ InQueue(p) /\ 1 \in DOMAIN out_buffer /\ out_buffer[1].packet = p
         /\ out_buffer # <<>> /\ Len(out_buffer) = 1
<1>1. out_buffer \in Seq(Block) /\ Len(out_buffer) = 1 /\ out_buffer[1].packet = p
  BY DEF Types, OnlyBlock
<1>2. 1 \in DOMAIN out_buffer
  BY <1>1
<1>3. out_buffer # <<>>
  BY <1>2
<1> QED BY <1>1, <1>2, <1>3 DEF InQueue

\* AddBlock into an empty queue: the packet is its only block.
LEMMA AddToEmpty ==
  ASSUME Types, Names, OwnPacket, NEW t \in Threads, AddBlock(t), fault' = fault,
         NEW p, p = threads[t].packet, packets'[p].alone
  PROVE  OnlyBlock(p)' /\ Started(p)'
<1>1. out_buffer = <<>>
  BY AddEffect
<1>2. HasFree(out_buffer)
  <2>1. Len(out_buffer) = 0
    BY <1>1
  <2> QED BY <2>1, DefaultSizeAssumption DEF HasFree, BlockCount
<1>3. PICK b \in Block, w \in 0 .. Len(out_buffer) :
        b.packet = p /\ InsertedAt(out_buffer, out_buffer', b, w)
  BY <1>2, AddQueue
<1>4. Len(out_buffer) = 0 /\ w = 0
  BY <1>1, <1>3
<1>5. Len(out_buffer') = 1 /\ out_buffer'[1] = b
  BY <1>3, <1>4 DEF InsertedAt
<1>6. OnlyBlock(p)'
  BY <1>3, <1>5 DEF OnlyBlock
<1>7. Started(p)
  <2>1. threads[t].pc = "add"
    BY DEF AddBlock, At
  <2> QED BY <2>1 DEF OwnPacket, OwnOK, Early
<1>8. /\ packets'[p].offset = packets[p].offset /\ packets'[p].layers = packets[p].layers
      /\ packets'[p].stack_idx = packets[p].stack_idx /\ packets'[p].size = packets[p].size
  <2>1. p \in 1 .. Len(packets)
    BY AddEffect, PacketOfThread
  <2> QED BY <2>1, AddEffect DEF SamePackets
<1>9. Started(p)'
  BY <1>7, <1>8 DEF Started, LayerOf
<1> QED BY <1>6, <1>9

\* Every step keeps what holds of packets that found the queue empty.
LEMMA InOneCallStep ==
  ASSUME Types, Names, Fresh, Solo, Places, OwnPacket, InOneCall, [Next]_vars
  PROVE  InOneCall'
<1> SUFFICES ASSUME NEW p \in DOMAIN packets', IsTcp(p)', p \notin mixed', packets'[p].alone,
                    ~ packets'[p].kept
             PROVE  OneCallOK(p)'
  BY DEF InOneCall
<1>0. DOMAIN packets = 1 .. Len(packets)
  BY DEF Types
<1>1. ASSUME p \in DOMAIN packets, IsTcp(p), p \notin mixed, packets[p].alone, ~ packets[p].kept
      PROVE  OneCallOK(p)
  BY <1>1 DEF InOneCall
<1>2. ASSUME UNCHANGED <<packets, threads, out_buffer, mixed>> PROVE OneCallOK(p)'
  <2>1. OneCallOK(p)
    BY <1>1, <1>2 DEF IsTcp
  <2> QED BY <1>2, <2>1, OneCallSame
<1>3. CASE Aside
  BY <1>2, <1>3 DEF Aside
<1>4. CASE Receive
  BY <1>2, <1>4 DEF Receive, shared
<1>5. CASE Return
  BY <1>2, <1>5 DEF Return, shared
<1>6. CASE \E window \in Windows : UpdateWindow(window)
  BY <1>2, <1>6 DEF UpdateWindow
<1>7. CASE ArpRead
  <2>1. UNCHANGED <<threads, out_buffer, mixed>>
    BY <1>7 DEF ArpRead, shared
  <2>2. OneMore /\ packets'[Len(packets) + 1].handlers = ArpStack
    BY <1>7, ArpEffect
  <2>3. p \in DOMAIN packets /\ packets'[p] = packets[p]
    <3>1. DOMAIN packets' = 1 .. Len(packets) + 1 /\ Len(packets) \in Nat
      BY <2>2, MoreViews
    <3>2. p # Len(packets) + 1
      BY <2>2, StacksDiffer DEF IsTcp
    <3>3. p \in 1 .. Len(packets)
      BY <3>1, <3>2
    <3> QED BY <1>0, <2>2, <3>3 DEF OneMore
  <2>4. OneCallOK(p)
    BY <1>1, <2>1, <2>3 DEF IsTcp
  <2> QED BY <2>1, <2>3, <2>4, OneCallSame
<1>8. ASSUME NEW t \in Threads, NEW size \in ReplySizes \union SendSizes, NEW idx \in {2, 3},
             Call(t, size, idx)
      PROVE  OneCallOK(p)'
  <2>1. /\ ~ Writes(t) /\ OneMore
        /\ \A u \in Threads : u # t => threads'[u] = threads[u]
        /\ threads'[t].packet = Len(packets) + 1
        /\ ~ packets'[Len(packets) + 1].alone
    BY <1>8, CallEffect
  <2>2. p \in 1 .. Len(packets) /\ packets'[p] = packets[p]
    <3>1. DOMAIN packets' = 1 .. Len(packets) + 1 /\ Len(packets) \in Nat
      BY <2>1, MoreViews
    <3>2. p \in 1 .. Len(packets)
      BY <2>1, <3>1
    <3> QED BY <2>1, <3>2 DEF OneMore
  <2>3. mixed \subseteq mixed' /\ \A v \in Inside : threads[v].packet \in mixed'
    BY <1>8 DEF Call
  <2>4. OneCallOK(p)
    BY <1>0, <1>1, <2>2, <2>3 DEF IsTcp
  <2>5. \A v \in Threads : threads[v].packet # p
    <3> SUFFICES ASSUME NEW v \in Threads, threads[v].packet = p PROVE FALSE
      OBVIOUS
    <3>1. Writes(v)
      BY <2>2 DEF Names
    <3> QED BY <2>3, <3>1 DEF Inside, Writes
  <2>6. \A v \in Threads : threads'[v].packet # p
    <3>1. Len(packets) + 1 # p
      BY <2>2
    <3> QED BY <2>1, <2>5, <3>1
  <2>7. out_buffer' = out_buffer
    BY <1>8 DEF Call
  <2>8. InQueue(p)' => InQueue(p)
    BY <2>7 DEF InQueue
  <2> QED BY <2>2, <2>4, <2>5, <2>6, <2>8, OneCallOutside
<1>9. ASSUME NEW t \in Threads, Step(t) PROVE OneCallOK(p)'
  <2>0. mixed' = mixed /\ Writes(t)
    BY <1>9, LowersFrame DEF Step, Fields, Sequence, Load, Store, Copy, AddBlock, Pick, Lowers, RemoveHead, At, Writes
  <2>1. CASE UNCHANGED <<packets, threads, out_buffer>>
    BY <1>2, <2>0, <2>1
  <2>2. SUFFICES ASSUME SamePackets PROVE OneCallOK(p)'
    <3>1. packets' = packets => SamePackets
      BY DEF Types, SamePackets
    <3>2. Fields(t) \/ Sequence(t) \/ Load(t) \/ Store(t) \/ RemoveHead(t) => packets' = packets
      BY DEF Fields, Sequence, Load, Store, RemoveHead
    <3>3. Copy(t) => SamePackets
      BY CopyEffect
    <3>4. AddBlock(t) => SamePackets
      <4>1. AddBlock(t) /\ fault' # fault => packets' = packets
        BY DEF AddBlock
      <4> QED BY <3>1, <4>1, AddEffect
    <3>5. Pick(t) => SamePackets
      <4>1. Pick(t) /\ ~ Returns(t, packets) => packets' = packets
        BY DEF Pick
      <4> QED BY <3>1, <4>1, PickReturns
    <3>6. Lowers(t) => SamePackets
      <4>1. Lowers(t) /\ fault' # fault => packets' = packets
        BY LowersFrame
      <4> QED BY <3>1, <4>1, LowerEffect
    <3> QED BY <1>9, <2>2, <3>1, <3>2, <3>3, <3>4, <3>5, <3>6 DEF Step, Lowers
  <2>3. PICK own : own = threads[t].packet
    OBVIOUS
  <2>4. p \in 1 .. Len(packets) /\ p \in DOMAIN packets /\ IsTcp(p) /\ p \notin mixed
    <3>1. p \in DOMAIN packets /\ IsTcp(p)
      BY <2>2, SameViews
    <3> QED BY <1>0, <2>0, <3>1
  <2>5. own \in 1 .. Len(packets)
    BY <2>0, <2>3, PacketOfThread
  <2>6. p # own => \A v \in Threads : threads[v].packet # p
    BY <2>0, <2>3, <2>4, OnlyWriter
  <2>7. ASSUME p # own, packets'[p] = packets[p], InQueue(p)' => InQueue(p),
               \A v \in Threads : threads'[v].packet \in {0, threads[v].packet}
        PROVE  OneCallOK(p)'
    <3>1. OneCallOK(p)
      BY <1>1, <2>4, <2>7
    <3>2. \A v \in Threads : threads'[v].packet # p
      BY <2>4, <2>6, <2>7
    <3> QED BY <2>6, <2>7, <3>1, <3>2, OneCallOutside
  <2>8. \A v \in Threads : threads[v].packet = own => v = t
    BY <2>0, <2>3 DEF Names
  <2>9. CASE Fields(t) \/ Sequence(t) \/ Load(t) \/ Store(t) \/ Copy(t)
    <3>1. Quiet
      BY <2>9, QuietSteps
    <3>2. out_buffer' = out_buffer /\ \A v \in Threads : threads'[v].packet = threads[v].packet
      BY <3>1 DEF Quiet
    <3>3. InQueue(p)' => InQueue(p)
      BY <3>2 DEF InQueue
    <3>4. \A q \in 1 .. Len(packets) : q # own => packets'[q] = packets[q]
      <4>1. CASE Copy(t)
        BY <2>3, <4>1, CopyEffect
      <4>2. CASE ~ Copy(t)
        BY <2>9, <4>2 DEF Fields, Sequence, Load, Store
      <4> QED BY <4>1, <4>2
    <3>5. packets'[own].alone = packets[own].alone
      <4>1. CASE Copy(t)
        BY <2>3, <4>1, CopyEffect
      <4>2. CASE ~ Copy(t)
        BY <2>9, <4>2 DEF Fields, Sequence, Load, Store
      <4> QED BY <4>1, <4>2
    <3>6. threads[t].pc \in Early
      BY <2>9 DEF Fields, Sequence, Load, Store, Copy, At, Early
    <3>7. ~ packets[own].alone
      BY <2>3, <3>6 DEF OwnPacket, OwnOK
    <3> QED BY <2>4, <2>7, <3>2, <3>3, <3>4, <3>5, <3>7
  <2>10. CASE AddBlock(t) /\ fault' = fault
    <3>1. /\ Moves(t, "pick")
          /\ \A q \in 1 .. Len(packets) : q # own => packets'[q] = packets[q]
      BY <2>3, <2>10, AddEffect
    <3>2. CASE p = own
      <4>1. OnlyBlock(p)' /\ Started(p)'
        BY <2>3, <2>10, <3>2, AddToEmpty
      <4>2. \A v \in Threads : threads'[v].packet = p => threads'[v].pc = "pick"
        BY <2>8, <3>1, <3>2 DEF Moves
      <4>3. threads'[t].packet = p
        BY <2>3, <3>1, <3>2 DEF Moves
      <4> QED BY <4>1, <4>2, <4>3 DEF OneCallOK
    <3>3. CASE p # own
      <4>1. InQueue(p)' => InQueue(p)
        <5>1. CASE out_buffer' = out_buffer
          BY <5>1 DEF InQueue
        <5>2. CASE out_buffer' # out_buffer
          <6>1. PICK b \in Block, w \in 0 .. Len(out_buffer) :
                  b.packet = own /\ InsertedAt(out_buffer, out_buffer', b, w)
            BY <2>3, <2>10, <5>2, AddQueue
          <6>a. PICK old \in Seq(Block) : old = out_buffer
            BY DEF Types
          <6>b. PICK new : new = out_buffer'
            OBVIOUS
          <6>2. old = out_buffer /\ new = out_buffer'
            BY <6>a, <6>b
          <6>3. \A i \in DOMAIN new : i # w + 1 => \E j \in DOMAIN old : new[i] = old[j]
            BY <6>1, <6>2, InsertedView
          <6>4. new[w + 1] = b
            BY <6>1, <6>2, InsertedView
          <6> QED BY <3>3, <6>1, <6>2, <6>3, <6>4 DEF InQueue
        <5> QED BY <5>1, <5>2
      <4>2. \A v \in Threads : threads'[v].packet = threads[v].packet
        BY <3>1 DEF Moves
      <4> QED BY <2>4, <2>7, <3>1, <3>3, <4>1, <4>2
    <3> QED BY <3>2, <3>3
  <2>11. CASE Pick(t) /\ ~ Returns(t, packets)
    <3>1. packets' = packets /\ out_buffer' = out_buffer /\ out_buffer # <<>> /\ threads[t].pc = "pick"
      BY <2>11 DEF Pick, At, shared
    <3>2. /\ \A v \in Threads : v # t => threads'[v] = threads[v]
          /\ threads'[t].pc = "lower" /\ threads'[t].packet = threads[t].packet
      BY <2>11, PickMoves
    <3>3. CASE p = own
      <4>1. OneCallOK(p)
        BY <1>1, <2>4, <3>1
      <4>2. OnlyBlock(p) /\ Started(p)
        BY <2>3, <3>1, <3>3, <4>1 DEF OneCallOK
      <4>3. OnlyBlock(p)' /\ Started(p)'
        BY <3>1, <4>2 DEF OnlyBlock, Started, LayerOf
      <4>4. \A v \in Threads : threads'[v].packet = p => threads'[v].pc = "lower"
        BY <2>8, <3>2, <3>3
      <4>5. threads'[t].packet = p
        BY <2>3, <3>2, <3>3
      <4> QED BY <4>3, <4>4, <4>5 DEF OneCallOK
    <3>4. CASE p # own
      <4>1. InQueue(p)' => InQueue(p)
        BY <3>1 DEF InQueue
      <4>2. \A v \in Threads : threads'[v].packet = threads[v].packet
        BY <3>2
      <4> QED BY <2>7, <3>1, <3>4, <4>1, <4>2
    <3> QED BY <3>3, <3>4
  <2>12. CASE Pick(t) /\ Returns(t, packets)
    <3>1. /\ Leaves(t) /\ threads[t].pc = "pick"
          /\ \A q \in 1 .. Len(packets) : q # own => packets'[q] = packets[q]
      BY <2>3, <2>12, PickReturns
    <3>2. /\ packets'[own].alone = packets[own].alone
          /\ packets'[own].offset = packets[own].offset /\ packets'[own].layers = packets[own].layers
          /\ InQueue(own) => packets'[own].kept
      BY <2>3, <2>12, PickReturns
    <3>3. out_buffer' = out_buffer
      BY <2>12 DEF Pick, shared
    <3>4. InQueue(p)' => InQueue(p)
      BY <3>3 DEF InQueue
    <3>5. CASE p = own
      <4>1. ~ packets[p].kept
        BY <2>0, <2>3, <3>5 DEF OwnPacket, OwnOK
      <4>2. OneCallOK(p)
        BY <1>1, <2>4, <3>2, <3>5, <4>1
      <4>3. ~ InQueue(p)
        BY <3>2, <3>5
      <4>4. Complete(p, TcpLayers)
        <5>1. ~ OnlyBlock(p)
          BY <4>3, OnlyBlockQueued
        <5> QED BY <2>3, <3>5, <4>2, <5>1 DEF OneCallOK
      <4>5. Complete(p, TcpLayers)'
        <5>1. packets'[p].size = packets[p].size
          BY <2>2, <2>4 DEF SamePackets
        <5> QED BY <3>2, <3>5, <4>4, <5>1 DEF Complete, TcpLayers, LayerOf
      <4>6. \A v \in Threads : threads'[v].packet # p
        BY <2>4, <2>8, <3>1, <3>5 DEF Leaves
      <4> QED BY <3>4, <4>3, <4>5, <4>6 DEF OneCallOK
    <3>6. CASE p # own
      <4>1. \A v \in Threads : threads'[v].packet \in {0, threads[v].packet}
        BY <3>1 DEF Leaves
      <4> QED BY <2>4, <2>7, <3>1, <3>4, <3>6, <4>1
    <3> QED BY <3>5, <3>6
  <2>13. CASE Lowers(t) /\ fault' = fault
    <3>1. PICK head : head = threads[t].head
      OBVIOUS
    <3>2. /\ threads[t].pc = "lower" /\ HasHead(t)
          /\ \A q \in 1 .. Len(packets) : q # own /\ q # head => packets'[q] = packets[q]
          /\ \A q \in 1 .. Len(packets) : /\ packets'[q].alone = packets[q].alone
                                          /\ q # own => packets'[q].kept = packets[q].kept
      BY <2>3, <2>13, <3>1, LowerEffect
    <3>3. out_buffer' = out_buffer
      BY <2>13, LowersFrame
    <3>4. InQueue(p)' => InQueue(p)
      BY <3>3 DEF InQueue
    <3>5. Leaves(t) \/ Moves(t, "remove")
      BY <2>13, LowerEffect
    <3>6. CASE p # own
      <4>1. p # head
        <5> SUFFICES ASSUME p = head PROVE FALSE
          OBVIOUS
        <5>1. InQueue(p)
          BY <2>4, <3>1, <3>2, HeadAlone
        <5>2. OneCallOK(p)
          BY <1>1, <2>4, <3>2, <3>6
        <5> QED BY <2>6, <3>6, <5>1, <5>2 DEF OneCallOK
      <4>2. \A v \in Threads : threads'[v].packet \in {0, threads[v].packet}
        BY <3>5 DEF Leaves, Moves
      <4> QED BY <2>4, <2>7, <3>2, <3>4, <3>6, <4>1, <4>2
    <3>7. CASE p = own
      <4>1. ~ packets[p].kept /\ (packets[p].owner = 0 \/ packets[p].owner = frame)
        BY <2>0, <2>3, <3>7 DEF OwnPacket, OwnOK
      <4>2. OneCallOK(p)
        BY <1>1, <2>4, <3>2, <3>7, <4>1
      <4>3. OnlyBlock(p) /\ Started(p)
        BY <2>3, <3>2, <3>7, <4>2 DEF OneCallOK
      <4>4. InQueue(p) /\ out_buffer[1].packet = p
        BY <4>3, OnlyBlockQueued
      <4>5. ~ packets'[threads[t].packet].kept /\ InQueue(threads[t].packet)
        BY <2>3, <3>7, <4>4
      <4>6. Moves(t, "remove")
        BY <2>13, <4>5, LowerEffect
      <4>7. p = head
        BY <2>0, <2>3, <2>4, <3>1, <3>2, <3>7, <4>4 DEF Solo, SoloOK
      <4>8. PICK target : target = [packets[p] EXCEPT !.stack_idx = packets[p].stack_idx - 1]
        OBVIOUS
      <4>9. PICK before \in Packet : before = packets[p] /\ before.handlers = TcpStack
        BY <2>0, <2>3, <3>7, PacketOfThread
      <4>10. packets[p].stack_idx - 1 = 1
        <5>1. packets[p].stack_idx - 1 \in 0 .. 1
          <6>1. threads[t].packet = threads[t].head /\ p = threads[t].packet
            BY <2>3, <3>1, <3>7, <4>7
          <6>2. packets[threads[t].packet].stack_idx - 1 \in 0 .. 1
            BY <2>13, <4>5, <6>1, LowerEffect
          <6> QED BY <6>1, <6>2
        <5> QED BY <4>3, <5>1 DEF Started
      <4>11. Fitting(target, 1) /\ packets'[p] = Encapsulate(target, 1)
        <5>1. threads[t].packet = threads[t].head /\ p = threads[t].packet
          BY <2>3, <3>1, <3>7, <4>7
        <5>2. /\ Fitting([packets[threads[t].packet] EXCEPT !.stack_idx = packets[threads[t].packet].stack_idx - 1],
                         packets[threads[t].packet].stack_idx - 1)
              /\ packets'[threads[t].packet] =
                   Encapsulate([packets[threads[t].packet] EXCEPT !.stack_idx = packets[threads[t].packet].stack_idx - 1],
                               packets[threads[t].packet].stack_idx - 1)
          BY <2>13, <4>5, <5>1, LowerEffect
        <5> QED BY <4>8, <4>10, <5>1, <5>2
      <4>12. target = [before EXCEPT !.stack_idx = 1]
        BY <4>8, <4>9, <4>10
      <4>13. /\ target \in Packet /\ target.handlers = TcpStack /\ target.stack_idx = 1
             /\ target.owner = before.owner /\ target.layers = before.layers
             /\ target.offset = before.offset /\ target.size = before.size
        BY <4>9, <4>12 DEF Packet, Index, TcpIndex
      <4>14. target.owner = 0 \/ target.owner = frame
        BY <4>1, <4>9, <4>13
      <4>15. target.layers = <<LayerOf("tcp", 2)>> /\ target.offset + 1 + target.size = Room
        BY <4>3, <4>9, <4>10, <4>13 DEF Started
      <4>16. /\ packets'[p].layers = TcpLayers
             /\ packets'[p].offset + Len(TcpLayers) + packets'[p].size = Room
        BY <4>11, <4>13, <4>14, <4>15, TcpEncapsulated
      <4>17. Complete(p, TcpLayers)'
        BY <4>16 DEF Complete, TcpLayers, LayerOf
      <4>18. OnlyBlock(p)'
        BY <3>3, <4>3 DEF OnlyBlock
      <4>19. \A v \in Threads : threads'[v].packet = p => threads'[v].pc = "remove"
        BY <2>8, <3>7, <4>6 DEF Moves
      <4>20. threads'[t].packet = p
        BY <2>3, <3>7, <4>6 DEF Moves
      <4> QED BY <4>17, <4>18, <4>19, <4>20 DEF OneCallOK
    <3> QED BY <3>6, <3>7
  <2>14. CASE RemoveHead(t)
    <3>1. threads[t].pc = "remove" /\ Goto(t, "pick") /\ packets' = packets
      BY <2>14 DEF RemoveHead, At
    <3>2. Moves(t, "pick")
      BY <3>1, GotoMoves DEF Pcs
    <3>3. CASE p = own
      <4>1. OneCallOK(p)
        BY <1>1, <2>4, <3>1
      <4>2. OnlyBlock(p) /\ Complete(p, TcpLayers)
        BY <2>3, <3>1, <3>3, <4>1 DEF OneCallOK
      <4>3. out_buffer' = <<>>
        BY <2>14, <4>2, RemoveQueue, OnlyBlockQueued
      <4>4. Complete(p, TcpLayers)'
        BY <3>1, <4>2 DEF Complete, TcpLayers, LayerOf
      <4>5. \A v \in Threads : threads'[v].packet = p => threads'[v].pc = "pick"
        BY <2>8, <3>2, <3>3 DEF Moves
      <4>6. threads'[t].packet = p
        BY <2>3, <3>2, <3>3 DEF Moves
      <4> QED BY <4>3, <4>4, <4>5, <4>6 DEF OneCallOK
    <3>4. CASE p # own
      <4>1. InQueue(p)' => InQueue(p)
        BY <2>14, RemoveQueue DEF InQueue
      <4>2. \A v \in Threads : threads'[v].packet = threads[v].packet
        BY <3>2 DEF Moves
      <4> QED BY <2>7, <3>1, <3>4, <4>1, <4>2
    <3> QED BY <3>3, <3>4
  <2>15. (AddBlock(t) \/ Lowers(t)) /\ fault' # fault => UNCHANGED <<packets, threads, out_buffer>>
    BY LowersFrame DEF AddBlock
  <2> QED BY <1>9, <2>1, <2>9, <2>10, <2>11, <2>12, <2>13, <2>14, <2>15 DEF Step, Lowers
<1> QED BY <1>3, <1>4, <1>5, <1>6, <1>7, <1>8, <1>9, NextCases

\* Every step keeps what holds of the replies of ARP: nobody touches them again.
LEMMA ArpRepliesStep ==
  ASSUME Types, Names, OwnPacket, ArpReplies, [Next]_vars
  PROVE  ArpReplies'
<1> SUFFICES ASSUME NEW p \in DOMAIN packets', ~ IsTcp(p)', OnWire(p)'
             PROVE  Complete(p, ArpLayers)'
  BY DEF ArpReplies
<1>0. DOMAIN packets = 1 .. Len(packets)
  BY DEF Types
<1>1. ASSUME p \in DOMAIN packets, packets'[p] = packets[p], OnWire(p)
      PROVE  Complete(p, ArpLayers)'
  <2>1. ~ IsTcp(p)
    BY <1>1 DEF IsTcp
  <2>2. Complete(p, ArpLayers)
    BY <1>1, <2>1 DEF ArpReplies
  <2> QED BY <1>1, <2>2 DEF Complete, ArpLayers, LayerOf
<1>2. ASSUME UNCHANGED <<packets, wire>> PROVE Complete(p, ArpLayers)'
  BY <1>1, <1>2 DEF OnWire
<1>3. CASE Aside
  BY <1>2, <1>3 DEF Aside
<1>4. CASE Receive
  BY <1>2, <1>4 DEF Receive
<1>5. CASE Return
  BY <1>2, <1>5 DEF Return
<1>6. CASE \E window \in Windows : UpdateWindow(window)
  BY <1>2, <1>6 DEF UpdateWindow
<1>7. CASE ArpRead
  <2>1. PICK n : n = Len(packets) + 1
    OBVIOUS
  <2>2. OneMore /\ DOMAIN packets' = 1 .. n /\ Len(packets) \in Nat /\ n \notin DOMAIN packets
    BY <1>7, <2>1, ArpEffect, MoreViews
  <2>3. \/ UNCHANGED wire
        \/ /\ wire' = Append(wire, n)
           /\ packets'[n].layers = ArpLayers
           /\ packets'[n].offset + Len(ArpLayers) + packets'[n].size = Room
    BY <1>7, <2>1, ArpEffect
  <2>4. \A i \in DOMAIN wire' : wire'[i] = n \/ (i \in DOMAIN wire /\ wire'[i] = wire[i])
    <3>1. n \in Nat /\ wire \in Seq(Nat)
      BY <2>1, <2>2 DEF Types
    <3>2. CASE UNCHANGED wire
      BY <3>2
    <3>3. CASE wire' = Append(wire, n)
      BY <3>1, <3>3, AppendView
    <3> QED BY <2>3, <3>2, <3>3
  <2>5. CASE p = n
    <3>1. ~ OnWire(n)
      BY <2>2 DEF OnWire, Names
    <3>2. wire' # wire
      BY <2>5, <3>1 DEF OnWire
    <3> QED BY <2>3, <2>5, <3>2 DEF Complete, ArpLayers, LayerOf
  <2>6. CASE p # n
    <3>1. p \in 1 .. Len(packets)
      BY <2>1, <2>2, <2>6
    <3>2. packets'[p] = packets[p]
      BY <2>2, <3>1 DEF OneMore
    <3>3. OnWire(p)
      BY <2>4, <2>6 DEF OnWire
    <3> QED BY <1>0, <1>1, <3>1, <3>2, <3>3
  <2> QED BY <2>5, <2>6
<1>8. ASSUME NEW t \in Threads, NEW size \in ReplySizes \union SendSizes, NEW idx \in {2, 3},
             Call(t, size, idx)
      PROVE  Complete(p, ArpLayers)'
  <2>1. PICK n : n = Len(packets) + 1
    OBVIOUS
  <2>2. OneMore /\ DOMAIN packets' = 1 .. n /\ Len(packets) \in Nat /\ packets'[n].handlers = TcpStack
    BY <1>8, <2>1, CallEffect, MoreViews
  <2>3. p \in 1 .. Len(packets)
    <3>1. p # n
      BY <2>2 DEF IsTcp
    <3> QED BY <2>1, <2>2, <3>1
  <2>4. packets'[p] = packets[p]
    BY <2>2, <2>3 DEF OneMore
  <2>5. OnWire(p)
    BY <1>8 DEF Call, OnWire
  <2> QED BY <1>0, <1>1, <2>3, <2>4, <2>5
<1>9. ASSUME NEW t \in Threads, Step(t) PROVE Complete(p, ArpLayers)'
  <2>1. CASE UNCHANGED <<packets, wire>>
    BY <1>2, <2>1
  <2>2. ASSUME NEW own, own = threads[t].packet, Writes(t), SamePackets,
               \A q \in 1 .. Len(packets) :
                 q # own /\ (HasHead(t) => q # threads[t].head) => packets'[q] = packets[q],
               UNCHANGED wire \/ (HasHead(t) /\ wire' = Append(wire, threads[t].head))
        PROVE  Complete(p, ArpLayers)'
    <3>1. p \in DOMAIN packets /\ ~ IsTcp(p)
      BY <2>2, SameViews
    <3>2. p # own /\ (HasHead(t) => p # threads[t].head)
      BY <2>2, <3>1 DEF Names, TcpPacket
    <3>3. packets'[p] = packets[p]
      BY <1>0, <2>2, <3>1, <3>2
    <3>4. OnWire(p)
      <4>1. CASE UNCHANGED wire
        BY <4>1 DEF OnWire
      <4>2. CASE HasHead(t) /\ wire' = Append(wire, threads[t].head)
        <5>1. PICK head : head = threads[t].head
          OBVIOUS
        <5>2. head \in Nat /\ wire \in Seq(Nat)
          BY <5>1 DEF Types, Thread
        <5>3. \A i \in DOMAIN wire' : wire'[i] = head \/ (i \in DOMAIN wire /\ wire'[i] = wire[i])
          BY <4>2, <5>1, <5>2, AppendView
        <5> QED BY <3>2, <4>2, <5>1, <5>3 DEF OnWire
      <4> QED BY <2>2, <4>1, <4>2
    <3> QED BY <1>1, <3>1, <3>3, <3>4
  <2>3. CASE Copy(t)
    <3>1. wire' = wire
      BY <2>3 DEF Copy
    <3> QED BY <2>2, <2>3, <3>1, CopyEffect
  <2>4. CASE AddBlock(t) /\ fault' = fault
    <3>1. wire' = wire
      BY <2>4 DEF AddBlock
    <3> QED BY <2>2, <2>4, <3>1, AddEffect
  <2>5. CASE Pick(t) /\ Returns(t, packets)
    <3>1. wire' = wire
      BY <2>5 DEF Pick
    <3> QED BY <2>2, <2>5, <3>1, PickReturns
  <2>6. CASE Lowers(t) /\ fault' = fault
    <3>1. /\ Writes(t) /\ HasHead(t) /\ SamePackets
          /\ \A q \in 1 .. Len(packets) :
               q # threads[t].packet /\ q # threads[t].head => packets'[q] = packets[q]
      BY <2>6, LowerEffect
    <3>2. UNCHANGED wire \/ wire' = Append(wire, threads[t].head)
      BY <2>6, LowerEffect
    <3> QED BY <2>2, <3>1, <3>2
  <2>7. Fields(t) \/ Sequence(t) \/ Load(t) \/ Store(t) \/ RemoveHead(t) => UNCHANGED <<packets, wire>>
    BY DEF Fields, Sequence, Load, Store, RemoveHead
  <2>8. Pick(t) /\ ~ Returns(t, packets) => UNCHANGED <<packets, wire>>
    BY DEF Pick
  <2>9. (AddBlock(t) \/ Lowers(t)) /\ fault' # fault => UNCHANGED <<packets, wire>>
    BY LowersFrame DEF AddBlock
  <2> QED BY <1>9, <2>1, <2>3, <2>4, <2>5, <2>6, <2>7, <2>8, <2>9 DEF Step, Lowers
<1> QED BY <1>3, <1>4, <1>5, <1>6, <1>7, <1>8, <1>9, NextCases

-----------------------------------------------------------------------------
(* The invariant, and what follows from it *)

\* The invariant holds when nothing has been written.
LEMMA WriteInit == Init => Control /\ Layers
<1> SUFFICES ASSUME Init PROVE Control /\ Layers
  OBVIOUS
<1>1. /\ out_header = [seq |-> 0, of |-> 0] /\ send_next = 0 /\ send_window \in Windows
      /\ out_buffer = <<>> /\ packets = <<>> /\ frame = 0 /\ reads = 0
      /\ threads = [t \in Threads |-> Idle]
      /\ wire = <<>> /\ fault = "none" /\ mixed = {} /\ refused = {}
      /\ counting = [t \in Threads |-> None] /\ moves = 0
  BY DEF Init
<1>2. Types
  <2>1. 0 \in SeqNum
    BY SeqSpaceAssumption DEF SeqNum
  <2>2. out_header \in Header
    BY <1>1, <2>1 DEF Header
  <2>3. Len(out_buffer) <= BlockCount /\ out_buffer \in Seq(Block)
    BY <1>1, DefaultSizeAssumption DEF BlockCount
  <2>4. packets \in Seq(Packet) /\ wire \in Seq(Nat)
    BY <1>1
  <2>5. frame \in 0 .. ReadBound /\ reads \in 0 .. ReadBound
    BY <1>1, TcpWriteAssumption
  <2>6. threads \in [Threads -> Thread]
    BY <1>1, IdleType
  <2>7. counting \in [Threads -> SeqNum \union {None}] /\ moves \in 0 .. MoveBound
    BY <1>1, TcpWriteAssumption
  <2>8. fault \in Faults
    BY <1>1 DEF Faults
  <2> QED BY <1>1, <2>1, <2>2, <2>3, <2>4, <2>5, <2>6, <2>7, <2>8 DEF Types
<1>3. DOMAIN out_buffer = {} /\ DOMAIN wire = {} /\ DOMAIN packets = {}
  BY <1>1
<1>4. \A t \in Threads : threads[t].pc = "idle" /\ threads[t].packet = 0
  BY <1>1, IdleType
<1>5. \A t \in Threads : ~ Writes(t) /\ ~ HasHead(t) /\ threads[t].pc \notin Early
  BY <1>4 DEF Writes, HasHead, Early
<1>6. Names
  BY <1>1, <1>3, <1>4, <1>5 DEF Names
<1>7. Fresh /\ Solo /\ OwnPacket
  BY <1>5 DEF Fresh, Solo, OwnPacket, OwnOK
<1>8. Places /\ InOneCall /\ ArpReplies
  BY <1>3 DEF Places, QueuedOnce, SentOnce, InOneCall, ArpReplies
<1> QED BY <1>2, <1>6, <1>7, <1>8 DEF Control, Layers

\* Every step keeps the invariant.
LEMMA WriteNext == Control /\ Layers /\ [Next]_vars => (Control /\ Layers)'
<1> SUFFICES ASSUME Control, Layers, [Next]_vars PROVE (Control /\ Layers)'
  OBVIOUS
<1>1. Types /\ Names /\ Fresh /\ Solo /\ Places /\ OwnPacket /\ InOneCall /\ ArpReplies
  BY DEF Control, Layers
<1>2. Types'
  BY <1>1, TypesStep
<1>3. Names' /\ Fresh' /\ Solo' /\ Places'
  BY <1>1, ControlStep
<1>4. OwnPacket'
  BY <1>1, OwnStep
<1>5. InOneCall'
  BY <1>1, InOneCallStep
<1>6. ArpReplies'
  BY <1>1, ArpRepliesStep
<1> QED BY <1>2, <1>3, <1>4, <1>5, <1>6 DEF Control, Layers

\* How often a packet left: not at all, or once when no race touched it.
LEMMA TimesSent ==
  ASSUME Types, Places, NEW p
  PROVE  /\ ~ OnWire(p) => Times(p) = 0
         /\ OnWire(p) /\ p \notin mixed => Times(p) = 1
<1>1. ASSUME ~ OnWire(p) PROVE Times(p) = 0
  <2>1. {i \in DOMAIN wire : wire[i] = p} = {}
    BY <1>1 DEF OnWire
  <2> QED BY <2>1, FS_EmptySet DEF Times
<1>2. ASSUME OnWire(p), p \notin mixed PROVE Times(p) = 1
  <2>1. PICK i \in DOMAIN wire : wire[i] = p
    BY <1>2 DEF OnWire
  <2>2. {j \in DOMAIN wire : wire[j] = p} = {i}
    BY <1>2, <2>1 DEF Places, SentOnce
  <2> QED BY <2>2, FS_Singleton DEF Times
<1> QED BY <1>1, <1>2

(***************************************************************************)
(* The queue is consistent, however the two threads interleave in          *)
(* tcp_write, as long as they are not inside the functions of the list at  *)
(* once (ListRace) and up to any other fault: packets never run out of     *)
(* their buffers, and every packet that no race touched has left exactly   *)
(* once, waits in out_buffer or was refused by it.                         *)
(***************************************************************************)
THEOREM QueueStaysConsistent == Spec => []QueueConsistent
<1>1. Control => QueueConsistent
  <2> SUFFICES ASSUME Control PROVE QueueConsistent
    OBVIOUS
  <2>1. Types /\ Names /\ Places
    BY DEF Control
  <2>2. TypeOK
    <3>1. /\ send_next \in SeqNum /\ send_window \in Windows /\ out_header.seq \in SeqNum
          /\ Len(out_buffer) <= BlockCount /\ frame \in 0 .. ReadBound
          /\ fault \in Faults
      BY <2>1 DEF Types, Header
    <3>2. \A i \in DOMAIN out_buffer : out_buffer[i].packet \in DOMAIN packets
      BY <2>1 DEF Names, TcpPacket
    <3>3. \A p \in DOMAIN packets : packets[p].offset \in 0 .. Room /\ packets[p].stack_idx \in Index
      <4> TAKE p \in DOMAIN packets
      <4>1. packets[p] \in Packet
        BY <2>1 DEF Types
      <4> QED BY <4>1 DEF Packet
    <3> QED BY <3>1, <3>2, <3>3 DEF TypeOK
  <2>3. SentOrQueued
    <3> SUFFICES ASSUME NEW p \in Undisturbed, Alive, IsTcp(p), ~ Busy(p)
                 PROVE  Times(p) + (IF p \in QueuedPackets THEN 1 ELSE 0) =
                          IF p \in refused THEN 0 ELSE 1
      BY DEF SentOrQueued
    <3>1. p \in DOMAIN packets /\ p \notin mixed
      BY DEF Undisturbed
    <3>2. PlaceOK(p)
      BY <2>1, <3>1 DEF Places
    <3>3. ~ Removing(p) /\ ~ NotQueuedYet(p)
      BY DEF Busy, Removing, NotQueuedYet
    <3>4. p \in QueuedPackets <=> InQueue(p)
      BY DEF QueuedPackets, InQueue
    <3>5. IF OnWire(p) THEN Times(p) = 1 ELSE Times(p) = 0
      BY <2>1, <3>1, TimesSent
    <3>6. IF p \in refused THEN ~ OnWire(p) /\ ~ InQueue(p)
          ELSE (OnWire(p) /\ ~ InQueue(p)) \/ (~ OnWire(p) /\ InQueue(p))
      BY <3>2, <3>3 DEF PlaceOK
    <3> QED BY <3>4, <3>5, <3>6
  <2> QED BY <2>2, <2>3 DEF QueueConsistent
<1> QED BY <1>1, WriteInit, WriteNext, PTL DEF Spec

(***************************************************************************)
(* Every packet that no race touched, found out_buffer empty and left in   *)
(* the same call is well-formed, and so is every reply of ARP.  The answer *)
(* to a FIN with payload, which is begun one handler above TCP, does not   *)
(* leave in its call: it recurs into tcp_write and gives up or faults.     *)
(***************************************************************************)
THEOREM HeadersStayWhole == Spec => []Encapsulated
<1>1. Control /\ Layers => Encapsulated
  <2> SUFFICES ASSUME Control, Layers, NEW p \in Undisturbed, Times(p) > 0,
                      IsTcp(p) => packets[p].alone /\ ~ packets[p].kept
               PROVE  /\ Headers(p) = IF IsTcp(p)
                                      THEN << <<"tcp", 2>>, <<"ipv4", 1>>, <<"ethernet", 0>> >>
                                      ELSE << <<"arp", 1>>, <<"ethernet", 0>> >>
                      /\ \A i \in DOMAIN packets[p].layers : packets[p].layers[i].live
                      /\ packets[p].offset + Len(packets[p].layers) + packets[p].size = Room
    BY DEF Encapsulated
  <2>1. Types /\ Names /\ Solo /\ Places /\ InOneCall /\ ArpReplies
    BY DEF Control, Layers
  <2>2. p \in DOMAIN packets /\ p \notin mixed
    BY DEF Undisturbed
  <2>3. OnWire(p)
    BY <2>1, TimesSent
  <2>4. CASE IsTcp(p)
    <3>1. OneCallOK(p)
      BY <2>1, <2>2, <2>4 DEF InOneCall
    <3>2. Complete(p, TcpLayers)
      <4> SUFFICES ASSUME ~ Complete(p, TcpLayers) PROVE FALSE
        OBVIOUS
      <4>1. PICK t \in Threads : threads[t].packet = p
        BY <3>1 DEF OneCallOK
      <4>2. threads[t].pc \in {"pick", "lower"} /\ OnlyBlock(p)
        BY <3>1, <4>1 DEF OneCallOK
      <4>3. InQueue(p)
        BY <2>1, <4>2, OnlyBlockQueued
      <4>4. Removing(p)
        BY <2>1, <2>2, <2>3, <2>4, <4>3 DEF Places, PlaceOK
      <4>5. PICK v \in Threads : threads[v].pc = "remove"
        BY <4>4 DEF Removing
      <4>6. Writes(v)
        BY <4>5 DEF Writes
      <4>7. v = t
        BY <2>1, <2>2, <4>1, <4>6, OnlyWriter
      <4> QED BY <4>2, <4>5, <4>7
    <3>3. packets[p].layers = TcpLayers
      BY <3>2 DEF Complete
    <3>4. Headers(p) = << <<"tcp", 2>>, <<"ipv4", 1>>, <<"ethernet", 0>> >>
      BY <3>3 DEF Headers, TcpLayers, LayerOf
    <3>5. \A i \in DOMAIN packets[p].layers : packets[p].layers[i].live
      BY <3>3 DEF TcpLayers, LayerOf
    <3> QED BY <2>4, <3>2, <3>3, <3>4, <3>5 DEF Complete
  <2>5. CASE ~ IsTcp(p)
    <3>1. Complete(p, ArpLayers)
      BY <2>1, <2>2, <2>3, <2>5 DEF ArpReplies
    <3>2. packets[p].layers = ArpLayers
      BY <3>1 DEF Complete
    <3>3. Headers(p) = << <<"arp", 1>>, <<"ethernet", 0>> >>
      BY <3>2 DEF Headers, ArpLayers, LayerOf
    <3>4. \A i \in DOMAIN packets[p].layers : packets[p].layers[i].live
      BY <3>2 DEF ArpLayers, LayerOf
    <3> QED BY <2>5, <3>1, <3>2, <3>3, <3>4 DEF Complete
  <2> QED BY <2>4, <2>5
<1> QED BY <1>1, WriteInit, WriteNext, PTL DEF Spec

-----------------------------------------------------------------------------
(* The stream, while the sequence numbers do not wrap around *)

\* All the packets together, and what is counted beside them, do not fill the
\* space of sequence numbers.
NoWrap == Highest + PacketBound * (Room - 1) + MoveBound < SeqSpace

\* What a step inside tcp_write leaves alone: the headers, but for the one that
\* Copy writes.
StepFrame(t) ==
  /\ Writes(t) /\ SamePackets /\ mixed' = mixed
  /\ counting' = counting /\ moves' = moves /\ misnumbered' = misnumbered
  /\ \A u \in Threads : u # t => threads'[u] = threads[u]
  /\ \A q \in 1 .. Len(packets) :
       ~ (Copy(t) /\ q = threads[t].packet) => packets'[q].header = packets[q].header
  /\ threads[t].pc \in Early \ {"add"} /\ ~ Copy(t) =>
       threads'[t].packet = threads[t].packet /\ threads'[t].pc \in Early \ {"add"}

\* Every step inside tcp_write is like that.
LEMMA StepFrames ==
  ASSUME Types, Names, OwnPacket, NEW t \in Threads, Step(t)
  PROVE  StepFrame(t)
<1>0. /\ mixed' = mixed /\ Writes(t)
      /\ counting' = counting /\ moves' = moves /\ misnumbered' = misnumbered
  <2>1. CASE Lowers(t)
    BY <2>1, LowersFrame DEF Writes
  <2>2. CASE ~ Lowers(t)
    <3>1. \/ Fields(t) \/ Sequence(t) \/ Load(t) \/ Store(t) \/ Copy(t)
          \/ AddBlock(t) \/ Pick(t) \/ RemoveHead(t)
      BY <2>2 DEF Step, Lowers
    <3>2. Writes(t)
      BY <3>1 DEF Fields, Sequence, Load, Store, Copy, AddBlock, Pick, RemoveHead, At, Writes
    <3>3. mixed' = mixed /\ UNCHANGED numbers
      BY <3>1 DEF Fields, Sequence, Load, Store, Copy, AddBlock, Pick, RemoveHead
    <3> QED BY <3>2, <3>3 DEF numbers
  <2> QED BY <2>1, <2>2
<1>1. packets \in Seq(Packet) /\ threads \in [Threads -> Thread]
  BY DEF Types
<1>2. packets' = packets =>
        SamePackets /\ \A q \in 1 .. Len(packets) : packets'[q].header = packets[q].header
  BY <1>1 DEF SamePackets
<1>3. ASSUME NEW pc \in Pcs, Moves(t, pc), packets' = packets,
             threads[t].pc \in Early \ {"add"} => pc \in Early \ {"add"}
      PROVE  StepFrame(t)
  BY <1>0, <1>2, <1>3 DEF StepFrame, Moves
<1>4. CASE Fields(t)
  <2>1. Goto(t, "sequence") /\ packets' = packets
    BY <1>4 DEF Fields
  <2>2. "sequence" \in Pcs /\ "sequence" \in Early \ {"add"}
    BY DEF Pcs, Early
  <2> QED BY <1>3, <2>1, <2>2, GotoMoves
<1>5. CASE Sequence(t)
  <2>1. PICK pc \in {"load", "copy"} : Goto(t, pc)
    BY <1>5 DEF Sequence
  <2>2. pc \in Pcs /\ pc \in Early \ {"add"} /\ packets' = packets
    BY <1>5 DEF Sequence, Pcs, Early
  <2> QED BY <1>3, <2>1, <2>2, GotoMoves
<1>6. CASE Load(t)
  <2>1. "store" \in Pcs /\ "store" \in Early \ {"add"} /\ packets' = packets
    BY <1>6 DEF Load, Pcs, Early
  <2> QED BY <1>3, <1>6, <2>1, LoadMoves
<1>7. CASE Store(t)
  <2>1. Goto(t, "copy") /\ packets' = packets
    BY <1>7 DEF Store
  <2>2. "copy" \in Pcs /\ "copy" \in Early \ {"add"}
    BY DEF Pcs, Early
  <2> QED BY <1>3, <2>1, <2>2, GotoMoves
<1>8. CASE Copy(t)
  <2>1. SamePackets /\ Moves(t, "add")
        /\ \A q \in 1 .. Len(packets) : q # threads[t].packet => packets'[q] = packets[q]
    BY <1>8, CopyEffect
  <2> QED BY <1>0, <1>8, <2>1 DEF StepFrame, Moves
<1>9. threads[t].pc \notin Early \ {"add"} => threads[t].pc \in {"add", "pick", "lower", "remove"}
  BY <1>0, <1>1 DEF Early, Pcs, Thread, Writes
<1>10. CASE AddBlock(t)
  <2>0. threads[t].pc \notin Early \ {"add"}
    BY <1>10 DEF AddBlock, At, Early
  <2>1. CASE fault' = fault
    <3>1. /\ SamePackets /\ Moves(t, "pick")
          /\ \A q \in 1 .. Len(packets) : q # threads[t].packet => packets'[q] = packets[q]
          /\ packets'[threads[t].packet].header = packets[threads[t].packet].header
      BY <1>10, <2>1, AddEffect
    <3>2. \A q \in 1 .. Len(packets) : packets'[q].header = packets[q].header
      BY <3>1
    <3> QED BY <1>0, <2>0, <3>1, <3>2 DEF StepFrame, Moves
  <2>2. CASE fault' # fault
    <3>1. packets' = packets /\ threads' = threads
      BY <1>10, <2>2 DEF AddBlock
    <3> QED BY <1>0, <1>2, <2>0, <3>1 DEF StepFrame
  <2> QED BY <2>1, <2>2
<1>11. CASE Pick(t)
  <2>0. threads[t].pc \notin Early \ {"add"}
    BY <1>11 DEF Pick, At, Early
  <2>1. CASE Returns(t, packets)
    <3>1. /\ SamePackets /\ Leaves(t)
          /\ \A q \in 1 .. Len(packets) : q # threads[t].packet => packets'[q] = packets[q]
          /\ packets'[threads[t].packet].header = packets[threads[t].packet].header
      BY <1>11, <2>1, PickReturns
    <3>2. \A q \in 1 .. Len(packets) : packets'[q].header = packets[q].header
      BY <3>1
    <3> QED BY <1>0, <2>0, <3>1, <3>2 DEF StepFrame, Leaves
  <2>2. CASE ~ Returns(t, packets)
    <3>1. packets' = packets /\ \A u \in Threads : u # t => threads'[u] = threads[u]
      BY <1>11, <2>2, PickMoves DEF Pick
    <3> QED BY <1>0, <1>2, <2>0, <3>1 DEF StepFrame
  <2> QED BY <2>1, <2>2
<1>12. CASE Lowers(t)
  <2>0. threads[t].pc \notin Early \ {"add"}
    BY <1>12, LowersFrame DEF Early
  <2>1. CASE fault' = fault
    <3>1. SamePackets /\ (Leaves(t) \/ Moves(t, "remove"))
          /\ \A q \in 1 .. Len(packets) : packets'[q].header = packets[q].header
      BY <1>12, <2>1, LowerEffect
    <3> QED BY <1>0, <2>0, <3>1 DEF StepFrame, Leaves, Moves
  <2>2. CASE fault' # fault
    <3>1. packets' = packets /\ threads' = threads
      BY <1>12, <2>2, LowersFrame
    <3> QED BY <1>0, <1>2, <2>0, <3>1 DEF StepFrame
  <2> QED BY <2>1, <2>2
<1>13. CASE RemoveHead(t)
  <2>1. Goto(t, "pick") /\ packets' = packets /\ threads[t].pc = "remove"
    BY <1>13 DEF RemoveHead, At
  <2>2. "pick" \in Pcs /\ "remove" \notin Early
    BY DEF Pcs, Early
  <2> QED BY <1>3, <2>1, <2>2, GotoMoves
<1> QED BY <1>4, <1>5, <1>6, <1>7, <1>8, <1>10, <1>11, <1>12, <1>13 DEF Step, Lowers

\* the steps that touch neither the stream nor the packets
Beside ==
  UNCHANGED <<out_header, send_next, out_buffer, packets, threads, wire, mixed,
              counting, moves, misnumbered>>

\* a call of tcp_write
CallOf(t) ==
  /\ \E size \in ReplySizes \union SendSizes, idx \in {2, 3} : Call(t, size, idx)
  /\ misnumbered \union Overtaken \subseteq misnumbered' \/ DOMAIN packets \subseteq misnumbered'
  /\ Overtaken \subseteq misnumbered'

\* The steps, by what they do to send_next.
LEMMA StreamCases ==
  ASSUME [Next]_vars
  PROVE  \/ Beside \/ ArpRead
         \/ \E t \in Threads : CountLoad(t) \/ CountStore(t) \/ Step(t)
         \/ \E t \in Threads : CallOf(t) /\ UNCHANGED <<send_next, moves>>
         \/ \E t \in Threads, value \in Renumbers :
              /\ CallOf(t) /\ send_next' = value /\ moves' = moves + 1
              /\ DOMAIN packets \subseteq misnumbered' /\ moves < MoveBound
<1>1. CASE UNCHANGED vars
  BY <1>1 DEF vars, shared, numbers, Beside
<1>2. CASE Receive \/ Return \/ \E window \in Windows : UpdateWindow(window)
  BY <1>2 DEF Receive, Return, UpdateWindow, shared, numbers, Beside
<1>3. ASSUME NEW t \in Threads, NEW other \in Threads, ListRace(t, other)
      PROVE  Beside
  BY <1>3 DEF ListRace, shared, numbers, Beside
<1>4. ASSUME NEW t \in Threads, NEW size \in ReplySizes \union SendSizes,
             NEW idx \in {TcpIndex, TcpIndex + 1}, Begin(t, size, idx)
      PROVE  CallOf(t) /\ UNCHANGED <<send_next, moves>>
  <2>1. idx \in {2, 3}
    BY DEF TcpIndex
  <2>2. misnumbered' = misnumbered \union Overtaken /\ Call(t, size, idx)
    BY <1>4 DEF Begin
  <2>3. UNCHANGED <<send_next, moves>>
    BY <1>4 DEF Begin
  <2> QED BY <2>1, <2>2, <2>3 DEF CallOf
<1>5. ASSUME NEW value \in Renumbers, Renumber(value)
      PROVE  /\ CallOf("worker") /\ send_next' = value /\ moves' = moves + 1
             /\ DOMAIN packets \subseteq misnumbered' /\ moves < MoveBound
  <2>1. Call("worker", 0, 2) /\ misnumbered' = DOMAIN packets \union Overtaken
    BY <1>5 DEF Renumber, TcpIndex
  <2>2. 0 \in ReplySizes \union SendSizes
    BY <2>1 DEF Call
  <2>3. CallOf("worker")
    BY <2>1, <2>2 DEF CallOf
  <2> QED BY <1>5, <2>1, <2>3 DEF Renumber
<1>6. "worker" \in Threads
  BY TcpWriteAssumption
<1> QED BY <1>1, <1>2, <1>3, <1>4, <1>5, <1>6, Zenon DEF Next

\* What a call of tcp_write does to the packets and to the threads.
LEMMA CallViews ==
  ASSUME Types, NEW t \in Threads, CallOf(t)
  PROVE  /\ ~ Writes(t) /\ OneMore /\ Len(packets) < PacketBound
         /\ \A u \in Threads : u # t => threads'[u] = threads[u]
         /\ threads'[t].pc = "fields" /\ threads'[t].packet = Len(packets) + 1
         /\ mixed \subseteq mixed' /\ UNCHANGED <<out_header, out_buffer, wire, counting>>
         /\ \A u \in Threads : Writes(u) => threads[u].packet \in mixed'
         /\ (\A u \in Threads : counting[u] = None) \/ Len(packets) + 1 \in misnumbered'
<1>1. PICK size \in ReplySizes \union SendSizes, idx \in {2, 3} : Call(t, size, idx)
  BY DEF CallOf
<1>2. /\ ~ Writes(t) /\ OneMore
      /\ \A u \in Threads : u # t => threads'[u] = threads[u]
      /\ threads'[t].pc = "fields" /\ threads'[t].packet = Len(packets) + 1
  BY <1>1, CallEffect
<1>3. mixed \subseteq mixed' /\ Len(packets) < PacketBound
  BY <1>1 DEF Call
<1>4. \A u \in Threads : Writes(u) => threads[u].packet \in mixed'
  <2> TAKE u \in Threads
  <2> HAVE Writes(u)
  <2>1. u \in Inside
    BY DEF Inside, Writes
  <2>2. mixed' = mixed \union {Len(packets) + 1} \union QueuedPackets
                       \union {threads[other].packet : other \in Inside}
    BY <1>1, <2>1 DEF Call
  <2> QED BY <2>1, <2>2
<1>5. UNCHANGED <<out_header, out_buffer, wire, counting>>
  BY <1>1 DEF Call
<1>6. (\A u \in Threads : counting[u] = None) \/ Len(packets) + 1 \in misnumbered'
  BY DEF CallOf, Overtaken
<1> QED BY <1>2, <1>3, <1>4, <1>5, <1>6

\* Packets that are clear were clear before.
LEMMA ClearStep ==
  ASSUME Types, Names, OwnPacket, [Next]_vars, NEW p \in DOMAIN packets, Clear(p)'
  PROVE  Clear(p)
<1>1. TcpPacket(p)' /\ p \notin mixed' /\ p \notin misnumbered'
  BY DEF Clear, Apart
<1>2. ASSUME TcpPacket(p), mixed \subseteq mixed', misnumbered \subseteq misnumbered' PROVE Clear(p)
  BY <1>1, <1>2 DEF Clear, Apart
<1>3. ASSUME packets' = packets PROVE TcpPacket(p)
  BY <1>1, <1>3 DEF TcpPacket, IsTcp
<1>4. CASE Beside
  BY <1>2, <1>3, <1>4 DEF Beside
<1>5. CASE ArpRead
  <2>1. TcpPacket(p)
    BY <1>1, <1>5, ArpEffect, MoreViews
  <2> QED BY <1>2, <1>5, <2>1 DEF ArpRead, numbers
<1>6. ASSUME NEW t \in Threads, CountLoad(t) \/ CountStore(t) PROVE Clear(p)
  BY <1>2, <1>3, <1>6 DEF CountLoad, CountStore
<1>7. ASSUME NEW t \in Threads, CallOf(t) PROVE Clear(p)
  <2>1. OneMore /\ mixed \subseteq mixed'
    BY <1>7, CallViews
  <2>2. TcpPacket(p)
    BY <1>1, <2>1, MoreViews
  <2>3. misnumbered \subseteq misnumbered'
    BY <1>1, <1>7 DEF CallOf
  <2> QED BY <1>2, <2>1, <2>2, <2>3
<1>8. ASSUME NEW t \in Threads, Step(t) PROVE Clear(p)
  <2>1. SamePackets /\ mixed' = mixed /\ misnumbered' = misnumbered
    BY <1>8, StepFrames DEF StepFrame
  <2> QED BY <1>1, <1>2, <2>1, SameViews
<1> QED BY <1>4, <1>5, <1>6, <1>7, <1>8, StreamCases

\* A product grows with its first factor.
LEMMA Product ==
  ASSUME NEW n \in Nat, NEW m \in Nat, NEW r \in Nat, n <= m
  PROVE  n * r \in Nat /\ (n + 1) * r = n * r + r /\ n * r <= m * r
<1>1. n * r \in Nat /\ m * r \in Nat /\ (n + 1) * r = n * r + r
  OBVIOUS
<1>2. PICK d \in Nat : m = n + d
  <2>1. m - n \in Nat /\ m = n + (m - n)
    OBVIOUS
  <2> QED BY <2>1
<1>3. (n + d) * r = n * r + d * r /\ d * r \in Nat
  OBVIOUS
<1> QED BY <1>1, <1>2, <1>3

\* After Copy a thread stays behind it until it returns.
LEMMA LateSteps ==
  ASSUME Types, Names, OwnPacket, NEW t \in Threads, Step(t),
         ~ (threads[t].pc \in Early \ {"add"} /\ ~ Copy(t))
  PROVE  threads'[t].pc \in {"add", "pick", "lower", "remove", "idle"}
<1>1. CASE Copy(t)
  BY <1>1, CopyEffect DEF Moves
<1>2. CASE AddBlock(t)
  <2>1. CASE fault' = fault
    BY <1>2, <2>1, AddEffect DEF Moves
  <2>2. CASE fault' # fault
    BY <1>2, <2>2 DEF AddBlock, At
  <2> QED BY <2>1, <2>2
<1>3. CASE Pick(t)
  BY <1>3, PickReturns, PickMoves DEF Leaves
<1>4. CASE Lowers(t)
  <2>1. CASE fault' = fault
    BY <1>4, <2>1, LowerEffect DEF Moves, Leaves
  <2>2. CASE fault' # fault
    BY <1>4, <2>2, LowersFrame
  <2> QED BY <2>1, <2>2
<1>5. CASE RemoveHead(t)
  <2>1. Goto(t, "pick") /\ "pick" \in Pcs
    BY <1>5 DEF RemoveHead, Pcs
  <2> QED BY <2>1, GotoMoves DEF Moves
<1>6. ~ Fields(t) /\ ~ Sequence(t) /\ ~ Load(t) /\ ~ Store(t)
  <2>1. Fields(t) \/ Sequence(t) \/ Load(t) \/ Store(t) =>
          threads[t].pc \in {"fields", "sequence", "load", "store"}
    BY DEF Fields, Sequence, Load, Store, At
  <2>2. Copy(t) => threads[t].pc = "copy"
    BY DEF Copy, At
  <2> QED BY <2>1, <2>2 DEF Early
<1> QED BY <1>1, <1>2, <1>3, <1>4, <1>5, <1>6 DEF Step, Lowers

\* Only Load takes a thread to the store.
LEMMA LoadsOnly ==
  ASSUME Types, Names, OwnPacket, NEW t \in Threads, Step(t), ~ Store(t)
  PROVE  threads'[t].pc = "store" => threads'[t].loaded = send_next
<1>1. CASE Load(t)
  BY <1>1, LoadMoves
<1>2. CASE Fields(t) \/ Sequence(t)
  <2>1. PICK pc \in {"sequence", "load", "copy"} : Goto(t, pc)
    BY <1>2 DEF Fields, Sequence
  <2>2. pc \in Pcs
    BY DEF Pcs
  <2> QED BY <2>1, <2>2, GotoMoves DEF Moves
<1>3. CASE Copy(t) \/ AddBlock(t) \/ Pick(t) \/ Lowers(t) \/ RemoveHead(t)
  <2>1. ~ (threads[t].pc \in Early \ {"add"} /\ ~ Copy(t))
    BY <1>3, LowersFrame DEF AddBlock, Pick, RemoveHead, At, Early
  <2> QED BY <2>1, LateSteps
<1> QED BY <1>1, <1>2, <1>3 DEF Step, Lowers

\* The numbers that tcp_write works with.
LEMMA NumberTypes ==
  ASSUME Types
  PROVE  /\ send_next \in Nat /\ out_header.seq \in Nat /\ moves \in Nat
         /\ \A t \in Threads : threads[t].loaded \in Nat
         /\ \A t \in Threads : counting[t] # None => counting[t] \in Nat
<1>1. \A n \in SeqNum : n \in Nat
  BY SeqSpaceAssumption DEF SeqNum
<1>2. send_next \in SeqNum /\ out_header.seq \in SeqNum
  BY DEF Types, Header
<1>3. \A t \in Threads : threads[t].loaded \in SeqNum
  BY DEF Types, Thread
<1>4. \A t \in Threads : counting[t] # None => counting[t] \in SeqNum
  BY DEF Types
<1>5. moves \in Nat
  BY TcpWriteAssumption DEF Types
<1> QED BY <1>1, <1>2, <1>3, <1>4, <1>5

\* The budget is a number, and within the space of sequence numbers.
LEMMA BudgetType ==
  ASSUME Types, NoOverflow, NoWrap
  PROVE  /\ Budget \in Int /\ Budget < SeqSpace
         /\ \A t \in Threads : threads[t].pc = "store" => Budget + (Room - 1) < SeqSpace
<1>1. PICK n \in Nat : n = Len(packets)
  BY DEF Types
<1>2. PICK r \in Nat : r = Room - 1
  BY TcpWriteAssumption
<1>3. n * r \in Nat /\ n * r <= PacketBound * r /\ PacketBound * r \in Int
  <2>1. n <= PacketBound /\ PacketBound \in Nat
    BY <1>1, TcpWriteAssumption DEF NoOverflow
  <2>2. n * r \in Nat /\ n * r <= PacketBound * r
    BY <2>1, Product
  <2> QED BY <2>1, <2>2
<1>4. \A t : Debt(t) \in {0, r}
  BY <1>2 DEF Debt
<1>5. Budget = Highest + n * r + moves - Debt("worker") - Debt("app")
  BY <1>1, <1>2 DEF Budget
<1>6. PICK a \in {0, r}, b \in {0, r} : a = Debt("worker") /\ b = Debt("app")
  BY <1>4
<1>7. PICK m \in Nat : m = moves /\ m <= MoveBound
  BY TcpWriteAssumption DEF Types
<1>8. PICK product \in Nat, limit \in Int :
        product = n * r /\ limit = PacketBound * r /\ product <= limit
  BY <1>3
<1>9. Highest + limit + MoveBound < SeqSpace /\ SeqSpace \in Nat
  BY <1>2, <1>8, SeqSpaceAssumption DEF NoWrap
<1>h. PICK h \in Nat : h = Highest
  BY TcpWriteAssumption
<1>10. PICK total \in Nat : total = h + product + m /\ total < SeqSpace
  BY <1>7, <1>8, <1>9, <1>h, TcpWriteAssumption
<1>11. Budget = total - a - b
  <2>1. Budget = h + product + m - a - b
    BY <1>5, <1>6, <1>7, <1>8, <1>h
  <2> QED BY <1>10, <2>1
<1>12. Budget \in Int /\ Budget < SeqSpace
  BY <1>2, <1>9, <1>10, <1>11
<1>13. ASSUME NEW t \in Threads, threads[t].pc = "store" PROVE Budget + (Room - 1) < SeqSpace
  <2>1. Debt(t) = r
    BY <1>2, <1>13 DEF Debt
  <2>2. a = r \/ b = r
    BY <1>6, <2>1, TcpWriteAssumption
  <2> QED BY <1>2, <1>9, <1>10, <1>11, <2>2
<1> QED BY <1>12, <1>13

\* The addition to send_next does not wrap around.
LEMMA StoreExact ==
  ASSUME Types, Names, NoOverflow, NoWrap, NEW t \in Threads, threads[t].pc = "store"
  PROVE  /\ Plus(threads[t].loaded, Mine(t).size) = threads[t].loaded + Mine(t).size
         /\ threads[t].loaded + Mine(t).size <= Budget + (Room - 1)
         /\ threads[t].loaded \in Nat /\ Mine(t).size \in Nat
<1>1. Writes(t)
  BY DEF Writes
<1>2. PICK size \in Nat : size = Mine(t).size /\ size <= Room - 1
  <2>1. Mine(t) \in Packet
    BY <1>1, PacketOfThread DEF Mine
  <2> QED BY <2>1, TcpWriteAssumption DEF Packet
<1>3. PICK loaded \in Nat : loaded = threads[t].loaded
  <2>1. threads[t].loaded \in SeqNum
    BY DEF Types, Thread
  <2> QED BY <2>1, SeqSpaceAssumption DEF SeqNum
<1>4. loaded <= Budget
  BY <1>3 DEF NoOverflow
<1>5. Budget \in Int /\ Budget + (Room - 1) < SeqSpace
  BY BudgetType
<1>6. loaded + size <= Budget + (Room - 1) /\ loaded + size < SeqSpace
  BY <1>2, <1>4, <1>5, SeqSpaceAssumption, TcpWriteAssumption
<1>7. (loaded + size) % SeqSpace = loaded + size
  <2>1. PICK sum \in Nat : sum = loaded + size /\ sum < SeqSpace
    BY <1>6
  <2>2. sum % SeqSpace = sum
    BY <2>1, SeqSpaceAssumption
  <2> QED BY <2>1, <2>2
<1> QED BY <1>2, <1>3, <1>6, <1>7 DEF Plus

\* Neither does the increment.
LEMMA CountExact ==
  ASSUME Types, NoOverflow, NoWrap, NEW t \in Threads, CountStore(t)
  PROVE  /\ counting[t] # None /\ counting[t] \in Nat /\ send_next' = counting[t] + 1
         /\ send_next' <= Budget
<1>1. counting[t] # None /\ send_next' = Plus(counting[t], 1)
  BY DEF CountStore
<1>2. PICK c \in Nat : c = counting[t]
  BY <1>1, NumberTypes
<1>3. c + 1 <= Budget
  BY <1>1, <1>2 DEF NoOverflow
<1>4. Budget \in Int /\ Budget < SeqSpace
  BY BudgetType
<1>5. (c + 1) % SeqSpace = c + 1
  BY <1>3, <1>4, SeqSpaceAssumption
<1> QED BY <1>1, <1>2, <1>3, <1>5 DEF Plus

\* The budget never shrinks: it grows with what may be added to send_next.
LEMMA BudgetGrows ==
  ASSUME Types, Names, OwnPacket, NoOverflow, [Next]_vars
  PROVE  /\ Budget \in Int /\ Budget' \in Int /\ Budget <= Budget'
         /\ Len(packets') <= PacketBound
         /\ \A t \in Threads : CountLoad(t) => Budget' = Budget + 1
         /\ \A t \in Threads : Store(t) => Budget' = Budget + (Room - 1)
<1>1. PICK n \in Nat : n = Len(packets) /\ n <= PacketBound
  BY DEF Types, NoOverflow
<1>2. PICK r \in Nat : r = Room - 1
  BY TcpWriteAssumption
<1>3. \A t : Debt(t) \in {0, r} /\ Debt(t)' \in {0, r}
  BY <1>2 DEF Debt
<1>4. PICK a \in {0, r}, b \in {0, r}, c \in {0, r}, d \in {0, r} :
        a = Debt("worker") /\ b = Debt("app") /\ c = Debt("worker")' /\ d = Debt("app")'
  BY <1>3
<1>5. PICK total \in Nat : total = n * r /\ (n + 1) * r = total + r
  <2>1. n * r \in Nat /\ (n + 1) * r = n * r + r
    BY Product
  <2> QED BY <2>1
<1>6. PICK m \in Nat : m = moves
  BY NumberTypes
<1>7. PICK h \in Nat : h = Highest
  BY TcpWriteAssumption
<1>8. Budget = h + total + m - a - b
  BY <1>1, <1>2, <1>4, <1>5, <1>6, <1>7 DEF Budget
<1>n. PICK after : after = Len(packets') * r
  OBVIOUS
<1>t. (Len(packets') = n => after = total) /\ (Len(packets') = n + 1 => after = total + r)
  BY <1>5, <1>n
<1>9. Budget' = h + after + moves' - c - d
  BY <1>2, <1>4, <1>7, <1>n DEF Budget
<1>10. Budget \in Int
  BY <1>2, <1>8
<1>11. \A t \in Threads : CountLoad(t) => threads' = threads /\ packets' = packets /\ moves' = m + 1
  BY <1>6 DEF CountLoad
<1>12. \A t \in Threads : Store(t) => /\ threads[t].pc = "store" /\ threads'[t].pc = "copy"
                                     /\ \A u \in Threads : u # t => threads'[u] = threads[u]
                                     /\ packets' = packets /\ moves' = m
  <2> TAKE t \in Threads
  <2> HAVE Store(t)
  <2>1. threads[t].pc = "store" /\ Goto(t, "copy") /\ "copy" \in Pcs /\ packets' = packets /\ moves' = m
    BY <1>6 DEF Store, At, Pcs, numbers
  <2> QED BY <2>1, GotoMoves DEF Moves
<1>13. ASSUME NEW t \in Threads, CountLoad(t) PROVE Budget' = Budget + 1 /\ Len(packets') <= PacketBound
  <2>1. threads' = threads /\ Len(packets') = n /\ moves' = m + 1
    BY <1>1, <1>11, <1>13
  <2>2. c = a /\ d = b
    BY <1>4, <2>1 DEF Debt
  <2>3. Budget' = h + total + (m + 1) - a - b
    BY <1>9, <1>t, <2>1, <2>2
  <2> QED BY <1>1, <1>2, <1>8, <2>1, <2>3
<1>14. ASSUME NEW t \in Threads, Store(t) PROVE Budget' = Budget + r /\ Len(packets') <= PacketBound
  <2>1. Debt(t) = r /\ Debt(t)' = 0
    BY <1>2, <1>12, <1>14 DEF Debt
  <2>2. \A u : u # t => Debt(u)' = Debt(u)
    BY <1>12, <1>14 DEF Debt
  <2>3. (c = 0 /\ a = r /\ d = b) \/ (d = 0 /\ b = r /\ c = a)
    <3>1. CASE t = "worker"
      BY <1>4, <2>1, <2>2, <3>1
    <3>2. CASE t = "app"
      BY <1>4, <2>1, <2>2, <3>2
    <3> QED BY <3>1, <3>2, TcpWriteAssumption
  <2>4. Len(packets') = n /\ moves' = m
    <3>1. packets' = packets /\ moves' = m
      BY <1>6, <1>14 DEF Store, numbers
    <3> QED BY <1>1, <3>1
  <2>5. Budget' = h + total + m - c - d
    BY <1>9, <1>t, <2>4
  <2> QED BY <1>1, <1>2, <1>8, <2>3, <2>4, <2>5
<1>15. ASSUME Len(packets') = n, moves' = m, c <= a, d <= b
       PROVE  Budget' \in Int /\ Budget <= Budget' /\ Len(packets') <= PacketBound
  <2>1. Budget' = h + total + m - c - d
    BY <1>9, <1>t, <1>15
  <2> QED BY <1>1, <1>2, <1>8, <1>15, <2>1
<1>16. ASSUME packets' = packets, moves' = moves, threads' = threads
       PROVE  Budget' \in Int /\ Budget <= Budget' /\ Len(packets') <= PacketBound
  <2>1. c = a /\ d = b
    BY <1>4, <1>16 DEF Debt
  <2>2. c <= a /\ d <= b /\ Len(packets') = n /\ moves' = m
    BY <1>1, <1>2, <1>6, <1>16, <2>1
  <2> QED BY <1>15, <2>2
<1>17. ASSUME Beside PROVE Budget' \in Int /\ Budget <= Budget' /\ Len(packets') <= PacketBound
  <2>1. packets' = packets /\ moves' = moves /\ threads' = threads
    BY <1>17 DEF Beside
  <2> QED BY <1>16, <2>1
<1>18. ASSUME NEW t \in Threads, CountStore(t)
       PROVE  Budget' \in Int /\ Budget <= Budget' /\ Len(packets') <= PacketBound
  <2>1. packets' = packets /\ moves' = moves /\ threads' = threads
    BY <1>18 DEF CountStore
  <2> QED BY <1>16, <2>1
<1>19. ASSUME ArpRead PROVE Budget' \in Int /\ Budget <= Budget' /\ Len(packets') <= PacketBound
  <2>1. threads' = threads /\ moves' = m /\ Len(packets') = n + 1 /\ n < PacketBound
    BY <1>1, <1>6, <1>19, ArpEffect DEF ArpRead, numbers, OneMore
  <2>2. c = a /\ d = b
    BY <1>4, <2>1 DEF Debt
  <2>3. Budget' = h + (total + r) + m - a - b
    BY <1>9, <1>t, <2>1, <2>2
  <2> QED BY <1>2, <1>8, <2>1, <2>3, TcpWriteAssumption
<1>20. ASSUME NEW t \in Threads, CallOf(t), moves' = m \/ moves' = m + 1
       PROVE  Budget' \in Int /\ Budget <= Budget' /\ Len(packets') <= PacketBound
  <2>1. /\ ~ Writes(t) /\ Len(packets') = n + 1 /\ n < PacketBound
        /\ \A u \in Threads : u # t => threads'[u] = threads[u]
        /\ threads'[t].pc = "fields"
    BY <1>1, <1>20, CallViews DEF OneMore
  <2>2. \A u : u # t => Debt(u)' = Debt(u)
    BY <2>1 DEF Debt
  <2>3. Debt(t) = 0
    BY <2>1 DEF Debt, Writes
  <2>4. (c = a /\ b = 0) \/ (d = b /\ a = 0)
    <3>1. CASE t = "worker"
      BY <1>4, <2>2, <2>3, <3>1
    <3>2. CASE t = "app"
      BY <1>4, <2>2, <2>3, <3>2
    <3> QED BY <3>1, <3>2, TcpWriteAssumption
  <2>5. Budget' = h + (total + r) + moves' - c - d
    BY <1>9, <1>t, <2>1
  <2> QED BY <1>2, <1>8, <1>20, <2>1, <2>4, <2>5, TcpWriteAssumption
<1>21. ASSUME NEW t \in Threads, Step(t)
       PROVE  Budget' \in Int /\ Budget <= Budget' /\ Len(packets') <= PacketBound
  <2>1. StepFrame(t)
    BY <1>21, StepFrames
  <2>2. Len(packets') = n /\ moves' = m /\ (\A u \in Threads : u # t => threads'[u] = threads[u])
    BY <1>1, <1>6, <2>1 DEF StepFrame, SamePackets
  <2>3. \A u : u # t => Debt(u)' = Debt(u)
    BY <2>2 DEF Debt
  <2>4. Debt(t)' <= Debt(t)
    <3>1. CASE threads[t].pc \in {"fields", "sequence", "load", "store"}
      <4>1. Debt(t) = r
        BY <1>2, <3>1 DEF Debt
      <4> QED BY <1>2, <1>3, <4>1
    <3>2. CASE threads[t].pc \notin {"fields", "sequence", "load", "store"}
      <4>1. threads'[t].pc \notin {"fields", "sequence", "load", "store"}
        <5>1. ~ (threads[t].pc \in Early \ {"add"} /\ ~ Copy(t))
          <6>1. threads[t].pc \in Early \ {"add"} => threads[t].pc = "copy"
            BY <3>2 DEF Early
          <6>2. threads[t].pc = "copy" => Copy(t)
            <7> SUFFICES ASSUME threads[t].pc = "copy" PROVE Copy(t)
              OBVIOUS
            <7>1. ~ Lowers(t)
              BY LowersFrame
            <7>2. ~ Fields(t) /\ ~ Sequence(t) /\ ~ Load(t) /\ ~ Store(t)
              BY DEF Fields, Sequence, Load, Store, At
            <7>3. ~ AddBlock(t) /\ ~ Pick(t) /\ ~ RemoveHead(t)
              BY DEF AddBlock, Pick, RemoveHead, At
            <7> QED BY <1>21, <7>1, <7>2, <7>3 DEF Step, Lowers
          <6> QED BY <6>1, <6>2
        <5> QED BY <1>21, <5>1, LateSteps
      <4>2. Debt(t)' = 0
        BY <4>1 DEF Debt
      <4> QED BY <1>2, <1>3, <4>2
    <3> QED BY <3>1, <3>2
  <2>5. c <= a /\ d <= b
    <3>1. c = a \/ (t = "worker" /\ c <= a)
      BY <1>4, <2>3, <2>4
    <3>2. d = b \/ (t = "app" /\ d <= b)
      BY <1>4, <2>3, <2>4
    <3> QED BY <1>2, <3>1, <3>2
  <2> QED BY <1>15, <2>2, <2>5
<1>22. Budget' \in Int /\ Budget <= Budget' /\ Len(packets') <= PacketBound
  <2>1. ASSUME NEW t \in Threads, CountLoad(t) PROVE Budget' \in Int /\ Budget <= Budget'
    BY <1>10, <1>13, <2>1
  <2> QED BY <1>6, <1>13, <1>17, <1>18, <1>19, <1>20, <1>21, <2>1, StreamCases
<1> QED BY <1>2, <1>10, <1>13, <1>14, <1>22

\* What the threads may still add is within the budget.
LEMMA NoOverflowStep ==
  ASSUME Types, Types', Names, OwnPacket, NoOverflow, NoWrap, [Next]_vars
  PROVE  NoOverflow'
<1>1. PICK old \in Int, new \in Int : old = Budget /\ new = Budget' /\ old <= new
  BY BudgetGrows
<1>2. Len(packets') <= PacketBound /\ Highest <= new
  BY <1>1, BudgetGrows, TcpWriteAssumption DEF NoOverflow
<1>3. /\ send_next \in Nat /\ send_next <= old
      /\ \A t \in Threads : threads[t].loaded \in Nat
      /\ \A t \in Threads : counting[t] # None => counting[t] \in Nat
  BY <1>1, NumberTypes DEF NoOverflow
<1>4. \A t \in Threads : threads[t].pc = "store" => threads[t].loaded <= new
  <2> TAKE t \in Threads
  <2> HAVE threads[t].pc = "store"
  <2>1. PICK loaded \in Nat : loaded = threads[t].loaded
    BY <1>3
  <2>2. loaded <= old
    BY <1>1, <2>1 DEF NoOverflow
  <2> QED BY <1>1, <2>1, <2>2
<1>5. \A t \in Threads : counting[t] # None => counting[t] + 1 <= new
  <2> TAKE t \in Threads
  <2> HAVE counting[t] # None
  <2>1. PICK count \in Nat : count = counting[t]
    BY <1>3
  <2>2. count + 1 <= old
    BY <1>1, <2>1 DEF NoOverflow
  <2> QED BY <1>1, <2>1, <2>2
<1>6. ASSUME send_next' <= new,
             \A t \in Threads : threads'[t].pc = "store" =>
               \/ threads'[t].loaded = send_next
               \/ threads[t].pc = "store" /\ threads'[t].loaded = threads[t].loaded,
             \A t \in Threads : counting'[t] # None =>
               counting'[t] + 1 <= new \/ counting'[t] = counting[t]
      PROVE  NoOverflow'
  <2>1. send_next <= new
    BY <1>1, <1>3
  <2>2. \A t \in Threads : threads'[t].pc = "store" => threads'[t].loaded <= new
    BY <1>4, <1>6, <2>1
  <2>3. \A t \in Threads : counting'[t] # None => counting'[t] + 1 <= new
    BY <1>5, <1>6
  <2> QED BY <1>1, <1>2, <1>6, <2>2, <2>3 DEF NoOverflow, None
<1>7. send_next <= new
  BY <1>1, <1>3
<1>8. CASE Beside
  <2>1. send_next' = send_next /\ threads' = threads /\ counting' = counting
    BY <1>8 DEF Beside
  <2> QED BY <1>6, <1>7, <2>1
<1>9. CASE ArpRead
  <2>1. send_next' = send_next /\ threads' = threads /\ counting' = counting
    BY <1>9 DEF ArpRead, shared, numbers
  <2> QED BY <1>6, <1>7, <2>1
<1>10. ASSUME NEW t \in Threads, CountLoad(t) PROVE NoOverflow'
  <2>1. send_next' = send_next /\ threads' = threads
    BY <1>10 DEF CountLoad, shared
  <2>2. new = old + 1
    BY <1>1, <1>10, BudgetGrows
  <2>3. send_next + 1 <= new
    BY <1>1, <1>3, <2>2
  <2>4. \A u \in Threads : counting'[u] = counting[u] \/ counting'[u] = send_next
    BY <1>10 DEF CountLoad, Types
  <2> QED BY <1>6, <1>7, <2>1, <2>3, <2>4
<1>11. ASSUME NEW t \in Threads, CountStore(t) PROVE NoOverflow'
  <2>1. PICK next \in Nat : next = send_next' /\ next <= old
    <3>1. send_next' \in Nat
      BY NumberTypes, SeqSpaceAssumption DEF Types, SeqNum
    <3> QED BY <1>1, <1>11, <3>1, CountExact
  <2>2. send_next' <= new
    BY <1>1, <2>1
  <2>3. threads' = threads /\ \A u \in Threads : counting'[u] = counting[u] \/ counting'[u] = None
    BY <1>11 DEF CountStore, Types
  <2>4. None' = None
    BY DEF None
  <2> QED BY <1>6, <2>2, <2>3, <2>4
<1>12. ASSUME NEW t \in Threads, CallOf(t), send_next' = send_next \/ send_next' \in Renumbers
       PROVE  NoOverflow'
  <2>1. /\ \A u \in Threads : u # t => threads'[u] = threads[u]
        /\ threads'[t].pc = "fields" /\ counting' = counting
    BY <1>12, CallViews
  <2>2. send_next' <= new
    <3>1. CASE send_next' = send_next
      BY <1>7, <3>1
    <3>2. CASE send_next' \in Renumbers
      <4>1. PICK next \in 0 .. Highest : next = send_next'
        BY <3>2, TcpWriteAssumption
      <4> QED BY <1>1, <1>2, <4>1, TcpWriteAssumption
    <3> QED BY <1>12, <3>1, <3>2
  <2> QED BY <1>6, <2>1, <2>2
<1>13. ASSUME NEW t \in Threads, Step(t) PROVE NoOverflow'
  <2>1. StepFrame(t)
    BY <1>13, StepFrames
  <2>2. counting' = counting /\ \A u \in Threads : u # t => threads'[u] = threads[u]
    BY <2>1 DEF StepFrame
  <2>3. CASE Store(t)
    <3>1. threads[t].pc = "store" /\ Goto(t, "copy") /\ "copy" \in Pcs
          /\ send_next' = Plus(threads[t].loaded, Mine(t).size)
      BY <2>3 DEF Store, At, Pcs
    <3>2. threads'[t].pc = "copy"
      BY <3>1, GotoMoves DEF Moves
    <3>3. send_next' <= new
      <4>1. new = old + (Room - 1)
        BY <1>1, <2>3, BudgetGrows
      <4> QED BY <1>1, <3>1, <4>1, StoreExact
    <3> QED BY <1>6, <2>2, <3>2, <3>3
  <2>4. CASE ~ Store(t)
    <3>1. send_next' = send_next
      <4>1. CASE Lowers(t)
        BY <4>1, LowersFrame
      <4>2. CASE ~ Lowers(t)
        BY <1>13, <2>4, <4>2
           DEF Step, Lowers, Fields, Sequence, Load, Copy, AddBlock, Pick, RemoveHead, shared
      <4> QED BY <4>1, <4>2
    <3>2. threads'[t].pc = "store" => threads'[t].loaded = send_next
      BY <1>13, <2>4, LoadsOnly
    <3> QED BY <1>6, <1>7, <2>2, <3>1, <3>2
  <2> QED BY <2>3, <2>4
<1> QED BY <1>8, <1>9, <1>10, <1>11, <1>12, <1>13, StreamCases

\* A header that is ready was so before, and stays as it is, or Copy writes it.
LEMMA ReadyStep ==
  ASSUME Types, Names, OwnPacket, [Next]_vars, NEW p, Ready(p)'
  PROVE  \/ /\ p \in DOMAIN packets /\ Ready(p)
            /\ packets'[p].header = packets[p].header /\ packets'[p].size = packets[p].size
         \/ \E t \in Threads : Copy(t) /\ p = threads[t].packet
<1> DEFINE Goal == /\ p \in DOMAIN packets /\ Ready(p)
                   /\ packets'[p].header = packets[p].header /\ packets'[p].size = packets[p].size
<1>0. /\ p \in DOMAIN packets' /\ IsTcp(p)' /\ p \notin mixed'
      /\ \A t \in Threads :
           threads'[t].packet = p => threads'[t].pc \in {"add", "pick", "lower", "remove"}
  BY DEF Ready, Apart, TcpPacket, HeaderDone
<1>d. DOMAIN packets = 1 .. Len(packets)
  BY DEF Types
<1>1. ASSUME UNCHANGED <<packets, threads, mixed>> PROVE Goal
  BY <1>0, <1>1 DEF Ready, Apart, TcpPacket, HeaderDone, IsTcp
<1>2. CASE Beside
  BY <1>1, <1>2 DEF Beside
<1>3. ASSUME NEW t \in Threads, CountLoad(t) \/ CountStore(t) PROVE Goal
  BY <1>1, <1>3 DEF CountLoad, CountStore
<1>6. CASE ArpRead
  <2>1. PICK n : n = Len(packets) + 1
    OBVIOUS
  <2>2. OneMore /\ DOMAIN packets' = 1 .. n /\ Len(packets) \in Nat /\ packets'[n].handlers = ArpStack
    BY <1>6, <2>1, ArpEffect, MoreViews
  <2>3. p \in 1 .. Len(packets)
    <3>1. p # n
      BY <1>0, <2>2, StacksDiffer DEF IsTcp
    <3> QED BY <1>0, <2>1, <2>2, <3>1
  <2>4. packets'[p] = packets[p]
    BY <2>2, <2>3 DEF OneMore
  <2>5. threads' = threads /\ mixed' = mixed
    BY <1>6 DEF ArpRead
  <2> QED BY <1>0, <1>d, <2>3, <2>4, <2>5 DEF Ready, Apart, TcpPacket, HeaderDone, IsTcp
<1>7. ASSUME NEW t \in Threads, CallOf(t)
      PROVE  Goal
  <2>1. PICK n : n = Len(packets) + 1
    OBVIOUS
  <2>2. OneMore /\ DOMAIN packets' = 1 .. n /\ Len(packets) \in Nat
    BY <1>7, <2>1, CallViews, MoreViews
  <2>3. /\ \A u \in Threads : u # t => threads'[u] = threads[u]
        /\ threads'[t].pc = "fields" /\ threads'[t].packet = n /\ ~ Writes(t)
    BY <1>7, <2>1, CallViews
  <2>4. p \in 1 .. Len(packets)
    <3>1. p # n
      BY <1>0, <2>3
    <3> QED BY <1>0, <2>1, <2>2, <3>1
  <2>5. packets'[p] = packets[p]
    BY <2>2, <2>4 DEF OneMore
  <2>6. p \notin mixed
    BY <1>0, <1>7, CallViews
  <2>7. threads[t].packet # p
    BY <2>3, <2>4 DEF Names
  <2>8. \A u \in Threads :
          threads[u].packet = p => threads[u].pc \in {"add", "pick", "lower", "remove"}
    BY <1>0, <2>3, <2>7
  <2>9. IsTcp(p)
    BY <1>0, <2>5 DEF IsTcp
  <2> QED BY <1>d, <2>4, <2>5, <2>6, <2>8, <2>9 DEF Ready, Apart, TcpPacket, HeaderDone
<1>8. ASSUME NEW t \in Threads, Step(t), ~ (Copy(t) /\ p = threads[t].packet)
      PROVE  Goal
  <2>1. StepFrame(t)
    BY <1>8, StepFrames
  <2>2. p \in DOMAIN packets /\ IsTcp(p) /\ p \notin mixed
    BY <1>0, <2>1, SameViews DEF StepFrame
  <2>3. packets'[p].header = packets[p].header /\ packets'[p].size = packets[p].size
    BY <1>8, <1>d, <2>1, <2>2 DEF StepFrame, SamePackets
  <2>4. \A u \in Threads :
          threads[u].packet = p => threads[u].pc \in {"add", "pick", "lower", "remove"}
    <3> TAKE u \in Threads
    <3> HAVE threads[u].packet = p
    <3>1. CASE u # t
      BY <1>0, <2>1, <3>1 DEF StepFrame
    <3>2. CASE u = t
      <4>1. threads[t].pc \notin Early \ {"add"}
        BY <1>0, <1>8, <2>1, <3>2 DEF StepFrame, Early
      <4>2. threads[t].pc \in Pcs /\ Writes(t)
        BY <2>1 DEF StepFrame, Types, Thread
      <4> QED BY <3>2, <4>1, <4>2 DEF Early, Pcs, Writes
    <3> QED BY <3>1, <3>2
  <2> QED BY <2>2, <2>3, <2>4 DEF Ready, Apart, TcpPacket, HeaderDone
<1> QED BY <1>2, <1>3, <1>6, <1>7, <1>8, StreamCases

\* The same of a packet that send_next counted.
LEMMA DoneStep ==
  ASSUME Types, Names, OwnPacket, [Next]_vars, NEW p, Done(p)'
  PROVE  \/ /\ p \in DOMAIN packets /\ Done(p)
            /\ packets'[p].header = packets[p].header /\ packets'[p].size = packets[p].size
         \/ \E t \in Threads : Copy(t) /\ p = threads[t].packet
<1>1. Ready(p)' /\ Clear(p)'
  BY DEF Done, Ready, Clear
<1>2. p \in DOMAIN packets => Clear(p)
  BY <1>1, ClearStep
<1>3. Ready(p) /\ Clear(p) => Done(p)
  BY DEF Done, Ready
<1> QED BY <1>1, <1>2, <1>3, ReadyStep

\* The end of a packet in the stream is a number.
LEMMA EndType ==
  ASSUME Types, NEW p \in DOMAIN packets
  PROVE  /\ packets[p].header.seq \in Nat /\ packets[p].size \in Nat /\ End(p) \in Nat
         /\ packets[p].header.seq <= End(p)
<1>1. packets[p] \in Packet
  BY DEF Types
<1>2. packets[p].header \in Header /\ packets[p].size \in Nat
  BY <1>1, TcpWriteAssumption DEF Packet
<1>3. packets[p].header.seq \in Nat
  BY <1>2, SeqSpaceAssumption DEF Header, SeqNum
<1> QED BY <1>2, <1>3 DEF End

\* The header of a packet that no race touched stays the one built for it.
LEMMA MarkedStep ==
  ASSUME Types, Names, OwnPacket, Marked, UnderWay, [Next]_vars
  PROVE  Marked'
<1> SUFFICES ASSUME NEW p \in DOMAIN packets', Ready(p)' PROVE packets'[p].header.of = p
  BY DEF Marked
<1>1. CASE p \in DOMAIN packets /\ Ready(p) /\ packets'[p].header = packets[p].header
  BY <1>1 DEF Marked
<1>2. ASSUME NEW t \in Threads, Copy(t), p = threads[t].packet PROVE packets'[p].header.of = p
  <2>1. threads[t].pc = "copy" /\ Writes(t) /\ packets'[p].header = out_header
    BY <1>2, CopyEffect DEF Copy, At
  <2>2. p \notin mixed
    BY <1>2 DEF Ready, Apart, Copy
  <2>3. UnderWayOK(t, p)
    BY <1>2, <2>1, <2>2 DEF UnderWay
  <2> QED BY <2>1, <2>3 DEF UnderWayOK
<1> QED BY <1>1, <1>2, ReadyStep

\* What Copy does to a packet that send_next counts.
LEMMA CopyDone ==
  ASSUME Types, Names, OwnPacket, Solo, Ahead, NEW t \in Threads, Copy(t),
         NEW p, p = threads[t].packet, Clear(p)
  PROVE  /\ p \in DOMAIN packets /\ ~ Done(p)
         /\ packets'[p].header = out_header
         /\ packets'[p].size = packets[p].size /\ send_next = out_header.seq + packets[p].size
         /\ \A q \in DOMAIN packets : Done(q) => out_header.seq >= End(q) /\ q < p
         /\ \A u \in Threads : Writes(u) => u = t
         /\ \A u \in Threads : counting[u] = None
<1>0. p \notin mixed
  BY DEF Clear, Apart
<1>1. threads[t].pc = "copy" /\ Writes(t) /\ packets'[p].header = out_header
  BY CopyEffect DEF Copy, At
<1>2. p \in 1 .. Len(packets) /\ p \in DOMAIN packets
  BY <1>1, PacketOfThread DEF Types
<1>3. packets'[p].size = packets[p].size
  BY <1>2, CopyEffect DEF SamePackets
<1>4. ~ Done(p)
  BY <1>1 DEF Done, HeaderDone
<1>5. /\ send_next = out_header.seq + packets[p].size
      /\ \A q \in DOMAIN packets : Done(q) => out_header.seq >= End(q)
      /\ \A u \in Threads : counting[u] = None
  BY <1>1 DEF Ahead, AheadOK
<1>6. SoloOK(t)
  BY <1>1 DEF Solo
<1>7. \A q \in DOMAIN packets : Done(q) => q < p
  <2> TAKE q \in DOMAIN packets
  <2> HAVE Done(q)
  <2>1. q <= p
    BY <1>0, <1>6 DEF SoloOK, Done, Clear, Apart, TcpPacket
  <2>2. q # p /\ q \in Nat /\ p \in Nat
    BY <1>2, <1>4 DEF Types
  <2> QED BY <2>1, <2>2
<1>8. \A u \in Threads : Writes(u) => u = t
  BY <1>0, <1>6 DEF SoloOK
<1> QED BY <1>1, <1>2, <1>3, <1>4, <1>5, <1>7, <1>8

\* A packet that Copy makes done was clear before.
LEMMA CopyClear ==
  ASSUME Types, Names, OwnPacket, [Next]_vars, NEW t \in Threads, Copy(t),
         NEW p, p = threads[t].packet, Clear(p)'
  PROVE  Clear(p)
<1>1. Writes(t)
  BY CopyEffect
<1>2. p \in DOMAIN packets
  BY <1>1, PacketOfThread DEF Types
<1> QED BY <1>2, ClearStep

\* send_next and what a thread has loaded of it: who changes them.
LEMMA SendNextStep ==
  ASSUME Types, Names, OwnPacket, NoOverflow, NoWrap, [Next]_vars
  PROVE  /\ \/ send_next' = send_next
            \/ \E t \in Threads : /\ threads[t].pc = "store"
                                  /\ send_next' = threads[t].loaded + Mine(t).size
            \/ \E t \in Threads : counting[t] # None /\ send_next' = counting[t] + 1
            \/ DOMAIN packets \subseteq misnumbered'
         /\ \A u \in Threads : threads'[u].pc = "store" =>
              \/ threads'[u].loaded = send_next
              \/ threads[u].pc = "store" /\ threads'[u].loaded = threads[u].loaded
         /\ \A u \in Threads : counting'[u] # None =>
              counting'[u] = send_next \/ counting'[u] = counting[u]
<1> DEFINE Next1 == \/ send_next' = send_next
                    \/ \E t \in Threads : /\ threads[t].pc = "store"
                                          /\ send_next' = threads[t].loaded + Mine(t).size
                    \/ \E t \in Threads : counting[t] # None /\ send_next' = counting[t] + 1
                    \/ DOMAIN packets \subseteq misnumbered'
           Loaded == \A u \in Threads : threads'[u].pc = "store" =>
                       \/ threads'[u].loaded = send_next
                       \/ threads[u].pc = "store" /\ threads'[u].loaded = threads[u].loaded
           Counted == \A u \in Threads : counting'[u] # None =>
                        counting'[u] = send_next \/ counting'[u] = counting[u]
<1>1. CASE Beside
  <2>1. send_next' = send_next /\ threads' = threads /\ counting' = counting
    BY <1>1 DEF Beside
  <2> QED BY <2>1
<1>2. CASE ArpRead
  <2>1. send_next' = send_next /\ threads' = threads /\ counting' = counting
    BY <1>2 DEF ArpRead, shared, numbers
  <2> QED BY <2>1
<1>3. ASSUME NEW t \in Threads, CountLoad(t) PROVE Next1 /\ Loaded /\ Counted
  <2>1. send_next' = send_next /\ threads' = threads
    BY <1>3 DEF CountLoad, shared
  <2>2. Counted
    BY <1>3 DEF CountLoad, Types
  <2> QED BY <2>1, <2>2
<1>4. ASSUME NEW t \in Threads, CountStore(t) PROVE Next1 /\ Loaded /\ Counted
  <2>1. threads' = threads /\ \A u \in Threads : counting'[u] = None \/ counting'[u] = counting[u]
    BY <1>4 DEF CountStore, Types
  <2>2. counting[t] # None /\ send_next' = counting[t] + 1
    BY <1>4, CountExact
  <2> QED BY <2>1, <2>2
<1>5. ASSUME NEW t \in Threads, CallOf(t), send_next' = send_next \/ DOMAIN packets \subseteq misnumbered'
      PROVE  Next1 /\ Loaded /\ Counted
  <2>1. /\ \A u \in Threads : u # t => threads'[u] = threads[u]
        /\ threads'[t].pc = "fields" /\ counting' = counting
    BY <1>5, CallViews
  <2> QED BY <1>5, <2>1
<1>6. ASSUME NEW t \in Threads, Step(t) PROVE Next1 /\ Loaded /\ Counted
  <2>1. counting' = counting /\ \A u \in Threads : u # t => threads'[u] = threads[u]
    BY <1>6, StepFrames DEF StepFrame
  <2>2. CASE Store(t)
    <3>1. threads[t].pc = "store" /\ Goto(t, "copy") /\ "copy" \in Pcs
          /\ send_next' = Plus(threads[t].loaded, Mine(t).size)
      BY <2>2 DEF Store, At, Pcs
    <3>2. threads'[t].pc = "copy"
      BY <3>1, GotoMoves DEF Moves
    <3>3. send_next' = threads[t].loaded + Mine(t).size
      BY <3>1, StoreExact
    <3> QED BY <2>1, <3>1, <3>2, <3>3
  <2>3. CASE ~ Store(t)
    <3>1. send_next' = send_next
      <4>1. CASE Lowers(t)
        BY <4>1, LowersFrame
      <4>2. CASE ~ Lowers(t)
        BY <1>6, <2>3, <4>2
           DEF Step, Lowers, Fields, Sequence, Load, Copy, AddBlock, Pick, RemoveHead, shared
      <4> QED BY <4>1, <4>2
    <3>2. threads'[t].pc = "store" => threads'[t].loaded = send_next
      BY <1>6, <2>3, LoadsOnly
    <3> QED BY <2>1, <3>1, <3>2
  <2> QED BY <2>2, <2>3
<1> QED BY <1>1, <1>2, <1>3, <1>4, <1>5, <1>6, StreamCases

\* The stream stays ahead of every header that is done.
LEMMA StreamStep ==
  ASSUME Types, Names, Solo, OwnPacket, NoOverflow, Stream, Ahead, NoWrap, [Next]_vars
  PROVE  Stream'
<1> SUFFICES ASSUME NEW p \in DOMAIN packets', Done(p)'
             PROVE  /\ send_next' >= End(p)'
                    /\ \A t \in Threads : threads'[t].pc = "store" => threads'[t].loaded >= End(p)'
                    /\ \A t \in Threads : counting'[t] # None => counting'[t] >= End(p)'
                    /\ \A q \in DOMAIN packets' : Done(q)' /\ q < p => packets'[p].header.seq >= End(q)'
  BY DEF Stream, None
<1>0. Clear(p)' /\ p \notin misnumbered'
  BY DEF Done, Clear
<1>1. CASE p \in DOMAIN packets /\ Done(p) /\ packets'[p].header = packets[p].header
           /\ packets'[p].size = packets[p].size
  <2>1. End(p)' = End(p)
    BY <1>1 DEF End
  <2>2. /\ send_next >= End(p)
        /\ \A t \in Threads : threads[t].pc = "store" => threads[t].loaded >= End(p)
        /\ \A t \in Threads : counting[t] # None => counting[t] >= End(p)
    BY <1>1 DEF Stream
  <2>3. /\ End(p) \in Nat /\ send_next \in Nat /\ \A t \in Threads : threads[t].loaded \in Nat
        /\ \A t \in Threads : counting[t] # None => counting[t] \in Nat
    BY <1>1, EndType, NumberTypes
  <2>4. send_next' >= End(p)
    <3>1. CASE send_next' = send_next
      BY <2>2, <3>1
    <3>2. ASSUME NEW t \in Threads, threads[t].pc = "store",
                 send_next' = threads[t].loaded + Mine(t).size
          PROVE  send_next' >= End(p)
      <4>1. PICK loaded \in Nat : loaded = threads[t].loaded
        BY <2>3
      <4>2. PICK size \in Nat : size = Mine(t).size
        BY <3>2, StoreExact
      <4>3. loaded >= End(p)
        BY <2>2, <3>2, <4>1
      <4> QED BY <2>3, <3>2, <4>1, <4>2, <4>3
    <3>3. ASSUME NEW t \in Threads, counting[t] # None, send_next' = counting[t] + 1
          PROVE  send_next' >= End(p)
      <4>1. PICK count \in Nat : count = counting[t]
        BY <2>3, <3>3
      <4>2. count >= End(p)
        BY <2>2, <3>3, <4>1
      <4> QED BY <2>3, <3>3, <4>1, <4>2
    <3>4. ~ (DOMAIN packets \subseteq misnumbered')
      BY <1>0, <1>1
    <3> QED BY <3>1, <3>2, <3>3, <3>4, SendNextStep
  <2>5. \A t \in Threads : threads'[t].pc = "store" => threads'[t].loaded >= End(p)
    BY <2>2, SendNextStep
  <2>6. \A t \in Threads : counting'[t] # None => counting'[t] >= End(p)
    BY <2>2, SendNextStep
  <2>7. ASSUME NEW q \in DOMAIN packets', Done(q)', q < p PROVE packets'[p].header.seq >= End(q)'
    <3>1. CASE q \in DOMAIN packets /\ Done(q) /\ packets'[q].header = packets[q].header
               /\ packets'[q].size = packets[q].size
      <4>1. packets[p].header.seq >= End(q)
        BY <1>1, <2>7, <3>1 DEF Stream
      <4> QED BY <1>1, <3>1, <4>1 DEF End
    <3>2. ASSUME NEW t \in Threads, Copy(t), q = threads[t].packet PROVE FALSE
      <4>1. Clear(q)
        BY <2>7, <3>2, CopyClear DEF Done
      <4>2. p < q /\ q \in DOMAIN packets
        BY <1>1, <3>2, <4>1, CopyDone
      <4>3. p \in Nat /\ q \in Nat
        BY <1>1, <4>2 DEF Types
      <4> QED BY <2>7, <4>2, <4>3
    <3> QED BY <2>7, <3>1, <3>2, DoneStep
  <2> QED BY <2>1, <2>4, <2>5, <2>6, <2>7
<1>2. ASSUME NEW t \in Threads, Copy(t), p = threads[t].packet
      PROVE  /\ send_next' >= End(p)'
             /\ \A u \in Threads : threads'[u].pc = "store" => threads'[u].loaded >= End(p)'
             /\ \A u \in Threads : counting'[u] # None => counting'[u] >= End(p)'
             /\ \A q \in DOMAIN packets' : Done(q)' /\ q < p => packets'[p].header.seq >= End(q)'
  <2>1. Clear(p)
    BY <1>0, <1>2, CopyClear
  <2>2. /\ p \in DOMAIN packets /\ ~ Done(p)
        /\ packets'[p].header = out_header
        /\ packets'[p].size = packets[p].size /\ send_next = out_header.seq + packets[p].size
        /\ \A q \in DOMAIN packets : Done(q) => out_header.seq >= End(q)
        /\ \A u \in Threads : Writes(u) => u = t
        /\ \A u \in Threads : counting[u] = None
    BY <1>2, <2>1, CopyDone
  <2>3. send_next' = send_next /\ counting' = counting
    BY <1>2 DEF Copy, shared, numbers
  <2>4. End(p)' = send_next
    BY <2>2 DEF End
  <2>5. send_next' >= End(p)'
    BY <2>3, <2>4, NumberTypes
  <2>6. \A u \in Threads : threads'[u].pc # "store"
    <3> TAKE u \in Threads
    <3>1. CASE u = t
      BY <1>2, <3>1, CopyEffect DEF Moves
    <3>2. CASE u # t
      <4>1. threads'[u] = threads[u] /\ ~ Writes(u)
        BY <1>2, <2>2, <3>2, CopyEffect DEF Moves
      <4> QED BY <4>1 DEF Writes
    <3> QED BY <3>1, <3>2
  <2>7. ASSUME NEW q \in DOMAIN packets', Done(q)', q < p PROVE packets'[p].header.seq >= End(q)'
    <3>1. q # p
      BY <2>2, <2>7 DEF Types
    <3>2. \A u \in Threads : Copy(u) => u = t
      <4>1. \A u \in Threads : Copy(u) => Writes(u)
        BY CopyEffect
      <4> QED BY <2>2, <4>1
    <3>3. q \in DOMAIN packets /\ Done(q) /\ packets'[q].header = packets[q].header
          /\ packets'[q].size = packets[q].size
      BY <1>2, <2>7, <3>1, <3>2, DoneStep
    <3> QED BY <2>2, <3>3 DEF End
  <2>8. \A u \in Threads : counting'[u] = None
    BY <2>2, <2>3
  <2> QED BY <2>5, <2>6, <2>7, <2>8
<1> QED BY <1>1, <1>2, DoneStep

\* The header under way is built for its packet.
LEMMA UnderWayStep ==
  ASSUME Types, Names, Solo, OwnPacket, UnderWay, [Next]_vars
  PROVE  UnderWay'
<1> SUFFICES ASSUME NEW u \in Threads, Writes(u)', threads'[u].packet \notin mixed'
             PROVE  UnderWayOK(u, threads[u].packet)'
  BY DEF UnderWay
<1>1. PICK p : p = threads'[u].packet
  OBVIOUS
<1>2. SUFFICES UnderWayOK(u, p)'
  BY <1>1 DEF UnderWayOK
<1>d. DOMAIN packets = 1 .. Len(packets)
  BY DEF Types
<1>3. ASSUME threads' = threads, out_header' = out_header, mixed' = mixed,
             \A q \in 1 .. Len(packets) : packets'[q] = packets[q]
      PROVE  UnderWayOK(u, p)'
  <2>1. Writes(u) /\ p = threads[u].packet /\ p \notin mixed
    BY <1>1, <1>3 DEF Writes
  <2>2. UnderWayOK(u, p)
    BY <2>1 DEF UnderWay
  <2>3. p \in 1 .. Len(packets)
    BY <2>1, PacketOfThread
  <2> QED BY <1>3, <2>2, <2>3 DEF UnderWayOK
<1>4. ASSUME threads' = threads, out_header' = out_header, mixed' = mixed, packets' = packets
      PROVE  UnderWayOK(u, p)'
  BY <1>3, <1>4
<1>5. CASE Beside
  BY <1>4, <1>5 DEF Beside
<1>6. ASSUME NEW t \in Threads, CountLoad(t) \/ CountStore(t) PROVE UnderWayOK(u, p)'
  BY <1>4, <1>6 DEF CountLoad, CountStore, shared
<1>9. CASE ArpRead
  <2>1. \A q \in 1 .. Len(packets) : packets'[q] = packets[q]
    BY <1>9, ArpEffect DEF OneMore
  <2>2. threads' = threads /\ out_header' = out_header /\ mixed' = mixed
    BY <1>9 DEF ArpRead, shared
  <2> QED BY <1>3, <2>1, <2>2
<1>10. ASSUME NEW t \in Threads, CallOf(t)
       PROVE  UnderWayOK(u, p)'
  <2>1. /\ \A v \in Threads : v # t => threads'[v] = threads[v]
        /\ threads'[t].pc = "fields"
        /\ \A v \in Threads : Writes(v) => threads[v].packet \in mixed'
    BY <1>10, CallViews
  <2>2. CASE u = t
    BY <2>1, <2>2 DEF UnderWayOK
  <2>3. CASE u # t
    <3>1. Writes(u) /\ threads[u].packet = threads'[u].packet
      BY <2>1, <2>3 DEF Writes
    <3> QED BY <2>1, <3>1
  <2> QED BY <2>2, <2>3
<1>11. ASSUME NEW t \in Threads, Step(t) PROVE UnderWayOK(u, p)'
  <2>1. /\ Writes(t) /\ SamePackets /\ mixed' = mixed
        /\ \A v \in Threads : v # t => threads'[v] = threads[v]
    BY <1>11, StepFrames DEF StepFrame
  <2>2. u = t
    <3> SUFFICES ASSUME u # t PROVE FALSE
      OBVIOUS
    <3>1. threads[u] = threads'[u] /\ Writes(u)
      BY <2>1 DEF Writes
    <3>2. threads[u].packet \in DOMAIN packets /\ threads[u].packet \notin mixed
      BY <1>d, <2>1, <3>1, PacketOfThread
    <3> QED BY <2>1, <3>2, OnlyWriter
  <2>3. PICK own \in DOMAIN packets : own = threads[t].packet
    BY <1>d, <2>1, PacketOfThread
  <2>4. out_header \in Header
    BY DEF Types
  <2>5. ASSUME threads'[t].pc \in {"pick", "lower", "remove", "idle"} PROVE UnderWayOK(u, p)'
    BY <2>2, <2>5 DEF UnderWayOK
  <2>6. ASSUME NEW pc \in Pcs, pc # "add", Moves(t, pc), out_header'.of = own PROVE UnderWayOK(u, p)'
    <3>1. threads'[t].pc = pc /\ p = own
      BY <1>1, <2>2, <2>3, <2>6 DEF Moves
    <3> QED BY <2>2, <2>6, <3>1 DEF UnderWayOK
  <2>7. CASE Fields(t)
    <3>1. Goto(t, "sequence") /\ "sequence" \in Pcs
          /\ out_header' = [out_header EXCEPT !.of = threads[t].packet]
      BY <2>7 DEF Fields, Pcs
    <3>2. out_header'.of = own
      BY <2>3, <2>4, <3>1 DEF Header
    <3> QED BY <2>6, <3>1, <3>2, GotoMoves
  <2>8. ASSUME threads[t].pc \in {"sequence", "load", "store"}, threads'[t].packet = threads[t].packet
        PROVE  out_header.of = own
    <3>1. own \notin mixed
      BY <1>1, <2>1, <2>2, <2>3, <2>8
    <3>2. UnderWayOK(t, own)
      BY <2>1, <2>3, <3>1 DEF UnderWay
    <3> QED BY <2>8, <3>2 DEF UnderWayOK
  <2>9. CASE Sequence(t)
    <3>1. PICK pc \in {"load", "copy"} : Goto(t, pc)
      BY <2>9 DEF Sequence
    <3>2. pc \in Pcs /\ threads[t].pc = "sequence" /\ out_header' = [out_header EXCEPT !.seq = send_next]
      BY <2>9 DEF Sequence, Pcs, At
    <3>3. Moves(t, pc) /\ threads'[t].packet = threads[t].packet
      BY <3>1, <3>2, GotoMoves DEF Moves
    <3>4. out_header'.of = own
      BY <2>4, <2>8, <3>2, <3>3 DEF Header
    <3> QED BY <2>6, <3>2, <3>3, <3>4
  <2>10. CASE Load(t)
    <3>1. threads[t].pc = "load" /\ out_header' = out_header /\ "store" \in Pcs
      BY <2>10 DEF Load, At, shared, Pcs
    <3>2. Moves(t, "store") /\ threads'[t].packet = threads[t].packet
      BY <2>10, LoadMoves DEF Moves
    <3>3. out_header.of = own
      BY <2>8, <3>1, <3>2
    <3> QED BY <2>6, <3>1, <3>2, <3>3
  <2>11. CASE Store(t)
    <3>1. threads[t].pc = "store" /\ out_header' = out_header /\ "copy" \in Pcs /\ Goto(t, "copy")
      BY <2>11 DEF Store, At, Pcs
    <3>2. Moves(t, "copy") /\ threads'[t].packet = threads[t].packet
      BY <3>1, GotoMoves DEF Moves
    <3>3. out_header.of = own
      BY <2>8, <3>1, <3>2
    <3> QED BY <2>6, <3>1, <3>2, <3>3
  <2>12. CASE Copy(t)
    <3>1. threads'[t].pc = "add" /\ threads'[t].packet = own /\ packets'[own].header = out_header
      BY <2>3, <2>12, CopyEffect DEF Moves
    <3>2. out_header' = out_header /\ p = own
      BY <1>1, <2>2, <2>12, <3>1 DEF Copy, shared
    <3> QED BY <2>2, <3>1, <3>2 DEF UnderWayOK
  <2>13. CASE AddBlock(t)
    <3>1. CASE fault' = fault
      BY <2>5, <2>13, <3>1, AddEffect DEF Moves
    <3>2. CASE fault' # fault
      BY <1>4, <2>13, <3>2 DEF AddBlock
    <3> QED BY <3>1, <3>2
  <2>14. CASE Pick(t)
    BY <2>5, <2>14, PickReturns, PickMoves DEF Leaves
  <2>15. CASE Lowers(t)
    <3>1. CASE fault' = fault
      BY <2>5, <2>15, <3>1, LowerEffect DEF Moves, Leaves
    <3>2. CASE fault' # fault
      BY <1>4, <2>15, <3>2, LowersFrame
    <3> QED BY <3>1, <3>2
  <2>16. CASE RemoveHead(t)
    <3>1. Goto(t, "pick") /\ "pick" \in Pcs
      BY <2>16 DEF RemoveHead, Pcs
    <3> QED BY <2>5, <3>1, GotoMoves DEF Moves
  <2> QED BY <1>11, <2>7, <2>9, <2>10, <2>11, <2>12, <2>13, <2>14, <2>15, <2>16 DEF Step, Lowers
<1> QED BY <1>5, <1>6, <1>9, <1>10, <1>11, StreamCases

\* A thread keeps its packet until it returns.
LEMMA StepOwn ==
  ASSUME Types, Names, OwnPacket, NEW t \in Threads, Step(t)
  PROVE  threads'[t].packet = threads[t].packet \/ ~ Writes(t)'
<1>1. CASE threads[t].pc \in Early \ {"add"} /\ ~ Copy(t)
  BY <1>1, StepFrames DEF StepFrame
<1>2. CASE Copy(t)
  BY <1>2, CopyEffect DEF Moves
<1>3. CASE AddBlock(t)
  <2>1. CASE fault' = fault
    BY <1>3, <2>1, AddEffect DEF Moves
  <2>2. CASE fault' # fault
    BY <1>3, <2>2 DEF AddBlock
  <2> QED BY <2>1, <2>2
<1>4. CASE Pick(t)
  BY <1>4, PickReturns, PickMoves DEF Leaves, Writes
<1>5. CASE Lowers(t)
  <2>1. CASE fault' = fault
    BY <1>5, <2>1, LowerEffect DEF Moves, Leaves, Writes
  <2>2. CASE fault' # fault
    BY <1>5, <2>2, LowersFrame
  <2> QED BY <2>1, <2>2
<1>6. CASE RemoveHead(t)
  <2>1. Goto(t, "pick") /\ "pick" \in Pcs
    BY <1>6 DEF RemoveHead, Pcs
  <2> QED BY <2>1, GotoMoves DEF Moves
<1>7. Fields(t) \/ Sequence(t) \/ Load(t) \/ Store(t) => threads[t].pc \in Early \ {"add"} /\ ~ Copy(t)
  BY DEF Fields, Sequence, Load, Store, Copy, At, Early
<1> QED BY <1>1, <1>2, <1>3, <1>4, <1>5, <1>6, <1>7 DEF Step, Lowers

\* The sequence number under way is behind the stream so far.
LEMMA AheadStep ==
  ASSUME Types, Names, Solo, OwnPacket, NoOverflow, Stream, Ahead, NoWrap, [Next]_vars
  PROVE  Ahead'
<1> SUFFICES ASSUME NEW u \in Threads, Writes(u)', Clear(threads[u].packet)'
             PROVE  AheadOK(u, threads[u].packet)'
  BY DEF Ahead
<1>1. PICK p : p = threads'[u].packet
  OBVIOUS
<1>c. Clear(p)' /\ p \notin mixed' /\ p \notin misnumbered'
  BY <1>1 DEF Clear, Apart, TcpPacket, IsTcp
<1>2. SUFFICES AheadOK(u, p)'
  BY <1>1 DEF AheadOK
<1>d. DOMAIN packets = 1 .. Len(packets)
  BY DEF Types
<1>e. ASSUME Writes(u), p = threads[u].packet PROVE p \in DOMAIN packets /\ Clear(p) /\ AheadOK(u, p)
  <2>1. p \in DOMAIN packets
    BY <1>d, <1>e, PacketOfThread
  <2>2. Clear(p)
    BY <1>c, <2>1, ClearStep
  <2> QED BY <1>e, <2>1, <2>2 DEF Ahead
<1>f. ASSUME \A v \in Threads : ~ Copy(v)
      PROVE  \A q : Done(q)' => q \in DOMAIN packets /\ Done(q) /\ End(q)' = End(q)
  <2> TAKE q
  <2> HAVE Done(q)'
  <2>1. q \in DOMAIN packets /\ Done(q)
        /\ packets'[q].header = packets[q].header /\ packets'[q].size = packets[q].size
    BY <1>f, DoneStep
  <2> QED BY <2>1 DEF End
<1>g. \A v \in Threads : Copy(v) => threads[v].pc = "copy" /\ threads'[v].pc = "add"
  BY CopyEffect DEF Copy, At, Moves
<1>3. ASSUME threads' = threads, out_header' = out_header, send_next' = send_next, counting' = counting,
             \A q \in 1 .. Len(packets) : packets'[q] = packets[q]
      PROVE  AheadOK(u, p)'
  <2>1. Writes(u) /\ p = threads[u].packet
    BY <1>1, <1>3 DEF Writes
  <2>2. AheadOK(u, p) /\ p \in 1 .. Len(packets)
    BY <1>d, <1>e, <2>1
  <2>3. \A v \in Threads : ~ Copy(v)
    BY <1>3, <1>g
  <2>4. \A q : Done(q)' => q \in DOMAIN packets /\ Done(q) /\ End(q)' = End(q)
    BY <1>f, <2>3
  <2>5. threads[u].pc \in {"load", "store", "copy"} =>
          \A q \in DOMAIN packets' : Done(q)' => out_header'.seq >= End(q)'
    BY <1>3, <2>2, <2>4 DEF AheadOK
  <2>6. packets'[p] = packets[p]
    BY <1>3, <2>2
  <2>7. \A v \in Threads : counting'[v] = None
    BY <1>3, <2>2 DEF AheadOK
  <2> QED BY <1>3, <2>2, <2>5, <2>6, <2>7 DEF AheadOK, None
<1>4. ASSUME threads' = threads, out_header' = out_header, send_next' = send_next, counting' = counting,
             packets' = packets
      PROVE  AheadOK(u, p)'
  BY <1>3, <1>4
<1>5. CASE Beside
  BY <1>4, <1>5 DEF Beside
<1>6. CASE ArpRead
  <2>1. \A q \in 1 .. Len(packets) : packets'[q] = packets[q]
    BY <1>6, ArpEffect DEF OneMore
  <2>2. threads' = threads /\ out_header' = out_header /\ send_next' = send_next /\ counting' = counting
    BY <1>6 DEF ArpRead, shared, numbers
  <2> QED BY <1>3, <2>1, <2>2
<1>7. ASSUME NEW t \in Threads, CountLoad(t) PROVE FALSE
  <2>1. /\ threads' = threads
        /\ misnumbered' = misnumbered \union {threads[other].packet : other \in Inside}
    BY <1>7 DEF CountLoad
  <2>2. u \in Inside /\ p = threads[u].packet
    BY <1>1, <2>1 DEF Inside, Writes
  <2> QED BY <1>c, <2>1, <2>2
<1>8. ASSUME NEW t \in Threads, CountStore(t) PROVE FALSE
  <2>1. threads' = threads /\ counting[t] # None
    BY <1>8 DEF CountStore
  <2>2. Writes(u) /\ p = threads[u].packet
    BY <1>1, <2>1 DEF Writes
  <2>3. AheadOK(u, p)
    BY <1>e, <2>2
  <2> QED BY <2>1, <2>3 DEF AheadOK
<1>9. ASSUME NEW t \in Threads, CallOf(t) PROVE AheadOK(u, p)'
  <2>1. /\ \A v \in Threads : v # t => threads'[v] = threads[v]
        /\ threads'[t].pc = "fields" /\ threads'[t].packet = Len(packets) + 1 /\ counting' = counting
        /\ \A v \in Threads : Writes(v) => threads[v].packet \in mixed'
        /\ (\A v \in Threads : counting[v] = None) \/ Len(packets) + 1 \in misnumbered'
    BY <1>9, CallViews
  <2>2. u = t
    <3> SUFFICES ASSUME u # t PROVE FALSE
      OBVIOUS
    <3>1. Writes(u) /\ threads[u].packet = p
      BY <1>1, <2>1 DEF Writes
    <3> QED BY <1>c, <2>1, <3>1
  <2>3. \A v \in Threads : counting'[v] = None
    BY <1>1, <1>c, <2>1, <2>2
  <2> QED BY <2>1, <2>2, <2>3 DEF AheadOK, None
<1>10. ASSUME NEW t \in Threads, Step(t) PROVE AheadOK(u, p)'
  <2>1. /\ Writes(t) /\ SamePackets /\ mixed' = mixed /\ counting' = counting
        /\ \A v \in Threads : v # t => threads'[v] = threads[v]
    BY <1>10, StepFrames DEF StepFrame
  <2>2. u = t
    <3> SUFFICES ASSUME u # t PROVE FALSE
      OBVIOUS
    <3>1. threads[u] = threads'[u] /\ Writes(u) /\ threads[u].packet = p
      BY <1>1, <2>1 DEF Writes
    <3>2. threads[u].packet \in DOMAIN packets /\ threads[u].packet \notin mixed
      BY <1>c, <1>d, <2>1, <3>1, PacketOfThread
    <3> QED BY <2>1, <3>2, OnlyWriter
  <2>3. PICK own \in DOMAIN packets : own = threads[t].packet
    BY <1>d, <2>1, PacketOfThread
  <2>4. out_header \in Header
    BY DEF Types
  <2>5. p = own
    <3>1. threads'[t].packet = threads[t].packet \/ ~ Writes(t)'
      BY <1>10, StepOwn
    <3> QED BY <1>1, <2>2, <2>3, <3>1
  <2>6. AheadOK(t, own) /\ Clear(own)
    BY <1>e, <2>1, <2>2, <2>3, <2>5
  <2>7. \A v \in Threads : counting'[v] = None
    BY <2>1, <2>6 DEF AheadOK
  <2>8. ASSUME threads'[t].pc \in {"add", "pick", "lower", "remove", "idle"} PROVE AheadOK(u, p)'
    BY <2>2, <2>7, <2>8 DEF AheadOK, None
  <2>9. ASSUME ~ Copy(t)
        PROVE  \A q : Done(q)' => q \in DOMAIN packets /\ Done(q) /\ End(q)' = End(q)
    <3>1. \A v \in Threads : ~ Copy(v)
      BY <1>g, <2>1, <2>9
    <3> QED BY <1>f, <3>1
  <2>10. packets'[own].size = packets[own].size
    BY <1>d, <2>1 DEF SamePackets
  <2>11. CASE Fields(t)
    <3>1. Goto(t, "sequence") /\ "sequence" \in Pcs
      BY <2>11 DEF Fields, Pcs
    <3>2. threads'[t].pc = "sequence"
      BY <3>1, GotoMoves DEF Moves
    <3> QED BY <2>2, <2>7, <3>2 DEF AheadOK, None
  <2>12. CASE Sequence(t)
    <3>1. PICK pc \in {"load", "copy"} : Goto(t, pc) /\ pc = IF Mine(t).size > 0 THEN "load" ELSE "copy"
      BY <2>12 DEF Sequence
    <3>2. /\ pc \in Pcs /\ threads[t].pc = "sequence"
          /\ out_header' = [out_header EXCEPT !.seq = send_next] /\ send_next' = send_next
      BY <2>12 DEF Sequence, Pcs, At
    <3>3. threads'[t].pc = pc /\ ~ Copy(t)
      BY <1>g, <3>1, <3>2, GotoMoves DEF Moves
    <3>4. out_header'.seq = send_next
      BY <2>4, <3>2 DEF Header
    <3>5. \A q \in DOMAIN packets' : Done(q)' => out_header'.seq >= End(q)'
      BY <2>9, <3>3, <3>4 DEF Stream
    <3>6. pc = "copy" => send_next' = out_header'.seq + packets'[p].size
      <4>1. packets'[p].size = Mine(t).size
        BY <2>3, <2>5, <2>10 DEF Mine
      <4>2. Mine(t).size \in Nat
        BY <2>3, EndType DEF Mine
      <4>3. send_next \in Nat
        BY NumberTypes
      <4> QED BY <3>1, <3>2, <3>4, <4>1, <4>2, <4>3
    <3> QED BY <2>2, <2>7, <3>2, <3>3, <3>4, <3>5, <3>6 DEF AheadOK, None
  <2>13. CASE Load(t)
    <3>1. threads[t].pc = "load" /\ out_header' = out_header /\ send_next' = send_next
      BY <2>13 DEF Load, At, shared
    <3>2. threads'[t].pc = "store" /\ threads'[t].loaded = send_next /\ ~ Copy(t)
      BY <1>g, <2>13, <3>1, LoadMoves DEF Moves
    <3>3. /\ send_next = out_header.seq
          /\ \A q \in DOMAIN packets : Done(q) => out_header.seq >= End(q)
      BY <2>6, <3>1 DEF AheadOK
    <3>4. \A q \in DOMAIN packets' : Done(q)' => out_header'.seq >= End(q)'
      BY <2>9, <3>1, <3>2, <3>3
    <3>5. threads'[t].loaded = out_header'.seq
      BY <3>1, <3>2, <3>3
    <3> QED BY <2>2, <2>7, <3>2, <3>4, <3>5 DEF AheadOK, None
  <2>14. CASE Store(t)
    <3>1. /\ Goto(t, "copy") /\ "copy" \in Pcs /\ out_header' = out_header
          /\ threads[t].pc = "store" /\ send_next' = Plus(threads[t].loaded, Mine(t).size)
      BY <2>14 DEF Store, Pcs, At
    <3>2. threads'[t].pc = "copy" /\ ~ Copy(t)
      BY <1>g, <3>1, GotoMoves DEF Moves
    <3>3. /\ threads[t].loaded = out_header.seq
          /\ \A q \in DOMAIN packets : Done(q) => out_header.seq >= End(q)
      BY <2>6, <3>1 DEF AheadOK
    <3>4. send_next' = threads[t].loaded + Mine(t).size
      BY <3>1, StoreExact
    <3>5. send_next' = out_header'.seq + packets'[p].size
      BY <2>3, <2>5, <2>10, <3>1, <3>3, <3>4 DEF Mine
    <3>6. \A q \in DOMAIN packets' : Done(q)' => out_header'.seq >= End(q)'
      BY <2>9, <3>1, <3>2, <3>3
    <3> QED BY <2>2, <2>7, <3>2, <3>5, <3>6 DEF AheadOK, None
  <2>15. CASE Copy(t) \/ AddBlock(t) \/ Pick(t) \/ Lowers(t) \/ RemoveHead(t)
    <3>1. ~ (threads[t].pc \in Early \ {"add"} /\ ~ Copy(t))
      BY <2>15, LowersFrame DEF AddBlock, Pick, RemoveHead, At, Early
    <3> QED BY <1>10, <2>8, <3>1, LateSteps
  <2> QED BY <1>10, <2>11, <2>12, <2>13, <2>14, <2>15 DEF Step, Lowers
<1> QED BY <1>5, <1>6, <1>7, <1>8, <1>9, <1>10, StreamCases

-----------------------------------------------------------------------------
(* The order of the queue and of the wire *)

\* Steps that leave the queue alone, and put nothing on the wire that is clear.
LEMMA OrderKept ==
  ASSUME Types, Names, OwnPacket, [Next]_vars, Order, out_buffer' = out_buffer,
         \A i \in DOMAIN wire' : \/ i \in DOMAIN wire /\ wire'[i] = wire[i]
                                 \/ ~ Clear(wire[i])',
         \A p : InQueue(p) => packets'[p].header = packets[p].header,
         \A p : Removing(p) => Removing(p)'
  PROVE  Order'
<1>1. \A i \in DOMAIN out_buffer :
        /\ Clear(out_buffer[i].packet)' => Clear(out_buffer[i].packet)
        /\ InQueue(out_buffer[i].packet)
  <2> TAKE i \in DOMAIN out_buffer
  <2>1. PICK p : p = out_buffer[i].packet
    OBVIOUS
  <2>2. p \in DOMAIN packets /\ InQueue(p)
    BY <2>1 DEF Names, TcpPacket, InQueue
  <2>3. Clear(p)' => Clear(p)
    BY <2>2, ClearStep
  <2>4. out_buffer'[i].packet = p
    BY <2>1
  <2>5. Clear(out_buffer[i].packet)' => Clear(p)'
    BY <2>4 DEF Clear, Apart, TcpPacket, IsTcp
  <2> QED BY <2>1, <2>2, <2>3, <2>5
<1>2. \A i \in DOMAIN wire' : Clear(wire[i])' =>
        i \in DOMAIN wire /\ wire'[i] = wire[i] /\ Clear(wire[i])
  <2> TAKE i \in DOMAIN wire'
  <2> HAVE Clear(wire[i])'
  <2>1. i \in DOMAIN wire /\ wire'[i] = wire[i]
    OBVIOUS
  <2>2. PICK p : p = wire[i]
    OBVIOUS
  <2>3. p \in DOMAIN packets
    BY <2>1, <2>2 DEF Names
  <2>4. Clear(p)'
    BY <2>1, <2>2 DEF Clear, Apart, TcpPacket, IsTcp
  <2> QED BY <2>1, <2>2, <2>3, <2>4, ClearStep
<1>3. InOrder(out_buffer)'
  BY DEF Order, InOrder
<1>4. SeqKept'
  BY <1>1 DEF Order, SeqKept
<1>5. Rising'
  BY <1>1 DEF Order, Rising
<1>6. Behind'
  <2> SUFFICES ASSUME NEW i \in DOMAIN wire', NEW j \in DOMAIN out_buffer',
                      Clear(wire[i])', Clear(out_buffer[j].packet)'
               PROVE  \/ wire'[i] < out_buffer'[j].packet
                      \/ wire'[i] = out_buffer'[j].packet /\ Removing(wire[i])' /\ j = 1
    BY DEF Behind
  <2>1. i \in DOMAIN wire /\ wire'[i] = wire[i] /\ Clear(wire[i]) /\ Clear(out_buffer[j].packet)
    BY <1>1, <1>2
  <2>2. \/ wire[i] < out_buffer[j].packet
        \/ wire[i] = out_buffer[j].packet /\ Removing(wire[i]) /\ j = 1
    BY <2>1 DEF Order, Behind
  <2>3. PICK p : p = wire[i]
    OBVIOUS
  <2>4. Removing(p) => Removing(wire[i])'
    BY <2>1, <2>3 DEF Removing
  <2> QED BY <2>1, <2>2, <2>3, <2>4
<1>7. LeaveInOrder'
  <2> SUFFICES ASSUME NEW i \in DOMAIN wire', NEW j \in DOMAIN wire', i < j,
                      {wire'[i], wire'[j]} \subseteq Numbered', IsTcp(wire[i])', IsTcp(wire[j])'
               PROVE  wire'[i] < wire'[j]
    BY DEF LeaveInOrder
  <2>1. Clear(wire[i])' /\ Clear(wire[j])'
    BY DEF Clear, Apart, TcpPacket, Numbered, Undisturbed
  <2>2. /\ i \in DOMAIN wire /\ wire'[i] = wire[i] /\ Clear(wire[i])
        /\ j \in DOMAIN wire /\ wire'[j] = wire[j] /\ Clear(wire[j])
    BY <1>2, <2>1
  <2> QED BY <2>2 DEF Order, LeaveInOrder, Numbered, Undisturbed, Clear, Apart, TcpPacket
<1> QED BY <1>3, <1>4, <1>5, <1>6, <1>7 DEF Order

\* The header of a packet in the queue is done.
LEMMA QueuedDone ==
  ASSUME Types, Names, Fresh, NEW p, InQueue(p), Clear(p)
  PROVE  Done(p)
<1>1. p \in DOMAIN packets /\ DOMAIN packets = 1 .. Len(packets) /\ IsTcp(p)
  BY DEF Clear, Apart, TcpPacket, Types
<1>2. \A t \in Threads :
        threads[t].packet = p => threads[t].pc \in {"add", "pick", "lower", "remove"}
  <2> TAKE t \in Threads
  <2> HAVE threads[t].packet = p
  <2>1. Writes(t)
    BY <1>1 DEF Names
  <2>2. threads[t].pc \notin Early
    BY DEF Fresh, FreshOK
  <2>3. threads[t].pc \in Pcs
    BY DEF Types, Thread
  <2> QED BY <2>1, <2>2, <2>3 DEF Writes, Early, Pcs
<1> QED BY <1>1, <1>2 DEF Done, HeaderDone

\* AddBlock keeps the queue in the order of the sequence numbers.
LEMMA AddInOrder ==
  ASSUME Types, Names, NEW t \in Threads, AddBlock(t), fault' = fault, InOrder(out_buffer)
  PROVE  InOrder(out_buffer)'
<1>1. fault = "none"
  BY DEF AddBlock, At, Alive
<1>2. PICK b : b = [seq |-> out_header.seq, size |-> Mine(t).size, packet |-> threads[t].packet]
  OBVIOUS
<1>3. out_buffer' = Add(out_buffer, b)
  BY <1>1, <1>2 DEF AddBlock
<1>4. Writes(t) /\ threads[t] \in Thread /\ out_header \in Header
  BY AddEffect DEF Types
<1>5. Mine(t) \in Packet
  BY <1>4, PacketOfThread DEF Mine
<1>6. Mine(t).size \in Nat /\ threads[t].packet \in Nat /\ out_header.seq \in SeqNum
  BY <1>4, <1>5, TcpWriteAssumption DEF Packet, Thread, Header
<1>7. b \in Block
  BY <1>2, <1>6 DEF Block
<1>8. PICK buf \in Seq(Block) : buf = out_buffer
  BY DEF Types
<1>9. \A c \in Block : c.seq \in SeqNum
  BY DEF Block
<1>10. InOrder(Add(buf, b))
  BY <1>7, <1>8, <1>9, AddProperties
<1> QED BY <1>3, <1>8, <1>10 DEF InOrder

\* A packet that no race touched goes behind every such packet in the queue.
LEMMA AddBehind ==
  ASSUME Types, Names, Fresh, Solo, Stream, UnderWay, Order, NEW t \in Threads,
         threads[t].pc = "add", NEW p, p = threads[t].packet, Clear(p),
         NEW old, old = out_buffer, NEW new, NEW b \in Block, NEW w \in 0 .. Len(old),
         b.packet = p, b.seq = out_header.seq, InsertedAt(old, new, b, w)
  PROVE  /\ b.seq = packets[p].header.seq
         /\ \A j \in DOMAIN old : Clear(old[j].packet) => j <= w /\ old[j].packet < p
         /\ \A i \in DOMAIN wire : Clear(wire[i]) => wire[i] < p
         /\ \A q : ~ Removing(q)
<1>1. Writes(t) /\ threads[t].pc \in Early
  BY DEF Writes, Early
<1>2. p \in DOMAIN packets /\ IsTcp(p) /\ p \notin mixed /\ DOMAIN packets = 1 .. Len(packets)
  BY DEF TcpPacket, Apart, Clear, Types
<1>3. SoloOK(t) /\ FreshOK(p)
  BY <1>1 DEF Solo, Fresh
<1>4. \A q : Clear(q) => q \in DOMAIN packets /\ q <= p
  BY <1>2, <1>3 DEF SoloOK, Clear, Apart, TcpPacket
<1>5. Done(p)
  <2>1. \A u \in Threads : threads[u].packet = p => u = t
    BY <1>1 DEF Names
  <2> QED BY <1>2, <2>1 DEF Done, HeaderDone
<1>6. b.seq = packets[p].header.seq
  BY <1>1, <1>2 DEF UnderWay, UnderWayOK
<1>7. \A u \in Threads : Writes(u) => u = t
  BY <1>2, <1>3 DEF SoloOK
<1>8. \A q : ~ Removing(q)
  BY <1>7 DEF Removing, Writes
<1>9. \A i \in DOMAIN wire : Clear(wire[i]) => wire[i] < p
  <2> TAKE i \in DOMAIN wire
  <2> HAVE Clear(wire[i])
  <2>1. wire[i] # p
    BY <1>3 DEF FreshOK, OnWire
  <2>2. wire[i] <= p /\ wire[i] \in Nat /\ p \in Nat
    BY <1>2, <1>4
  <2> QED BY <2>1, <2>2
<1>10. ASSUME NEW j \in DOMAIN old, Clear(old[j].packet) PROVE j <= w /\ old[j].packet < p
  <2>1. PICK q : q = old[j].packet
    OBVIOUS
  <2>2. InQueue(q) /\ Clear(q)
    BY <1>10, <2>1 DEF InQueue
  <2>3. q \in DOMAIN packets /\ q < p
    <3>1. q # p
      BY <1>3, <2>2 DEF FreshOK
    <3>2. q \in DOMAIN packets /\ q <= p
      BY <1>4, <2>2
    <3> QED BY <1>2, <3>1, <3>2
  <2>4. Done(q)
    BY <2>2, QueuedDone
  <2>5. packets[p].header.seq >= End(q)
    BY <1>2, <1>5, <2>3, <2>4 DEF Stream
  <2>6. old[j].seq = packets[q].header.seq
    BY <1>10, <2>1 DEF Order, SeqKept
  <2>7. /\ packets[q].header.seq \in Nat /\ packets[q].header.seq <= End(q) /\ End(q) \in Nat
        /\ packets[p].header.seq \in Nat
    BY <1>2, <2>3, EndType
  <2>8. b.seq >= old[j].seq
    BY <1>6, <2>5, <2>6, <2>7
  <2>9. j <= w
    <3> SUFFICES ASSUME ~ (j <= w) PROVE FALSE
      OBVIOUS
    <3>1. old \in Seq(Block)
      BY DEF Types
    <3>2. PICK n \in Nat : n = Len(old) /\ DOMAIN old = 1 .. n
      BY <3>1
    <3>3. w < n /\ w + 1 \in 1 .. n /\ j \in 1 .. n /\ (w + 1 = j \/ w + 1 < j)
      BY <3>2
    <3>4. ~ (b.seq >= old[w + 1].seq)
      BY <3>2, <3>3 DEF InsertedAt
    <3>5. old[w + 1].seq <= old[j].seq \/ w + 1 = j
      BY <3>2, <3>3 DEF Order, InOrder
    <3>6. old[w + 1].seq \in Nat
      <4>1. old[w + 1] \in Block
        BY <3>1, <3>2, <3>3
      <4> QED BY <4>1, SeqSpaceAssumption DEF Block, SeqNum
    <3> QED BY <1>6, <2>6, <2>7, <2>8, <3>4, <3>5, <3>6
  <2> QED BY <2>1, <2>3, <2>9
<1> QED BY <1>2, <1>6, <1>8, <1>9, <1>10

\* The order of the wire stays when nothing is put there.
LEMMA WireKept ==
  ASSUME Types, Names, OwnPacket, [Next]_vars, LeaveInOrder, wire' = wire
  PROVE  LeaveInOrder' /\ \A i \in DOMAIN wire : Clear(wire[i])' => Clear(wire[i])
<1>1. ASSUME NEW i \in DOMAIN wire, Clear(wire[i])' PROVE Clear(wire[i])
  <2>1. PICK p : p = wire[i]
    OBVIOUS
  <2>2. p \in DOMAIN packets
    BY <2>1 DEF Names
  <2>3. Clear(p)'
    BY <1>1, <2>1 DEF Clear, Apart, TcpPacket, IsTcp
  <2> QED BY <2>1, <2>2, <2>3, ClearStep
<1>2. LeaveInOrder'
  <2> SUFFICES ASSUME NEW i \in DOMAIN wire', NEW j \in DOMAIN wire', i < j,
                      {wire'[i], wire'[j]} \subseteq Numbered', IsTcp(wire[i])', IsTcp(wire[j])'
               PROVE  wire'[i] < wire'[j]
    BY DEF LeaveInOrder
  <2>1. Clear(wire[i])' /\ Clear(wire[j])'
    BY DEF Clear, Apart, TcpPacket, Numbered, Undisturbed
  <2>2. Clear(wire[i]) /\ Clear(wire[j])
    BY <1>1, <2>1
  <2> QED BY <2>2 DEF LeaveInOrder, Numbered, Undisturbed, Clear, Apart, TcpPacket
<1> QED BY <1>1, <1>2

\* AddBlock puts a packet that no race touched behind all others.
LEMMA OrderAdd ==
  ASSUME Types, Names, Fresh, Solo, OwnPacket, Stream, UnderWay, Order, NEW t \in Threads,
         AddBlock(t), fault' = fault, out_buffer' # out_buffer
  PROVE  Order'
<1>1. PICK p : p = threads[t].packet
  OBVIOUS
<1>2. PICK b \in Block, w \in 0 .. Len(out_buffer) :
        b.packet = p /\ b.seq = out_header.seq /\ InsertedAt(out_buffer, out_buffer', b, w)
  BY <1>1, AddQueue
<1>3. PICK old \in Seq(Block) : old = out_buffer
  BY DEF Types
<1>4. PICK new : new = out_buffer'
  OBVIOUS
<1>5. InsertedAt(old, new, b, w) /\ w \in 0 .. Len(old)
  BY <1>2, <1>3, <1>4
<1>6. /\ w + 1 \in DOMAIN new /\ new[w + 1] = b
      /\ \A i \in DOMAIN new : i # w + 1 =>
           \E j \in DOMAIN old : j = (IF i <= w THEN i ELSE i - 1) /\ new[i] = old[j]
  BY <1>5, InsertedView
<1>7. /\ threads[t].pc = "add" /\ wire' = wire /\ mixed' = mixed /\ misnumbered' = misnumbered
      /\ Writes(t) /\ SamePackets /\ Step(t)
  BY AddEffect DEF AddBlock, At, Step, numbers
<1>8. Next
  BY <1>7 DEF Next
<1>9. \A q : Clear(q)' <=> Clear(q)
  BY <1>7, SameViews DEF Clear, Apart
<1>10. \A q \in DOMAIN packets : packets'[q].header = packets[q].header
  <2>1. DOMAIN packets = 1 .. Len(packets)
    BY DEF Types
  <2>2. \A q \in 1 .. Len(packets) : packets'[q].header = packets[q].header
    BY AddEffect
  <2> QED BY <2>1, <2>2
<1>11. InOrder(out_buffer)'
  BY AddInOrder DEF Order
<1>12. LeaveInOrder' /\ \A i \in DOMAIN wire : Clear(wire[i])' => Clear(wire[i])
  BY <1>7, <1>8, WireKept DEF Order
<1>13. DOMAIN new \subseteq Int /\ DOMAIN old \subseteq Int /\ w \in Int
  BY <1>5 DEF InsertedAt
<1>14. SoloOK(t)
  BY <1>7 DEF Solo
<1>15. \A i \in DOMAIN new : new[i].packet = out_buffer'[i].packet /\ new[i].seq = out_buffer'[i].seq
  BY <1>4
<1>c. \A i \in DOMAIN out_buffer' : Clear(out_buffer[i].packet)' => Clear(new[i].packet)
  <2> TAKE i \in DOMAIN out_buffer'
  <2> HAVE Clear(out_buffer[i].packet)'
  <2>1. PICK q : q = out_buffer'[i].packet
    OBVIOUS
  <2>2. Clear(q)'
    BY <2>1 DEF Clear, Apart, TcpPacket, IsTcp
  <2> QED BY <1>4, <1>9, <2>1, <2>2
<1>v. ASSUME \A i \in DOMAIN new : Clear(new[i].packet) =>
               \/ new[i] = b /\ b.seq = packets[p].header.seq
               \/ \E j \in DOMAIN old : new[i] = old[j]
      PROVE  SeqKept'
  <2> SUFFICES ASSUME NEW i \in DOMAIN out_buffer', Clear(out_buffer[i].packet)'
               PROVE  out_buffer'[i].seq = packets'[out_buffer'[i].packet].header.seq
    BY DEF SeqKept
  <2>1. PICK q : q = out_buffer'[i].packet
    OBVIOUS
  <2>2. Clear(q)'
    BY <2>1 DEF Clear, Apart, TcpPacket, IsTcp
  <2>3. Clear(q) /\ q \in DOMAIN packets /\ packets'[q].header = packets[q].header
    BY <1>9, <1>10, <2>2 DEF Clear, Apart, TcpPacket
  <2>4. i \in DOMAIN new /\ new[i].packet = q
    BY <1>4, <2>1
  <2>5. new[i].seq = packets[q].header.seq
    <3>1. CASE new[i] = b /\ b.seq = packets[p].header.seq
      BY <1>2, <2>4, <3>1
    <3>2. ASSUME NEW j \in DOMAIN old, new[i] = old[j] PROVE new[i].seq = packets[q].header.seq
      BY <1>3, <2>3, <2>4, <3>2 DEF Order, SeqKept
    <3> QED BY <1>v, <2>3, <2>4, <3>1, <3>2
  <2> QED BY <1>4, <2>1, <2>3, <2>5
<1>16. CASE p \in mixed
  <2>1. \A j \in DOMAIN old : old[j].packet \in mixed
    BY <1>1, <1>3, <1>14, <1>16 DEF SoloOK
  <2>2. \A i \in DOMAIN new : new[i].packet \in mixed'
    BY <1>2, <1>6, <1>7, <1>16, <2>1
  <2>3. \A i \in DOMAIN out_buffer' : ~ Clear(out_buffer[i].packet)'
    BY <1>4, <2>2 DEF Clear, Apart
  <2>4. SeqKept' /\ Rising' /\ Behind'
    BY <2>3 DEF SeqKept, Rising, Behind
  <2> QED BY <1>11, <1>12, <2>4 DEF Order
<1>17. CASE Clear(p)
  <2>1. /\ b.seq = packets[p].header.seq
        /\ \A j \in DOMAIN old : Clear(old[j].packet) => j <= w /\ old[j].packet < p
        /\ \A i \in DOMAIN wire : Clear(wire[i]) => wire[i] < p
        /\ \A q : ~ Removing(q)
    BY <1>1, <1>2, <1>3, <1>5, <1>7, <1>17, AddBehind
  <2>2. \A i \in DOMAIN new : Clear(new[i].packet) =>
          \/ i = w + 1 /\ new[i] = b
          \/ i \in DOMAIN old /\ i <= w /\ new[i] = old[i]
    <3> TAKE i \in DOMAIN new
    <3> HAVE Clear(new[i].packet)
    <3>1. CASE i = w + 1
      BY <1>6, <3>1
    <3>2. CASE i # w + 1
      <4>1. PICK j \in DOMAIN old : j = (IF i <= w THEN i ELSE i - 1) /\ new[i] = old[j]
        BY <1>6, <3>2
      <4>2. j <= w
        BY <2>1, <4>1
      <4>3. i <= w /\ j = i
        BY <1>13, <3>2, <4>1, <4>2
      <4> QED BY <4>1, <4>3
    <3> QED BY <3>1, <3>2
  <2>3. SeqKept'
    BY <1>v, <2>1, <2>2
  <2>5. Rising'
    <3> SUFFICES ASSUME NEW i \in DOMAIN out_buffer', NEW j \in DOMAIN out_buffer', i < j,
                        Clear(out_buffer[i].packet)', Clear(out_buffer[j].packet)'
                 PROVE  out_buffer'[i].packet < out_buffer'[j].packet
      BY DEF Rising
    <3>1. /\ Clear(new[i].packet) /\ Clear(new[j].packet)
          /\ i \in DOMAIN new /\ j \in DOMAIN new /\ i \in Int /\ j \in Int
      BY <1>4, <1>13, <1>c
    <3>2. i \in DOMAIN old /\ i <= w /\ new[i] = old[i]
      <4>1. j <= w + 1
        BY <1>13, <2>2, <3>1
      <4>2. i # w + 1
        BY <1>13, <3>1, <4>1
      <4> QED BY <2>2, <3>1, <4>2
    <3>3. CASE new[j] = b
      BY <1>2, <1>4, <2>1, <3>1, <3>2, <3>3
    <3>4. CASE j \in DOMAIN old /\ new[j] = old[j]
      BY <1>3, <1>4, <3>1, <3>2, <3>4 DEF Order, Rising
    <3> QED BY <2>2, <3>1, <3>3, <3>4
  <2>6. Behind'
    <3> SUFFICES ASSUME NEW i \in DOMAIN wire', NEW j \in DOMAIN out_buffer',
                        Clear(wire[i])', Clear(out_buffer[j].packet)'
                 PROVE  wire'[i] < out_buffer'[j].packet
      BY DEF Behind
    <3>1. i \in DOMAIN wire /\ Clear(wire[i]) /\ j \in DOMAIN new /\ Clear(new[j].packet)
      BY <1>4, <1>7, <1>12, <1>c
    <3>2. CASE new[j] = b
      BY <1>2, <1>4, <1>7, <2>1, <3>1, <3>2
    <3>3. CASE j \in DOMAIN old /\ new[j] = old[j]
      BY <1>3, <1>4, <1>7, <2>1, <3>1, <3>3 DEF Order, Behind
    <3> QED BY <2>2, <3>1, <3>2, <3>3
  <2> QED BY <1>11, <1>12, <2>3, <2>5, <2>6 DEF Order
<1>18. CASE p \notin mixed /\ ~ Clear(p)
  <2>1. \A q : ~ Removing(q)
    <3>1. \A u \in Threads : Writes(u) => u = t
      BY <1>1, <1>14, <1>18 DEF SoloOK
    <3> QED BY <1>7, <3>1 DEF Removing, Writes
  <2>2. \A i \in DOMAIN new : Clear(new[i].packet) =>
          \E j \in DOMAIN old : j = (IF i <= w THEN i ELSE i - 1) /\ new[i] = old[j] /\ i # w + 1
    <3> TAKE i \in DOMAIN new
    <3> HAVE Clear(new[i].packet)
    <3>1. i # w + 1
      BY <1>2, <1>6, <1>18
    <3> QED BY <1>6, <3>1
  <2>3. SeqKept'
    BY <1>v, <2>2
  <2>4. Rising'
    <3> SUFFICES ASSUME NEW i \in DOMAIN out_buffer', NEW j \in DOMAIN out_buffer', i < j,
                        Clear(out_buffer[i].packet)', Clear(out_buffer[j].packet)'
                 PROVE  out_buffer'[i].packet < out_buffer'[j].packet
      BY DEF Rising
    <3>1. /\ Clear(new[i].packet) /\ Clear(new[j].packet)
          /\ i \in DOMAIN new /\ j \in DOMAIN new /\ i \in Int /\ j \in Int
      BY <1>4, <1>13, <1>c
    <3>2. PICK k \in DOMAIN old : k = (IF i <= w THEN i ELSE i - 1) /\ new[i] = old[k] /\ i # w + 1
      BY <2>2, <3>1
    <3>3. PICK l \in DOMAIN old : l = (IF j <= w THEN j ELSE j - 1) /\ new[j] = old[l] /\ j # w + 1
      BY <2>2, <3>1
    <3>4. k < l
      BY <1>13, <3>1, <3>2, <3>3
    <3>5. old[k].packet < old[l].packet
      BY <1>3, <3>1, <3>2, <3>3, <3>4 DEF Order, Rising
    <3> QED BY <1>4, <3>2, <3>3, <3>5
  <2>5. Behind'
    <3> SUFFICES ASSUME NEW i \in DOMAIN wire', NEW j \in DOMAIN out_buffer',
                        Clear(wire[i])', Clear(out_buffer[j].packet)'
                 PROVE  wire'[i] < out_buffer'[j].packet
      BY DEF Behind
    <3>1. i \in DOMAIN wire /\ Clear(wire[i]) /\ j \in DOMAIN new /\ Clear(new[j].packet)
      BY <1>4, <1>7, <1>12, <1>c
    <3>2. PICK l \in DOMAIN old : new[j] = old[l]
      BY <2>2, <3>1
    <3> QED BY <1>3, <1>4, <1>7, <2>1, <3>1, <3>2 DEF Order, Behind
  <2> QED BY <1>11, <1>12, <2>3, <2>4, <2>5 DEF Order
<1> QED BY <1>16, <1>17, <1>18 DEF Clear, Apart

\* The head of the queue leaves behind everything that has left.
LEMMA OrderSend ==
  ASSUME Types, Names, Fresh, Solo, OwnPacket, Order, NEW t \in Threads, Lowers(t), fault' = fault,
         wire' = Append(wire, threads[t].head), Moves(t, "remove"), Clear(threads[t].head)
  PROVE  Order'
<1>1. PICK h : h = threads[t].head
  OBVIOUS
<1>2. threads[t].pc = "lower" /\ HasHead(t) /\ Writes(t) /\ SamePackets
  BY LowerEffect
<1>3. /\ \A u \in Threads : Writes(u) => u = t
      /\ 1 \in DOMAIN out_buffer /\ out_buffer[1].packet = h
  BY <1>1, <1>2, HeadAlone DEF Clear, Apart
<1>4. \A q : ~ Removing(q)
  BY <1>2, <1>3 DEF Removing, Writes
<1>5. out_buffer' = out_buffer /\ mixed' = mixed /\ misnumbered' = misnumbered
  BY LowersFrame
<1>6. \A q : Clear(q)' <=> Clear(q)
  BY <1>2, <1>5, SameViews DEF Clear, Apart
<1>7. \A q \in DOMAIN packets : packets'[q].header = packets[q].header
  <2>1. DOMAIN packets = 1 .. Len(packets)
    BY DEF Types
  <2>2. \A q \in 1 .. Len(packets) : packets'[q].header = packets[q].header
    BY LowerEffect
  <2> QED BY <2>1, <2>2
<1>8. Removing(h)'
  BY <1>1 DEF Moves, Removing
<1>9. PICK old \in Seq(Nat) : old = wire
  BY DEF Types
<1>10. PICK new : new = wire'
  OBVIOUS
<1>11. PICK n \in Nat : n = Len(old) /\ DOMAIN old = 1 .. n
  BY <1>9
<1>12. h \in Nat /\ new = Append(old, h)
  BY <1>1, <1>9, <1>10 DEF Types, Thread
<1>13. \A i \in DOMAIN new : \/ i \in DOMAIN old /\ new[i] = old[i]
                             \/ i = n + 1 /\ new[i] = h
  BY <1>11, <1>12, AppendView
<1>14. \A i \in DOMAIN new : i \in 1 .. n + 1
  BY <1>11, <1>13
<1>15. \A i \in DOMAIN out_buffer : Clear(out_buffer[i].packet)' => Clear(out_buffer[i].packet)
  <2> TAKE i \in DOMAIN out_buffer
  <2> HAVE Clear(out_buffer[i].packet)'
  <2>1. PICK q : q = out_buffer[i].packet
    OBVIOUS
  <2>2. Clear(q)'
    BY <1>5, <2>1 DEF Clear, Apart, TcpPacket, IsTcp
  <2> QED BY <1>6, <2>1, <2>2
<1>16. \A i \in DOMAIN wire' : Clear(wire[i])' => Clear(new[i])
  <2> TAKE i \in DOMAIN wire'
  <2> HAVE Clear(wire[i])'
  <2>1. PICK q : q = wire'[i]
    OBVIOUS
  <2>2. Clear(q)'
    BY <2>1 DEF Clear, Apart, TcpPacket, IsTcp
  <2> QED BY <1>6, <1>10, <2>1, <2>2
<1>17. Clear(h)
  BY <1>1
<1>18. \A i \in DOMAIN old, j \in DOMAIN out_buffer :
         Clear(old[i]) /\ Clear(out_buffer[j].packet) => old[i] < out_buffer[j].packet
  BY <1>4, <1>9 DEF Order, Behind
<1>19. InOrder(out_buffer)'
  BY <1>5 DEF Order, InOrder
<1>20. SeqKept'
  <2> SUFFICES ASSUME NEW i \in DOMAIN out_buffer', Clear(out_buffer[i].packet)'
               PROVE  out_buffer'[i].seq = packets'[out_buffer'[i].packet].header.seq
    BY DEF SeqKept
  <2>1. Clear(out_buffer[i].packet)
    BY <1>5, <1>15
  <2> QED BY <1>5, <1>7, <2>1 DEF Order, SeqKept, Clear, Apart, TcpPacket
<1>21. Rising'
  BY <1>5, <1>15 DEF Order, Rising
<1>22. Behind'
  <2> SUFFICES ASSUME NEW i \in DOMAIN wire', NEW j \in DOMAIN out_buffer',
                      Clear(wire[i])', Clear(out_buffer[j].packet)'
               PROVE  \/ wire'[i] < out_buffer'[j].packet
                      \/ wire'[i] = out_buffer'[j].packet /\ Removing(wire[i])' /\ j = 1
    BY DEF Behind
  <2>1. /\ i \in DOMAIN new /\ Clear(new[i])
        /\ j \in DOMAIN out_buffer /\ Clear(out_buffer[j].packet)
    BY <1>5, <1>10, <1>15, <1>16
  <2>2. CASE i \in DOMAIN old /\ new[i] = old[i]
    BY <1>5, <1>10, <1>18, <2>1, <2>2
  <2>3. CASE new[i] = h
    <3>1. CASE j = 1
      <4>1. wire'[i] = h /\ out_buffer'[j].packet = h
        BY <1>3, <1>5, <1>10, <2>3, <3>1
      <4>2. Removing(wire[i])'
        BY <1>8, <4>1 DEF Removing
      <4> QED BY <3>1, <4>1, <4>2
    <3>2. CASE j # 1
      <4>1. 1 < j
        BY <2>1, <3>2 DEF Types
      <4>2. h < out_buffer[j].packet
        BY <1>3, <1>17, <2>1, <4>1 DEF Order, Rising
      <4> QED BY <1>5, <1>10, <2>3, <4>2
    <3> QED BY <3>1, <3>2
  <2> QED BY <1>13, <2>1, <2>2, <2>3
<1>23. LeaveInOrder'
  <2> SUFFICES ASSUME NEW i \in DOMAIN wire', NEW j \in DOMAIN wire', i < j,
                      {wire'[i], wire'[j]} \subseteq Numbered', IsTcp(wire[i])', IsTcp(wire[j])'
               PROVE  wire'[i] < wire'[j]
    BY DEF LeaveInOrder
  <2>1. Clear(wire[i])' /\ Clear(wire[j])'
    BY DEF Clear, Apart, TcpPacket, Numbered, Undisturbed
  <2>2. i \in DOMAIN new /\ j \in DOMAIN new /\ Clear(new[i]) /\ Clear(new[j])
    BY <1>10, <1>16, <2>1
  <2>3. i \in DOMAIN old /\ new[i] = old[i]
    <3>1. i # n + 1
      BY <1>14, <2>2
    <3> QED BY <1>13, <2>2, <3>1
  <2>4. CASE j \in DOMAIN old /\ new[j] = old[j]
    <3>1. Clear(old[i]) /\ Clear(old[j])
      BY <2>2, <2>3, <2>4
    <3>2. old[i] < old[j]
      BY <1>9, <2>3, <2>4, <3>1 DEF Order, LeaveInOrder, Numbered, Undisturbed, Clear, Apart, TcpPacket
    <3> QED BY <1>10, <2>3, <2>4, <3>2
  <2>5. CASE new[j] = h
    BY <1>3, <1>10, <1>17, <1>18, <2>2, <2>3, <2>5
  <2> QED BY <1>13, <2>2, <2>4, <2>5
<1> QED BY <1>19, <1>20, <1>21, <1>22, <1>23 DEF Order

\* Without its head the queue is behind all that has left.
LEMMA OrderRemove ==
  ASSUME Types, Names, OwnPacket, Order, NEW t \in Threads, RemoveHead(t)
  PROVE  Order'
<1>1. /\ packets' = packets /\ mixed' = mixed /\ misnumbered' = misnumbered /\ wire' = wire
      /\ Step(t)
  BY DEF RemoveHead, Step, numbers
<1>2. Next
  BY <1>1 DEF Next
<1>3. PICK new : new = out_buffer'
  OBVIOUS
<1>4. /\ new \in Seq(Block)
      /\ \A i \in DOMAIN new : i + 1 \in DOMAIN out_buffer /\ new[i] = out_buffer[i + 1]
  BY <1>3, RemoveQueue
<1>5. PICK n \in Nat : n = Len(new) /\ DOMAIN new = 1 .. n
  BY <1>4
<1>6. \A q : Clear(q)' <=> Clear(q)
  BY <1>1 DEF Clear, Apart, TcpPacket, IsTcp
<1>7. \A i \in DOMAIN out_buffer' : Clear(out_buffer[i].packet)' => Clear(new[i].packet)
  <2> TAKE i \in DOMAIN out_buffer'
  <2> HAVE Clear(out_buffer[i].packet)'
  <2>1. PICK q : q = out_buffer'[i].packet
    OBVIOUS
  <2>2. Clear(q)'
    BY <2>1 DEF Clear, Apart, TcpPacket, IsTcp
  <2> QED BY <1>3, <1>6, <2>1, <2>2
<1>8. LeaveInOrder' /\ \A i \in DOMAIN wire : Clear(wire[i])' => Clear(wire[i])
  BY <1>1, <1>2, WireKept DEF Order
<1>9. \A i \in 1 .. n : i + 1 \in 1 .. Len(out_buffer)
  <2>1. DOMAIN out_buffer = 1 .. Len(out_buffer)
    BY DEF Types
  <2> QED BY <1>4, <1>5, <2>1
<1>10. InOrder(new)
  <2>1. \A i, j \in 1 .. Len(out_buffer) : i < j => out_buffer[i].seq <= out_buffer[j].seq
    BY DEF Order, InOrder
  <2>2. ASSUME NEW i \in 1 .. n, NEW j \in 1 .. n, i < j PROVE new[i].seq <= new[j].seq
    <3>1. i + 1 < j + 1
      BY <2>2
    <3>2. i + 1 \in 1 .. Len(out_buffer) /\ j + 1 \in 1 .. Len(out_buffer)
      BY <1>9
    <3>3. out_buffer[i + 1].seq <= out_buffer[j + 1].seq
      BY <2>1, <3>1, <3>2
    <3>4. new[i] = out_buffer[i + 1] /\ new[j] = out_buffer[j + 1]
      BY <1>4, <1>5
    <3> QED BY <3>3, <3>4
  <2> QED BY <1>5, <2>2 DEF InOrder
<1>11. InOrder(out_buffer)'
  BY <1>3, <1>10 DEF InOrder
<1>12. SeqKept'
  <2> SUFFICES ASSUME NEW i \in DOMAIN out_buffer', Clear(out_buffer[i].packet)'
               PROVE  out_buffer'[i].seq = packets'[out_buffer'[i].packet].header.seq
    BY DEF SeqKept
  <2>1. i \in DOMAIN new /\ Clear(new[i].packet)
    BY <1>3, <1>7
  <2>2. new[i].seq = packets[new[i].packet].header.seq
    BY <1>4, <2>1 DEF Order, SeqKept
  <2> QED BY <1>1, <1>3, <2>2
<1>13. Rising'
  <2> SUFFICES ASSUME NEW i \in DOMAIN out_buffer', NEW j \in DOMAIN out_buffer', i < j,
                      Clear(out_buffer[i].packet)', Clear(out_buffer[j].packet)'
               PROVE  out_buffer'[i].packet < out_buffer'[j].packet
    BY DEF Rising
  <2>1. i \in DOMAIN new /\ Clear(new[i].packet) /\ j \in DOMAIN new /\ Clear(new[j].packet)
    BY <1>3, <1>7
  <2>2. i + 1 < j + 1
    BY <1>5, <2>1
  <2>3. new[i].packet < new[j].packet
    BY <1>4, <2>1, <2>2 DEF Order, Rising
  <2> QED BY <1>3, <2>3
<1>14. Behind'
  <2> SUFFICES ASSUME NEW i \in DOMAIN wire', NEW j \in DOMAIN out_buffer',
                      Clear(wire[i])', Clear(out_buffer[j].packet)'
               PROVE  wire'[i] < out_buffer'[j].packet
    BY DEF Behind
  <2>1. i \in DOMAIN wire /\ Clear(wire[i]) /\ j \in DOMAIN new /\ Clear(new[j].packet)
    BY <1>1, <1>3, <1>7, <1>8
  <2>2. j + 1 # 1
    BY <1>5, <2>1
  <2>3. wire[i] < new[j].packet
    BY <1>4, <2>1, <2>2 DEF Order, Behind
  <2> QED BY <1>1, <1>3, <2>3
<1> QED BY <1>8, <1>11, <1>12, <1>13, <1>14 DEF Order

\* Every step keeps the order of the queue and of the wire.
LEMMA OrderStep ==
  ASSUME Types, Names, Fresh, Solo, OwnPacket, Stream, UnderWay, Order, [Next]_vars
  PROVE  Order'
<1>0. \A p : InQueue(p) => p \in DOMAIN packets /\ p \in 1 .. Len(packets)
  BY DEF InQueue, Names, TcpPacket, Types
<1>1. ASSUME UNCHANGED <<out_buffer, packets, wire, threads>> PROVE Order'
  <2>1. \A p : Removing(p) => Removing(p)'
    BY <1>1 DEF Removing
  <2> QED BY <1>1, <2>1, OrderKept
<1>2. CASE Beside
  BY <1>1, <1>2 DEF Beside
<1>3. ASSUME NEW t \in Threads, CountLoad(t) \/ CountStore(t) PROVE Order'
  BY <1>1, <1>3 DEF CountLoad, CountStore, shared
<1>6. CASE ArpRead
  <2>1. out_buffer' = out_buffer /\ threads' = threads
    BY <1>6 DEF ArpRead, shared
  <2>2. \A p : Removing(p) => Removing(p)'
    BY <2>1 DEF Removing
  <2>3. \A p : InQueue(p) => packets'[p].header = packets[p].header
    BY <1>0, <1>6, ArpEffect DEF OneMore
  <2>4. PICK n : n = Len(packets) + 1
    OBVIOUS
  <2>5. n \in Nat /\ packets'[n].handlers = ArpStack /\ (wire' = wire \/ wire' = Append(wire, n))
    BY <1>6, <2>4, ArpEffect DEF Types
  <2>6. ~ Clear(n)'
    BY <2>5, StacksDiffer DEF Clear, Apart, TcpPacket, IsTcp
  <2>7. \A i \in DOMAIN wire' : (i \in DOMAIN wire /\ wire'[i] = wire[i]) \/ wire'[i] = n
    <3>1. wire \in Seq(Nat)
      BY DEF Types
    <3> QED BY <2>5, <3>1, AppendView
  <2>8. \A i \in DOMAIN wire' : wire'[i] = n => ~ Clear(wire[i])'
    BY <2>6 DEF Clear, Apart, TcpPacket, IsTcp
  <2> QED BY <2>1, <2>2, <2>3, <2>7, <2>8, OrderKept
<1>7. ASSUME NEW t \in Threads, CallOf(t)
      PROVE  Order'
  <2>1. out_buffer' = out_buffer /\ wire' = wire
    BY <1>7, CallViews
  <2>2. \A u \in Threads : threads[u].pc = "remove" => threads'[u] = threads[u]
    BY <1>7, CallViews DEF Writes
  <2>3. \A p : Removing(p) => Removing(p)'
    BY <2>2 DEF Removing
  <2>4. \A p : InQueue(p) => packets'[p].header = packets[p].header
    BY <1>0, <1>7, CallViews DEF OneMore
  <2> QED BY <2>1, <2>3, <2>4, OrderKept
<1>8. ASSUME NEW t \in Threads, Step(t) PROVE Order'
  <2>1. StepFrame(t)
    BY <1>8, StepFrames
  <2>2. \A p : InQueue(p) => packets'[p].header = packets[p].header
    <3> TAKE p
    <3> HAVE InQueue(p)
    <3>1. ~ (Copy(t) /\ p = threads[t].packet)
      <4> SUFFICES ASSUME Copy(t), p = threads[t].packet PROVE FALSE
        OBVIOUS
      <4>1. threads[t].pc \in Early
        BY DEF Copy, At, Early
      <4> QED BY <4>1 DEF Fresh, FreshOK
    <3> QED BY <1>0, <2>1, <3>1 DEF StepFrame
  <2>3. ASSUME threads[t].pc # "remove" \/ (threads'[t].pc = "remove" /\ threads'[t].head = threads[t].head)
        PROVE  \A p : Removing(p) => Removing(p)'
    BY <2>1, <2>3 DEF Removing, StepFrame
  <2>4. ASSUME threads[t].pc # "remove", out_buffer' = out_buffer, wire' = wire PROVE Order'
    <3>1. \A p : Removing(p) => Removing(p)'
      BY <2>3, <2>4
    <3> QED BY <2>2, <2>4, <3>1, OrderKept
  <2>5. CASE Fields(t) \/ Sequence(t) \/ Load(t) \/ Store(t) \/ Copy(t) \/ Pick(t)
    BY <2>4, <2>5 DEF Fields, Sequence, Load, Store, Copy, Pick, At, shared
  <2>6. CASE AddBlock(t)
    <3>1. threads[t].pc = "add" /\ wire' = wire
      BY <2>6 DEF AddBlock, At
    <3>2. CASE out_buffer' = out_buffer
      BY <2>4, <3>1, <3>2
    <3>3. CASE out_buffer' # out_buffer
      <4>1. fault' = fault
        BY <2>6, <3>3 DEF AddBlock
      <4> QED BY <2>6, <3>3, <4>1, OrderAdd
    <3> QED BY <3>2, <3>3
  <2>7. CASE Lowers(t)
    <3>1. /\ threads[t].pc = "lower" /\ out_buffer' = out_buffer
          /\ mixed' = mixed /\ misnumbered' = misnumbered
      BY <2>7, LowersFrame
    <3>2. CASE wire' = wire
      BY <2>4, <3>1, <3>2
    <3>3. CASE wire' # wire
      <4>1. fault' = fault
        BY <2>7, <3>3, LowersFrame
      <4>2. wire' = Append(wire, threads[t].head) /\ Moves(t, "remove") /\ SamePackets /\ HasHead(t)
        BY <2>7, <3>3, <4>1, LowerEffect
      <4>3. CASE Clear(threads[t].head)
        BY <2>7, <4>1, <4>2, <4>3, OrderSend
      <4>4. CASE ~ Clear(threads[t].head)
        <5>1. PICK h : h = threads[t].head
          OBVIOUS
        <5>2. ~ Clear(h)'
          BY <3>1, <4>2, <4>4, <5>1, SameViews DEF Clear, Apart
        <5>3. wire \in Seq(Nat) /\ h \in Nat
          BY <5>1 DEF Types, Thread
        <5>4. \A i \in DOMAIN wire' : (i \in DOMAIN wire /\ wire'[i] = wire[i]) \/ wire'[i] = h
          BY <4>2, <5>1, <5>3, AppendView
        <5>5. \A i \in DOMAIN wire' : wire'[i] = h => ~ Clear(wire[i])'
          BY <5>2 DEF Clear, Apart, TcpPacket, IsTcp
        <5>6. \A p : Removing(p) => Removing(p)'
          BY <2>3, <3>1
        <5> QED BY <2>2, <3>1, <5>4, <5>5, <5>6, OrderKept
      <4> QED BY <4>3, <4>4
    <3> QED BY <3>2, <3>3
  <2>8. CASE RemoveHead(t)
    BY <2>8, OrderRemove
  <2> QED BY <1>8, <2>5, <2>6, <2>7, <2>8 DEF Step, Lowers
<1> QED BY <1>2, <1>3, <1>6, <1>7, <1>8, StreamCases

-----------------------------------------------------------------------------
(* The theorems about the stream *)

\* In the beginning there is no packet, and nothing has been sent.
LEMMA SequencedInit == Init => Sequenced
<1> SUFFICES ASSUME Init PROVE Sequenced
  OBVIOUS
<1>1. /\ send_next = 0 /\ out_buffer = <<>> /\ packets = <<>> /\ wire = <<>> /\ moves = 0
      /\ threads = [t \in Threads |-> Idle] /\ counting = [t \in Threads |-> None]
  BY DEF Init
<1>2. DOMAIN out_buffer = {} /\ DOMAIN wire = {} /\ DOMAIN packets = {} /\ Len(packets) = 0
      /\ Len(out_buffer) = 0
  BY <1>1
<1>3. \A t \in Threads : threads[t].pc = "idle" /\ counting[t] = None
  BY <1>1, IdleType
<1>4. Debt("worker") = 0 /\ Debt("app") = 0
  BY <1>3 DEF Debt
<1>5. Budget = Highest
  <2>1. 0 * (Room - 1) = 0
    BY TcpWriteAssumption
  <2> QED BY <1>1, <1>2, <1>4, <2>1, TcpWriteAssumption DEF Budget
<1>6. NoOverflow
  BY <1>1, <1>2, <1>3, <1>5, TcpWriteAssumption DEF NoOverflow
<1>7. Marked /\ Stream /\ UnderWay /\ Ahead
  BY <1>2, <1>3 DEF Marked, Stream, UnderWay, Ahead, Writes
<1>8. Order
  BY <1>2 DEF Order, InOrder, SeqKept, Rising, Behind, LeaveInOrder
<1> QED BY <1>6, <1>7, <1>8 DEF Sequenced

\* Every step keeps the order of the stream, as long as it does not wrap around.
LEMMA SequencedNext ==
  ASSUME NoWrap
  PROVE  Control /\ Layers /\ Sequenced /\ [Next]_vars => Sequenced'
<1> SUFFICES ASSUME Control, Layers, Sequenced, [Next]_vars PROVE Sequenced'
  OBVIOUS
<1>1. /\ Types /\ Names /\ Fresh /\ Solo /\ OwnPacket
      /\ NoOverflow /\ Marked /\ Stream /\ UnderWay /\ Ahead /\ Order
  BY DEF Control, Layers, Sequenced
<1>2. Types'
  BY WriteNext DEF Control
<1>3. NoOverflow'
  BY <1>1, <1>2, NoOverflowStep
<1>4. Marked'
  BY <1>1, MarkedStep
<1>5. Stream'
  BY <1>1, StreamStep
<1>6. UnderWay'
  BY <1>1, UnderWayStep
<1>7. Ahead'
  BY <1>1, AheadStep
<1>8. Order'
  BY <1>1, OrderStep
<1> QED BY <1>3, <1>4, <1>5, <1>6, <1>7, <1>8 DEF Sequenced

(***************************************************************************)
(* A race of two tcp_writes damages only the packets that were under way   *)
(* or queued: every other packet carries the header that was built for it, *)
(* and the bytes of the stream behind those of all such packets before it, *)
(* but for the packets that a state function's own assignment to send_next *)
(* cuts off and those under way during the other thread's send_next++.     *)
(* The code compares sequence numbers as plain integers, so this is about  *)
(* a connection whose numbers have not yet wrapped around, and it ends     *)
(* with a fault: a race in the list, an index below 0 or dangling          *)
(* arguments.                                                              *)
(***************************************************************************)
THEOREM HeadersStayOwn == ASSUME NoWrap PROVE Spec => []OwnHeader
<1>1. Control /\ Sequenced => OwnHeader
  <2> SUFFICES ASSUME Control, Sequenced, NEW p \in Undisturbed, HeaderDone(p)
               PROVE  /\ packets[p].header.of = p
                      /\ \A q \in Numbered : p \in Numbered /\ q < p /\ HeaderDone(q) =>
                           packets[p].header.seq >= packets[q].header.seq + packets[q].size
    BY DEF OwnHeader
  <2>1. p \in DOMAIN packets /\ Ready(p)
    BY DEF Undisturbed, HeaderDone, Ready, Apart, TcpPacket
  <2>2. packets[p].header.of = p
    BY <2>1 DEF Sequenced, Marked
  <2>3. \A q \in Numbered : HeaderDone(q) => q \in DOMAIN packets /\ Done(q)
    BY DEF Numbered, Undisturbed, HeaderDone, Done, Clear, Apart, TcpPacket
  <2>4. \A q \in Numbered : p \in Numbered /\ q < p /\ HeaderDone(q) => packets[p].header.seq >= End(q)
    BY <2>3 DEF Sequenced, Stream
  <2> QED BY <2>2, <2>4 DEF End
<1>2. Control /\ Layers /\ Sequenced /\ [Next]_vars => (Control /\ Layers /\ Sequenced)'
  BY WriteNext, SequencedNext
<1> QED BY <1>1, <1>2, WriteInit, SequencedInit, PTL DEF Spec

(***************************************************************************)
(* Packets that no race touched and that send_next counted leave in the    *)
(* order in which they were begun: one that the window held back holds     *)
(* back every later one, as long as the sequence numbers have not wrapped  *)
(* around, and up to a fault.                                              *)
(***************************************************************************)
THEOREM LeavingStaysInOrder == ASSUME NoWrap PROVE Spec => []LeaveInOrder
<1>1. Sequenced => LeaveInOrder
  BY DEF Sequenced, Order
<1>2. Control /\ Layers /\ Sequenced /\ [Next]_vars => (Control /\ Layers /\ Sequenced)'
  BY WriteNext, SequencedNext
<1> QED BY <1>1, <1>2, WriteInit, SequencedInit, PTL DEF Spec

-----------------------------------------------------------------------------
(* tcp_write ends *)

\* The index of a packet is a number.
LEMMA IndexType ==
  ASSUME NEW seq \in Seq(Packet), NEW q \in 1 .. Len(seq)
  PROVE  seq[q].stack_idx \in Nat
<1>1. seq[q] \in Packet
  OBVIOUS
<1>2. seq[q].stack_idx \in Index
  BY <1>1 DEF Packet
<1> QED BY <1>2 DEF Index, TcpIndex

\* No step inside tcp_write gives a packet more handlers to call.
LEMMA IndexStep ==
  ASSUME Types, Names, OwnPacket, NEW t \in Threads, Step(t)
  PROVE  \A q \in 1 .. Len(packets) : packets'[q].stack_idx <= packets[q].stack_idx
<1>1. \A q \in 1 .. Len(packets) : packets[q].stack_idx \in Nat
  BY IndexType DEF Types
<1>2. ASSUME \A q \in 1 .. Len(packets) : packets'[q].stack_idx = packets[q].stack_idx
      PROVE  \A q \in 1 .. Len(packets) : packets'[q].stack_idx <= packets[q].stack_idx
  BY <1>1, <1>2
<1>3. CASE packets' = packets
  BY <1>2, <1>3
<1>4. CASE Copy(t)
  <2>1. \A q \in 1 .. Len(packets) : packets'[q].stack_idx = packets[q].stack_idx
    BY <1>4, CopyEffect
  <2> QED BY <1>2, <2>1
<1>5. CASE AddBlock(t)
  <2>1. CASE fault' = fault
    <3>1. \A q \in 1 .. Len(packets) : packets'[q].stack_idx = packets[q].stack_idx
      BY <1>5, <2>1, AddEffect
    <3> QED BY <1>2, <3>1
  <2>2. CASE fault' # fault
    BY <1>3, <1>5, <2>2 DEF AddBlock
  <2> QED BY <2>1, <2>2
<1>6. CASE Pick(t)
  <2>1. CASE Returns(t, packets)
    <3>1. \A q \in 1 .. Len(packets) : packets'[q].stack_idx = packets[q].stack_idx
      BY <1>6, <2>1, PickReturns
    <3> QED BY <1>2, <3>1
  <2>2. CASE ~ Returns(t, packets)
    BY <1>3, <1>6, <2>2 DEF Pick
  <2> QED BY <2>1, <2>2
<1>7. CASE Lowers(t)
  <2>1. CASE fault' = fault
    BY <1>7, <2>1, LowerEffect
  <2>2. CASE fault' # fault
    BY <1>3, <1>7, <2>2, LowersFrame
  <2> QED BY <2>1, <2>2
<1>8. CASE Fields(t) \/ Sequence(t) \/ Load(t) \/ Store(t) \/ RemoveHead(t)
  BY <1>3, <1>8 DEF Fields, Sequence, Load, Store, RemoveHead
<1> QED BY <1>4, <1>5, <1>6, <1>7, <1>8 DEF Step, Lowers

\* The ranks of the places in tcp_write.
LEMMA Ranks ==
  /\ \A pc \in Pcs : Rank[pc] \in 0 .. 9
  /\ Rank["fields"] = 9 /\ Rank["sequence"] = 8 /\ Rank["load"] = 7 /\ Rank["store"] = 6
  /\ Rank["copy"] = 5 /\ Rank["add"] = 4 /\ Rank["remove"] = 3 /\ Rank["pick"] = 2 /\ Rank["lower"] = 1
<1>1. /\ Rank["fields"] = 9 /\ Rank["sequence"] = 8 /\ Rank["load"] = 7 /\ Rank["store"] = 6
      /\ Rank["copy"] = 5 /\ Rank["add"] = 4 /\ Rank["remove"] = 3 /\ Rank["pick"] = 2 /\ Rank["lower"] = 1
      /\ Rank["idle"] = 0
  BY DEF Rank
<1> QED BY <1>1 DEF Pcs

\* what thread t still has to do does not grow by a step of another
Waits(t) == threads'[t] = threads[t] /\ Left(t)' <= Left(t)

\* A thread with less left to do.
LEMMA LessLeft ==
  ASSUME Types, Names, OwnPacket, NEW t \in Threads, Step(t), Writes(t)', ~ UNCHANGED <<threads, packets>>
  PROVE  Left(t)' < Left(t)
<1>1. Writes(t) /\ StepFrame(t)
  BY StepFrames DEF StepFrame
<1>2. PICK p \in 1 .. Len(packets) : p = threads[t].packet
  BY <1>1, PacketOfThread
<1>3. threads'[t].packet = p
  BY <1>2, StepOwn
<1>4. packets'[p].stack_idx <= packets[p].stack_idx
  BY <1>2, IndexStep
<1>5. PICK i \in Nat, j \in Nat : i = packets[p].stack_idx /\ j = packets'[p].stack_idx
  <2>1. packets[p].stack_idx \in Nat
    BY <1>2, IndexType DEF Types
  <2>2. packets'[p].stack_idx \in Nat
    <3>1. packets' \in Seq(Packet) /\ Len(packets') = Len(packets)
      BY <1>1 DEF StepFrame, SamePackets
    <3> QED BY <1>2, <3>1, IndexType
  <2> QED BY <2>1, <2>2
<1>6. Left(t) = 10 * i + Rank[threads[t].pc] /\ Left(t)' = 10 * j + Rank[threads'[t].pc]
  BY <1>2, <1>3, <1>5 DEF Left, Mine, Rank
<1>7. ASSUME NEW a \in Nat, NEW b \in Nat, a = Rank[threads[t].pc], b = Rank[threads'[t].pc],
             b < a \/ (j < i /\ b <= 9)
      PROVE  Left(t)' < Left(t)
  <2>1. j <= i
    BY <1>4, <1>5
  <2>2. 10 * j + b < 10 * i + a
    <3>1. \A k, l, m, n \in Nat : l <= k /\ (n < m \/ (l < k /\ n <= 9)) => 10 * l + n < 10 * k + m
      OBVIOUS
    <3>2. b < a \/ (j < i /\ b <= 9)
      BY <1>7
    <3> QED BY <2>1, <3>1, <3>2, Zenon
  <2> QED BY <1>6, <1>7, <2>2
<1>8. ASSUME NEW pc \in Pcs, Goto(t, pc) PROVE threads'[t].pc = pc
  BY <1>8, GotoMoves DEF Moves
<1>9. CASE Fields(t)
  <2>1. threads[t].pc = "fields" /\ Goto(t, "sequence") /\ "sequence" \in Pcs
    BY <1>9 DEF Fields, At, Pcs
  <2>2. threads'[t].pc = "sequence"
    BY <1>8, <2>1
  <2> QED BY <1>7, <2>1, <2>2, Ranks
<1>10. CASE Sequence(t)
  <2>1. PICK pc \in {"load", "copy"} : Goto(t, pc)
    BY <1>10 DEF Sequence
  <2>2. threads[t].pc = "sequence" /\ pc \in Pcs
    BY <1>10 DEF Sequence, At, Pcs
  <2>3. threads'[t].pc = pc
    BY <1>8, <2>1, <2>2
  <2>4. Rank[pc] \in Nat /\ Rank[pc] < 8
    BY Ranks
  <2> QED BY <1>7, <2>2, <2>3, <2>4, Ranks
<1>11. CASE Load(t)
  <2>1. threads[t].pc = "load" /\ threads'[t].pc = "store"
    BY <1>11, LoadMoves DEF Load, At, Moves
  <2> QED BY <1>7, <2>1, Ranks
<1>12. CASE Store(t)
  <2>1. threads[t].pc = "store" /\ Goto(t, "copy") /\ "copy" \in Pcs
    BY <1>12 DEF Store, At, Pcs
  <2>2. threads'[t].pc = "copy"
    BY <1>8, <2>1
  <2> QED BY <1>7, <2>1, <2>2, Ranks
<1>13. CASE Copy(t)
  <2>1. threads[t].pc = "copy" /\ threads'[t].pc = "add"
    BY <1>13, CopyEffect DEF Copy, At, Moves
  <2> QED BY <1>7, <2>1, Ranks
<1>14. CASE AddBlock(t)
  <2>1. fault' = fault
    BY <1>14 DEF AddBlock
  <2>2. threads[t].pc = "add" /\ threads'[t].pc = "pick"
    BY <1>14, <2>1, AddEffect DEF AddBlock, At, Moves
  <2> QED BY <1>7, <2>2, Ranks
<1>15. CASE Pick(t)
  <2>1. ~ Returns(t, packets)
    BY <1>15, PickReturns DEF Leaves, Writes
  <2>2. threads[t].pc = "pick" /\ threads'[t].pc = "lower"
    BY <1>15, <2>1, PickMoves DEF Pick, At
  <2> QED BY <1>7, <2>2, Ranks
<1>16. CASE Lowers(t)
  <2>1. fault' = fault
    BY <1>16, LowersFrame
  <2>2. threads'[t].pc = "remove" /\ packets'[p].stack_idx < packets[p].stack_idx
    BY <1>2, <1>16, <2>1, LowerEffect DEF Leaves, Moves, Writes
  <2>3. threads[t].pc = "lower" /\ j < i
    BY <1>5, <1>16, <2>2, LowersFrame
  <2> QED BY <1>7, <2>2, <2>3, Ranks
<1>17. CASE RemoveHead(t)
  <2>1. threads[t].pc = "remove" /\ Goto(t, "pick") /\ "pick" \in Pcs
    BY <1>17 DEF RemoveHead, At, Pcs
  <2>2. threads'[t].pc = "pick"
    BY <1>8, <2>1
  <2> QED BY <1>7, <2>1, <2>2, Ranks
<1> QED BY <1>9, <1>10, <1>11, <1>12, <1>13, <1>14, <1>15, <1>16, <1>17 DEF Step, Lowers

\* A step elsewhere that leaves a thread and its packet's index no higher.
LEMMA WaitsOn ==
  ASSUME Types, Types', Names, NEW u \in Threads, Writes(u), threads'[u] = threads[u],
         Len(packets) <= Len(packets'),
         \A q \in 1 .. Len(packets) : packets'[q].stack_idx <= packets[q].stack_idx
  PROVE  Waits(u)
<1>1. PICK p \in 1 .. Len(packets) : p = threads[u].packet
  BY PacketOfThread
<1>3. PICK i \in Nat : i = packets[p].stack_idx
  BY <1>1, IndexType DEF Types
<1>4. PICK j \in Nat : j = packets'[p].stack_idx
  <2>1. packets' \in Seq(Packet) /\ Len(packets) \in Nat /\ Len(packets') \in Nat
    BY DEF Types
  <2>2. p \in 1 .. Len(packets')
    BY <1>1, <2>1
  <2> QED BY <2>1, <2>2, IndexType
<1>5. PICK rank \in Nat : rank = Rank[threads[u].pc]
  <2>1. threads[u].pc \in Pcs
    BY DEF Types, Thread
  <2> QED BY <2>1, Ranks
<1>6. Left(u) = 10 * i + rank /\ Left(u)' = 10 * j + rank
  BY <1>1, <1>3, <1>4, <1>5 DEF Left, Mine, Rank
<1>7. j <= i
  BY <1>1, <1>3, <1>4
<1>8. 10 * j + rank <= 10 * i + rank
  BY <1>7
<1> QED BY <1>6, <1>8 DEF Waits

(***************************************************************************)
(* tcp_write returns or meets a fault, for every number of packets and     *)
(* blocks and although the other thread may queue behind it without end:   *)
(* each of its own steps leaves it less to do, each turn of the loop at    *)
(* tcp.c:144 using up one index of its packet, and nobody else adds to it. *)
(***************************************************************************)
THEOREM CallsAlwaysEnd == Spec => CallsEnd
<1> DEFINE Goal(u) == Left(u)' < Left(u) \/ Waits(u)
<1>1. ASSUME Control, Layers, [Next]_vars, Types', NEW u \in Threads, Writes(u), Writes(u)'
      PROVE  Goal(u)
  <2>0. Types /\ Names /\ OwnPacket
    BY <1>1 DEF Control, Layers
  <2>d. packets \in Seq(Packet) /\ Len(packets) \in Nat
    BY <2>0 DEF Types
  <2>1. \A q \in 1 .. Len(packets) : packets[q].stack_idx <= packets[q].stack_idx
    <3>1. \A q \in 1 .. Len(packets) : packets[q].stack_idx \in Nat
      BY <2>d, IndexType
    <3> QED BY <3>1
  <2>2. ASSUME packets' = packets, threads' = threads PROVE Goal(u)
    <3>1. Len(packets) <= Len(packets')
      BY <2>d, <2>2
    <3>2. Waits(u)
      BY <1>1, <2>0, <2>1, <2>2, <3>1, WaitsOn
    <3> QED BY <3>2
  <2>3. ASSUME OneMore, threads'[u] = threads[u] PROVE Goal(u)
    <3>1. Len(packets) <= Len(packets')
      BY <2>d, <2>3 DEF OneMore
    <3>2. \A q \in 1 .. Len(packets) : packets'[q].stack_idx <= packets[q].stack_idx
      BY <2>1, <2>3 DEF OneMore
    <3>3. Waits(u)
      BY <1>1, <2>0, <2>3, <3>1, <3>2, WaitsOn
    <3> QED BY <3>3
  <2>4. CASE Beside
    BY <2>2, <2>4 DEF Beside
  <2>5. ASSUME NEW t \in Threads, CountLoad(t) \/ CountStore(t) PROVE Goal(u)
    BY <2>2, <2>5 DEF CountLoad, CountStore
  <2>6. CASE ArpRead
    <3>1. OneMore /\ threads' = threads
      BY <2>0, <2>6, ArpEffect DEF ArpRead
    <3> QED BY <2>3, <3>1
  <2>7. ASSUME NEW t \in Threads, CallOf(t) PROVE Goal(u)
    <3>1. OneMore /\ threads'[u] = threads[u]
      BY <1>1, <2>0, <2>7, CallViews
    <3> QED BY <2>3, <3>1
  <2>8. ASSUME NEW t \in Threads, Step(t) PROVE Goal(u)
    <3>1. CASE packets' = packets /\ threads' = threads
      BY <2>2, <3>1
    <3>2. CASE u = t /\ ~ (packets' = packets /\ threads' = threads)
      <4>1. Left(u)' < Left(u)
        BY <1>1, <2>0, <2>8, <3>2, LessLeft
      <4> QED BY <4>1
    <3>3. CASE u # t
      <4>1. threads'[u] = threads[u] /\ Len(packets') = Len(packets)
        BY <2>0, <2>8, <3>3, StepFrames DEF StepFrame, SamePackets
      <4>2. \A q \in 1 .. Len(packets) : packets'[q].stack_idx <= packets[q].stack_idx
        BY <2>0, <2>8, IndexStep
      <4>3. Len(packets) <= Len(packets')
        BY <2>d, <4>1
      <4>4. Waits(u)
        BY <1>1, <2>0, <4>1, <4>2, <4>3, WaitsOn
      <4> QED BY <4>4
    <3> QED BY <3>1, <3>2, <3>3
  <2> QED BY <1>1, <2>4, <2>5, <2>6, <2>7, <2>8, StreamCases
<1>2. Control /\ Layers /\ [Next]_vars =>
        [\A t \in Threads :
           threads[t].pc # "idle" /\ threads'[t].pc # "idle" =>
             \/ Left(t)' < Left(t)
             \/ threads'[t] = threads[t] /\ Left(t)' <= Left(t)]_vars
  <2> SUFFICES ASSUME Control, Layers, [Next]_vars, NEW t \in Threads,
                      threads[t].pc # "idle", threads'[t].pc # "idle"
               PROVE  Left(t)' < Left(t) \/ (threads'[t] = threads[t] /\ Left(t)' <= Left(t))
    OBVIOUS
  <2>1. Types'
    BY WriteNext DEF Control
  <2>2. Goal(t)
    BY <1>1, <2>1 DEF Writes
  <2> QED BY <2>2 DEF Waits
<1> QED BY <1>2, WriteInit, WriteNext, PTL DEF Spec, CallsEnd
=============================================================================
