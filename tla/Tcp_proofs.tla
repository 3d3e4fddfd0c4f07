----------------------------- MODULE Tcp_proofs -----------------------------
(***************************************************************************)
(* What Tcp keeps invariant, for every sequence space, buffer size,        *)
(* window, set of segments and behaviour of the application.               *)
(***************************************************************************)
EXTENDS Tcp, TcpBlockBuffer_proofs

(***************************************************************************)
(* The inductive invariant.  Its parts follow the state: what the writer   *)
(* touches, what the worker touches, and the connection itself.            *)
(* HeadPresent is needed for the type of num_ready, which every iteration  *)
(* decrements, and the length of in_buffer for HeadPresent.                *)
(***************************************************************************)
SentBlock == [header : OutBlock, intact : BOOLEAN]

OutOK ==
  /\ out_buffer \in Seq(OutBlock) /\ InOrder(out_buffer) /\ Len(out_buffer) <= BlockCount
  /\ sent \in Seq(SentBlock) /\ fault \in Faults

WorkOK ==
  /\ in_buffer \in Seq(InBlock) /\ InOrder(in_buffer) /\ Len(in_buffer) <= BlockCount
  /\ pc \in Pcs /\ packet \in Segment /\ socket \in BOOLEAN
  /\ stack_idx \in Nat /\ stack_idx >= TcpIndex /\ advanced \in BOOLEAN
  /\ num_ready \in Nat /\ state \in States \union {"NONE"}
  /\ HeadPresent

ConnOK ==
  /\ tcb \in Tcb /\ delivered \in Nat /\ advertised \in WindowSize
  /\ app \in {"closed", "connecting", "duplicate", "dangling", "connected"}
  /\ DataAfterHandshake

IInv == OutOK /\ WorkOK /\ ConnOK

-----------------------------------------------------------------------------
(* The helpers *)

\* A window is two bytes, and ntohs of one is one.
LEMMA ByteSwapType ==
  ASSUME NEW w \in WindowSize
  PROVE  ByteSwap(w) \in WindowSize
<1> DEFINE B == ByteBase
           hi == w \div B
           lo == w % B
<1>1. B \in Nat /\ B > 0 /\ B * B \in Nat /\ w \in Nat /\ w < B * B
  BY ByteBaseAssumption DEF WindowSize
<1>2. hi \in Nat /\ lo \in 0 .. B - 1 /\ w = B * hi + lo
  BY <1>1
<1> HIDE DEF hi, lo, B
<1>3. hi < B
  <2> SUFFICES ASSUME hi >= B PROVE FALSE
    BY <1>1, <1>2
  <2>1. PICK d \in Nat : hi = B + d
    <3>1. hi - B \in Nat /\ hi = B + (hi - B)
      BY <1>1, <1>2
    <3> QED BY <3>1
  <2>2. B * hi = B * B + B * d /\ B * d \in Nat
    BY <1>1, <2>1
  <2> QED BY <1>1, <1>2, <2>2
<1>4. lo * B + hi \in Nat /\ lo * B + hi < B * B
  <2>1. PICK e \in Nat : B = lo + 1 + e
    <3>1. B - lo - 1 \in Nat /\ B = lo + 1 + (B - lo - 1)
      BY <1>1, <1>2
    <3> QED BY <3>1
  <2>2. B * B = lo * B + B + e * B /\ e * B \in Nat /\ lo * B \in Nat
    BY <1>1, <1>2, <2>1
  <2> QED BY <1>1, <1>2, <1>3, <2>2
<1> QED BY <1>1, <1>4 DEF ByteSwap, WindowSize, hi, lo, B

\* uint16_t subtraction yields a window.
LEMMA MinusWindowType ==
  ASSUME NEW w \in WindowSize, NEW size \in Nat
  PROVE  MinusWindow(w, size) \in WindowSize
<1>1. PICK M \in Nat : M = ByteBase * ByteBase /\ M > 0
  <2>1. ByteBase * ByteBase \in Nat /\ ByteBase * ByteBase > 0
    BY ByteBaseAssumption
  <2> QED BY <2>1
<1>2. w \in Nat
  BY <1>1 DEF WindowSize
<1>3. w + M - size \in Int
  BY <1>1, <1>2
<1>4. (w + M - size) % M \in 0 .. M - 1
  BY <1>1, <1>3
<1> QED BY <1>1, <1>4 DEF MinusWindow, WindowSize

\* The constants of the model are of their types.
LEMMA ConstantTypes ==
  /\ NoTcb \in Tcb /\ NoPacket \in Segment
  /\ SeqNum \subseteq Nat /\ 0 \in SeqNum /\ 0 \in WindowSize /\ BlockCount \in Nat
  /\ WindowSize \subseteq Nat
  /\ \A c \in InBlock : c.seq \in SeqNum
  /\ \A c \in OutBlock : c.seq \in SeqNum
<1>1. SeqNum \subseteq Nat /\ 0 \in SeqNum /\ BlockCount \in Nat
  BY SeqSpaceAssumption, DefaultSizeAssumption DEF SeqNum, BlockCount
<1>2. 0 \in WindowSize /\ WindowSize \subseteq Nat
  BY ByteBaseAssumption DEF WindowSize
<1>3. NoTcb \in Tcb
  BY <1>1, <1>2 DEF NoTcb, Tcb
<1>4. NoPacket \in Segment
  BY <1>1, <1>2 DEF NoPacket, Segment, Flags
<1> QED BY <1>1, <1>2, <1>3, <1>4 DEF InBlock, OutBlock

\* tcp_create_transmission_control_block returns a tcb.
LEMMA NewTcbType ==
  ASSUME NEW initial \in States, NEW seq \in SeqNum, NEW w \in WindowSize,
         NEW active_mode \in BOOLEAN, NEW has_args \in BOOLEAN
  PROVE  NewTcb(initial, seq, w, active_mode, has_args) \in Tcb
BY ConstantTypes, IssAssumption, WindowAssumption DEF NewTcb, NoTcb, Tcb

(***************************************************************************)
(* tcp_write keeps out_buffer sorted and bounded, whichever tcb it is for  *)
(* and however many queued packets it gets through.                        *)
(***************************************************************************)
LEMMA TcpWriteOK ==
  ASSUME OutOK, NEW t \in Tcb, NEW flags \in SUBSET Flags, NEW size \in Nat,
         TcpWrite(t, flags, size)
  PROVE  OutOK'
<1> DEFINE header == OutHeader(t, flags, size)
           queue == Add(out_buffer, header)
           count == Sendable(queue, t)
<1>1. header \in OutBlock
  BY DEF OutHeader, OutBlock, Tcb
<1>2. /\ queue \in Seq(OutBlock) /\ InOrder(queue) /\ Len(queue) <= BlockCount
  BY <1>1, AddProperties, ConstantTypes DEF OutOK
<1>3. count \in 0 .. Len(queue)
  BY <1>2, PrefixLengthRun DEF Sendable
<1>5. CASE AddFaults(out_buffer, header.seq)
  BY <1>5 DEF TcpWrite, OutOK, Faults, InOrder
<1>6. CASE ~ AddFaults(out_buffer, header.seq)
  <2>1. /\ out_buffer' = RemoveFront(queue, count)
        /\ sent' = [i \in 1 .. count |-> [header |-> queue[i],
                                            intact |-> out_buffer = <<>>]]
        /\ fault' \in {fault, "stack_underflow", "heap_overrun"}
    BY <1>6 DEF TcpWrite
  <2> HIDE DEF queue, count, header
  <2>2. /\ out_buffer' \in Seq(OutBlock) /\ InOrder(out_buffer')
        /\ Len(out_buffer') <= BlockCount
    BY <1>2, <1>3, <2>1, ConstantTypes, RemoveFrontProperties
  <2>3. sent' \in Seq(SentBlock)
    <3>1. \A i \in 1 .. count : queue[i] \in OutBlock
      BY <1>2, <1>3
    <3>2. (out_buffer = <<>>) \in BOOLEAN
      OBVIOUS
    <3>3. sent' \in [1 .. count -> SentBlock]
      BY <2>1, <3>1, <3>2 DEF SentBlock
    <3> QED BY <1>2, <1>3, <3>3
  <2> QED BY <2>1, <2>2, <2>3 DEF OutOK, Faults
<1> QED BY <1>5, <1>6

\* So does the tcp_write from above TCP.
LEMMA TcpWriteAboveOK ==
  ASSUME OutOK, NEW t \in Tcb, NEW flags \in SUBSET Flags, TcpWriteAbove(t, flags)
  PROVE  OutOK'
<1> DEFINE header == OutHeader(t, flags, 0)
           queue == Add(out_buffer, header)
<1>1. header \in OutBlock
  BY DEF OutHeader, OutBlock, Tcb
<1>2. queue \in Seq(OutBlock) /\ InOrder(queue) /\ Len(queue) <= BlockCount
  BY <1>1, AddProperties, ConstantTypes DEF OutOK
<1>3. sent' = <<>> /\ fault' \in Faults /\ out_buffer' \in {out_buffer, queue}
  BY DEF TcpWriteAbove, OutOK, Faults
<1> HIDE DEF queue
<1>4. /\ out_buffer' \in Seq(OutBlock) /\ InOrder(out_buffer')
      /\ Len(out_buffer') <= BlockCount
  BY <1>2, <1>3 DEF OutOK
<1> QED BY <1>3, <1>4 DEF OutOK

\* A step that writes nothing.
LEMMA NoWriteOK ==
  ASSUME OutOK, NoWrite, fault' \in Faults
  PROVE  OutOK'
<1>1. <<>> \in Seq(SentBlock)
  OBVIOUS
<1> QED BY <1>1 DEF NoWrite, OutOK, InOrder

\* tcp_internal_write.
LEMMA InternalWriteOK ==
  ASSUME OutOK, NEW t \in Tcb, NEW flags \in SUBSET Flags, InternalWrite(t, flags)
  PROVE  OutOK'
<1>1. CASE TcpWrite(t, flags, 0)
  BY <1>1, TcpWriteOK
<1>2. CASE TcpWriteAbove(t, flags)
  BY <1>2, TcpWriteAboveOK
<1>3. CASE NoWrite /\ UNCHANGED fault
  BY <1>3, NoWriteOK DEF OutOK
<1> QED BY <1>1, <1>2, <1>3 DEF InternalWrite

-----------------------------------------------------------------------------
(* The worker's state *)

\* What in_buffer has to satisfy.
InBufferOK(buffer) ==
  buffer \in Seq(InBlock) /\ InOrder(buffer) /\ Len(buffer) <= BlockCount

\* A worker that is done with its packet.
LEMMA IdleOK ==
  ASSUME InBufferOK(in_buffer'), Idle
  PROVE  WorkOK'
<1>1. stack_idx' \in Nat /\ stack_idx' >= TcpIndex
  BY DEF Idle, TcpIndex
<1>2. packet' \in Segment
  BY ConstantTypes DEF Idle
<1>3. HeadPresent' /\ pc' \in Pcs
  BY DEF Idle, HeadPresent, Pcs
<1> QED BY <1>1, <1>2, <1>3 DEF Idle, WorkOK, InBufferOK

\* The state functions remove the block they have handled.
LEMMA RemoveHeadOK ==
  ASSUME WorkOK, in_buffer' = RemoveFront(in_buffer, 1)
  PROVE  /\ InBufferOK(in_buffer')
         /\ Len(in_buffer) >= 1 => Len(in_buffer') = Len(in_buffer) - 1
<1>1. in_buffer \in Seq(InBlock) /\ 1 \in Nat
  BY DEF WorkOK
<1>2. in_buffer' \in Seq(InBlock)
  BY <1>1, RemoveFrontProperties
<1>3. Len(in_buffer') = IF 1 <= Len(in_buffer) THEN Len(in_buffer) - 1 ELSE 0
  BY <1>1, RemoveFrontProperties
<1>4. InOrder(in_buffer')
  BY <1>1, RemoveFrontProperties DEF WorkOK
<1>5. Len(in_buffer') <= BlockCount
  BY <1>1, <1>3, ConstantTypes DEF WorkOK
<1> QED BY <1>2, <1>3, <1>4, <1>5 DEF InBufferOK

\* The end of an iteration of tcp_others leaves a head for the next one.
LEMMA NextBlockOK ==
  ASSUME WorkOK, pc \notin {"idle", "create"}, NextBlock
  PROVE  WorkOK'
<1>1. num_ready \in Nat /\ 1 <= num_ready /\ num_ready <= Len(in_buffer)
  BY DEF WorkOK, HeadPresent
<1>2. /\ InBufferOK(in_buffer')
      /\ Len(in_buffer') = Len(in_buffer) - 1
  BY <1>1, RemoveHeadOK DEF NextBlock
<1>3. CASE num_ready = 1
  BY <1>2, <1>3, IdleOK DEF NextBlock
<1>4. CASE num_ready # 1
  <2>1. /\ num_ready' = num_ready - 1 /\ pc' = "state" /\ state' = "NONE"
        /\ advanced' = FALSE /\ stack_idx' = stack_idx
        /\ packet' \in Segment /\ socket' \in BOOLEAN
    BY <1>4, SegmentsAssumption DEF NextBlock, WorkOK
  <2>2. num_ready' \in Nat /\ HeadPresent'
    BY <1>1, <1>2, <1>4, <2>1 DEF HeadPresent, InBufferOK
  <2> QED BY <1>2, <2>1, <2>2 DEF WorkOK, InBufferOK, Pcs
<1> QED BY <1>3, <1>4

\* Queueing a segment: the state functions start only if a block is ready.
LEMMA ReceiveOK ==
  ASSUME OutOK, NEW t, NEW buffer, InBufferOK(buffer), NEW header \in Segment,
         Receive(t, buffer, header)
  PROVE  OutOK' /\ WorkOK' /\ tcb' = t
<1> DEFINE b == [seq |-> header.seq, size |-> header.size]
           queue == Add(buffer, b)
           ready == NumReady(queue, t.receive_next)
<1>1. b \in InBlock
  BY ConstantTypes DEF Segment, InBlock
<1>2. InBufferOK(queue)
  BY <1>1, AddProperties, ConstantTypes DEF InBufferOK
<1>3. ready \in 0 .. Len(queue)
  BY <1>2, NumReadyBound DEF InBufferOK
<1>4. tcb' = t /\ NoWrite
  BY DEF Receive
<1>5. CASE AddFaults(buffer, header.seq)
  <2>1. fault' = "null_previous" /\ in_buffer' = buffer /\ Idle
    BY <1>5 DEF Receive
  <2> QED BY <1>4, <2>1, NoWriteOK, IdleOK DEF Faults
<1>6. CASE ~ AddFaults(buffer, header.seq)
  <2>1. /\ in_buffer' = queue /\ fault' \in {fault, "heap_overrun"}
        /\ IF ready = 0
           THEN Idle
           ELSE /\ pc' = "state" /\ packet' = header /\ socket' = TRUE
                /\ stack_idx' = TcpIndex
                /\ advanced' = FALSE /\ num_ready' = ready /\ state' = "NONE"
    BY <1>6 DEF Receive
  <2> HIDE DEF queue, ready
  <2>2. OutOK'
    BY <1>4, <2>1, NoWriteOK DEF OutOK, Faults
  <2>3. CASE ready = 0
    BY <1>2, <1>4, <2>1, <2>2, <2>3, IdleOK
  <2>4. CASE ready # 0
    <3>1. num_ready' \in Nat /\ HeadPresent'
      BY <1>2, <1>3, <2>1, <2>4 DEF HeadPresent, InBufferOK
    <3>2. stack_idx' \in Nat /\ stack_idx' >= TcpIndex
      BY <2>1, <2>4 DEF TcpIndex
    <3> QED BY <1>2, <1>4, <2>1, <2>2, <2>4, <3>1, <3>2 DEF WorkOK, InBufferOK, Pcs
  <2> QED BY <2>3, <2>4
<1> QED BY <1>5, <1>6

-----------------------------------------------------------------------------
(* One lemma per group of actions *)

\* tcp_read.
LEMMA ReadKeepsInv ==
  ASSUME IInv, NEW header \in Segments,
         TcpReadDropped(header) \/ TcpReadNew(header) \/ TcpReadExisting(header)
  PROVE  IInv'
<1> USE DEF IInv
<1>0. header \in Segment /\ header.window \in WindowSize /\ header.seq \in SeqNum
  BY SegmentsAssumption DEF Segment
<1>1. CASE TcpReadDropped(header)
  <2>1. UNCHANGED <<tcb, in_buffer, out_buffer, pc, packet, socket, stack_idx, advanced,
                    num_ready, state, app, fault, delivered, advertised>> /\ sent' = <<>>
    BY <1>1 DEF TcpReadDropped, workerVars, appVars, ghosts
  <2> QED BY <2>1 DEF OutOK, WorkOK, ConnOK, HeadPresent, DataAfterHandshake, InOrder
<1>2. CASE TcpReadNew(header)
  <2>1. /\ pc' = "create" /\ packet' = header /\ sent' = <<>>
        /\ UNCHANGED <<tcb, in_buffer, out_buffer, socket, stack_idx, advanced, num_ready,
                       state, app, fault, delivered, advertised>>
    BY <1>2 DEF TcpReadNew, appVars, ghosts
  <2>2. OutOK' /\ ConnOK'
    BY <2>1 DEF OutOK, ConnOK, DataAfterHandshake, InOrder
  <2>3. WorkOK'
    BY <1>0, <2>1 DEF WorkOK, HeadPresent, InOrder, Pcs
  <2> QED BY <2>2, <2>3
<1>3. CASE TcpReadExisting(header)
  <2> DEFINE t == IF tcb.state = "SYN_SENT"
                  THEN [tcb EXCEPT !.receive_next = header.seq] ELSE tcb
  <2>1. t \in Tcb /\ t.state = tcb.state
    BY <1>0 DEF ConnOK, Tcb
  <2>2. Receive(t, in_buffer, header) /\ UNCHANGED <<app, delivered, advertised>>
    BY <1>3 DEF TcpReadExisting, appVars, ghosts
  <2> HIDE DEF t
  <2>3. OutOK' /\ WorkOK' /\ tcb' = t
    BY <1>0, <2>2, ReceiveOK DEF WorkOK, InBufferOK
  <2> QED BY <2>1, <2>2, <2>3 DEF ConnOK, DataAfterHandshake
<1> QED BY <1>1, <1>2, <1>3

\* tcp_delete_transmission_control_block.
LEMMA DeleteOK ==
  ASSUME IInv, DeleteTcb
  PROVE  OutOK' /\ InBufferOK(in_buffer') /\ ConnOK'
<1>1. /\ tcb' = NoTcb /\ in_buffer' = <<>> /\ out_buffer' = <<>>
      /\ delivered' = 0 /\ advertised' = 0 /\ sent' = <<>> /\ fault' = fault
      /\ app' \in {app, "dangling"}
  BY DEF DeleteTcb
<1>2. OutOK'
  BY <1>1, ConstantTypes DEF IInv, OutOK, InOrder
<1>3. InBufferOK(in_buffer')
  BY <1>1, ConstantTypes DEF InBufferOK, InOrder
<1>4. ConnOK'
  BY <1>1, ConstantTypes DEF IInv, ConnOK, DataAfterHandshake
<1> QED BY <1>2, <1>3, <1>4

\* The types of the packet the worker reads.
LEMMA PacketTypes ==
  ASSUME WorkOK
  PROVE  /\ packet.flags \subseteq Flags /\ packet.seq \in SeqNum /\ packet.ack \in SeqNum
         /\ packet.window \in WindowSize /\ packet.size \in Nat
         /\ packet.seq \in Nat /\ packet.ack \in Nat
BY ConstantTypes DEF WorkOK, Segment

\* tcp_read creates a tcb, or a second one.
LEMMA CreateKeepsInv ==
  ASSUME IInv, CreateTcb \/ CreateSecond
  PROVE  IInv'
<1> USE DEF IInv
<1>0. packet \in Segment /\ packet.window \in WindowSize /\ packet.seq \in SeqNum
  BY PacketTypes DEF WorkOK
<1>1. CASE CreateTcb
  <2>1. PICK active_mode \in BOOLEAN :
          Receive(NewTcb("LISTEN", packet.seq, ByteSwap(packet.window), active_mode, FALSE),
                  <<>>, packet)
    BY <1>1 DEF CreateTcb
  <2>2. InBufferOK(<<>>)
    BY ConstantTypes DEF InBufferOK, InOrder
  <2>3. ByteSwap(packet.window) \in WindowSize
    BY <1>0, ByteSwapType
  <2>4. NewTcb("LISTEN", packet.seq, ByteSwap(packet.window), active_mode, FALSE) \in Tcb
    BY <1>0, <2>3, NewTcbType DEF States
  <2>5. OutOK' /\ WorkOK' /\ tcb' \in Tcb
    BY <1>0, <2>1, <2>2, <2>4, ReceiveOK
  <2>6. delivered' = 0 /\ advertised' \in WindowSize /\ app' = app
    BY <1>0, <1>1 DEF CreateTcb, appVars
  <2> QED BY <2>5, <2>6 DEF ConnOK, DataAfterHandshake
<1>2. CASE CreateSecond
  <2>1. CASE DeleteTcb
    BY <1>2, <2>1, DeleteOK, IdleOK DEF CreateSecond
  <2>2. CASE ~ DeleteTcb
    <3>1. PICK flags \in SUBSET Flags : InternalWrite(tcb, flags)
      BY <1>2, <2>2 DEF CreateSecond, Flags
    <3>2. Idle /\ UNCHANGED <<tcb, in_buffer, app, delivered, advertised>>
      BY <1>2, <2>2 DEF CreateSecond, ghosts
    <3>3. OutOK'
      BY <3>1, InternalWriteOK DEF ConnOK
    <3>4. WorkOK'
      BY <3>2, IdleOK DEF WorkOK, InBufferOK
    <3>5. ConnOK'
      BY <3>2 DEF ConnOK, DataAfterHandshake
    <3> QED BY <3>3, <3>4, <3>5
  <2> QED BY <2>1, <2>2
<1> QED BY <1>1, <1>2

\* tcp_listen.
LEMMA ListenKeepsInv ==
  ASSUME IInv, ListenRst \/ ListenAck \/ ListenSyn
  PROVE  IInv'
<1> USE DEF IInv
<1>1. CASE ListenRst
  BY <1>1, DeleteOK, IdleOK DEF ListenRst
<1>2. CASE ListenAck
  <2>1. tcb' = [tcb EXCEPT !.send_next = packet.ack, !.receive_next = 0]
    BY <1>2 DEF ListenAck
  <2>2. tcb' \in Tcb /\ tcb'.state = tcb.state
    BY <2>1, PacketTypes, ConstantTypes DEF ConnOK, Tcb
  <2>3. OutOK'
    <3>1. InternalWrite(tcb', {"RST"}) /\ {"RST"} \in SUBSET Flags
      BY <1>2 DEF ListenAck, Flags
    <3> QED BY <2>2, <3>1, InternalWriteOK
  <2>4. WorkOK'
    BY <1>2, RemoveHeadOK, IdleOK DEF ListenAck
  <2>5. ConnOK'
    BY <1>2, <2>2 DEF ListenAck, ConnOK, DataAfterHandshake, appVars, ghosts
  <2> QED BY <2>3, <2>4, <2>5
<1>3. CASE ListenSyn
  <2> DEFINE t == [tcb EXCEPT !.receive_next = Plus(packet.seq, 1),
                              !.state = "SYN_RECEIVED", !.send_next = Iss]
  <2>1. Plus(packet.seq, 1) \in SeqNum /\ Plus(Iss, 1) \in SeqNum
    BY PlusType, PacketTypes, IssAssumption, ConstantTypes
  <2>2. t \in Tcb
    BY <2>1, IssAssumption DEF ConnOK, Tcb, States, Synchronized
  <2>3. InternalWrite(t, {"ACK", "SYN"})
        /\ tcb' = [t EXCEPT !.send_unacknowledged = Iss, !.send_next = Plus(Iss, 1)]
    BY <1>3 DEF ListenSyn
  <2> HIDE DEF t
  <2>4. tcb' \in Tcb
    BY <2>1, <2>2, <2>3, IssAssumption DEF Tcb
  <2>5. OutOK'
    <3>1. {"ACK", "SYN"} \in SUBSET Flags
      BY DEF Flags
    <3> QED BY <2>2, <2>3, <3>1, InternalWriteOK
  <2>6. WorkOK'
    BY <1>3, RemoveHeadOK, IdleOK DEF ListenSyn
  <2>7. delivered = 0
    BY <1>3 DEF ListenSyn, InState, ConnOK, DataAfterHandshake
  <2>8. ConnOK'
    BY <1>3, <2>4, <2>7 DEF ListenSyn, ConnOK, DataAfterHandshake, appVars, ghosts
  <2> QED BY <2>5, <2>6, <2>8
<1> QED BY <1>1, <1>2, <1>3

\* tcp_receive_payload moves receive_next and receive_window within their types.
LEMMA AfterPayloadType ==
  ASSUME NEW t \in Tcb, NEW size \in Nat
  PROVE  AfterPayload(t, size) \in Tcb /\ AfterPayload(t, size).state = t.state
<1>1. t.receive_next \in SeqNum /\ t.receive_window \in WindowSize
  BY DEF Tcb
<1>2. Plus(t.receive_next, size) \in SeqNum
  BY <1>1, PlusType, ConstantTypes
<1>3. MinusWindow(t.receive_window, size) \in WindowSize
  BY <1>1, MinusWindowType
<1> QED BY <1>1, <1>2, <1>3 DEF AfterPayload, Tcb

\* tcp_syn_sent.
LEMMA SynSentKeepsInv ==
  ASSUME IInv, SynSentBadAck \/ SynSentRst \/ SynSentSyn \/ SynSentEnd \/ SynSentOther
  PROVE  IInv'
<1> USE DEF IInv
<1>1. CASE SynSentBadAck
  <2>1. {"RST"} \in SUBSET Flags /\ tcb \in Tcb
    BY DEF Flags, ConnOK
  <2>2. OutOK'
    BY <1>1, <2>1, InternalWriteOK DEF SynSentBadAck
  <2>3. WorkOK'
    BY <1>1, IdleOK DEF SynSentBadAck, WorkOK, InBufferOK
  <2>4. ConnOK'
    BY <1>1 DEF SynSentBadAck, ConnOK, DataAfterHandshake, appVars, ghosts
  <2> QED BY <2>2, <2>3, <2>4
<1>2. CASE SynSentRst
  <2>1. CASE Has(packet, "ACK")
    BY <1>2, <2>1, DeleteOK, IdleOK DEF SynSentRst
  <2>2. CASE ~ Has(packet, "ACK")
    <3>1. OutOK'
      BY <1>2, <2>2, NoWriteOK DEF SynSentRst, OutOK
    <3>2. WorkOK'
      BY <1>2, <2>2, RemoveHeadOK, IdleOK DEF SynSentRst
    <3>3. ConnOK'
      BY <1>2, <2>2 DEF SynSentRst, ConnOK, DataAfterHandshake, appVars, ghosts
    <3> QED BY <3>1, <3>2, <3>3
  <2> QED BY <2>1, <2>2
<1>3. CASE SynSentSyn
  <2> DEFINE una == IF Has(packet, "ACK") THEN packet.ack ELSE tcb.send_unacknowledged
             t == [tcb EXCEPT !.receive_next = Plus(packet.seq, 1),
                              !.send_unacknowledged = una]
  <2>1. Plus(packet.seq, 1) \in SeqNum
    BY PlusType, PacketTypes
  <2>2. una \in SeqNum
    BY PacketTypes DEF ConnOK, Tcb
  <2>3. t \in Tcb /\ [t EXCEPT !.state = "ESTABLISHED"] \in Tcb
        /\ [t EXCEPT !.state = "ESTABLISHED"].state = "ESTABLISHED"
        /\ [t EXCEPT !.state = "SYN_RECEIVED"] \in Tcb
    BY <2>1, <2>2 DEF ConnOK, Tcb, States, Synchronized
  <2>4. /\ UNCHANGED <<in_buffer, packet, socket, advanced, num_ready, state, app, advertised>>
        /\ pc = "state" /\ delivered \in Nat /\ tcb.state = "SYN_SENT"
    BY <1>3 DEF SynSentSyn, SynSentGoodAck, InState, appVars, ConnOK
  <2>5. CASE una > Iss
    <3>1. /\ tcb' = AfterPayload([t EXCEPT !.state = "ESTABLISHED"], packet.size)
          /\ delivered' = delivered + packet.size
          /\ InternalWrite(tcb', {"ACK"})
          /\ pc' \in {"reply_syn", "syn_end"}
          /\ stack_idx' \in Nat /\ stack_idx' >= TcpIndex
      BY <1>3, <2>5 DEF SynSentSyn, TcpIndex
    <3> HIDE DEF t, una
    <3>2. tcb' \in Tcb /\ tcb'.state = "ESTABLISHED"
      BY <2>3, <3>1, AfterPayloadType, PacketTypes
    <3>3. OutOK'
      <4>1. {"ACK"} \in SUBSET Flags
        BY DEF Flags
      <4> QED BY <3>1, <3>2, <4>1, InternalWriteOK
    <3>4. WorkOK'
      BY <2>4, <3>1 DEF WorkOK, HeadPresent, Pcs, InOrder
    <3>5. delivered' \in Nat
      BY <2>4, <3>1, PacketTypes
    <3>6. ConnOK'
      BY <2>4, <3>2, <3>5 DEF ConnOK, DataAfterHandshake
    <3> QED BY <3>3, <3>4, <3>6
  <2>6. CASE ~ (una > Iss)
    <3>1. /\ tcb' = [t EXCEPT !.state = "SYN_RECEIVED"]
          /\ delivered' = delivered
          /\ InternalWrite(tcb', {"SYN", "ACK"})
          /\ pc' = "syn_end" /\ stack_idx' = stack_idx
      BY <1>3, <2>6 DEF SynSentSyn
    <3> HIDE DEF t, una
    <3>2. tcb' \in Tcb
      BY <2>3, <3>1
    <3>3. OutOK'
      <4>1. {"SYN", "ACK"} \in SUBSET Flags
        BY DEF Flags
      <4> QED BY <3>1, <3>2, <4>1, InternalWriteOK
    <3>4. WorkOK'
      BY <2>4, <3>1 DEF WorkOK, HeadPresent, Pcs, InOrder
    <3>5. delivered = 0
      BY <2>4 DEF ConnOK, DataAfterHandshake
    <3>6. ConnOK'
      BY <2>4, <3>1, <3>2, <3>5 DEF ConnOK, DataAfterHandshake
    <3> QED BY <3>3, <3>4, <3>6
  <2> QED BY <2>5, <2>6
<1>4. CASE SynSentEnd
  <2>1. tcb' \in Tcb /\ tcb'.state = tcb.state
    BY <1>4, PacketTypes DEF SynSentEnd, ConnOK, Tcb
  <2>2. OutOK'
    BY <1>4, NoWriteOK DEF SynSentEnd, OutOK
  <2>3. WorkOK'
    BY <1>4, RemoveHeadOK, IdleOK DEF SynSentEnd
  <2>4. ConnOK'
    BY <1>4, <2>1, PacketTypes DEF SynSentEnd, ConnOK, DataAfterHandshake, appVars
  <2> QED BY <2>2, <2>3, <2>4
<1>5. CASE SynSentOther
  <2>1. OutOK'
    BY <1>5, NoWriteOK DEF SynSentOther, OutOK
  <2>2. WorkOK'
    BY <1>5, IdleOK DEF SynSentOther, WorkOK, InBufferOK
  <2>3. ConnOK'
    BY <1>5 DEF SynSentOther, ConnOK, DataAfterHandshake, appVars, ghosts
  <2> QED BY <2>1, <2>2, <2>3
<1> QED BY <1>1, <1>2, <1>3, <1>4, <1>5

\* send_next moves on, as it does in the writes of replies and of the application.
LEMMA SendNextType ==
  ASSUME NEW t \in Tcb, NEW size \in Nat
  PROVE  /\ [t EXCEPT !.send_next = Plus(@, size)] \in Tcb
         /\ [t EXCEPT !.send_next = Plus(@, size)].state = t.state
<1>1. Plus(t.send_next, size) \in SeqNum
  <2>1. t.send_next \in Nat
    BY ConstantTypes DEF Tcb
  <2> QED BY <2>1, PlusType
<1> QED BY <1>1 DEF Tcb

\* A step that leaves the connection alone, up to the numbers in its tcb.
LEMMA ConnUnchanged ==
  ASSUME ConnOK, tcb' \in Tcb, tcb'.state = tcb.state,
         UNCHANGED <<delivered, advertised, app>>
  PROVE  ConnOK'
BY DEF ConnOK, DataAfterHandshake

\* The write of a payload, wherever it is made.
LEMMA WritePayloadOK ==
  ASSUME IInv, NEW size \in Nat, WritePayload(size)
  PROVE  OutOK' /\ tcb' \in Tcb /\ tcb'.state = tcb.state
<1>1. tcb \in Tcb /\ {"ACK"} \in SUBSET Flags /\ OutOK
  BY DEF IInv, ConnOK, Flags
<1>2. CASE size <= HeaderRoom
  <2>1. TcpWrite(tcb, {"ACK"}, size) /\ tcb' = [tcb EXCEPT !.send_next = Plus(@, size)]
    BY <1>2 DEF WritePayload
  <2>2. OutOK'
    BY <1>1, <2>1, TcpWriteOK
  <2> QED BY <1>1, <2>1, <2>2, SendNextType
<1>3. CASE ~ (size <= HeaderRoom)
  <2>1. NoWrite /\ tcb' = tcb /\ fault' = fault
    BY <1>3 DEF WritePayload
  <2> QED BY <1>1, <2>1, NoWriteOK DEF OutOK
<1> QED BY <1>2, <1>3

\* The write, if any, of the handler above TCP.
LEMMA ReplyKeepsInv ==
  ASSUME IInv, NoReply \/ \E size \in ReplySizes : Reply(size)
  PROVE  IInv'
<1> USE DEF IInv
<1>1. AfterReply
  BY DEF NoReply, Reply
<1>2. OutOK' /\ tcb' \in Tcb /\ tcb'.state = tcb.state
  <2>1. CASE NoReply
    BY <2>1, NoWriteOK DEF NoReply, OutOK, ConnOK
  <2>2. ASSUME NEW size \in ReplySizes, Reply(size)
        PROVE  OutOK' /\ tcb' \in Tcb /\ tcb'.state = tcb.state
    <3>1. size \in Nat
      BY SendAssumption
    <3>2. CASE WritePayload(size)
      BY <3>1, <3>2, WritePayloadOK
    <3>3. CASE ~ WritePayload(size)
      <4>1. NoWrite /\ tcb' = tcb /\ fault' \in Faults
        BY <2>2, <3>3 DEF Reply, OutOK, Faults
      <4> QED BY <4>1, NoWriteOK DEF ConnOK
    <3> QED BY <3>2, <3>3
  <2> QED BY <2>1, <2>2
<1>3. WorkOK'
  BY <1>1 DEF AfterReply, WorkOK, HeadPresent, Pcs, InOrder
<1>4. ConnOK'
  BY <1>1, <1>2, ConnUnchanged DEF AfterReply, appVars, ghosts
<1> QED BY <1>2, <1>3, <1>4

\* The branches of tcp_others that leave the tcb as it is.
LEMMA OthersQuietKeepsInv ==
  ASSUME IInv, OthersOutside \/ OthersRst \/ OthersSyn \/ OthersNoAck
               \/ OthersUnsentAck \/ OthersNoFin
  PROVE  IInv'
<1> USE DEF IInv
<1>1. {"ACK"} \in SUBSET Flags /\ tcb \in Tcb
  BY DEF Flags, ConnOK
<1>2. pc \notin {"idle", "create"}
  BY DEF OthersOutside, OthersRst, OthersSyn, OthersNoAck, OthersUnsentAck, OthersNoFin,
         InOthersText, InOthersWindow, InOthers
<1>3. ConnOK'
  <2>1. UNCHANGED <<tcb, delivered, advertised, app>>
    BY DEF OthersOutside, OthersRst, OthersSyn, OthersNoAck, OthersUnsentAck, OthersNoFin,
           appVars, ghosts
  <2> QED BY <1>1, <2>1, ConnUnchanged
<1>4. CASE OthersOutside
  <2>1. OutOK'
    BY <1>1, <1>4, InternalWriteOK, NoWriteOK DEF OthersOutside, OutOK
  <2> QED BY <1>2, <1>3, <1>4, <2>1, NextBlockOK DEF OthersOutside
<1>5. CASE OthersRst
  <2>1. OutOK'
    BY <1>5, NoWriteOK DEF OthersRst, OutOK, Faults
  <2>2. WorkOK'
    BY <1>5, IdleOK DEF OthersRst, WorkOK, InBufferOK
  <2> QED BY <1>3, <2>1, <2>2
<1>6. CASE OthersSyn
  <2>1. CASE tcb.state = "SYN_RECEIVED" /\ ~ tcb.active_mode
    <3>1. OutOK'
      BY <1>6, <2>1, NoWriteOK DEF OthersSyn, OutOK
    <3>2. WorkOK'
      BY <1>6, <2>1, IdleOK DEF OthersSyn, WorkOK, InBufferOK
    <3> QED BY <1>3, <3>1, <3>2
  <2>2. CASE ~ (tcb.state = "SYN_RECEIVED" /\ ~ tcb.active_mode)
    <3>1. InternalWrite(tcb, {"ACK"}) /\ NextBlock
      BY <1>6, <2>2 DEF OthersSyn
    <3> QED BY <1>1, <1>2, <1>3, <3>1, InternalWriteOK, NextBlockOK
  <2> QED BY <2>1, <2>2
<1>7. CASE OthersNoAck
  <2>1. OutOK'
    BY <1>7, NoWriteOK DEF OthersNoAck, OutOK
  <2> QED BY <1>2, <1>3, <1>7, <2>1, NextBlockOK DEF OthersNoAck
<1>8. CASE OthersUnsentAck
  BY <1>1, <1>2, <1>3, <1>8, InternalWriteOK, NextBlockOK DEF OthersUnsentAck
<1>9. CASE OthersNoFin
  <2>1. OutOK'
    BY <1>9, NoWriteOK DEF OthersNoFin, OutOK
  <2> QED BY <1>2, <1>3, <1>9, <2>1, NextBlockOK DEF OthersNoFin
<1> QED BY <1>4, <1>5, <1>6, <1>7, <1>8, <1>9

\* The ACK of an established connection, with its payload.
LEMMA OthersAckKeepsInv ==
  ASSUME IInv, OthersAck
  PROVE  IInv'
<1> USE DEF IInv
<1>1. /\ UNCHANGED <<in_buffer, packet, socket, num_ready, app>> /\ state' = tcb.state
      /\ pc = "state" /\ tcb \in Tcb /\ delivered \in Nat
      /\ advertised' \in WindowSize
  BY PacketTypes DEF OthersAck, InOthersText, InOthersWindow, InOthers, appVars, ConnOK
<1>2. AfterAck \in Tcb /\ AfterAck.state = tcb.state
  BY <1>1, PacketTypes DEF AfterAck, Tcb
<1>3. state' \in States \union {"NONE"}
  BY <1>1 DEF Tcb
<1>4. CASE packet.size > 0 /\ tcb.state = "ESTABLISHED"
  <2>1. /\ tcb' = AfterPayload(AfterAck, packet.size)
        /\ delivered' = delivered + packet.size
        /\ advanced' = TRUE /\ stack_idx' = stack_idx + 1 /\ pc' = "reply_data"
        /\ IF socket THEN InternalWrite(tcb', {"ACK"})
                     ELSE NoWrite /\ fault' = "null_socket"
    BY <1>4 DEF OthersAck
  <2>2. tcb' \in Tcb /\ tcb'.state = "ESTABLISHED"
    BY <1>2, <1>4, <2>1, AfterPayloadType, PacketTypes
  <2>3. OutOK'
    <3>1. {"ACK"} \in SUBSET Flags /\ "null_socket" \in Faults
      BY DEF Flags, Faults
    <3> QED BY <2>1, <2>2, <3>1, InternalWriteOK, NoWriteOK
  <2>4. WorkOK'
    <3>1. stack_idx' \in Nat /\ stack_idx' >= TcpIndex
      BY <2>1 DEF WorkOK, TcpIndex
    <3> QED BY <1>1, <1>3, <2>1, <3>1 DEF WorkOK, HeadPresent, Pcs, InOrder
  <2>5. delivered' \in Nat
    BY <1>1, <2>1, PacketTypes
  <2>6. ConnOK'
    BY <1>1, <2>2, <2>5 DEF ConnOK, DataAfterHandshake
  <2> QED BY <2>3, <2>4, <2>6
<1>5. CASE ~ (packet.size > 0 /\ tcb.state = "ESTABLISHED")
  <2>1. /\ tcb' = AfterAck /\ pc' = "fin"
        /\ NoWrite /\ UNCHANGED <<delivered, stack_idx, advanced, fault>>
    BY <1>5 DEF OthersAck
  <2>2. OutOK'
    BY <2>1, NoWriteOK DEF OutOK
  <2>3. WorkOK'
    BY <1>1, <1>3, <2>1 DEF WorkOK, HeadPresent, Pcs, InOrder
  <2>4. ConnOK'
    BY <1>1, <1>2, <2>1 DEF ConnOK, DataAfterHandshake
  <2> QED BY <2>2, <2>3, <2>4
<1> QED BY <1>4, <1>5

\* The ACK of the handshake.
LEMMA OthersHandshakeAckKeepsInv ==
  ASSUME IInv, OthersHandshakeAck
  PROVE  IInv'
<1> USE DEF IInv
<1>1. /\ UNCHANGED <<in_buffer, packet, socket, stack_idx, advanced, num_ready, app,
                     delivered>>
      /\ state' = "SYN_RECEIVED" /\ pc' = "fin" /\ pc = "state"
      /\ tcb \in Tcb /\ tcb.state = "SYN_RECEIVED"
  BY DEF OthersHandshakeAck, InOthersText, InOthersWindow, InOthers, appVars, ConnOK
<1>2. delivered = 0
  BY <1>1 DEF ConnOK, DataAfterHandshake
<1>3. tcb' \in Tcb /\ advertised' \in WindowSize
  <2>1. CASE AckOk
    BY <1>1, <2>1, PacketTypes DEF OthersHandshakeAck, Tcb, States, Synchronized
  <2>2. CASE ~ AckOk
    BY <1>1, <2>2, PacketTypes DEF OthersHandshakeAck, Tcb, ConnOK
  <2> QED BY <2>1, <2>2
<1>4. OutOK'
  <2>1. CASE AckOk
    BY <2>1, NoWriteOK DEF OthersHandshakeAck, OutOK
  <2>2. CASE ~ AckOk
    <3>1. InternalWrite(tcb', {"RST"}) /\ {"RST"} \in SUBSET Flags
      BY <2>2 DEF OthersHandshakeAck, Flags
    <3> QED BY <1>3, <3>1, InternalWriteOK
  <2> QED BY <2>1, <2>2
<1>5. WorkOK'
  BY <1>1 DEF WorkOK, HeadPresent, Pcs, InOrder, States, Synchronized
<1>6. ConnOK'
  BY <1>1, <1>2, <1>3 DEF ConnOK, DataAfterHandshake
<1> QED BY <1>4, <1>5, <1>6

\* The FIN.
LEMMA OthersFinKeepsInv ==
  ASSUME IInv, OthersFin
  PROVE  IInv'
<1> USE DEF IInv
<1> DEFINE t == [tcb EXCEPT !.receive_next = Plus(packet.seq, 1)]
<1>1. Plus(packet.seq, 1) \in SeqNum
  BY PlusType, PacketTypes
<1>2. t \in Tcb /\ t.state = tcb.state /\ t.send_next \in Nat
  BY <1>1, ConstantTypes DEF ConnOK, Tcb
<1>3. /\ tcb' = [t EXCEPT !.send_next = Plus(@, 1),
                          !.state = IF state = "ESTABLISHED" THEN "CLOSE_WAIT" ELSE @]
      /\ IF socket THEN InternalWrite(t, {"ACK", "FIN"})
                   ELSE NoWrite /\ fault' = "null_socket"
  BY DEF OthersFin
<1> HIDE DEF t
<1>4. Plus(t.send_next, 1) \in SeqNum
  BY <1>2, PlusType
<1>5. tcb' \in Tcb /\ tcb'.state \in {tcb.state, "CLOSE_WAIT"}
  BY <1>2, <1>3, <1>4 DEF Tcb, States, Synchronized
<1>6. OutOK'
  <2>1. {"ACK", "FIN"} \in SUBSET Flags /\ "null_socket" \in Faults
    BY DEF Flags, Faults
  <2> QED BY <1>2, <1>3, <2>1, InternalWriteOK, NoWriteOK
<1>7. WorkOK'
  BY NextBlockOK DEF OthersFin
<1>8. ConnOK'
  BY <1>5 DEF OthersFin, ConnOK, DataAfterHandshake, appVars, ghosts
<1> QED BY <1>6, <1>7, <1>8

\* tcp_socket_connect and tcp_socket_send, at any point of a packet's handling.
LEMMA AppKeepsInv ==
  ASSUME IInv, Connect \/ ConnectReturn \/ \E size \in SendSizes : Send(size)
  PROVE  IInv'
<1> USE DEF IInv
<1>1. {"ACK"} \in SUBSET Flags /\ {"SYN"} \in SUBSET Flags /\ 0 \in Nat /\ tcb \in Tcb
  BY DEF Flags, ConnOK
<1>2. WorkOK'
  <2>1. UNCHANGED <<in_buffer, pc, packet, socket, stack_idx, advanced, num_ready, state>>
    BY DEF Connect, ConnectReturn, Send, workerVars
  <2> QED BY <2>1 DEF WorkOK, HeadPresent, InOrder
<1>3. CASE Connect /\ ~ Exists
  <2>1. tcb' = NewTcb("SYN_SENT", 0, 0, TRUE, TRUE) /\ TcpWrite(tcb', {"SYN"}, 0)
    BY <1>3 DEF Connect
  <2>2. "SYN_SENT" \in States
    BY DEF States
  <2>3. tcb' \in Tcb
    BY <2>1, <2>2, NewTcbType, ConstantTypes
  <2>4. OutOK'
    BY <1>1, <2>1, <2>3, TcpWriteOK
  <2>5. app' = "connecting" /\ delivered' = 0 /\ advertised' = 0
    BY <1>3 DEF Connect
  <2>6. ConnOK'
    <3>1. 0 \in WindowSize
      BY ConstantTypes
    <3> QED BY <2>3, <2>5, <3>1 DEF ConnOK, DataAfterHandshake
  <2> QED BY <1>2, <2>4, <2>6
<1>6. CASE Connect /\ Exists
  <2>1. /\ TcpWrite(tcb, {"SYN"}, 0) /\ app' = "duplicate"
        /\ UNCHANGED <<tcb, delivered, advertised>>
    BY <1>6 DEF Connect, ghosts
  <2>2. OutOK'
    BY <1>1, <2>1, TcpWriteOK
  <2>3. ConnOK'
    BY <2>1 DEF ConnOK, DataAfterHandshake
  <2> QED BY <1>2, <2>2, <2>3
<1>4. CASE ConnectReturn
  <2>1. OutOK'
    <3>1. NoWrite /\ fault' \in {fault, "use_after_free"}
      BY <1>4 DEF ConnectReturn, NoWrite
    <3> QED BY <3>1, NoWriteOK DEF OutOK, Faults
  <2>2. tcb' \in Tcb /\ tcb'.state = tcb.state
    <3>1. 1 \in Nat
      OBVIOUS
    <3> QED BY <1>1, <1>4, <3>1, SendNextType DEF ConnectReturn
  <2>3. app' = "connected" /\ delivered' = delivered /\ advertised' = advertised
    BY <1>4 DEF ConnectReturn, ghosts
  <2>4. ConnOK'
    BY <2>2, <2>3 DEF ConnOK, DataAfterHandshake
  <2> QED BY <1>2, <2>1, <2>4
<1>5. ASSUME NEW size \in SendSizes, Send(size) PROVE IInv'
  <2>1. size \in Nat
    BY SendAssumption
  <2>2. CASE Exists /\ tcb.has_args
    <3>1. OutOK' /\ tcb' \in Tcb /\ tcb'.state = tcb.state
      BY <1>5, <2>1, <2>2, WritePayloadOK DEF Send
    <3>2. ConnOK'
      BY <1>5, <3>1, ConnUnchanged DEF Send, appVars, ghosts
    <3> QED BY <1>2, <3>1, <3>2
  <2>3. CASE ~ (Exists /\ tcb.has_args)
    <3>1. NoWrite /\ fault' \in {"no_handlers", "null_tcb"} /\ tcb' = tcb
      BY <1>5, <2>3 DEF Send
    <3>2. OutOK'
      BY <3>1, NoWriteOK DEF Faults
    <3>3. ConnOK'
      BY <1>1, <1>5, <3>1, ConnUnchanged DEF Send, appVars, ghosts
    <3> QED BY <1>2, <3>2, <3>3
  <2> QED BY <2>2, <2>3
<1> QED BY <1>3, <1>4, <1>5, <1>6

-----------------------------------------------------------------------------
(* The theorems *)

\* The invariant holds when the stack starts.
LEMMA InitInv == Init => IInv
<1> SUFFICES ASSUME Init PROVE IInv
  OBVIOUS
<1>1. OutOK
  BY ConstantTypes DEF Init, OutOK, Faults, InOrder
<1>2. WorkOK
  <2>1. InBufferOK(<<>>)
    BY ConstantTypes DEF InBufferOK, InOrder
  <2>2. stack_idx \in Nat /\ stack_idx >= TcpIndex
    BY DEF Init, TcpIndex
  <2>3. packet \in Segment
    BY ConstantTypes DEF Init
  <2> QED BY <2>1, <2>2, <2>3 DEF Init, WorkOK, HeadPresent, Pcs, InBufferOK
<1>3. ConnOK
  BY ConstantTypes DEF Init, ConnOK, DataAfterHandshake
<1> QED BY <1>1, <1>2, <1>3 DEF IInv

\* Every step of the worker and of the application keeps it.
LEMMA NextInv == IInv /\ [Next]_vars => IInv'
<1> SUFFICES ASSUME IInv, [Next]_vars PROVE IInv'
  OBVIOUS
<1>1. CASE UNCHANGED vars
  <2>1. UNCHANGED <<tcb, in_buffer, out_buffer, pc, packet, socket, stack_idx, advanced,
                    num_ready, state, app, fault, sent, delivered, advertised>>
    BY <1>1 DEF vars, workerVars, appVars, ghosts
  <2> QED BY <2>1 DEF IInv, OutOK, WorkOK, ConnOK, HeadPresent, DataAfterHandshake, InOrder
<1>2. ASSUME NEW header \in Segments,
             TcpReadDropped(header) \/ TcpReadNew(header) \/ TcpReadExisting(header)
      PROVE  IInv'
  BY <1>2, ReadKeepsInv
<1>3. CASE Worker
  BY <1>3, CreateKeepsInv, ListenKeepsInv, SynSentKeepsInv, ReplyKeepsInv, OthersQuietKeepsInv,
     OthersAckKeepsInv, OthersHandshakeAckKeepsInv, OthersFinKeepsInv DEF Worker
<1>4. CASE Connect \/ ConnectReturn \/ \E size \in SendSizes : Send(size)
  BY <1>4, AppKeepsInv
<1> QED BY <1>1, <1>2, <1>3, <1>4 DEF Next

\* The inductive invariant holds throughout.
THEOREM Invariant == Spec => []IInv
BY InitInv, NextInv, PTL DEF Spec

\* Every variable keeps its type: in particular the window arithmetic of
\* tcp_receive_payload and the byte swaps stay within uint16_t, and num_ready
\* is never decremented below zero.
THEOREM TypeCorrect == Spec => []TypeOK
<1>1. IInv => TypeOK
  BY DEF IInv, OutOK, WorkOK, ConnOK, TypeOK, SentBlock
<1> QED BY <1>1, Invariant, PTL

\* Both block buffers of a connection are sorted and bounded at all times.
THEOREM BuffersStaySorted == Spec => []BuffersSorted
<1>1. IInv => BuffersSorted
  BY DEF IInv, OutOK, WorkOK, BuffersSorted
<1> QED BY <1>1, Invariant, PTL

\* No state function dereferences the head of an empty in_buffer.
THEOREM HeadAlwaysPresent == Spec => []HeadPresent
<1>1. IInv => HeadPresent
  BY DEF IInv, WorkOK
<1> QED BY <1>1, Invariant, PTL

\* No payload reaches the next handler before the handshake is complete.
THEOREM NoDataBeforeHandshake == Spec => []DataAfterHandshake
<1>1. IInv => DataAfterHandshake
  BY DEF IInv, ConnOK
<1> QED BY <1>1, Invariant, PTL

-----------------------------------------------------------------------------
(* The handshake, the acknowledgements and the window *)

(***************************************************************************)
(* The second invariant ties the worker's place to the connection: which   *)
(* steps may still come before the state changes, what connect has left in *)
(* the tcb, and what the window test at the start of an iteration says of  *)
(* the packet when its FIN bit is looked at, several steps later.          *)
(***************************************************************************)

\* A packet is one that arrived, and is under way only while there is a tcb.
UnderWay == pc # "idle" => packet \in Segments /\ (pc # "create" => Exists)

\* before the handshake nothing is pending of a packet but its state function
EarlyPlace == tcb.state \in {"LISTEN", "SYN_SENT"} => pc \in {"idle", "create", "state"}

\* in SYN_SENT the tcb is as connect has created it
SynSentFields ==
  tcb.state = "SYN_SENT" => tcb.send_window = 0 /\ tcb.send_unacknowledged = 0

\* while its own tcb is the connection's and it has not counted its SYN, no
\* acknowledgement is acceptable
Connecting ==
  app = "connecting" =>
    /\ Exists /\ tcb.has_args /\ tcb.state # "LISTEN"
    /\ tcb.state = "SYN_SENT" => tcb.send_next = Iss

\* tcp_others' copy of the state is not ahead of the tcb's
LocalState ==
  pc \in {"reply_data", "fin"} =>
    /\ tcb.state \in Synchronized
    /\ state = "ESTABLISHED" => tcb.state \in {"ESTABLISHED", "CLOSE_WAIT"}

\* what the window test has shown, when the FIN bit is looked at
SeenInWindow ==
  pc \in {"reply_data", "fin"} /\ packet.size <= 1 =>
    /\ packet.seq + 1 >= tcb.receive_next
    /\ \/ packet.seq < SeqSpace - 1
       \/ tcb.receive_window = 0 /\ tcb.receive_next = SeqSpace - 1

CInv ==
  UnderWay /\ EarlyPlace /\ SynSentFields /\ Connecting /\ LocalState /\ SeenInWindow

\* The bodies of WindowCloses, ConnectHoldsTcb, CountedBeforeEstablished and
\* ReceiveNextMonotone.
WindowStep ==
  /\ delivered' > delivered /\ tcb.state # "SYN_SENT"
  /\ packet.seq + packet.size <= SeqSpace
  => tcb.receive_window = tcb'.receive_window + packet.size

HeldStep == app = "connecting" /\ app' = "dangling" => pc = "create"

CountedStep ==
  tcb.state = "SYN_SENT" /\ tcb'.state = "ESTABLISHED" => app # "connecting"

ReceiveStep ==
  tcb.state \in Synchronized /\ tcb'.state \in Synchronized
    => \/ tcb'.receive_next >= tcb.receive_next
       \/ pc = "fin" /\ Has(packet, "FIN") /\ packet.size > 1
       \/ packet.seq + packet.size > SeqSpace
       \/ tcb.receive_window = 0 /\ tcb.receive_next = SeqSpace - 1

StepOK == WindowStep /\ HeldStep /\ CountedStep /\ ReceiveStep

\* The numbers of a tcb are natural numbers below their bounds.
LEMMA TcbNumbers ==
  ASSUME NEW t \in Tcb
  PROVE  /\ t.send_next \in Nat /\ t.send_unacknowledged \in Nat /\ t.receive_next \in Nat
         /\ t.receive_next < SeqSpace /\ t.receive_window \in Nat
         /\ t.receive_window < ByteBase * ByteBase /\ SeqSpace \in Nat /\ SeqSpace > 0
         /\ ByteBase * ByteBase \in Nat
<1>1. SeqSpace \in Nat /\ SeqSpace > 0
  BY SeqSpaceAssumption
<1>2. ByteBase * ByteBase \in Nat
  BY ByteBaseAssumption
<1> PICK M \in Nat : M = ByteBase * ByteBase
  BY <1>2
<1>3. t.receive_window \in 0 .. M - 1
  BY DEF Tcb, WindowSize
<1>4. t.receive_next \in SeqNum /\ t.send_next \in SeqNum /\ t.send_unacknowledged \in SeqNum
  BY DEF Tcb
<1> QED BY <1>1, <1>3, <1>4 DEF SeqNum

\* A sum of sequence numbers wraps, and is never above the sum.
LEMMA PlusValue ==
  ASSUME NEW a \in Nat, NEW b \in Nat
  PROVE  /\ Plus(a, b) \in Nat /\ Plus(a, b) < SeqSpace /\ Plus(a, b) <= a + b
         /\ a + b < SeqSpace => Plus(a, b) = a + b
<1>1. SeqSpace \in Nat /\ SeqSpace > 0
  BY SeqSpaceAssumption
<1> PICK n \in Nat : n = a + b
  OBVIOUS
<1>2. n % SeqSpace \in Nat /\ n % SeqSpace < SeqSpace /\ n % SeqSpace <= n
      /\ (n < SeqSpace => n % SeqSpace = n)
  BY <1>1
<1> QED BY <1>2 DEF Plus

\* A packet after which nothing is pending, of a tcb that stays as it is.
LEMMA QuietStep ==
  ASSUME IInv, CInv, tcb' = tcb, delivered' = delivered, app' = app,
         \/ pc' = "idle"
         \/ pc' = "state" /\ packet' \in Segments /\ Exists
  PROVE  CInv' /\ StepOK
<1>1. tcb \in Tcb /\ delivered \in Nat
  BY DEF IInv, ConnOK
<1>2. tcb.receive_next \in Nat
  BY <1>1, TcbNumbers
<1>3. CInv'
  BY DEF CInv, UnderWay, EarlyPlace, SynSentFields, Connecting, LocalState, SeenInWindow, Exists
<1>4. StepOK
  BY <1>1, <1>2 DEF StepOK, WindowStep, HeldStep, CountedStep, ReceiveStep
<1> QED BY <1>3, <1>4

\* The next iteration of tcp_others reads a packet that may arrive.
LEMMA NextBlockPlace ==
  ASSUME CInv, pc \notin {"idle", "create"}, NextBlock
  PROVE  \/ pc' = "idle"
         \/ pc' = "state" /\ packet' \in Segments /\ Exists
BY DEF CInv, UnderWay, NextBlock, Idle

\* send_next moves on: the writes of payload and the end of connect.
LEMMA SendNextStep ==
  ASSUME IInv, CInv, NEW size \in Nat,
         tcb' = tcb \/ tcb' = [tcb EXCEPT !.send_next = Plus(@, size)],
         delivered' = delivered, packet' = packet, state' = state,
         \/ pc' = pc
         \/ pc = "reply_syn" /\ pc' = "syn_end"
         \/ pc = "reply_data" /\ pc' = "fin",
         \/ app' = "connected"
         \/ app' = app /\ tcb.state # "SYN_SENT"
  PROVE  CInv' /\ StepOK
<1>1. tcb \in Tcb /\ delivered \in Nat
  BY DEF IInv, ConnOK
<1>2. tcb.receive_next \in Nat /\ tcb.send_next \in Nat /\ tcb.send_unacknowledged \in Nat
  BY <1>1, TcbNumbers
<1>3. /\ tcb'.state = tcb.state /\ tcb'.has_args = tcb.has_args
      /\ tcb'.send_unacknowledged = tcb.send_unacknowledged
      /\ tcb'.send_window = tcb.send_window
      /\ tcb'.receive_next = tcb.receive_next /\ tcb'.receive_window = tcb.receive_window
      /\ tcb'.send_next \in Nat
  <2>1. Plus(tcb.send_next, size) \in Nat
    BY <1>2, PlusValue
  <2> QED BY <1>1, <1>2, <2>1 DEF Tcb
<1>4. CInv'
  <2>1. UnderWay' /\ EarlyPlace'
    BY <1>3 DEF CInv, UnderWay, EarlyPlace, Exists
  <2>2. SynSentFields' /\ Connecting'
    BY <1>3 DEF CInv, SynSentFields, Connecting, Exists
  <2>3. LocalState' /\ SeenInWindow'
    BY <1>3 DEF CInv, LocalState, SeenInWindow
  <2> QED BY <2>1, <2>2, <2>3 DEF CInv
<1>5. StepOK
  BY <1>1, <1>2, <1>3 DEF StepOK, WindowStep, HeldStep, CountedStep, ReceiveStep
<1> QED BY <1>4, <1>5

\* A packet is finished with and the connection is in a new state.
LEMMA DoneStep ==
  ASSUME IInv, CInv, delivered' <= delivered, delivered' \in Nat, tcb'.state # "SYN_SENT",
         \/ pc' = "idle"
         \/ pc' = "state" /\ packet' \in Segments /\ tcb'.state # "NONE",
         Connecting', HeldStep, CountedStep, ReceiveStep
  PROVE  CInv' /\ StepOK
<1>1. delivered \in Nat
  BY DEF IInv, ConnOK
<1>2. CInv'
  BY DEF CInv, UnderWay, EarlyPlace, SynSentFields, LocalState, SeenInWindow, Exists
<1>3. StepOK
  BY <1>1 DEF StepOK, WindowStep
<1> QED BY <1>2, <1>3

-----------------------------------------------------------------------------
(* One lemma per group of actions, for the second invariant *)

\* A segment is queued: its state function starts, or nothing is pending.
LEMMA ReceivePlace ==
  ASSUME NEW t, NEW buffer, NEW header \in Segments, Receive(t, buffer, header)
  PROVE  tcb' = t /\ (pc' = "idle" \/ (pc' = "state" /\ packet' \in Segments))
<1> DEFINE queue == Add(buffer, [seq |-> header.seq, size |-> header.size])
           ready == NumReady(queue, t.receive_next)
<1>1. tcb' = t
  BY DEF Receive
<1>2. CASE AddFaults(buffer, header.seq)
  <2>1. Idle
    BY <1>2 DEF Receive
  <2> QED BY <1>1, <2>1 DEF Idle
<1>3. CASE ~ AddFaults(buffer, header.seq)
  <2>1. IF ready = 0
        THEN Idle
        ELSE /\ pc' = "state" /\ packet' = header /\ socket' = TRUE
             /\ stack_idx' = TcpIndex
             /\ advanced' = FALSE /\ num_ready' = ready /\ state' = "NONE"
    BY <1>3 DEF Receive
  <2> HIDE DEF queue, ready
  <2> QED BY <1>1, <2>1 DEF Idle
<1> QED BY <1>2, <1>3

\* tcp_read.
LEMMA ReadKeepsC ==
  ASSUME IInv, CInv, NEW header \in Segments,
         TcpReadDropped(header) \/ TcpReadNew(header) \/ TcpReadExisting(header)
  PROVE  CInv' /\ StepOK
<1>0. IInv' /\ tcb \in Tcb /\ tcb' \in Tcb /\ delivered \in Nat
  BY ReadKeepsInv DEF IInv, ConnOK
<1>1. CASE TcpReadDropped(header)
  BY <1>1, QuietStep DEF TcpReadDropped, workerVars, appVars, ghosts
<1>2. CASE TcpReadNew(header)
  <2>1. /\ pc' = "create" /\ packet' = header /\ UNCHANGED <<tcb, app, delivered>>
        /\ tcb.state = "NONE"
    BY <1>2 DEF TcpReadNew, appVars, ghosts, Exists
  <2>2. CInv'
    BY <2>1 DEF CInv, UnderWay, EarlyPlace, SynSentFields, Connecting, LocalState,
                SeenInWindow, Exists
  <2>3. StepOK
    BY <1>0, <2>1 DEF StepOK, WindowStep, HeldStep, CountedStep, ReceiveStep, Synchronized
  <2> QED BY <2>2, <2>3
<1>3. CASE TcpReadExisting(header)
  <2>1. /\ Exists /\ app' = app /\ delivered' = delivered
        /\ (pc' = "idle" \/ (pc' = "state" /\ packet' \in Segments))
    BY <1>3, ReceivePlace DEF TcpReadExisting, appVars, ghosts
  <2>2. CASE tcb.state # "SYN_SENT"
    <3>1. tcb' = tcb
      BY <1>3, <2>2, ReceivePlace DEF TcpReadExisting
    <3> QED BY <2>1, <3>1, QuietStep
  <2>3. CASE tcb.state = "SYN_SENT"
    <3>1. tcb' = [tcb EXCEPT !.receive_next = header.seq]
      BY <1>3, <2>3, ReceivePlace DEF TcpReadExisting
    <3>2. /\ tcb'.state = tcb.state /\ tcb'.has_args = tcb.has_args
          /\ tcb'.send_unacknowledged = tcb.send_unacknowledged
          /\ tcb'.send_window = tcb.send_window /\ tcb'.send_next = tcb.send_next
          /\ tcb'.receive_window = tcb.receive_window
      BY <1>0, <3>1 DEF Tcb
    <3>3. CInv'
      BY <2>1, <2>3, <3>2
         DEF CInv, UnderWay, EarlyPlace, SynSentFields, Connecting, LocalState, SeenInWindow,
             Exists
    <3>4. StepOK
      BY <1>0, <2>1, <2>3, <3>2
         DEF StepOK, WindowStep, HeldStep, CountedStep, ReceiveStep, Synchronized
    <3> QED BY <3>3, <3>4
  <2> QED BY <2>2, <2>3
<1> QED BY <1>1, <1>2, <1>3

\* A connection that is deleted is not one that connect still holds, unless the
\* reset is handled for a second tcb.
LEMMA DeleteKeepsC ==
  ASSUME IInv, CInv, DeleteTcb, Idle, app # "connecting" \/ pc = "create"
  PROVE  CInv' /\ StepOK
<1>1. tcb' = NoTcb /\ delivered' = 0 /\ pc' = "idle" /\ delivered \in Nat
  BY DEF DeleteTcb, Idle, IInv, ConnOK
<1>2. tcb' \in Tcb /\ tcb'.state = "NONE"
  BY <1>1, ConstantTypes DEF NoTcb
<1>3. HeldStep /\ CountedStep /\ ReceiveStep
  BY <1>2 DEF HeldStep, CountedStep, ReceiveStep, Synchronized
<1>4. delivered' <= delivered /\ delivered' \in Nat
  BY <1>1
<1>5. Connecting'
  BY DEF Connecting, DeleteTcb
<1> QED BY <1>1, <1>2, <1>3, <1>4, <1>5, DoneStep

\* tcp_read creates a tcb, or a second one.
LEMMA CreateKeepsC ==
  ASSUME IInv, CInv, CreateTcb \/ CreateSecond
  PROVE  CInv' /\ StepOK
<1>0. IInv' /\ tcb \in Tcb /\ tcb' \in Tcb /\ delivered \in Nat
  BY CreateKeepsInv DEF IInv, ConnOK
<1>1. CASE CreateTcb
  <2>1. PICK active_mode \in BOOLEAN :
          Receive(NewTcb("LISTEN", packet.seq, ByteSwap(packet.window), active_mode, FALSE),
                  <<>>, packet)
    BY <1>1 DEF CreateTcb
  <2>2. PICK t : t = NewTcb("LISTEN", packet.seq, ByteSwap(packet.window), active_mode, FALSE)
    OBVIOUS
  <2>3. t.state = "LISTEN" /\ packet \in Segments
    BY <1>1, <2>2 DEF NewTcb, NoTcb, CreateTcb, CInv, UnderWay
  <2>4. tcb'.state = "LISTEN" /\ (pc' = "idle" \/ (pc' = "state" /\ packet' \in Segments))
    BY <2>1, <2>2, <2>3, ReceivePlace
  <2>5. ~ Exists /\ delivered' = 0 /\ app' = app
    BY <1>1 DEF CreateTcb, appVars
  <2>6. Connecting'
    BY <2>5 DEF CInv, Connecting
  <2>7. HeldStep /\ CountedStep /\ ReceiveStep
    BY <2>4, <2>5 DEF HeldStep, CountedStep, ReceiveStep, Synchronized
  <2>8. delivered' <= delivered /\ delivered' \in Nat
    BY <1>0, <2>5
  <2> QED BY <1>0, <2>4, <2>6, <2>7, <2>8, DoneStep
<1>2. CASE CreateSecond
  <2>1. pc = "create" /\ Idle
    BY <1>2 DEF CreateSecond
  <2>2. CASE DeleteTcb
    BY <2>1, <2>2, DeleteKeepsC
  <2>3. CASE ~ DeleteTcb
    <3>1. UNCHANGED <<tcb, app, delivered>> /\ pc' = "idle"
      BY <1>2, <2>1, <2>3 DEF CreateSecond, ghosts, Idle
    <3> QED BY <3>1, QuietStep
  <2> QED BY <2>2, <2>3
<1> QED BY <1>1, <1>2

\* tcp_listen.
LEMMA ListenKeepsC ==
  ASSUME IInv, CInv, ListenRst \/ ListenAck \/ ListenSyn
  PROVE  CInv' /\ StepOK
<1>0. tcb \in Tcb /\ delivered \in Nat /\ tcb' \in Tcb
  BY ListenKeepsInv DEF IInv, ConnOK
<1>1. /\ tcb.state = "LISTEN" /\ app # "connecting" /\ pc' = "idle"
      /\ app' # "connecting" /\ Connecting'
  BY DEF ListenRst, ListenAck, ListenSyn, InState, CInv, Connecting, appVars, Idle, DeleteTcb
<1>2. CASE ListenRst
  BY <1>1, <1>2, DeleteKeepsC DEF ListenRst
<1>3. CASE ListenAck
  <2>1. tcb' = [tcb EXCEPT !.send_next = packet.ack, !.receive_next = 0]
        /\ delivered' = delivered
    BY <1>3 DEF ListenAck, ghosts
  <2>2. tcb'.state = "LISTEN"
    BY <1>0, <1>1, <2>1 DEF Tcb
  <2>3. HeldStep /\ CountedStep /\ ReceiveStep
    BY <1>1, <2>2 DEF HeldStep, CountedStep, ReceiveStep, Synchronized
  <2>4. delivered' <= delivered /\ delivered' \in Nat
    BY <1>0, <2>1
  <2> QED BY <1>0, <1>1, <2>2, <2>3, <2>4, DoneStep
<1>4. CASE ListenSyn
  <2>1. /\ tcb' = [[tcb EXCEPT !.receive_next = Plus(packet.seq, 1), !.state = "SYN_RECEIVED",
                               !.send_next = Iss]
                   EXCEPT !.send_unacknowledged = Iss, !.send_next = Plus(Iss, 1)]
        /\ delivered' = delivered
    BY <1>4 DEF ListenSyn, ghosts
  <2>2. tcb'.state = "SYN_RECEIVED"
    BY <1>0, <2>1 DEF Tcb
  <2>3. HeldStep /\ CountedStep /\ ReceiveStep
    BY <1>1, <2>2 DEF HeldStep, CountedStep, ReceiveStep, Synchronized
  <2>4. delivered' <= delivered /\ delivered' \in Nat
    BY <1>0, <2>1
  <2>5. tcb'.state \in Synchronized
    BY <2>2 DEF Synchronized
  <2> QED BY <1>0, <1>1, <2>2, <2>3, <2>4, <2>5, DoneStep
<1> QED BY <1>2, <1>3, <1>4

\* One turn round the modulus comes back to where it started.
LEMMA ModOnce ==
  ASSUME NEW d \in Nat, NEW m \in Nat, d < m
  PROVE  (d + m) % m = d
<1>1. m > 0 /\ d + m \in Nat
  OBVIOUS
<1> QED BY <1>1

\* uint16_t subtraction of what the window has room for does not wrap.
LEMMA MinusWindowExact ==
  ASSUME NEW w \in WindowSize, NEW size \in Nat, size <= w
  PROVE  MinusWindow(w, size) + size = w
<1>1. PICK M \in Nat : M = ByteBase * ByteBase /\ M > 0
  <2>1. ByteBase * ByteBase \in Nat /\ ByteBase * ByteBase > 0
    BY ByteBaseAssumption
  <2> QED BY <2>1
<1>2. w \in 0 .. M - 1
  BY <1>1 DEF WindowSize
<1>3. PICK d \in Nat : d = w - size /\ d < M
  BY <1>1, <1>2
<1>4. w + M - size = d + M
  BY <1>1, <1>2, <1>3
<1>5. (d + M) % M = d
  BY <1>1, <1>3, ModOnce
<1> QED BY <1>1, <1>2, <1>3, <1>4, <1>5 DEF MinusWindow

\* What tcp_receive_payload writes and what it leaves.
LEMMA AfterPayloadFields ==
  ASSUME NEW t \in Tcb, NEW size \in Nat, NEW u, u = AfterPayload(t, size)
  PROVE  /\ u.state = t.state /\ u.has_args = t.has_args /\ u.send_next = t.send_next
         /\ u.send_unacknowledged = t.send_unacknowledged /\ u.send_window = t.send_window
         /\ u.receive_next = Plus(t.receive_next, size)
         /\ u.receive_window = MinusWindow(t.receive_window, size)
BY DEF AfterPayload, Tcb

\* tcp_syn_sent.
LEMMA SynSentKeepsC ==
  ASSUME IInv, CInv,
         SynSentBadAck \/ SynSentRst \/ SynSentSyn \/ SynSentEnd \/ SynSentOther
  PROVE  CInv' /\ StepOK
<1>0. tcb \in Tcb /\ delivered \in Nat /\ tcb' \in Tcb /\ delivered' \in Nat
  BY SynSentKeepsInv DEF IInv, ConnOK
<1>n. /\ packet.ack \in Nat /\ packet.size \in Nat /\ Iss \in Nat
      /\ tcb.send_next \in Nat /\ tcb.send_unacknowledged \in Nat
  BY <1>0, PacketTypes, TcbNumbers, IssAssumption, ConstantTypes DEF IInv
<1>1. CASE SynSentBadAck \/ SynSentOther
  BY <1>1, QuietStep DEF SynSentBadAck, SynSentOther, Idle, appVars, ghosts
<1>2. CASE SynSentRst
  <2>1. CASE Has(packet, "ACK")
    <3>1. tcb.state = "SYN_SENT" /\ packet.ack > Iss /\ packet.ack <= tcb.send_next
      BY <1>2, <1>n, <2>1 DEF SynSentRst, SynSentGoodAck, InState, AckUnacceptable
    <3>2. app # "connecting"
      BY <1>n, <3>1 DEF CInv, Connecting
    <3> QED BY <1>2, <2>1, <3>2, DeleteKeepsC DEF SynSentRst
  <2>2. CASE ~ Has(packet, "ACK")
    BY <1>2, <2>2, QuietStep DEF SynSentRst, Idle, appVars, ghosts
  <2> QED BY <2>1, <2>2
<1>3. CASE SynSentSyn
  <2> DEFINE una == IF Has(packet, "ACK") THEN packet.ack ELSE tcb.send_unacknowledged
             t == [tcb EXCEPT !.receive_next = Plus(packet.seq, 1),
                              !.send_unacknowledged = una]
  <2>1. /\ tcb.state = "SYN_SENT" /\ pc = "state" /\ app' = app /\ packet' = packet
        /\ (Has(packet, "ACK") => packet.ack > Iss /\ packet.ack <= tcb.send_next)
    BY <1>3, <1>n DEF SynSentSyn, SynSentGoodAck, InState, AckUnacceptable, appVars
  <2>2. /\ tcb.send_unacknowledged = 0
        /\ (app = "connecting" => tcb.send_next = Iss)
        /\ packet \in Segments /\ (app = "connecting" => tcb.has_args)
    BY <2>1 DEF CInv, SynSentFields, UnderWay, Connecting
  <2>3. una \in SeqNum /\ una \in Nat /\ Plus(packet.seq, 1) \in SeqNum
    BY <1>0, <1>n, PacketTypes, PlusType DEF IInv, Tcb
  <2> HIDE DEF una
  <2>4. t \in Tcb /\ [t EXCEPT !.state = "ESTABLISHED"] \in Tcb
        /\ [t EXCEPT !.state = "SYN_RECEIVED"] \in Tcb
    BY <1>0, <2>3 DEF Tcb, States, Synchronized
  <2>5. \A s \in {"ESTABLISHED", "SYN_RECEIVED"} :
          LET u == [t EXCEPT !.state = s]
          IN  /\ u.state = s /\ u.has_args = tcb.has_args /\ u.send_next = tcb.send_next
              /\ u.send_unacknowledged = una
    BY <1>0 DEF Tcb
  <2> HIDE DEF t
  <2>6. /\ tcb'.state \in {"ESTABLISHED", "SYN_RECEIVED"} /\ tcb'.has_args = tcb.has_args
        /\ tcb'.send_next = tcb.send_next /\ tcb'.send_unacknowledged = una
        /\ pc' \in {"reply_syn", "syn_end"}
        /\ (tcb'.state = "ESTABLISHED" => una > Iss)
    <3>1. CASE una > Iss
      <4>1. /\ tcb' = AfterPayload([t EXCEPT !.state = "ESTABLISHED"], packet.size)
            /\ pc' \in {"reply_syn", "syn_end"}
        BY <1>3, <3>1 DEF SynSentSyn, una, t
      <4>2. PICK u \in Tcb : u = [t EXCEPT !.state = "ESTABLISHED"]
        BY <2>4
      <4>3. /\ u.state = "ESTABLISHED" /\ u.has_args = tcb.has_args
            /\ u.send_next = tcb.send_next /\ u.send_unacknowledged = una
        BY <2>5, <4>2
      <4>4. tcb' = AfterPayload(u, packet.size)
        BY <4>1, <4>2
      <4>5. /\ tcb'.state = u.state /\ tcb'.has_args = u.has_args
            /\ tcb'.send_next = u.send_next
            /\ tcb'.send_unacknowledged = u.send_unacknowledged
        BY <1>n, <4>4, AfterPayloadFields
      <4> QED BY <3>1, <4>1, <4>3, <4>5
    <3>2. CASE ~ (una > Iss)
      <4>1. /\ tcb' = [t EXCEPT !.state = "SYN_RECEIVED"]
            /\ pc' = "syn_end"
        BY <1>3, <3>2 DEF SynSentSyn, una, t
      <4> QED BY <2>5, <4>1
    <3> QED BY <3>1, <3>2
  <2>7. CInv'
    <3>1. UnderWay' /\ EarlyPlace' /\ SynSentFields'
      BY <2>1, <2>2, <2>6 DEF UnderWay, EarlyPlace, SynSentFields, Exists
    <3>2. Connecting' /\ LocalState' /\ SeenInWindow'
      BY <2>1, <2>2, <2>6 DEF Connecting, LocalState, SeenInWindow, Exists
    <3> QED BY <3>1, <3>2 DEF CInv
  <2>8. WindowStep /\ HeldStep
    BY <2>1 DEF WindowStep, HeldStep
  <2>9. CountedStep
    BY <1>n, <2>1, <2>2, <2>6 DEF CountedStep, una
  <2>10. ReceiveStep
    BY <2>1 DEF ReceiveStep, Synchronized
  <2> QED BY <2>7, <2>8, <2>9, <2>10 DEF StepOK
<1>4. CASE SynSentEnd
  <2>1. /\ tcb' = [tcb EXCEPT !.send_window = packet.window, !.last_update_seq = packet.seq,
                              !.last_update_ack = packet.ack]
        /\ delivered' = delivered /\ app' = app /\ pc' = "idle" /\ pc = "syn_end"
    BY <1>4 DEF SynSentEnd, appVars, Idle
  <2>2. /\ tcb'.state = tcb.state /\ tcb'.has_args = tcb.has_args
        /\ tcb'.send_unacknowledged = tcb.send_unacknowledged
        /\ tcb'.send_next = tcb.send_next /\ tcb'.receive_next = tcb.receive_next
    BY <1>0, <2>1 DEF Tcb
  <2>3. tcb.state \in Synchronized
    BY <1>0, <2>1 DEF CInv, UnderWay, EarlyPlace, Exists, Tcb, States
  <2>4. HeldStep /\ CountedStep /\ ReceiveStep
    BY <1>0, <2>1, <2>2, <2>3, TcbNumbers
       DEF HeldStep, CountedStep, ReceiveStep, Synchronized
  <2>5. Connecting' /\ tcb'.state # "SYN_SENT"
    BY <2>1, <2>2, <2>3 DEF CInv, Connecting, Synchronized, Exists
  <2>6. delivered' <= delivered
    BY <1>0, <2>1
  <2> QED BY <1>0, <2>1, <2>2, <2>3, <2>4, <2>5, <2>6, DoneStep
<1> QED BY <1>1, <1>2, <1>3, <1>4

\* The next handler, and what it may write.
LEMMA ReplyKeepsC ==
  ASSUME IInv, CInv, NoReply \/ \E size \in ReplySizes : Reply(size)
  PROVE  CInv' /\ StepOK
<1>1. /\ pc \in {"reply_syn", "reply_data"}
      /\ pc' = IF pc = "reply_syn" THEN "syn_end" ELSE "fin"
      /\ delivered' = delivered /\ packet' = packet /\ state' = state /\ app' = app
  BY DEF NoReply, Reply, AfterReply, appVars, ghosts
<1>2. tcb.state # "SYN_SENT"
  BY <1>1 DEF CInv, EarlyPlace
<1>3. PICK size \in Nat : tcb' = tcb \/ tcb' = [tcb EXCEPT !.send_next = Plus(@, size)]
  <2>1. CASE NoReply
    BY <2>1 DEF NoReply
  <2>2. ASSUME NEW size \in ReplySizes, Reply(size)
        PROVE  tcb' = tcb \/ tcb' = [tcb EXCEPT !.send_next = Plus(@, size)]
    BY <2>2 DEF Reply, WritePayload
  <2> QED BY <2>1, <2>2, SendAssumption
<1> QED BY <1>1, <1>2, <1>3, SendNextStep

\* The iterations of tcp_others that leave the tcb as it is.
LEMMA OthersQuietKeepsC ==
  ASSUME IInv, CInv,
         \/ OthersOutside \/ OthersRst \/ OthersSyn \/ OthersNoAck \/ OthersUnsentAck
         \/ OthersNoFin
  PROVE  CInv' /\ StepOK
<1>1. tcb' = tcb /\ delivered' = delivered /\ app' = app /\ pc \notin {"idle", "create"}
  BY DEF OthersOutside, OthersRst, OthersSyn, OthersNoAck, OthersUnsentAck, OthersNoFin,
         InOthersText, InOthersWindow, InOthers, appVars, ghosts
<1>2. Idle \/ NextBlock
  BY DEF OthersOutside, OthersRst, OthersSyn, OthersNoAck, OthersUnsentAck, OthersNoFin
<1>3. CASE Idle
  BY <1>1, <1>3, QuietStep DEF Idle
<1>4. CASE NextBlock
  BY <1>1, <1>4, NextBlockPlace, QuietStep
<1> QED BY <1>2, <1>3, <1>4

(***************************************************************************)
(* What is_segment_in_window promises of a segment that does not run over  *)
(* the end of the sequence space: it starts no earlier than receive_next,  *)
(* its payload fits the window, and receive_next can be moved past it.     *)
(***************************************************************************)
LEMMA WindowTest ==
  ASSUME NEW t \in Tcb, NEW header \in Segment, is_segment_in_window(t, header)
  PROVE  /\ header.seq >= t.receive_next
         /\ header.seq + header.size <= SeqSpace =>
              /\ header.size <= t.receive_window
              /\ Plus(t.receive_next, header.size) = t.receive_next + header.size
         /\ header.seq = SeqSpace - 1 =>
              t.receive_window = 0 /\ t.receive_next = SeqSpace - 1 /\ header.size = 0
<1> PICK rn \in Nat, rw \in Nat, seq \in Nat, size \in Nat :
      rn = t.receive_next /\ rw = t.receive_window /\ seq = header.seq /\ size = header.size
  BY TcbNumbers, ConstantTypes DEF Segment
<1>1. SeqSpace \in Nat /\ SeqSpace > 0 /\ rn < SeqSpace /\ seq < SeqSpace
  <2>1. header.seq \in SeqNum
    BY DEF Segment
  <2> QED BY <2>1, TcbNumbers DEF SeqNum
<1>2. CASE rw = 0
  <2>1. size = 0 /\ seq = rn
    BY <1>2 DEF is_segment_in_window
  <2>2. Plus(rn, size) = rn + size
    <3>1. rn + size < SeqSpace
      BY <1>1, <2>1
    <3> QED BY <3>1, PlusValue
  <2> QED BY <1>1, <1>2, <2>1, <2>2
<1>3. CASE rw # 0
  <2> PICK edge \in Nat : edge = Plus(rn, rw) /\ edge < SeqSpace /\ edge <= rn + rw
    BY PlusValue
  <2>1. /\ seq >= rn /\ seq < edge
        /\ size > 0 => Plus(seq, size + SeqSpace - 1) < edge
    BY <1>3 DEF is_segment_in_window
  <2>2. seq < SeqSpace - 1
    BY <1>1, <2>1
  <2>3. ASSUME seq + size <= SeqSpace, size > 0
        PROVE  seq + size - 1 < edge
    <3>1. PICK last \in Nat : last = seq + size - 1 /\ last < SeqSpace
      BY <1>1, <2>3
    <3>2. (last + SeqSpace) % SeqSpace = last
      BY <1>1, <3>1, ModOnce
    <3>3. seq + (size + SeqSpace - 1) = last + SeqSpace
      BY <1>1, <3>1
    <3> QED BY <2>1, <2>3, <3>1, <3>2, <3>3 DEF Plus
  <2>4. ASSUME seq + size <= SeqSpace
        PROVE  size <= rw /\ rn + size < SeqSpace
    BY <1>1, <2>1, <2>3, <2>4
  <2>5. seq + size <= SeqSpace => size <= rw /\ Plus(rn, size) = rn + size
    BY <2>4, PlusValue
  <2> QED BY <1>1, <2>1, <2>2, <2>5
<1> QED BY <1>2, <1>3

\* What the window test has shown still holds when the FIN bit is looked at.
LEMMA StaysInWindow ==
  ASSUME IInv, CInv, InOthersWindow, tcb'.receive_next \in Nat, packet' = packet,
         \/ /\ tcb'.receive_next = tcb.receive_next
            /\ tcb'.receive_window = tcb.receive_window
         \/ packet.size > 0 /\ tcb'.receive_next <= tcb.receive_next + packet.size
  PROVE  SeenInWindow'
<1>1. tcb \in Tcb /\ packet \in Segment /\ packet.size \in Nat /\ packet.seq \in Nat
  BY PacketTypes DEF IInv, ConnOK, WorkOK
<1>2. SeqSpace \in Nat /\ tcb.receive_next \in Nat /\ packet.seq <= SeqSpace - 1
  <2>1. packet.seq \in SeqNum
    BY <1>1 DEF Segment
  <2> QED BY <1>1, <2>1, TcbNumbers DEF SeqNum
<1>3. /\ packet.seq >= tcb.receive_next
      /\ packet.seq = SeqSpace - 1 =>
           tcb.receive_window = 0 /\ tcb.receive_next = SeqSpace - 1 /\ packet.size = 0
  BY <1>1, WindowTest DEF InOthersWindow
<1>4. packet.size <= 1 =>
        /\ packet.seq + 1 >= tcb'.receive_next
        /\ \/ packet.seq < SeqSpace - 1
           \/ tcb'.receive_window = 0 /\ tcb'.receive_next = SeqSpace - 1
  BY <1>1, <1>2, <1>3
<1> QED BY <1>4 DEF SeenInWindow

\* tcp_others past the window test: the tcb keeps its state or moves on in the handshake.
LEMMA TextKeepsC ==
  ASSUME IInv, CInv, InOthersWindow, tcb'.state \in Synchronized,
         tcb'.has_args = tcb.has_args, app' = app, packet' = packet,
         pc' \in {"reply_data", "fin"},
         state' = "ESTABLISHED" => tcb'.state = "ESTABLISHED",
         SeenInWindow'
  PROVE  CInv'
<1>1. pc = "state" /\ tcb.state \in Synchronized
  BY DEF InOthersWindow, InOthers
<1>2. UnderWay' /\ EarlyPlace' /\ SynSentFields'
  BY <1>1 DEF CInv, UnderWay, EarlyPlace, SynSentFields, Exists, Synchronized
<1>3. Connecting' /\ LocalState'
  BY <1>1 DEF CInv, Connecting, LocalState, Exists, Synchronized
<1> QED BY <1>2, <1>3 DEF CInv

\* The ACK of an established connection, with its payload.
LEMMA OthersAckKeepsC ==
  ASSUME IInv, CInv, OthersAck
  PROVE  CInv' /\ StepOK
<1>1. /\ InOthersWindow /\ tcb.state \in Synchronized /\ app' = app /\ packet' = packet
      /\ state' = tcb.state /\ packet.ack <= tcb.send_next
  BY DEF OthersAck, InOthersText, InOthersWindow, InOthers, appVars
<1>2. tcb \in Tcb /\ tcb' \in Tcb /\ packet \in Segment /\ delivered \in Nat
  BY OthersAckKeepsInv DEF IInv, ConnOK, WorkOK
<1>3. /\ packet.size \in Nat /\ packet.ack \in Nat /\ packet.seq \in Nat
      /\ tcb.send_next \in Nat /\ tcb.send_unacknowledged \in Nat /\ SeqSpace \in Nat
      /\ tcb.receive_next \in Nat /\ tcb'.receive_next \in Nat
      /\ tcb.receive_window \in WindowSize
  BY <1>2, PacketTypes, TcbNumbers DEF IInv, Tcb
<1>4. AfterAck \in Tcb
  BY <1>2, PacketTypes DEF IInv, AfterAck, Tcb
<1>5. PICK u \in Tcb :
        /\ u = AfterAck
        /\ u.state = tcb.state /\ u.has_args = tcb.has_args /\ u.send_next = tcb.send_next
        /\ u.receive_next = tcb.receive_next /\ u.receive_window = tcb.receive_window
        /\ u.send_unacknowledged \in {packet.ack, tcb.send_unacknowledged}
  BY <1>2, <1>4 DEF AfterAck, Tcb
<1>6. CASE packet.size > 0 /\ tcb.state = "ESTABLISHED"
  <2>1. /\ tcb' = AfterPayload(u, packet.size) /\ delivered' = delivered + packet.size
        /\ pc' = "reply_data"
    BY <1>5, <1>6 DEF OthersAck
  <2>2. /\ tcb'.state = tcb.state /\ tcb'.has_args = tcb.has_args
        /\ tcb'.send_next = tcb.send_next
        /\ tcb'.send_unacknowledged \in {packet.ack, tcb.send_unacknowledged}
        /\ tcb'.receive_next = Plus(tcb.receive_next, packet.size)
        /\ tcb'.receive_window = MinusWindow(tcb.receive_window, packet.size)
    BY <1>3, <1>5, <2>1, AfterPayloadFields
  <2>3. tcb'.receive_next <= tcb.receive_next + packet.size
    BY <1>3, <2>2, PlusValue
  <2>4. SeenInWindow'
    BY <1>1, <1>3, <1>6, <2>3, StaysInWindow
  <2>5. CInv'
    BY <1>1, <1>6, <2>1, <2>2, <2>4, TextKeepsC
  <2>6. packet.seq + packet.size <= SeqSpace =>
          /\ packet.size <= tcb.receive_window
          /\ Plus(tcb.receive_next, packet.size) = tcb.receive_next + packet.size
    BY <1>1, <1>2, WindowTest DEF InOthersWindow
  <2>7. WindowStep
    <3>1. ASSUME packet.seq + packet.size <= SeqSpace
          PROVE  tcb'.receive_window + packet.size = tcb.receive_window
      BY <1>3, <2>2, <2>6, <3>1, MinusWindowExact
    <3> QED BY <3>1 DEF WindowStep
  <2>8. HeldStep /\ CountedStep
    BY <1>1, <1>6 DEF HeldStep, CountedStep
  <2>9. ReceiveStep
    <3>1. CASE packet.seq + packet.size <= SeqSpace
      BY <1>3, <2>2, <2>6, <3>1 DEF ReceiveStep
    <3>2. CASE packet.seq + packet.size > SeqSpace
      BY <3>2 DEF ReceiveStep
    <3> QED BY <1>3, <3>1, <3>2
  <2> QED BY <2>5, <2>7, <2>8, <2>9 DEF StepOK
<1>7. CASE ~ (packet.size > 0 /\ tcb.state = "ESTABLISHED")
  <2>1. tcb' = u /\ pc' = "fin" /\ delivered' = delivered
    BY <1>5, <1>7 DEF OthersAck
  <2>2. SeenInWindow'
    BY <1>1, <1>3, <1>5, <2>1, StaysInWindow
  <2>3. CInv'
    BY <1>1, <1>5, <2>1, <2>2, TextKeepsC
  <2>4. StepOK
    BY <1>1, <1>2, <1>3, <1>5, <2>1
       DEF StepOK, WindowStep, HeldStep, CountedStep, ReceiveStep
  <2> QED BY <2>3, <2>4
<1> QED BY <1>6, <1>7

\* The ACK of the handshake.
LEMMA OthersHandshakeAckKeepsC ==
  ASSUME IInv, CInv, OthersHandshakeAck
  PROVE  CInv' /\ StepOK
<1>1. /\ InOthersWindow /\ tcb.state = "SYN_RECEIVED" /\ app' = app /\ packet' = packet
      /\ state' = "SYN_RECEIVED" /\ delivered' = delivered /\ pc' = "fin"
  BY DEF OthersHandshakeAck, InOthersText, appVars
<1>2. tcb \in Tcb /\ tcb' \in Tcb /\ delivered \in Nat
  BY OthersHandshakeAckKeepsInv DEF IInv, ConnOK
<1>3. /\ packet.ack \in Nat /\ tcb.send_next \in Nat /\ tcb.send_unacknowledged \in Nat
      /\ tcb.receive_next \in Nat
  BY <1>2, PacketTypes, TcbNumbers DEF IInv
<1>4. /\ tcb'.has_args = tcb.has_args
      /\ tcb'.receive_next = tcb.receive_next /\ tcb'.receive_window = tcb.receive_window
      /\ tcb'.send_unacknowledged = tcb.send_unacknowledged
      /\ \/ tcb'.state = "SYN_RECEIVED"
         \/ /\ tcb'.state = "ESTABLISHED" /\ tcb'.send_next = tcb.send_next
            /\ tcb.send_unacknowledged < tcb.send_next
  <2>1. CASE AckOk
    <3>1. tcb' = [tcb EXCEPT !.send_window = packet.window,
                             !.last_update_seq = packet.seq,
                             !.last_update_ack = packet.ack,
                             !.state = "ESTABLISHED"]
      BY <2>1 DEF OthersHandshakeAck
    <3>2. tcb.send_unacknowledged < tcb.send_next
      BY <1>3, <2>1 DEF AckOk
    <3> QED BY <1>2, <3>1, <3>2 DEF Tcb
  <2>2. CASE ~ AckOk
    <3>1. tcb' = [tcb EXCEPT !.send_next = packet.ack]
      BY <2>2 DEF OthersHandshakeAck
    <3> QED BY <1>1, <1>2, <3>1 DEF Tcb
  <2> QED BY <2>1, <2>2
<1>5. SeenInWindow'
  BY <1>1, <1>3, <1>4, StaysInWindow
<1>6. CInv'
  BY <1>1, <1>4, <1>5, TextKeepsC DEF Synchronized
<1>7. StepOK
  <2>1. WindowStep
    BY <1>1, <1>2 DEF WindowStep
  <2>2. HeldStep /\ CountedStep
    BY <1>1 DEF HeldStep, CountedStep
  <2>3. ReceiveStep
    BY <1>3, <1>4 DEF ReceiveStep
  <2> QED BY <2>1, <2>2, <2>3 DEF StepOK
<1> QED BY <1>6, <1>7

\* The FIN.
LEMMA OthersFinKeepsC ==
  ASSUME IInv, CInv, OthersFin
  PROVE  CInv' /\ StepOK
<1>1. /\ pc = "fin" /\ Has(packet, "FIN") /\ app' = app /\ delivered' = delivered
      /\ NextBlock
  BY DEF OthersFin, appVars, ghosts
<1>2. tcb \in Tcb /\ tcb' \in Tcb /\ delivered \in Nat
  BY OthersFinKeepsInv DEF IInv, ConnOK
<1>3. /\ packet.seq \in Nat /\ packet.size \in Nat /\ SeqSpace \in Nat
      /\ tcb.send_next \in Nat /\ tcb.send_unacknowledged \in Nat /\ tcb.receive_next \in Nat
      /\ tcb.send_next < SeqSpace
  BY <1>2, PacketTypes, TcbNumbers DEF IInv, Tcb, SeqNum
<1>4. /\ tcb.state \in Synchronized
      /\ state = "ESTABLISHED" => tcb.state \in {"ESTABLISHED", "CLOSE_WAIT"}
  BY <1>1 DEF CInv, LocalState
<1>5. tcb' = [[tcb EXCEPT !.receive_next = Plus(packet.seq, 1)]
              EXCEPT !.send_next = Plus(@, 1),
                     !.state = IF state = "ESTABLISHED" THEN "CLOSE_WAIT" ELSE @]
  BY DEF OthersFin
<1>6. /\ tcb'.has_args = tcb.has_args
      /\ tcb'.send_unacknowledged = tcb.send_unacknowledged
      /\ tcb'.send_next = Plus(tcb.send_next, 1)
      /\ tcb'.receive_next = Plus(packet.seq, 1)
      /\ tcb'.state = IF state = "ESTABLISHED" THEN "CLOSE_WAIT" ELSE tcb.state
  BY <1>2, <1>5 DEF Tcb
<1>7. /\ tcb'.state \in Synchronized
      /\ tcb'.state \in {"ESTABLISHED", "CLOSE_WAIT"} =>
           tcb.state \in {"ESTABLISHED", "CLOSE_WAIT"}
  BY <1>4, <1>6 DEF Synchronized
<1>8. HeldStep /\ CountedStep
  BY <1>1, <1>4 DEF HeldStep, CountedStep, Synchronized
<1>9. ReceiveStep
  <2>1. CASE packet.size > 1
    BY <1>1, <2>1 DEF ReceiveStep
  <2>2. CASE packet.size <= 1
    <3>1. /\ packet.seq + 1 >= tcb.receive_next
          /\ \/ packet.seq < SeqSpace - 1
             \/ tcb.receive_window = 0 /\ tcb.receive_next = SeqSpace - 1
      BY <1>1, <2>2 DEF CInv, SeenInWindow
    <3>2. CASE packet.seq < SeqSpace - 1
      <4>1. packet.seq + 1 < SeqSpace
        BY <1>3, <3>2
      <4>2. Plus(packet.seq, 1) = packet.seq + 1
        BY <1>3, <4>1, PlusValue
      <4> QED BY <1>6, <3>1, <4>2 DEF ReceiveStep
    <3> QED BY <3>1, <3>2 DEF ReceiveStep
  <2> QED BY <1>3, <2>1, <2>2
<1>10. Connecting' /\ tcb'.state # "SYN_SENT" /\ tcb'.state # "NONE"
  BY <1>1, <1>6, <1>7 DEF CInv, Connecting, Synchronized, Exists
<1>11. delivered' <= delivered /\ delivered' \in Nat
  BY <1>1, <1>2
<1>12. \/ pc' = "idle"
       \/ pc' = "state" /\ packet' \in Segments
  BY <1>1, NextBlockPlace
<1> QED BY <1>8, <1>9, <1>10, <1>11, <1>12, DoneStep

\* tcp_socket_connect and tcp_socket_send, at any point of a packet's handling.
LEMMA AppKeepsC ==
  ASSUME IInv, CInv, Connect \/ ConnectReturn \/ \E size \in SendSizes : Send(size)
  PROVE  CInv' /\ StepOK
<1>1. CASE Connect /\ ~ Exists
  <2>1. /\ tcb.state = "NONE" /\ packet' = packet /\ tcb' = NewTcb("SYN_SENT", 0, 0, TRUE, TRUE)
        /\ app' = "connecting" /\ delivered' = 0 /\ pc' = pc
    BY <1>1 DEF Connect, workerVars, Exists
  <2>2. pc \in {"idle", "create"} /\ delivered \in Nat
    BY <2>1 DEF IInv, ConnOK, CInv, UnderWay, Exists
  <2>3. /\ tcb'.state = "SYN_SENT" /\ tcb'.has_args /\ tcb'.send_next = Iss
        /\ tcb'.send_window = 0 /\ tcb'.send_unacknowledged = 0
    BY <2>1 DEF NewTcb, NoTcb
  <2>4. CInv'
    BY <2>1, <2>2, <2>3
       DEF CInv, UnderWay, EarlyPlace, SynSentFields, Connecting, LocalState, SeenInWindow,
           Exists
  <2>5. ~ (delivered' > delivered) /\ tcb'.state = "SYN_SENT"
    <3>1. delivered' = 0
      BY <1>1 DEF Connect
    <3> QED BY <2>2, <2>3, <3>1
  <2>6. StepOK
    BY <2>1, <2>5 DEF StepOK, WindowStep, HeldStep, CountedStep, ReceiveStep, Synchronized
  <2> QED BY <2>4, <2>6
<1>4. CASE Connect /\ Exists
  <2>1. /\ UNCHANGED <<tcb, delivered, pc, packet, state>> /\ app' = "duplicate"
    BY <1>4 DEF Connect, workerVars, ghosts
  <2>2. CInv'
    BY <2>1 DEF CInv, UnderWay, EarlyPlace, SynSentFields, Connecting, LocalState,
                SeenInWindow, Exists
  <2>3. tcb.receive_next \in Nat /\ delivered \in Nat
    BY TcbNumbers DEF IInv, ConnOK
  <2>4. StepOK
    BY <2>1, <2>3 DEF StepOK, WindowStep, HeldStep, CountedStep, ReceiveStep
  <2> QED BY <2>2, <2>4
<1>2. CASE ConnectReturn
  <2>1. /\ tcb' = tcb \/ tcb' = [tcb EXCEPT !.send_next = Plus(@, 1)]
        /\ delivered' = delivered /\ packet' = packet /\ state' = state /\ pc' = pc
        /\ app' = "connected"
    BY <1>2 DEF ConnectReturn, workerVars, ghosts
  <2>2. 1 \in Nat
    OBVIOUS
  <2> QED BY <2>1, <2>2, SendNextStep
<1>3. ASSUME NEW size \in SendSizes, Send(size) PROVE CInv' /\ StepOK
  <2>1. /\ tcb' = tcb \/ tcb' = [tcb EXCEPT !.send_next = Plus(@, size)]
        /\ delivered' = delivered /\ packet' = packet /\ state' = state /\ pc' = pc
        /\ app' = "connected"
    BY <1>3 DEF Send, WritePayload, workerVars, appVars, ghosts
  <2>2. size \in Nat
    BY SendAssumption
  <2> QED BY <2>1, <2>2, SendNextStep
<1> QED BY <1>1, <1>2, <1>3, <1>4

\* The second invariant holds when the stack starts.
LEMMA InitC == Init => CInv
BY DEF Init, NoTcb, CInv, UnderWay, EarlyPlace, SynSentFields, Connecting, LocalState,
       SeenInWindow, Exists

\* Every step keeps it, and is one that the four action properties allow.
LEMMA NextC == IInv /\ CInv /\ [Next]_vars => CInv' /\ StepOK
<1> SUFFICES ASSUME IInv, CInv, [Next]_vars PROVE CInv' /\ StepOK
  OBVIOUS
<1>1. CASE UNCHANGED vars
  <2>1. UNCHANGED <<tcb, pc, packet, state, app, delivered>>
    BY <1>1 DEF vars, workerVars, appVars, ghosts
  <2>2. CInv'
    BY <2>1 DEF CInv, UnderWay, EarlyPlace, SynSentFields, Connecting, LocalState,
                SeenInWindow, Exists
  <2>3. tcb.receive_next \in Nat /\ delivered \in Nat
    BY TcbNumbers DEF IInv, ConnOK
  <2>4. StepOK
    BY <2>1, <2>3 DEF StepOK, WindowStep, HeldStep, CountedStep, ReceiveStep
  <2> QED BY <2>2, <2>4
<1>2. ASSUME NEW header \in Segments,
             TcpReadDropped(header) \/ TcpReadNew(header) \/ TcpReadExisting(header)
      PROVE  CInv' /\ StepOK
  BY <1>2, ReadKeepsC
<1>3. CASE Worker
  BY <1>3, CreateKeepsC, ListenKeepsC, SynSentKeepsC, ReplyKeepsC, OthersQuietKeepsC,
     OthersAckKeepsC, OthersHandshakeAckKeepsC, OthersFinKeepsC DEF Worker
<1>4. CASE Connect \/ ConnectReturn \/ \E size \in SendSizes : Send(size)
  BY <1>4, AppKeepsC
<1> QED BY <1>1, <1>2, <1>3, <1>4 DEF Next

\* The second invariant holds throughout.
THEOREM HandshakeInvariant == Spec => []CInv
BY Invariant, InitC, NextC, PTL DEF Spec

\* While connect's tcb is the connection's, no reset that is handled for it deletes
\* it; the one for a second tcb, created after a lookup from before connect, does.
THEOREM ConnectStaysHeld == Spec => ConnectHoldsTcb
<1>1. IInv /\ CInv /\ [Next]_vars => [HeldStep]_vars
  BY NextC DEF StepOK
<1>2. Spec => [][HeldStep]_vars
  BY <1>1, Invariant, HandshakeInvariant, PTL DEF Spec
<1> QED BY <1>2 DEF ConnectHoldsTcb, HeldStep

\* A SYN-ACK that overtakes the end of connect does not establish the connection:
\* until the SYN is counted its acknowledgement is one of something not sent.
THEOREM EstablishedAfterCounting == Spec => CountedBeforeEstablished
<1>1. IInv /\ CInv /\ [Next]_vars => [CountedStep]_vars
  BY NextC DEF StepOK
<1>2. Spec => [][CountedStep]_vars
  BY <1>1, Invariant, HandshakeInvariant, PTL DEF Spec
<1> QED BY <1>2 DEF CountedBeforeEstablished, CountedStep

\* The subtraction of tcp_receive_payload does not wrap for a segment that passed
\* the window test and stays within the sequence space, whatever size it claims.
THEOREM PayloadClosesWindow == Spec => WindowCloses
<1>1. IInv /\ CInv /\ [Next]_vars => [WindowStep]_vars
  BY NextC DEF StepOK
<1>2. Spec => [][WindowStep]_vars
  BY <1>1, Invariant, HandshakeInvariant, PTL DEF Spec
<1> QED BY <1>2 DEF WindowCloses, WindowStep

\* receive_next moves back only in the three cases that ReceiveNextMonotone names.
THEOREM ReceiveNextMovesOn == Spec => ReceiveNextMonotone
<1>1. IInv /\ CInv /\ [Next]_vars => [ReceiveStep]_vars
  BY NextC DEF StepOK
<1>2. Spec => [][ReceiveStep]_vars
  BY <1>1, Invariant, HandshakeInvariant, PTL DEF Spec
<1> QED BY <1>2 DEF ReceiveNextMonotone, ReceiveStep

-----------------------------------------------------------------------------
(* What leaves in SYN_SENT *)

\* what this step handed to the lower handlers carries no payload
NoPayload == \A i \in 1 .. Len(sent) : sent[i].header.size = 0

\* A closed window reads as closed after the byte swap, too.
LEMMA ByteSwapZero == ByteSwap(0) = 0
<1> PICK B \in Nat : B = ByteBase /\ B > 0
  BY ByteBaseAssumption
<1>1. 0 % B = 0 /\ 0 \div B = 0
  OBVIOUS
<1>2. (0 % B) * B + 0 \div B = 0
  BY <1>1
<1> QED BY <1>2 DEF ByteSwap

\* With a closed window, tcp_write gets through packets without payload only.
LEMMA ClosedWindowWrite ==
  ASSUME OutOK, NEW t \in Tcb, t.send_window = 0, NEW flags \in SUBSET Flags,
         NEW size \in Nat, TcpWrite(t, flags, size)
  PROVE  NoPayload'
<1> DEFINE header == OutHeader(t, flags, size)
           queue == Add(out_buffer, header)
           fits == {i \in 1 .. Len(queue) : /\ i <= TcpIndex /\ FitsWindow(queue[i], t)
                                            /\ queue[i].size <= LowerRoom}
           count == PrefixLength(Len(queue), fits)
<1>1. header \in OutBlock
  BY DEF OutHeader, OutBlock, Tcb
<1>2. queue \in Seq(OutBlock)
  BY <1>1, AddProperties, ConstantTypes DEF OutOK
<1>3. \A i \in fits : i \in 1 .. Len(queue) /\ queue[i].size = 0
  <2> SUFFICES ASSUME NEW i \in fits PROVE i \in 1 .. Len(queue) /\ queue[i].size = 0
    OBVIOUS
  <2>1. i \in 1 .. Len(queue) /\ 0 >= queue[i].size
    BY ByteSwapZero DEF FitsWindow
  <2>2. queue[i].size \in Nat
    <3> HIDE DEF queue, fits
    <3>1. queue[i] \in OutBlock
      BY <1>2, <2>1
    <3> QED BY <3>1 DEF OutBlock
  <2> QED BY <2>1, <2>2
<1>4. count \in 0 .. Len(queue) /\ 1 .. count \subseteq fits
  <2> HIDE DEF fits
  <2> QED BY <1>2, PrefixLengthRun
<1>5. CASE AddFaults(out_buffer, header.seq)
  BY <1>5 DEF TcpWrite, NoPayload
<1>6. CASE ~ AddFaults(out_buffer, header.seq)
  <2>1. sent' = [i \in 1 .. count |-> [header |-> queue[i], intact |-> out_buffer = <<>>]]
    BY <1>6 DEF TcpWrite, Sendable
  <2>2. count \in Nat
    BY <1>2, <1>4
  <2> HIDE DEF count, fits, queue
  <2>3. Len(sent') = count
    BY <2>1, <2>2
  <2>4. ASSUME NEW i \in 1 .. count PROVE sent'[i].header.size = 0
    <3>1. sent'[i].header = queue[i]
      BY <2>1
    <3> QED BY <1>3, <1>4, <3>1
  <2> QED BY <2>3, <2>4 DEF NoPayload
<1> QED BY <1>5, <1>6

\* And so does tcp_internal_write, wherever it is called from.
LEMMA ClosedWindowInternal ==
  ASSUME OutOK, NEW t \in Tcb, t.send_window = 0, NEW flags \in SUBSET Flags,
         InternalWrite(t, flags)
  PROVE  NoPayload'
<1>1. CASE TcpWrite(t, flags, 0)
  BY <1>1, ClosedWindowWrite
<1>2. CASE sent' = <<>>
  BY <1>2 DEF NoPayload
<1> QED BY <1>1, <1>2 DEF InternalWrite, TcpWriteAbove, NoWrite

\* Only connect brings a connection into SYN_SENT.
LEMMA SynSentOnly ==
  ASSUME IInv, CInv, Worker, tcb'.state = "SYN_SENT"
  PROVE  CreateSecond \/ SynSentBadAck \/ SynSentRst \/ SynSentOther
<1>0. tcb \in Tcb
  BY DEF IInv, ConnOK
<1>1. ASSUME ListenRst \/ ListenAck \/ ListenSyn PROVE FALSE
  <2>1. CASE ListenRst
    BY <2>1 DEF ListenRst, DeleteTcb, NoTcb
  <2>2. CASE ListenAck
    BY <1>0, <2>2 DEF ListenAck, InState, Tcb
  <2>3. CASE ListenSyn
    <3>1. tcb' = [[tcb EXCEPT !.receive_next = Plus(packet.seq, 1), !.state = "SYN_RECEIVED",
                              !.send_next = Iss]
                  EXCEPT !.send_unacknowledged = Iss, !.send_next = Plus(Iss, 1)]
      BY <2>3 DEF ListenSyn
    <3> QED BY <1>0, <3>1 DEF Tcb
  <2> QED BY <1>1, <2>1, <2>2, <2>3
<1>8. ASSUME CreateTcb PROVE FALSE
  <2>1. tcb'.state = "LISTEN"
    BY <1>8 DEF CreateTcb, Receive, NewTcb, NoTcb
  <2> QED BY <2>1
<1>2. ASSUME SynSentSyn PROVE FALSE
  <2>1. pc' \in {"reply_syn", "syn_end"}
    BY <1>2 DEF SynSentSyn
  <2> QED BY <1>2, <2>1, SynSentKeepsC DEF CInv, EarlyPlace
<1>3. ASSUME SynSentEnd PROVE FALSE
  <2>1. pc = "syn_end" /\ tcb'.state = tcb.state
    BY <1>0, <1>3 DEF SynSentEnd, Tcb
  <2> QED BY <2>1 DEF CInv, EarlyPlace
<1>4. ASSUME NoReply \/ \E size \in ReplySizes : Reply(size) PROVE FALSE
  <2>1. pc' \in {"syn_end", "fin"}
    BY <1>4 DEF NoReply, Reply, AfterReply
  <2> QED BY <1>4, <2>1, ReplyKeepsC DEF CInv, EarlyPlace
<1>5. ASSUME \/ OthersOutside \/ OthersRst \/ OthersSyn \/ OthersNoAck \/ OthersUnsentAck
             \/ OthersNoFin
      PROVE  FALSE
  <2>1. tcb' = tcb /\ (tcb.state \in Synchronized \/ pc = "fin")
    BY <1>5 DEF OthersOutside, OthersRst, OthersSyn, OthersNoAck, OthersUnsentAck,
                OthersNoFin, InOthersText, InOthersWindow, InOthers
  <2> QED BY <2>1 DEF CInv, LocalState, Synchronized
<1>6. ASSUME OthersAck \/ OthersHandshakeAck PROVE FALSE
  <2>1. pc' \in {"reply_data", "fin"}
    BY <1>6 DEF OthersAck, OthersHandshakeAck
  <2> QED BY <1>6, <2>1, OthersAckKeepsC, OthersHandshakeAckKeepsC DEF CInv, EarlyPlace
<1>7. ASSUME OthersFin PROVE FALSE
  <2>1. tcb' = [[tcb EXCEPT !.receive_next = Plus(packet.seq, 1)]
                EXCEPT !.send_next = Plus(@, 1),
                       !.state = IF state = "ESTABLISHED" THEN "CLOSE_WAIT" ELSE @]
    BY <1>7 DEF OthersFin
  <2>2. tcb'.state \in {tcb.state, "CLOSE_WAIT"} /\ pc = "fin"
    BY <1>0, <1>7, <2>1 DEF OthersFin, Tcb
  <2> QED BY <2>2 DEF CInv, LocalState, Synchronized
<1> QED BY <1>1, <1>2, <1>3, <1>4, <1>5, <1>6, <1>7, <1>8 DEF Worker

\* Every step leaves no payload sent while the connection is in SYN_SENT.
LEMMA NextNoData == IInv /\ CInv /\ NoDataInSynSent /\ [Next]_vars => NoDataInSynSent'
<1> SUFFICES ASSUME IInv, CInv, NoDataInSynSent, [Next]_vars, tcb'.state = "SYN_SENT"
             PROVE  NoPayload'
  BY DEF NoDataInSynSent, NoPayload
<1>0. /\ OutOK /\ tcb \in Tcb /\ tcb' \in Tcb /\ 0 \in Nat
      /\ {"RST"} \in SUBSET Flags /\ {"SYN"} \in SUBSET Flags /\ {"ACK"} \in SUBSET Flags
  BY NextInv DEF IInv, ConnOK, Flags
<1>1. CASE UNCHANGED vars
  BY <1>1 DEF vars, NoDataInSynSent, NoPayload
<1>2. CASE sent' = <<>>
  BY <1>2 DEF NoPayload
<1>3. ASSUME NEW header \in Segments,
             TcpReadDropped(header) \/ TcpReadNew(header) \/ TcpReadExisting(header)
      PROVE  NoPayload'
  <2>1. sent' = <<>>
    BY <1>3 DEF TcpReadDropped, TcpReadNew, TcpReadExisting, Receive, NoWrite
  <2> QED BY <1>2, <2>1
<1>4. CASE Worker
  <2>1. CreateSecond \/ SynSentBadAck \/ SynSentRst \/ SynSentOther
    BY <1>4, SynSentOnly
  <2>2. CASE SynSentRst \/ SynSentOther
    <3>1. sent' = <<>>
      BY <2>2 DEF SynSentRst, SynSentOther, DeleteTcb, NoWrite
    <3> QED BY <1>2, <3>1
  <2>3. CASE SynSentBadAck
    <3>1. tcb.send_window = 0 /\ InternalWrite(tcb, {"RST"})
      BY <2>3 DEF SynSentBadAck, InState, CInv, SynSentFields
    <3> QED BY <1>0, <3>1, ClosedWindowInternal
  <2>4. CASE CreateSecond
    <3>1. CASE DeleteTcb
      BY <1>2, <3>1 DEF DeleteTcb
    <3>2. CASE ~ DeleteTcb
      <4>1. PICK flags \in SUBSET Flags : InternalWrite(tcb, flags)
        BY <2>4, <3>2 DEF CreateSecond, Flags
      <4>2. tcb.send_window = 0
        BY <2>4, <3>2 DEF CreateSecond, CInv, SynSentFields
      <4> QED BY <1>0, <4>1, <4>2, ClosedWindowInternal
    <3> QED BY <3>1, <3>2
  <2> QED BY <2>1, <2>2, <2>3, <2>4
<1>5. CASE Connect
  <2>1. PICK t \in Tcb : t = tcb'
    BY <1>0
  <2>2. t.send_window = 0
    <3>1. CASE Exists
      BY <1>5, <2>1, <3>1 DEF Connect, CInv, SynSentFields
    <3>2. CASE ~ Exists
      BY <1>5, <2>1, <3>2 DEF Connect, NewTcb, NoTcb
    <3> QED BY <3>1, <3>2
  <2>3. TcpWrite(t, {"SYN"}, 0) /\ t.send_window = 0
    BY <1>5, <2>1, <2>2 DEF Connect
  <2> QED BY <1>0, <2>3, ClosedWindowWrite
<1>6. CASE ConnectReturn
  BY <1>2, <1>6 DEF ConnectReturn
<1>7. ASSUME NEW size \in SendSizes, Send(size) PROVE NoPayload'
  <2>1. size \in Nat
    BY SendAssumption
  <2>2. CASE (Exists /\ tcb.has_args) /\ size <= HeaderRoom
    <3>1. TcpWrite(tcb, {"ACK"}, size)
      BY <1>7, <2>2 DEF Send, WritePayload
    <3>2. tcb' = [tcb EXCEPT !.send_next = Plus(@, size)]
      BY <1>7, <2>2 DEF Send, WritePayload
    <3>3. tcb.state = "SYN_SENT"
      BY <1>0, <3>2 DEF Tcb
    <3>4. tcb.send_window = 0
      BY <3>3 DEF CInv, SynSentFields
    <3> QED BY <1>0, <2>1, <3>1, <3>4, ClosedWindowWrite
  <2>3. CASE ~ ((Exists /\ tcb.has_args) /\ size <= HeaderRoom)
    <3>1. sent' = <<>>
      BY <1>7, <2>3 DEF Send, WritePayload, NoWrite
    <3> QED BY <1>2, <3>1
  <2> QED BY <2>2, <2>3
<1> QED BY <1>1, <1>3, <1>4, <1>5, <1>6, <1>7 DEF Next

\* No payload leaves before the peer's first segment: the send window of an
\* active open is zero until the handshake's last step stores the peer's.
THEOREM SynSentSendsNoData == Spec => []NoDataInSynSent
<1>1. Init => NoDataInSynSent
  BY DEF Init, NoDataInSynSent
<1> QED BY <1>1, Invariant, HandshakeInvariant, NextNoData, PTL DEF Spec
=============================================================================
