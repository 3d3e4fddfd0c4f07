-------------------------------- MODULE Tcp --------------------------------
(***************************************************************************)
(* One TCP connection of one socket: tcp_read, the state functions of      *)
(* tcp_states.c, tcp_write, and the socket calls connect and send, run by  *)
(* the worker thread (packets) and an application thread (calls) over one  *)
(* transmission control block.                                             *)
(*                                                                         *)
(* The worker handles one packet at a time; tcp_others handles one block   *)
(* of in_buffer per iteration.  A step is a stretch of code with at most   *)
(* one tcp_write in it, so that the application's steps fall between the   *)
(* writes of one packet.  tcp_write itself is one step.                    *)
(*                                                                         *)
(* A block of in_buffer keeps a pointer to the worker's local packet_stack *)
(* (worker.c:64), which every packet reuses.  Whatever block is at the     *)
(* head, the header that is read is therefore that of the packet under     *)
(* way, `packet`; once a payload was delivered stack_idx has moved on and  *)
(* the next iteration takes payload bytes for a header.                    *)
(*                                                                         *)
(* connect and the worker may each create a tcb for the connection.  The   *)
(* lookups find the first of the two, which is `tcb`; a deletion frees     *)
(* both (TcbTable has the table itself).                                   *)
(***************************************************************************)
EXTENDS TcpBlockBuffer

CONSTANTS
  Segments,     \* the headers that may arrive
  Iss,          \* tcp_shared_generate_sequence_number
  Window,       \* tcp_priv_t.window, the initial receive_window
  ByteBase,     \* 256: a window is two bytes, high * ByteBase + low
  Connects,     \* whether the application calls tcp_socket_connect
  SendSizes,    \* payloads the application hands to tcp_socket_send
  ReplySizes,   \* payloads the next handler may write from its read
  HeaderRoom,   \* payloads up to this size leave room for the TCP header
  LowerRoom,    \* payloads up to this size leave room for the lower headers
  SendBound     \* bound: the application stops sending beyond this send_next

Flags == {"SYN", "ACK", "RST", "FIN"}
WindowSize == 0 .. ByteBase * ByteBase - 1

Segment == [flags : SUBSET Flags, seq : SeqNum, ack : SeqNum,
            window : WindowSize, size : WindowSize]

\* the payload size is a uint16_t computed from two length fields, unchecked
ASSUME SegmentsAssumption == Segments \subseteq Segment
ASSUME ByteBaseAssumption == ByteBase \in Nat \ {0}
ASSUME WindowAssumption == Window \in WindowSize /\ ByteBase * ByteBase <= SeqSpace
ASSUME IssAssumption == Iss \in SeqNum
ASSUME SendAssumption ==
  /\ Connects \in BOOLEAN
  /\ SendSizes \subseteq Nat /\ ReplySizes \subseteq Nat /\ HeaderRoom \in Nat
  /\ LowerRoom \in 0 .. HeaderRoom /\ SendBound \in Nat

VARIABLES
  tcb,         \* the transmission control block, NoTcb when there is none
  in_buffer, out_buffer,
  pc,          \* where the worker is in the code
  packet,      \* the header the worker reads, NoPacket between packets
  socket,      \* whether tcp_get_socket finds the socket for that header
  stack_idx,   \* the packet stack's index: TCP's, and one more per payload delivered
  advanced,    \* it was moved past the TCP header in this iteration
  num_ready,   \* iterations left in the state function
  state,       \* local of tcp_others: tcb->state at the start of the iteration
  app,         \* the application thread: before, inside and after connect; inside,
               \* whether its tcb is `tcb`, a second one, or freed
  fault,       \* why the process died, or "none"
  sent,        \* what this step handed to the lower handlers
  delivered,   \* payload bytes given to the next handler since the tcb exists
  advertised   \* the window the peer last advertised, as the peer meant it

appVars == <<app>>
workerVars == <<pc, packet, socket, stack_idx, advanced, num_ready, state>>
ghosts == <<delivered, advertised>>
vars == <<tcb, in_buffer, out_buffer, workerVars, appVars, fault, sent, ghosts>>

\* the states of enum TCP_STATE that some assignment to tcb->state produces
Synchronized == {"SYN_RECEIVED", "ESTABLISHED", "CLOSE_WAIT"}
States == {"LISTEN", "SYN_SENT"} \union Synchronized

Tcb == [state : States \union {"NONE"}, active_mode : BOOLEAN, has_args : BOOLEAN,
        send_next : SeqNum, send_unacknowledged : SeqNum, send_window : WindowSize,
        last_update_seq : SeqNum, last_update_ack : SeqNum,
        receive_next : SeqNum, receive_window : WindowSize]

NoTcb == [state |-> "NONE", active_mode |-> FALSE, has_args |-> FALSE,
          send_next |-> 0, send_unacknowledged |-> 0, send_window |-> 0,
          last_update_seq |-> 0, last_update_ack |-> 0,
          receive_next |-> 0, receive_window |-> 0]

NoPacket == [flags |-> {}, seq |-> 0, ack |-> 0, window |-> 0, size |-> 0]

\* the handler below TCP is at index 1 of the packet stack, Ethernet at 0
TcpIndex == 2

Exists == tcb.state # "NONE"
Alive == fault = "none"
Has(header, flag) == flag \in header.flags

-----------------------------------------------------------------------------
(* Helpers *)

\* Mutation of ByteSwap: the low byte is not masked before it is shifted.
ByteSwapUnmasked(window) == window * ByteBase + window \div ByteBase

\* ntohs / htons on a little-endian machine
ByteSwap(window) == (window % ByteBase) * ByteBase + window \div ByteBase

\* Mutation of NewTcb: the send window of a new connection is open.
NewTcbOpenWindow(initial, seq, window, active_mode, has_args) ==
  [NoTcb EXCEPT !.state = initial, !.active_mode = active_mode, !.has_args = has_args,
                !.send_next = Iss, !.send_window = Window,
                !.receive_next = seq, !.receive_window = Window]

(***************************************************************************)
(* tcp_create_transmission_control_block.  `window` is the header's field  *)
(* as it lies in memory.  Only connect assigns active_mode; for the others *)
(* it is whatever malloc returned.                                         *)
(***************************************************************************)
NewTcb(initial, seq, window, active_mode, has_args) ==
  [NoTcb EXCEPT !.state = initial, !.active_mode = active_mode, !.has_args = has_args,
                !.send_next = Iss, !.send_window = window,
                !.receive_next = seq, !.receive_window = Window]

is_segment_in_window(t, header) ==
  LET right_edge == Plus(t.receive_next, t.receive_window)
      sequence_end == Plus(header.seq, header.size + SeqSpace - 1)
  IN  IF t.receive_window = 0
      THEN header.size = 0 /\ header.seq = t.receive_next
      ELSE /\ header.seq >= t.receive_next
           /\ header.seq < right_edge
           /\ header.size > 0 => sequence_end < right_edge

-----------------------------------------------------------------------------
(* tcp_write *)

OutHeader(t, flags, size) ==
  [flags |-> flags, seq |-> t.send_next, ack |-> t.receive_next,
   window |-> t.receive_window, size |-> size]

FitsWindow(block, t) == ByteSwap(t.send_window) >= block.size

\* the queued packets the loop sends: it stops at one that the window or the
\* lower handlers refuse, and has an index for TcpIndex of them
Sendable(queue, t) ==
  PrefixLength(Len(queue),
    {i \in 1 .. Len(queue) : /\ i <= TcpIndex /\ FitsWindow(queue[i], t)
                             /\ queue[i].size <= LowerRoom})

\* the next packet fits and is looked up below index 0
Underflows(queue, t) ==
  /\ Sendable(queue, t) = TcpIndex /\ Len(queue) > TcpIndex
  /\ FitsWindow(queue[TcpIndex + 1], t)

(***************************************************************************)
(* tcp_write for the tcb `t`: the header is queued in out_buffer and the   *)
(* queue is sent from its head until a packet does not fit the window or   *)
(* the lower handlers refuse it.  The lower handler is looked up with the  *)
(* decremented stack_idx of the packet being written, not of the queued    *)
(* one: only a packet that finds the queue empty is encapsulated properly, *)
(* and the third one indexes outside the array, before anything looks at   *)
(* its size.  Sets out_buffer, sent and fault.                             *)
(***************************************************************************)
TcpWrite(t, flags, size) ==
  LET header == OutHeader(t, flags, size)
      queue == Add(out_buffer, header)
      count == Sendable(queue, t)
  IN  IF AddFaults(out_buffer, header.seq)
      THEN /\ fault' = "null_previous" /\ sent' = <<>>
           /\ UNCHANGED out_buffer
      ELSE /\ out_buffer' = RemoveFront(queue, count)
           /\ sent' = [i \in 1 .. count |-> [header |-> queue[i],
                                             intact |-> out_buffer = <<>>]]
           /\ \/ ~ Underflows(queue, t) /\ UNCHANGED fault
              \/ Underflows(queue, t) /\ fault' = "stack_underflow"
              \/ Len(out_buffer) = DefaultSize /\ fault' = "heap_overrun"

(***************************************************************************)
(* tcp_write with a stack_idx above TCP's: the header is queued, and the   *)
(* handler "below" that a fitting head is given to is again tcp_write,     *)
(* whose arguments were a local of tcp_receive_payload.  It finds no       *)
(* socket there and gives up, the block stays queued; or it goes on, which *)
(* is undefined (a second header and a second block, for one).             *)
(***************************************************************************)
TcpWriteAbove(t, flags) ==
  LET header == OutHeader(t, flags, 0)
      queue == Add(out_buffer, header)
  IN  /\ sent' = <<>>
      /\ IF AddFaults(out_buffer, header.seq)
         THEN fault' = "null_previous" /\ UNCHANGED out_buffer
         ELSE /\ out_buffer' = queue
              /\ \/ UNCHANGED fault
                 \/ FitsWindow(Head(queue), t) /\ fault' = "dangling_args"
                 \/ Len(out_buffer) = DefaultSize /\ fault' = "heap_overrun"

NoWrite == sent' = <<>> /\ UNCHANGED out_buffer

\* the write of a payload, by the next handler or the application
WritePayload(size) ==
  IF size <= HeaderRoom
  THEN /\ TcpWrite(tcb, {"ACK"}, size)
       /\ tcb' = [tcb EXCEPT !.send_next = Plus(@, size)]
  ELSE NoWrite /\ UNCHANGED <<tcb, fault>>

\* tcp_internal_write: tcp_write gives up when there is no socket
InternalWrite(t, flags) ==
  \/ socket /\ stack_idx = TcpIndex /\ TcpWrite(t, flags, 0)
  \/ socket /\ stack_idx > TcpIndex /\ TcpWriteAbove(t, flags)
  \/ ~ socket /\ NoWrite /\ UNCHANGED fault

-----------------------------------------------------------------------------
(* tcp_read *)

Idle ==
  /\ pc' = "idle" /\ packet' = NoPacket /\ socket' = TRUE /\ stack_idx' = TcpIndex
  /\ advanced' = FALSE /\ num_ready' = 0 /\ state' = "NONE"

\* "Received TCP initial header without SYN bits enabled."
TcpReadDropped(header) ==
  /\ Alive /\ pc = "idle"
  /\ ~ Exists /\ ~ Has(header, "SYN")
  /\ sent' = <<>>
  /\ UNCHANGED <<tcb, in_buffer, out_buffer, workerVars, appVars, fault, ghosts>>

\* the block is queued for the tcb `t` whose buffer is `buffer`
Receive(t, buffer, header) ==
  LET queue == Add(buffer, [seq |-> header.seq, size |-> header.size])
      ready == NumReady(queue, t.receive_next)
  IN  /\ tcb' = t
      /\ IF AddFaults(buffer, header.seq)
         THEN fault' = "null_previous" /\ in_buffer' = buffer /\ Idle
         ELSE /\ \/ UNCHANGED fault
                 \/ Len(buffer) = DefaultSize /\ fault' = "heap_overrun"
              /\ in_buffer' = queue
              /\ IF ready = 0
                 THEN Idle
                 ELSE /\ pc' = "state" /\ packet' = header /\ socket' = TRUE
                      /\ stack_idx' = TcpIndex
                      /\ advanced' = FALSE /\ num_ready' = ready /\ state' = "NONE"
      /\ NoWrite

\* the lookup, under the lock, finds no tcb
TcpReadNew(header) ==
  /\ Alive /\ pc = "idle"
  /\ ~ Exists /\ Has(header, "SYN")
  /\ pc' = "create" /\ packet' = header
  /\ sent' = <<>>
  /\ UNCHANGED <<tcb, in_buffer, out_buffer, socket, stack_idx, advanced, num_ready, state,
                 appVars, fault, ghosts>>

\* the creation, under the lock again
CreateTcb ==
  /\ Alive /\ pc = "create" /\ ~ Exists
  /\ \E active_mode \in BOOLEAN :
       Receive(NewTcb("LISTEN", packet.seq, ByteSwap(packet.window), active_mode, FALSE),
               <<>>, packet)
  /\ delivered' = 0 /\ advertised' = packet.window
  /\ UNCHANGED appVars

TcpReadExisting(header) ==
  /\ Alive /\ pc = "idle"
  /\ Exists
  /\ Receive(IF tcb.state = "SYN_SENT"
             THEN [tcb EXCEPT !.receive_next = header.seq] ELSE tcb,
             in_buffer, header)
  /\ UNCHANGED <<appVars, ghosts>>

-----------------------------------------------------------------------------
(* tcp_listen and tcp_syn_sent handle the block at the head and return *)

InState(s) == Alive /\ pc = "state" /\ tcb.state = s

\* tcp_delete_transmission_control_block frees every tcb with the connection's
\* id, the one that connect still holds a pointer to as well
DeleteTcb ==
  /\ tcb' = NoTcb /\ in_buffer' = <<>> /\ out_buffer' = <<>>
  /\ delivered' = 0 /\ advertised' = 0
  /\ app' = IF app \in {"connecting", "duplicate"} THEN "dangling" ELSE app
  /\ sent' = <<>> /\ UNCHANGED fault

(***************************************************************************)
(* connect added its tcb between the worker's lookup and its creation: the *)
(* worker's own is a second one, in LISTEN, that no lookup finds.          *)
(* tcp_listen runs for it, and writes through the first.                   *)
(***************************************************************************)
CreateSecond ==
  /\ Alive /\ pc = "create" /\ Exists
  /\ \/ Has(packet, "RST") /\ DeleteTcb
     \/ /\ ~ Has(packet, "RST")
        /\ InternalWrite(tcb, IF Has(packet, "ACK") THEN {"RST"} ELSE {"ACK", "SYN"})
        /\ UNCHANGED <<tcb, in_buffer, app, ghosts>>
  /\ Idle

ListenRst ==
  /\ InState("LISTEN") /\ Has(packet, "RST")
  /\ DeleteTcb /\ Idle

ListenAck ==
  /\ InState("LISTEN") /\ ~ Has(packet, "RST") /\ Has(packet, "ACK")
  /\ tcb' = [tcb EXCEPT !.send_next = packet.ack, !.receive_next = 0]
  /\ InternalWrite(tcb', {"RST"})
  /\ in_buffer' = RemoveFront(in_buffer, 1) /\ Idle
  /\ UNCHANGED <<appVars, ghosts>>

\* the test for SYN, `control_bits | TCP_SYN_FLAG == TCP_SYN_FLAG`, is always true
ListenSyn ==
  /\ InState("LISTEN") /\ ~ Has(packet, "RST") /\ ~ Has(packet, "ACK")
  /\ LET t == [tcb EXCEPT !.receive_next = Plus(packet.seq, 1), !.state = "SYN_RECEIVED",
                          !.send_next = Iss]
     IN  /\ InternalWrite(t, {"ACK", "SYN"})
         /\ tcb' = [t EXCEPT !.send_unacknowledged = Iss, !.send_next = Plus(Iss, 1)]
  /\ in_buffer' = RemoveFront(in_buffer, 1) /\ Idle
  /\ UNCHANGED <<appVars, ghosts>>

\* Mutation of AckUnacceptable: what was never sent may be acknowledged.
AckUnacceptableOld == packet.ack <= Iss

AckUnacceptable == packet.ack <= Iss \/ packet.ack > tcb.send_next

\* the block stays in in_buffer
SynSentBadAck ==
  /\ InState("SYN_SENT") /\ Has(packet, "ACK") /\ AckUnacceptable
  /\ InternalWrite(tcb, {"RST"}) /\ Idle
  /\ UNCHANGED <<tcb, in_buffer, appVars, ghosts>>

SynSentGoodAck == InState("SYN_SENT") /\ (Has(packet, "ACK") => ~ AckUnacceptable)

\* Mutation of SynSentRst: a reset need not acknowledge the SYN.
SynSentRstAlways ==
  /\ SynSentGoodAck /\ Has(packet, "RST")
  /\ DeleteTcb /\ Idle

SynSentRst ==
  /\ SynSentGoodAck /\ Has(packet, "RST")
  /\ IF Has(packet, "ACK")
     THEN DeleteTcb
     ELSE /\ in_buffer' = RemoveFront(in_buffer, 1)
          /\ NoWrite /\ UNCHANGED <<tcb, fault, appVars, ghosts>>
  /\ Idle

\* uint16_t subtraction
MinusWindow(window, size) ==
  (window + ByteBase * ByteBase - size) % (ByteBase * ByteBase)

\* Mutation of AfterPayload: delivered bytes do not close the window.
AfterPayloadKeepsWindow(t, size) == [t EXCEPT !.receive_next = Plus(@, size)]

\* Mutation of AfterPayload: receive_next is assigned instead of incremented.
AfterPayloadAssigns(t, size) ==
  [t EXCEPT !.receive_next = size, !.receive_window = MinusWindow(@, size)]

\* tcp_receive_payload up to its ACK: the tcb it leaves
AfterPayload(t, size) ==
  [t EXCEPT !.receive_next = Plus(@, size), !.receive_window = MinusWindow(@, size)]

SynSentSyn ==
  /\ SynSentGoodAck /\ ~ Has(packet, "RST") /\ Has(packet, "SYN")
  /\ LET una == IF Has(packet, "ACK") THEN packet.ack ELSE tcb.send_unacknowledged
         t == [tcb EXCEPT !.receive_next = Plus(packet.seq, 1), !.send_unacknowledged = una]
     IN  IF una > Iss
         THEN /\ tcb' = AfterPayload([t EXCEPT !.state = "ESTABLISHED"], packet.size)
              /\ delivered' = delivered + packet.size
              /\ InternalWrite(tcb', {"ACK"})
              /\ pc' = IF packet.size > 0 THEN "reply_syn" ELSE "syn_end"
              /\ stack_idx' = IF packet.size > 0 THEN TcpIndex + 1 ELSE TcpIndex
         ELSE /\ tcb' = [t EXCEPT !.state = "SYN_RECEIVED"]
              /\ InternalWrite(tcb', {"SYN", "ACK"})
              /\ pc' = "syn_end"
              /\ UNCHANGED <<delivered, stack_idx>>
  /\ UNCHANGED <<in_buffer, packet, socket, advanced, num_ready, state, appVars, advertised>>

SynSentEnd ==
  /\ Alive /\ pc = "syn_end"
  /\ tcb' = [tcb EXCEPT !.send_window = packet.window, !.last_update_seq = packet.seq,
                        !.last_update_ack = packet.ack]
  /\ advertised' = packet.window
  /\ in_buffer' = RemoveFront(in_buffer, 1) /\ Idle
  /\ NoWrite
  /\ UNCHANGED <<fault, appVars, delivered>>

\* neither SYN nor RST: the test before the removal is never true
SynSentOther ==
  /\ SynSentGoodAck /\ ~ Has(packet, "RST") /\ ~ Has(packet, "SYN")
  /\ NoWrite /\ Idle
  /\ UNCHANGED <<tcb, in_buffer, fault, appVars, ghosts>>

\* the next handler, called by tcp_receive_payload, may write a response; the
\* custom handler always does, an empty one when no response was set
AfterReply ==
  /\ Alive /\ pc \in {"reply_syn", "reply_data"}
  /\ pc' = IF pc = "reply_syn" THEN "syn_end" ELSE "fin"
  /\ UNCHANGED <<in_buffer, packet, socket, stack_idx, advanced, num_ready, state, appVars,
                 ghosts>>

\* the second payload of one call is two levels above TCP: between the next
\* handler and TCP is the next handler again, and TCP's arguments are gone
Reply(size) ==
  /\ AfterReply
  /\ \/ stack_idx = TcpIndex + 1 /\ WritePayload(size)
     \/ stack_idx > TcpIndex + 1 /\ fault' \in {fault, "dangling_args"}
        /\ NoWrite /\ UNCHANGED tcb

NoReply == AfterReply /\ NoWrite /\ UNCHANGED <<tcb, fault>>

-----------------------------------------------------------------------------
(* tcp_others: one iteration per ready block *)

InOthers == Alive /\ pc = "state" /\ tcb.state \in Synchronized

\* Mutation of NextBlock: a second block is removed, as in FIN_WAIT_1 and CLOSING.
NextBlockRemovesTwo ==
  /\ in_buffer' = RemoveFront(in_buffer, 2)
  /\ IF num_ready = 1
     THEN Idle
     ELSE /\ num_ready' = num_ready - 1 /\ pc' = "state" /\ state' = "NONE"
          /\ advanced' = FALSE
          /\ UNCHANGED <<packet, socket, stack_idx>>

\* Mutation of NextBlock: an iteration does not count.
NextBlockAgain ==
  /\ pc' = "state" /\ state' = "NONE" /\ advanced' = FALSE
  /\ UNCHANGED <<in_buffer, num_ready, packet, socket, stack_idx>>

(***************************************************************************)
(* The end of an iteration: the block at the head is removed.  If this     *)
(* iteration delivered a payload, the next one reads payload bytes as a    *)
(* header: any header, for any socket.                                     *)
(***************************************************************************)
NextBlock ==
  /\ in_buffer' = RemoveFront(in_buffer, 1)
  /\ IF num_ready = 1
     THEN Idle
     ELSE /\ num_ready' = num_ready - 1 /\ pc' = "state" /\ state' = "NONE"
          /\ advanced' = FALSE /\ UNCHANGED stack_idx
          /\ IF advanced
             THEN packet' \in Segments /\ socket' \in BOOLEAN
             ELSE UNCHANGED <<packet, socket>>

OthersOutside ==
  /\ InOthers /\ ~ is_segment_in_window(tcb, packet)
  /\ IF Has(packet, "RST")
     THEN NoWrite /\ UNCHANGED fault
     ELSE InternalWrite(tcb, {"ACK"})
  /\ NextBlock
  /\ UNCHANGED <<tcb, appVars, ghosts>>

InOthersWindow == InOthers /\ is_segment_in_window(tcb, packet)

\* `tcb->state == CLOSED` is a comparison: the call returns and nothing changes
OthersRst ==
  /\ InOthersWindow /\ Has(packet, "RST")
  /\ fault' = IF tcb.state = "SYN_RECEIVED" /\ tcb.active_mode /\ ~ socket
              THEN "null_socket" ELSE fault
  /\ NoWrite /\ Idle
  /\ UNCHANGED <<tcb, in_buffer, appVars, ghosts>>

OthersSyn ==
  /\ InOthersWindow /\ ~ Has(packet, "RST") /\ Has(packet, "SYN")
  /\ IF tcb.state = "SYN_RECEIVED" /\ ~ tcb.active_mode
     THEN NoWrite /\ Idle /\ UNCHANGED <<in_buffer, fault>>
     ELSE InternalWrite(tcb, {"ACK"}) /\ NextBlock
  /\ UNCHANGED <<tcb, appVars, ghosts>>

InOthersText ==
  InOthersWindow /\ ~ Has(packet, "RST") /\ ~ Has(packet, "SYN")

OthersNoAck ==
  /\ InOthersText /\ ~ Has(packet, "ACK")
  /\ NoWrite /\ NextBlock
  /\ UNCHANGED <<tcb, fault, appVars, ghosts>>

\* acknowledgement of something which has not yet been sent
OthersUnsentAck ==
  /\ InOthersText /\ Has(packet, "ACK") /\ tcb.state # "SYN_RECEIVED"
  /\ packet.ack > tcb.send_next
  /\ InternalWrite(tcb, {"ACK"}) /\ NextBlock
  /\ UNCHANGED <<tcb, appVars, ghosts>>

AckOk == packet.ack <= tcb.send_next /\ packet.ack > tcb.send_unacknowledged

\* update window if this is not an old segment; last_update_ack keeps its value
UpdatesWindow ==
  /\ AckOk \/ packet.ack = tcb.send_unacknowledged
  /\ \/ tcb.last_update_seq < packet.seq
     \/ tcb.last_update_seq = packet.seq /\ tcb.last_update_ack <= packet.ack

AfterAck ==
  [tcb EXCEPT !.send_window = IF UpdatesWindow THEN packet.window ELSE @,
              !.last_update_seq = IF UpdatesWindow THEN packet.seq ELSE @,
              !.send_unacknowledged = IF AckOk THEN packet.ack ELSE @]

OthersAck ==
  /\ InOthersText /\ Has(packet, "ACK") /\ tcb.state # "SYN_RECEIVED"
  /\ packet.ack <= tcb.send_next
  /\ IF packet.size > 0 /\ tcb.state = "ESTABLISHED"
     THEN /\ tcb' = AfterPayload(AfterAck, packet.size)
          /\ delivered' = delivered + packet.size
          /\ advanced' = TRUE /\ stack_idx' = stack_idx + 1 /\ pc' = "reply_data"
          /\ IF socket THEN InternalWrite(tcb', {"ACK"})
                       ELSE NoWrite /\ fault' = "null_socket"
     ELSE /\ tcb' = AfterAck
          /\ pc' = "fin"
          /\ NoWrite /\ UNCHANGED <<delivered, stack_idx, advanced, fault>>
  /\ state' = tcb.state
  /\ advertised' = IF UpdatesWindow THEN packet.window ELSE advertised
  /\ UNCHANGED <<in_buffer, packet, socket, num_ready, appVars>>

\* Mutation of OthersHandshakeAck: its payload is delivered whatever it acknowledges.
OthersHandshakeAckDelivers ==
  /\ InOthersText /\ Has(packet, "ACK") /\ tcb.state = "SYN_RECEIVED"
  /\ IF AckOk
     THEN /\ tcb' = AfterPayload([tcb EXCEPT !.state = "ESTABLISHED"], packet.size)
          /\ NoWrite /\ UNCHANGED fault
     ELSE /\ tcb' = AfterPayload([tcb EXCEPT !.send_next = packet.ack], packet.size)
          /\ InternalWrite(tcb', {"RST"})
  /\ delivered' = delivered + packet.size
  /\ state' = "SYN_RECEIVED" /\ pc' = "fin"
  /\ UNCHANGED <<in_buffer, packet, socket, stack_idx, advanced, num_ready, appVars, advertised>>

OthersHandshakeAck ==
  /\ InOthersText /\ Has(packet, "ACK") /\ tcb.state = "SYN_RECEIVED"
  /\ IF AckOk
     THEN /\ tcb' = [tcb EXCEPT !.send_window = packet.window,
                                !.last_update_seq = packet.seq,
                                !.last_update_ack = packet.ack,
                                !.state = "ESTABLISHED"]
          /\ advertised' = packet.window
          /\ NoWrite /\ UNCHANGED fault
     ELSE /\ tcb' = [tcb EXCEPT !.send_next = packet.ack]
          /\ InternalWrite(tcb', {"RST"})
          /\ UNCHANGED advertised
  /\ state' = "SYN_RECEIVED" /\ pc' = "fin"
  /\ UNCHANGED <<in_buffer, packet, socket, stack_idx, advanced, num_ready, appVars, delivered>>

\* after a payload the reply is written from above TCP
OthersFin ==
  /\ Alive /\ pc = "fin" /\ Has(packet, "FIN")
  /\ LET t == [tcb EXCEPT !.receive_next = Plus(packet.seq, 1)]
     IN  /\ tcb' = [t EXCEPT !.send_next = Plus(@, 1),
                             !.state = IF state = "ESTABLISHED" THEN "CLOSE_WAIT" ELSE @]
         /\ IF socket THEN InternalWrite(t, {"ACK", "FIN"})
                      ELSE NoWrite /\ fault' = "null_socket"
  /\ NextBlock
  /\ UNCHANGED <<appVars, ghosts>>

OthersNoFin ==
  /\ Alive /\ pc = "fin" /\ ~ Has(packet, "FIN")
  /\ NoWrite /\ NextBlock
  /\ UNCHANGED <<tcb, fault, appVars, ghosts>>

-----------------------------------------------------------------------------
(* The application: tcp_socket_connect and tcp_socket_send *)

\* Up to and including the write of the SYN.  If the worker has a tcb for the
\* connection, the SYN is written through that one and connect's own stands
\* behind it.
Connect ==
  /\ Connects /\ Alive /\ app = "closed"
  /\ IF Exists
     THEN /\ TcpWrite(tcb, {"SYN"}, 0)
          /\ app' = "duplicate" /\ UNCHANGED <<tcb, ghosts>>
     ELSE /\ tcb' = NewTcb("SYN_SENT", 0, 0, TRUE, TRUE)
          /\ TcpWrite(tcb', {"SYN"}, 0)
          /\ app' = "connecting" /\ delivered' = 0 /\ advertised' = 0
  /\ UNCHANGED <<in_buffer, workerVars>>

\* the rest of connect, through its local pointer to its own tcb
ConnectReturn ==
  /\ Alive /\ app \in {"connecting", "duplicate", "dangling"}
  /\ tcb' = IF app = "connecting" THEN [tcb EXCEPT !.send_next = Plus(@, 1)] ELSE tcb
  /\ fault' = IF app = "dangling" THEN "use_after_free" ELSE fault
  /\ app' = "connected" /\ sent' = <<>>
  /\ UNCHANGED <<in_buffer, out_buffer, workerVars, ghosts>>

Send(size) ==
  /\ Alive /\ app = "connected"
  /\ tcb.send_next + size <= SendBound
  /\ IF Exists /\ tcb.has_args
     THEN WritePayload(size)
     ELSE /\ fault' = IF Exists THEN "no_handlers" ELSE "null_tcb"
          /\ NoWrite /\ UNCHANGED tcb
  /\ UNCHANGED <<in_buffer, workerVars, appVars, ghosts>>

-----------------------------------------------------------------------------

Init ==
  /\ tcb = NoTcb /\ in_buffer = <<>> /\ out_buffer = <<>>
  /\ pc = "idle" /\ packet = NoPacket /\ socket = TRUE /\ stack_idx = TcpIndex
  /\ advanced = FALSE /\ num_ready = 0 /\ state = "NONE"
  /\ app = "closed" /\ fault = "none" /\ sent = <<>>
  /\ delivered = 0 /\ advertised = 0

\* the steps that finish the packet under way
Worker ==
  \/ CreateTcb \/ CreateSecond
  \/ ListenRst \/ ListenAck \/ ListenSyn
  \/ SynSentBadAck \/ SynSentRst \/ SynSentSyn \/ SynSentEnd \/ SynSentOther
  \/ NoReply \/ \E size \in ReplySizes : Reply(size)
  \/ OthersOutside \/ OthersRst \/ OthersSyn \/ OthersNoAck \/ OthersUnsentAck
  \/ OthersAck \/ OthersHandshakeAck \/ OthersFin \/ OthersNoFin

Next ==
  \/ \E header \in Segments :
       TcpReadDropped(header) \/ TcpReadNew(header) \/ TcpReadExisting(header)
  \/ Worker
  \/ Connect \/ ConnectReturn
  \/ \E size \in SendSizes : Send(size)

Spec == Init /\ [][Next]_vars /\ WF_vars(Worker)

-----------------------------------------------------------------------------

Pcs == {"idle", "create", "state", "reply_syn", "reply_data", "syn_end", "fin"}
Faults == {"none", "null_previous", "stack_underflow", "heap_overrun", "null_socket",
           "use_after_free", "no_handlers", "null_tcb", "dangling_args"}
InBlock == [seq : SeqNum, size : Nat]
OutBlock == [flags : SUBSET Flags, seq : SeqNum, ack : SeqNum,
             window : WindowSize, size : Nat]

\* Every variable has its type: sequence numbers and windows wrap at their width,
\* and a fault is one of those that the code can meet.
TypeOK ==
  /\ tcb \in Tcb
  /\ in_buffer \in Seq(InBlock) /\ out_buffer \in Seq(OutBlock)
  /\ pc \in Pcs /\ packet \in Segment /\ socket \in BOOLEAN
  /\ stack_idx \in Nat /\ stack_idx >= TcpIndex /\ advanced \in BOOLEAN
  /\ num_ready \in Nat /\ state \in States \union {"NONE"}
  /\ app \in {"closed", "connecting", "duplicate", "dangling", "connected"}
  /\ fault \in Faults
  /\ sent \in Seq([header : OutBlock, intact : BOOLEAN])
  /\ delivered \in Nat /\ advertised \in WindowSize

(***************************************************************************)
(* Both block buffers stay in sequence-number order and within the blocks  *)
(* that create_tcp_block_buffer links, whatever order segments arrive in   *)
(* and however send_next is moved.                                         *)
(***************************************************************************)
BuffersSorted ==
  /\ InOrder(in_buffer) /\ Len(in_buffer) <= BlockCount
  /\ InOrder(out_buffer) /\ Len(out_buffer) <= BlockCount

(***************************************************************************)
(* tcp_block_buffer_get_head(tcb->in_buffer)->data is dereferenced at the  *)
(* start of every iteration: the state functions never run out of blocks   *)
(* before they run out of num_ready.                                       *)
(***************************************************************************)
HeadPresent == pc \notin {"idle", "create"} => 1 <= num_ready /\ num_ready <= Len(in_buffer)

(***************************************************************************)
(* A payload that tcp_others delivers fits the receive window: the         *)
(* subtraction of tcp_receive_payload does not wrap, unless the segment    *)
(* runs over the end of the sequence space.  (tcp_syn_sent, line 162,      *)
(* delivers a payload of any size without a look at the window.)           *)
(***************************************************************************)
WindowCloses ==
  [][ /\ delivered' > delivered /\ tcb.state # "SYN_SENT"
      /\ packet.seq + packet.size <= SeqSpace
      => tcb.receive_window = tcb'.receive_window + packet.size ]_vars

(***************************************************************************)
(* The next handler sees payload only on a connection that has been        *)
(* established: a payload that rides on the handshake's ACK of a passive   *)
(* open is not delivered.                                                  *)
(***************************************************************************)
DataAfterHandshake == delivered > 0 => tcb.state \in {"ESTABLISHED", "CLOSE_WAIT"}

(***************************************************************************)
(* tcp_socket_connect increments send_next through its local pointer after *)
(* the write.  While its tcb is the connection's, no segment that is       *)
(* handled for it deletes it in between; only the reset of a second tcb    *)
(* does, which the worker created after a lookup from before connect.      *)
(* (A tcb that connect adds behind the worker's own goes with that one.)   *)
(***************************************************************************)
ConnectHoldsTcb ==
  [][ app = "connecting" /\ app' = "dangling" => pc = "create" ]_vars

(***************************************************************************)
(* The peer's acknowledgement of the SYN establishes the connection only   *)
(* when connect has counted the SYN: the worker, which may see the SYN-ACK *)
(* before socket.c:217, does not take it for valid until then.             *)
(***************************************************************************)
CountedBeforeEstablished ==
  [][ tcb.state = "SYN_SENT" /\ tcb'.state = "ESTABLISHED" => app # "connecting" ]_vars

(***************************************************************************)
(* What the application sends while the connection is in SYN_SENT stays    *)
(* queued: no payload leaves before the peer's first segment.              *)
(***************************************************************************)
NoDataInSynSent ==
  tcb.state = "SYN_SENT" => \A i \in 1 .. Len(sent) : sent[i].header.size = 0

(***************************************************************************)
(* tcp_others moves receive_next back in three cases only: a FIN that      *)
(* carries more than one byte of payload, a payload that runs over the end *)
(* of the sequence space, and a FIN on the last sequence number when the   *)
(* window is closed.                                                       *)
(***************************************************************************)
ReceiveNextMonotone ==
  [][ tcb.state \in Synchronized /\ tcb'.state \in Synchronized
      => \/ tcb'.receive_next >= tcb.receive_next
         \/ pc = "fin" /\ Has(packet, "FIN") /\ packet.size > 1
         \/ packet.seq + packet.size > SeqSpace
         \/ tcb.receive_window = 0 /\ tcb.receive_next = SeqSpace - 1 ]_vars

\* Every packet is finished with: the state functions' loops end.
PacketsFinish == (pc # "idle") ~> (pc = "idle" \/ ~ Alive)

-----------------------------------------------------------------------------
(* What the comments of the code say, and the code does not do *)

(***************************************************************************)
(* tcp.c:153: "if the outgoing package fit in the send window then send    *)
(* it, else just abort but keep the buffer for later".  After a write, a   *)
(* packet is kept only if it is larger than the window the peer advertised *)
(* (or than the lower handlers take).                                      *)
(***************************************************************************)
KeptOnlyIfTooLarge ==
  [][ out_buffer' # out_buffer /\ out_buffer' # <<>>
      => \/ Head(out_buffer').size > advertised
         \/ Head(out_buffer').size > LowerRoom ]_vars

(***************************************************************************)
(* The same comment: a packet that was kept is sent later, through the     *)
(* IPv4 handler and with its own arguments, as one sent at once.           *)
(***************************************************************************)
QueuedPacketIntact == \A i \in 1 .. Len(sent) : sent[i].intact

(***************************************************************************)
(* socket.c:217: "we send a SYN, which count as 1 sequence number".  The   *)
(* acknowledgement of exactly that SYN is acceptable in SYN_SENT.          *)
(***************************************************************************)
SynAckAccepted == [][ SynSentBadAck => packet.ack # Plus(Iss, 1) ]_vars

(***************************************************************************)
(* tcp_states.c:219: on a reset "All segment queues should be flushed."    *)
(***************************************************************************)
ResetFlushes ==
  [][ OthersRst /\ tcb.state \in {"ESTABLISHED", "CLOSE_WAIT"} => in_buffer' = <<>> ]_vars

(***************************************************************************)
(* tcp_block_buffer.c:71: the block one past the start is taken to "allow  *)
(* for acks": payload is delivered only from where the stream stands.      *)
(***************************************************************************)
DeliveredInSequence ==
  [][ delivered' > delivered /\ tcb.state = "ESTABLISHED"
      => packet.seq = tcb.receive_next ]_vars

(***************************************************************************)
(* arp/socket.h:22 says of a handler's data that "There is no guarantee    *)
(* that the data will not be freed after returning from the                *)
(* next_handler->operations.read call": a block that outlives tcp_read     *)
(* must not be read again.  Every iteration reads the header its block was *)
(* queued for.                                                             *)
(***************************************************************************)
ReadsOwnBlock == pc = "state" => packet.seq = Head(in_buffer).seq

(***************************************************************************)
(* socket.c:223: "if state is SYN-SENT STATE SYN-RECEIVED STATE, then      *)
(* queue the request to be sent when connection has been established".     *)
(***************************************************************************)
SendWaitsForHandshake ==
  tcb.state \in {"SYN_SENT", "SYN_RECEIVED"}
    => \A i \in 1 .. Len(sent) : sent[i].header.size = 0

(***************************************************************************)
(* tcp_states.c:139: "signal user that connection has been terminated".    *)
(* An application that was told would not send on the connection: send     *)
(* never looks up a tcb that is gone.                                      *)
(***************************************************************************)
TerminationSignalled == fault # "null_tcb"

(***************************************************************************)
(* tcp_states.c:26 takes the end of a segment to be what "it says in RFC", *)
(* where no more is accepted than the window has room for.  What was       *)
(* delivered and what is left of the window make up the initial window.    *)
(***************************************************************************)
WindowAccounting == Exists => tcb.receive_window + delivered = Window

(***************************************************************************)
(* tcp.c:15: "Specification: RFC 9293", where acknowledgements are         *)
(* cumulative: what one segment acknowledged, a later one does not take    *)
(* back (the sequence numbers of this instance do not wrap).               *)
(***************************************************************************)
AcknowledgedStaysAcknowledged ==
  [][ tcb.state \in Synchronized /\ tcb'.state \in Synchronized
      => tcb'.receive_next >= tcb.receive_next ]_vars
=============================================================================
