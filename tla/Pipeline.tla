------------------------------ MODULE Pipeline ------------------------------
(***************************************************************************)
(* The path of a packet through the process: after Startup the main lcore  *)
(* starts the worker, creates the write ring and runs offloader_loop; the  *)
(* worker runs consume_tasks (worker.c) and its handlers write through     *)
(* dpdk_write_write (dpdk/write.c).  They share the ring work_queue, the   *)
(* ring write_queue and the mbuf pool; the NIC is the environment.         *)
(*                                                                         *)
(* Frames are numbered as they arrive, responses as they are written.      *)
(* There is one worker (NUM_WORKERS) with one root handler.                *)
(***************************************************************************)
EXTENDS Startup, Sequences, SequencesExt

CONSTANTS
  Mbufs,          \* the mbufs of pktmbuf_pool
  WorkCapacity,   \* a ring of QUEUE_SIZE slots holds one less
  WriteCapacity,  \* the write ring's 8 slots hold 7
  MaxBurst,       \* MAX_PKT_BURST
  TxRoom,         \* descriptors of the NIC's transmit queue
  FrameBound,     \* bound: frames that arrive
  WriteBound,     \* bound: responses to one frame
  WorkerLcores,   \* whether there is an lcore for the worker
  Null

ASSUME PipelineAssumption ==
  /\ IsFiniteSet(Mbufs) /\ Null \notin Mbufs /\ Null \notin Seq(Nat)
  /\ {WorkCapacity, WriteCapacity, MaxBurst, TxRoom} \subseteq Nat \ {0}
  /\ FrameBound \in Nat /\ WriteBound \in Nat /\ WorkerLcores \subseteq BOOLEAN

VARIABLES
  read_buffers, out_buffers, write_buffers,  \* locals of offloader_loop
  work_queue, write_queue,                   \* write_queue is Null until created
  worker,         \* where the worker is
  buffer,         \* the packet it has dequeued, Null if none
  writes,         \* responses written for that packet
  pool,           \* free mbufs
  nic_rx, nic_tx, \* the NIC's queues
  arrived, written,  \* frames and responses so far
  wire,           \* the responses that left
  fault,
  exhausted       \* responses were put into mbufs of an earlier round

mainVars == <<main, read_buffers, out_buffers, write_buffers>>
workerVars == <<worker, buffer, writes, written>>
nicVars == <<nic_rx, nic_tx, arrived, wire>>
pipeVars == <<read_buffers, out_buffers, write_buffers, work_queue, write_queue, workerVars,
              pool, nicVars, fault, exhausted>>
vars == <<main, force_quit, bootVars, pipeVars>>

Alive == fault = "none"
Packet(mbuf, frame) == [mbuf |-> mbuf, frame |-> frame]

-----------------------------------------------------------------------------
(* The NIC *)

\* frames arrive as soon as the port is started
Arrive ==
  /\ interface \in started /\ arrived < FrameBound /\ arrived' = arrived + 1
  /\ \E mbuf \in pool : /\ pool' = pool \ {mbuf}
                        /\ nic_rx' = Append(nic_rx, Packet(mbuf, arrived + 1))
  /\ UNCHANGED <<mainVars, force_quit, work_queue, write_queue, workerVars, nic_tx, wire,
                 fault, exhausted>>

\* the oldest packet of the transmit queue has left and its mbuf is freed
TxDone ==
  /\ nic_tx # <<>>
  /\ nic_tx' = Tail(nic_tx) /\ wire' = Append(wire, Head(nic_tx).frame)
  /\ pool' = pool \union {Head(nic_tx).mbuf}
  /\ UNCHANGED <<mainVars, force_quit, work_queue, write_queue, workerVars, nic_rx,
                 arrived, fault, exhausted>>

-----------------------------------------------------------------------------
(* main and offloader_loop *)

\* Mutation of StartWorker: the loop is entered before the write ring exists.
StartWorkerEarly(lcore) ==
  /\ main = "start" /\ main' = "rx" /\ worker' = IF lcore THEN "idle" ELSE "none"
  /\ UNCHANGED <<force_quit, read_buffers, out_buffers, write_buffers, work_queue, write_queue,
                 buffer, writes, written, pool, nicVars, fault, exhausted>>

\* without an lcore there is no worker, and main goes on
StartWorker(lcore) ==
  /\ main = "start" /\ main' = "ring" /\ worker' = IF lcore THEN "idle" ELSE "none"
  /\ UNCHANGED <<force_quit, read_buffers, out_buffers, write_buffers, work_queue, write_queue,
                 buffer, writes, written, pool, nicVars, fault, exhausted>>

CreateWriteQueue ==
  /\ main = "ring" /\ main' = "rx" /\ write_queue' = <<>>
  /\ UNCHANGED <<force_quit, read_buffers, out_buffers, write_buffers, work_queue,
                 workerVars, pool, nicVars, fault, exhausted>>

\* rte_exit, with the worker running
NoWriteQueue ==
  /\ main = "ring" /\ main' = "exit" /\ fault' = "exit"
  /\ UNCHANGED <<force_quit, read_buffers, out_buffers, write_buffers, work_queue, write_queue,
                 workerVars, pool, nicVars, exhausted>>

\* when nothing was received the loop starts over
RxBurst(n) ==
  /\ Alive /\ main = "rx" /\ ~ force_quit
  /\ n <= MaxBurst /\ n <= Len(nic_rx)
  /\ main' = "distribute"
  /\ read_buffers' = SubSeq(nic_rx, 1, n) /\ nic_rx' = SubSeq(nic_rx, n + 1, Len(nic_rx))
  /\ UNCHANGED <<force_quit, out_buffers, write_buffers, work_queue, write_queue, workerVars,
                 pool, nic_tx, arrived, wire, fault, exhausted>>

\* Mutation of Distribute: the burst is handed out from its end.
DistributeReversed ==
  /\ Alive /\ main = "distribute"
  /\ IF read_buffers = <<>>
     THEN main' = "dequeue" /\ UNCHANGED <<read_buffers, work_queue>>
     ELSE /\ read_buffers' = Front(read_buffers)
          /\ work_queue' = IF Len(work_queue) < WorkCapacity
                           THEN Append(work_queue, Last(read_buffers)) ELSE work_queue
          /\ UNCHANGED main
  /\ UNCHANGED <<force_quit, out_buffers, write_buffers, write_queue, workerVars, pool,
                 nicVars, fault, exhausted>>

\* nobody looks whether the enqueue succeeded; without a worker workers[0] is
\* what malloc left
Distribute ==
  /\ Alive /\ main = "distribute"
  /\ IF read_buffers = <<>>
     THEN main' = "dequeue" /\ UNCHANGED <<read_buffers, work_queue, fault>>
     ELSE /\ read_buffers' = Tail(read_buffers)
          /\ work_queue' = IF worker # "none" /\ Len(work_queue) < WorkCapacity
                           THEN Append(work_queue, Head(read_buffers)) ELSE work_queue
          /\ fault' = IF worker = "none" THEN "wild_pointer" ELSE fault
          /\ UNCHANGED main
  /\ UNCHANGED <<force_quit, out_buffers, write_buffers, write_queue, workerVars, pool,
                 nicVars, exhausted>>

\* Mutation of DequeueWrites: the dequeue waits for two responses.
DequeueWritesBlocking ==
  /\ Alive /\ main = "dequeue" /\ main' = "alloc" /\ Len(write_queue) >= 2
  /\ out_buffers' = SubSeq(write_queue, 1, 2)
  /\ write_queue' = SubSeq(write_queue, 3, Len(write_queue))
  /\ UNCHANGED <<force_quit, read_buffers, write_buffers, work_queue, workerVars, pool,
                 nicVars, fault, exhausted>>

\* dequeue_bulk takes two or none
DequeueWrites ==
  /\ Alive /\ main = "dequeue" /\ main' = "alloc"
  /\ LET n == IF Len(write_queue) >= 2 THEN 2 ELSE 0
     IN  /\ out_buffers' = SubSeq(write_queue, 1, n)
         /\ write_queue' = SubSeq(write_queue, n + 1, Len(write_queue))
  /\ UNCHANGED <<force_quit, read_buffers, write_buffers, work_queue, workerVars, pool,
                 nicVars, fault, exhausted>>

\* two mbufs, whether or not there is something to write; if there are not
\* two, write_buffers keeps the pointers of an earlier round, or garbage
AllocWriteBuffers ==
  /\ Alive /\ main = "alloc" /\ main' = "transmit"
  /\ IF Cardinality(pool) >= 2
     THEN \E first, second \in pool :
            /\ first # second
            /\ write_buffers' = <<first, second>> /\ pool' = pool \ {first, second}
     ELSE UNCHANGED <<write_buffers, pool>>
  /\ exhausted' = (exhausted \/ (out_buffers # <<>> /\ Cardinality(pool) < 2))
  /\ fault' = IF out_buffers # <<>> /\ write_buffers' = <<>> THEN "wild_pointer" ELSE fault
  /\ UNCHANGED <<force_quit, read_buffers, out_buffers, work_queue, write_queue,
                 workerVars, nicVars>>

\* the NIC takes n of the two; the others are only logged
Transmit(n) ==
  /\ Alive /\ main = "transmit" /\ main' = "rx"
  /\ IF out_buffers = <<>>
     THEN n = 0 /\ UNCHANGED nic_tx
     ELSE /\ n = 2 \/ Len(nic_tx) + n = TxRoom
          /\ Len(nic_tx) + n <= TxRoom
          /\ nic_tx' = nic_tx \o [i \in 1 .. n |-> Packet(write_buffers[i], out_buffers[i])]
  /\ out_buffers' = <<>>
  /\ UNCHANGED <<force_quit, read_buffers, write_buffers, work_queue, write_queue, workerVars,
                 pool, nic_rx, arrived, wire, fault, exhausted>>

\* main then waits for the worker's lcore
LeaveLoop ==
  /\ Alive /\ main = "rx" /\ force_quit /\ main' = "wait"
  /\ UNCHANGED <<force_quit, read_buffers, out_buffers, write_buffers, work_queue, write_queue,
                 workerVars, pool, nicVars, fault, exhausted>>

\* consume_tasks does not return (its loop ends when stop is called, and nobody
\* calls it), so that only without a worker main closes the ports and returns
Close ==
  /\ Alive /\ main = "wait" /\ worker = "none"
  /\ main' = "closed" /\ started' = {}
  /\ UNCHANGED <<force_quit, devices, interface, checkVars, reported, pipeVars>>

-----------------------------------------------------------------------------
(* consume_tasks *)

Dequeue ==
  /\ Alive /\ worker = "idle" /\ work_queue # <<>>
  /\ worker' = "reading" /\ buffer' = Head(work_queue) /\ writes' = 0
  /\ work_queue' = Tail(work_queue)
  /\ UNCHANGED <<mainVars, force_quit, write_queue, written, pool, nicVars, fault, exhausted>>

\* a handler's write, by way of handler_write and dpdk_write_write: what
\* does not fit the ring is only logged
Write ==
  /\ Alive /\ worker = "reading" /\ writes < WriteBound
  /\ writes' = writes + 1 /\ written' = written + 1
  /\ IF write_queue = Null
     THEN fault' = "null_ring" /\ UNCHANGED write_queue
     ELSE /\ write_queue' = IF Len(write_queue) < WriteCapacity
                            THEN Append(write_queue, written + 1) ELSE write_queue
          /\ UNCHANGED fault
  /\ UNCHANGED <<mainVars, force_quit, work_queue, worker, buffer, pool, nicVars, exhausted>>

\* Mutation of FreePacket: the handlers' loop goes on with the packet it freed.
FreePacketInLoop ==
  /\ Alive /\ worker = "reading"
  /\ pool' = pool \union {buffer.mbuf}
  /\ UNCHANGED <<mainVars, force_quit, work_queue, write_queue, workerVars, nicVars,
                 fault, exhausted>>

\* Mutation of FreePacket: the worker does not return to its queue.
FreePacketStops ==
  /\ Alive /\ worker = "reading" /\ worker' = "returned"
  /\ pool' = pool \union {buffer.mbuf} /\ buffer' = Null
  /\ UNCHANGED <<mainVars, force_quit, work_queue, write_queue, writes, written, nicVars,
                 fault, exhausted>>

\* the handler's read returned
FreePacket ==
  /\ Alive /\ worker = "reading" /\ worker' = "idle"
  /\ pool' = pool \union {buffer.mbuf} /\ buffer' = Null
  /\ UNCHANGED <<mainVars, force_quit, work_queue, write_queue, writes, written, nicVars,
                 fault, exhausted>>

-----------------------------------------------------------------------------

Init ==
  /\ InitBoot
  /\ read_buffers = <<>> /\ out_buffers = <<>> /\ write_buffers = <<>>
  /\ work_queue = <<>> /\ write_queue = Null
  /\ worker = "none" /\ buffer = Null /\ writes = 0 /\ written = 0
  /\ pool = Mbufs /\ nic_rx = <<>> /\ nic_tx = <<>> /\ arrived = 0 /\ wire = <<>>
  /\ fault = "none" /\ exhausted = FALSE

Offloader ==
  \/ \E lcore \in WorkerLcores : StartWorker(lcore)
  \/ CreateWriteQueue \/ NoWriteQueue
  \/ \E n \in 1 .. MaxBurst : RxBurst(n)
  \/ Distribute \/ DequeueWrites \/ AllocWriteBuffers
  \/ \E n \in 0 .. 2 : Transmit(n)
  \/ LeaveLoop

Next ==
  \/ (Boot \/ Signal) /\ UNCHANGED pipeVars
  \/ Close
  \/ (Arrive \/ TxDone \/ Offloader \/ Dequeue \/ Write \/ FreePacket) /\ UNCHANGED bootVars

MainLcore == (Boot /\ UNCHANGED pipeVars) \/ (Offloader /\ UNCHANGED bootVars) \/ Close

\* both lcores keep running, and the NIC keeps sending
Fairness ==
  /\ WF_vars(MainLcore) /\ WF_vars(Dequeue /\ UNCHANGED bootVars)
  /\ WF_vars(FreePacket /\ UNCHANGED bootVars) /\ WF_vars(TxDone /\ UNCHANGED bootVars)

Spec == Init /\ [][Next]_vars /\ Fairness
-----------------------------------------------------------------------------
(* Properties *)

Frames(packets) == [i \in DOMAIN packets |-> packets[i].frame]
MbufsOf(packets) == [i \in DOMAIN packets |-> packets[i].mbuf]
Increasing(s) == \A i, j \in DOMAIN s : i < j => s[i] < s[j]
InHand == IF buffer = Null THEN <<>> ELSE <<buffer>>
Responses == IF write_queue = Null THEN <<>> ELSE write_queue

\* the mbufs somebody other than the pool holds, in the order a received
\* packet passes; write_buffers counts when main is about to fill and send it
Held ==
  MbufsOf(InHand) \o MbufsOf(work_queue) \o MbufsOf(read_buffers) \o MbufsOf(nic_rx)
    \o MbufsOf(nic_tx) \o (IF main = "transmit" /\ out_buffers # <<>> THEN write_buffers ELSE <<>>)

(***************************************************************************)
(* Every variable has its type and every ring and queue its capacity.      *)
(***************************************************************************)
TypeOK ==
  /\ main \in BootPlaces \union {"exit", "crashed", "start", "ring", "rx", "distribute",
                              "dequeue", "alloc", "transmit", "wait", "closed"}
  /\ started \subseteq devices /\ interface \in {NoPort, 0} /\ count \in 0 .. MaxCheckTime + 1
  /\ worker \in {"none", "idle", "reading"} /\ force_quit \in BOOLEAN
  /\ \A packets \in {InHand, work_queue, read_buffers, nic_rx, nic_tx} :
       \A i \in DOMAIN packets : packets[i].mbuf \in Mbufs
  /\ Len(work_queue) <= WorkCapacity /\ Len(Responses) <= WriteCapacity
  /\ Len(read_buffers) <= MaxBurst /\ Len(nic_tx) <= TxRoom
  /\ Len(out_buffers) \in {0, 2} /\ Len(write_buffers) \in {0, 2}
  /\ pool \subseteq Mbufs
  /\ writes \in 0 .. WriteBound /\ arrived \in 0 .. FrameBound
  /\ fault \in {"none", "exit", "null_ring", "wild_pointer"}

OneOwner ==
  /\ \A i, j \in DOMAIN Held : i # j => Held[i] # Held[j]
  /\ \A i \in DOMAIN Held : Held[i] \notin pool

(***************************************************************************)
(* An mbuf has one owner: no two of the NIC, the offloader's burst, the    *)
(* work ring, the worker and the transmit queue hold the same one, and     *)
(* none of them holds a free one (consume_tasks frees what it read,        *)
(* offloader_loop allocates what it transmits) - until responses are to be *)
(* sent for which there is no mbuf.                                        *)
(***************************************************************************)
MbufOwnedOnce == ~ exhausted => OneOwner

(***************************************************************************)
(* Packets reach the handlers in the order the NIC received them: burst,   *)
(* work ring and worker never reorder, though they may lose.               *)
(***************************************************************************)
HandledInOrder ==
  Increasing(Frames(InHand) \o Frames(work_queue) \o Frames(read_buffers) \o Frames(nic_rx))

(***************************************************************************)
(* Responses leave in the order the handlers wrote them, whatever the      *)
(* write ring and the transmit queue had to drop in between.               *)
(***************************************************************************)
SentInOrder ==
  Increasing(wire \o Frames(nic_tx) \o out_buffers \o Responses)

(***************************************************************************)
(* Rings and queues keep their bounds, and nothing is reordered, neither   *)
(* on its way to the handlers nor on its way to the NIC.                   *)
(***************************************************************************)
QueuesConsistent == TypeOK /\ HandledInOrder /\ SentInOrder

(***************************************************************************)
(* main starts the worker before it creates the write ring, but no handler *)
(* writes to the ring before it exists: packets only flow from             *)
(* offloader_loop, which starts last.                                      *)
(***************************************************************************)
WritesAfterRing == fault # "null_ring" /\ (worker = "reading" => write_queue # Null)

(***************************************************************************)
(* What reached the work ring reaches a handler, which frees it, unless    *)
(* the process dies.                                                       *)
(***************************************************************************)
QueuedIsHandled ==
  \A frame \in 1 .. FrameBound :
    (\E i \in DOMAIN work_queue : work_queue[i].frame = frame)
      ~> (\A i \in DOMAIN (InHand \o work_queue) :
            (InHand \o work_queue)[i].frame # frame \/ ~ Alive)

(***************************************************************************)
(* After a signal main reaches the wait for the worker's lcore (or ends),  *)
(* wherever in start-up or in a round of offloader_loop it was.            *)
(***************************************************************************)
QuitReachesWait ==
  force_quit ~> (main \in {"wait", "closed", "exit", "crashed"} \/ ~ Alive)

(***************************************************************************)
(* The same when the pool has run dry.  main.c:181 only logs "Could not    *)
(* allocate write buffers", and what the round then fills are the mbufs of *)
(* an earlier one.                                                         *)
(***************************************************************************)
MbufOwnedAlways == OneOwner

(***************************************************************************)
(* No mbuf leaks: between two rounds of offloader_loop each one is free or *)
(* carries a packet.  main.c:222 sizes the pool for the receive and        *)
(* transmit descriptors and a burst, so for mbufs that come back.          *)
(***************************************************************************)
MbufsAccounted ==
  main = "rx" => pool \union {Held[i] : i \in DOMAIN Held} = Mbufs

(***************************************************************************)
(* offloader_loop "distributes received mbufs to worker rings"             *)
(* (.github/copilot-instructions.md:14): each one it takes from its burst  *)
(* is in the ring afterwards.                                              *)
(***************************************************************************)
EveryMbufQueued ==
  [][main = "distribute" /\ read_buffers # <<>> =>
       \E i \in DOMAIN work_queue' : work_queue'[i] = Head(read_buffers)
     ]_read_buffers

(***************************************************************************)
(* "Writes are queued through dpdk_write_write_queue and serviced in the   *)
(* offloader" (.github/copilot-instructions.md:23): a queued response      *)
(* leaves the ring.                                                        *)
(***************************************************************************)
WritesServiced ==
  \A response \in 1 .. FrameBound * WriteBound :
    response \in {Responses[i] : i \in DOMAIN Responses}
      ~> response \notin {Responses[i] : i \in DOMAIN Responses}

(***************************************************************************)
(* signal_handler says "preparing to exit..." (main.c:150): main closes    *)
(* the ports and returns.                                                  *)
(***************************************************************************)
SignalEnds == force_quit ~> (main \in {"closed", "exit", "crashed"} \/ ~ Alive)

(***************************************************************************)
(* The handlers get an interface: main.c:346 refuses any first port other  *)
(* than 0, and so should the absence of ports be.                          *)
(***************************************************************************)
InterfaceExists == main # "crashed"
=============================================================================
