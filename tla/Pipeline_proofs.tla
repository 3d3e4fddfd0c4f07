-------------------------- MODULE Pipeline_proofs --------------------------
(***************************************************************************)
(* What start-up guarantees, for every set of ports, length of the link    *)
(* check, capacity of the rings and number of frames.                      *)
(***************************************************************************)
EXTENDS Pipeline, FiniteSetTheorems, WellFoundedInduction, TLAPS

(***************************************************************************)
(* The inductive invariant of the link check.  Only a round that does not  *)
(* print can be the last but one, so that the bound of the loop is never   *)
(* what ends it; the round that prints has printed what it no longer has   *)
(* to look at.                                                             *)
(***************************************************************************)
CountOK ==
  main \in {"link", "links"} =>
    count \in Nat /\ count <= MaxCheckTime /\ (~ print_flag => count < MaxCheckTime)

ReportOK ==
  /\ main \in {"eal", "ports", "link"} => reported = {}
  /\ main = "links" => /\ unchecked \subseteq devices
                       /\ reported = IF print_flag THEN devices \ unchecked ELSE {}

LinkInv ==
  /\ main \in {"eal", "ports"} => count = 0
  /\ devices \subseteq Nat
  /\ CountOK /\ ReportOK /\ LinkReported

-----------------------------------------------------------------------------

\* A set of ports that is not empty has a least one: what RTE_ETH_FOREACH_DEV
\* visits next.
LEMMA MinIsMember ==
  ASSUME NEW S, S \subseteq Nat, S # {}
  PROVE  Min(S) \in S
<1>1. PICK x \in S : \A y \in S : <<y, x>> \notin OpToRel(<, Nat)
  BY NatLessThanWellFounded, WFMin
<1>2. \A y \in S : ~ (y < x)
  BY <1>1 DEF OpToRel
<1>3. \A y \in S : x <= y
  BY <1>2
<1> QED BY <1>3 DEF Min

\* What the check of a signal or of the time does not end is a round of the
\* link check that starts with every port unreported.
LEMMA LinkRoundKeeps == LinkInv /\ LinkRound => LinkInv'
<1> SUFFICES ASSUME LinkInv, LinkRound PROVE LinkInv'
  OBVIOUS
<1> USE DEF LinkInv, CountOK, ReportOK, LinkReported, LinkRound, CheckReturns
<1>1. MaxCheckTime \in Nat
  BY StartupAssumption
<1>2. CASE force_quit
  BY <1>2
<1>3. CASE ~ force_quit
  <2>1. ~ (count > MaxCheckTime)
    BY <1>1
  <2>2. main' = "links" /\ unchecked' = devices /\ UNCHANGED <<count, print_flag>>
    BY <1>3, <2>1
  <2> QED BY <1>3, <2>2
<1> QED BY <1>2, <1>3

\* A port that was looked at is reported in the round that prints, and only then.
LEMMA LinkPortKeeps ==
  ASSUME NEW link, LinkInv, LinkPort(link)
  PROVE  LinkInv'
<1> DEFINE port == Min(unchecked)
<1> USE DEF LinkInv, CountOK, ReportOK, LinkReported
<1>1. CASE force_quit
  BY <1>1 DEF LinkPort, CheckReturns
<1>2. CASE ~ force_quit
  <2>1. main = "links" /\ main' = "links" /\ UNCHANGED <<count, print_flag, devices>>
    BY <1>2 DEF LinkPort
  <2>2. port \in unchecked
    BY MinIsMember DEF LinkPort
  <2>3. CASE print_flag
    <3>1. unchecked' = unchecked \ {port} /\ reported' = reported \union {port}
      BY <1>2, <2>3 DEF LinkPort
    <3> QED BY <2>1, <2>2, <2>3, <3>1
  <2>4. CASE ~ print_flag
    <3>1. unchecked' \subseteq unchecked /\ reported' = reported
      BY <1>2, <2>4 DEF LinkPort
    <3> QED BY <2>1, <2>4, <3>1
  <2> QED BY <2>3, <2>4
<1> QED BY <1>1, <1>2

\* The last round that does not print turns print_flag on.
LEMMA LinkRoundEndKeeps == LinkInv /\ LinkRoundEnd => LinkInv'
<1> SUFFICES ASSUME LinkInv, LinkRoundEnd PROVE LinkInv'
  OBVIOUS
<1> USE DEF LinkInv, CountOK, ReportOK, LinkReported
<1>1. MaxCheckTime \in Nat \ {0}
  BY StartupAssumption
<1>2. CASE print_flag
  BY <1>2 DEF LinkRoundEnd, CheckReturns
<1>3. CASE ~ print_flag
  <2>1. /\ main = "links" /\ main' = "link" /\ count' = count + 1
        /\ UNCHANGED <<devices, reported>>
    BY <1>3 DEF LinkRoundEnd
  <2>2. count = MaxCheckTime - 1 => print_flag'
    BY <1>3 DEF LinkRoundEnd
  <2>3. CountOK'
    BY <1>1, <1>3, <2>1, <2>2
  <2> QED BY <1>3, <2>1, <2>3
<1> QED BY <1>2, <1>3

\* Start-up outside the link check.
LEMMA BootKeeps == LinkInv /\ Boot => LinkInv'
<1> SUFFICES ASSUME LinkInv, Boot PROVE LinkInv'
  OBVIOUS
<1>1. CASE InitEal
  <2>1. devices' \subseteq Nat
    BY <1>1, StartupAssumption DEF InitEal
  <2> QED BY <1>1, <2>1 DEF InitEal, LinkInv, CountOK, ReportOK, LinkReported, checkVars
<1>2. CASE Exit
  BY <1>2 DEF Exit, LinkInv, CountOK, ReportOK, LinkReported, bootVars, checkVars
<1>3. CASE InitPort
  BY <1>3 DEF InitPort, LinkInv, CountOK, ReportOK, LinkReported, checkVars
<1>4. CASE PortsDone
  <2>1. 0 <= MaxCheckTime /\ 0 < MaxCheckTime
    BY StartupAssumption
  <2> QED BY <1>4, <2>1 DEF PortsDone, LinkInv, CountOK, ReportOK, LinkReported, bootVars, checkVars
<1>5. CASE NetStackInit
  BY <1>5 DEF NetStackInit, LinkInv, CountOK, ReportOK, LinkReported, bootVars, checkVars
<1> QED BY <1>1, <1>2, <1>3, <1>4, <1>5, LinkRoundKeeps, LinkPortKeeps, LinkRoundEndKeeps DEF Boot

\* The offloader, which runs after start-up.
LEMMA OffloaderKeepsLink == LinkInv /\ Offloader /\ UNCHANGED bootVars => LinkInv'
<1> SUFFICES ASSUME LinkInv, Offloader, UNCHANGED bootVars PROVE LinkInv'
  OBVIOUS
<1>1. /\ main \in {"start", "ring", "rx", "distribute", "dequeue", "alloc", "transmit"}
      /\ main' \in {"ring", "exit", "rx", "distribute", "dequeue", "alloc", "transmit", "wait"}
      /\ UNCHANGED force_quit
  BY DEF Offloader, StartWorker, CreateWriteQueue, NoWriteQueue, RxBurst, Distribute,
         DequeueWrites, AllocWriteBuffers, Transmit, LeaveLoop
<1> QED BY <1>1 DEF LinkInv, CountOK, ReportOK, LinkReported, bootVars, checkVars

LEMMA LinkNext == LinkInv /\ [Next]_vars => LinkInv'
<1> SUFFICES ASSUME LinkInv, [Next]_vars PROVE LinkInv'
  OBVIOUS
<1> USE DEF LinkInv, CountOK, ReportOK, LinkReported, bootVars, checkVars
<1>1. CASE Boot
  BY <1>1, BootKeeps
<1>2. CASE Signal
  BY <1>2 DEF Signal
<1>3. CASE Close
  BY <1>3 DEF Close
<1>4. CASE Offloader /\ UNCHANGED bootVars
  BY <1>4, OffloaderKeepsLink
<1>5. CASE (Arrive \/ TxDone \/ Dequeue \/ Write \/ FreePacket) /\ UNCHANGED bootVars
  <2>1. UNCHANGED <<main, force_quit>>
    BY <1>5 DEF Arrive, TxDone, Dequeue, Write, FreePacket, mainVars
  <2> QED BY <1>5, <2>1
<1>6. CASE UNCHANGED vars
  BY <1>6 DEF vars
<1> QED BY <1>1, <1>2, <1>3, <1>4, <1>5, <1>6 DEF Next

(***************************************************************************)
(* check_all_ports_link_status ends only after it has printed every port,  *)
(* unless a signal came: for every set of ports and every MAX_CHECK_TIME.  *)
(***************************************************************************)
THEOREM LinksAreReported == Spec => []LinkReported
<1>1. Init => LinkInv
  BY DEF Init, InitBoot, LinkInv, CountOK, ReportOK, LinkReported
<1>2. LinkInv => LinkReported
  BY DEF LinkInv
<1> QED BY <1>1, <1>2, LinkNext, PTL DEF Spec

-----------------------------------------------------------------------------
(* The order of start-up *)

Before == BootPlaces \union {"start", "ring", "exit", "crashed"}
After == {"rx", "distribute", "dequeue", "alloc", "transmit", "wait", "closed"}

(***************************************************************************)
(* The inductive invariant: until offloader_loop runs nothing is in the    *)
(* work ring, so that the worker cannot be inside a handler; from then on  *)
(* the write ring exists.                                                  *)
(***************************************************************************)
RingInv ==
  /\ main \in Before \union After /\ written \in Nat /\ fault # "null_ring"
  /\ main \in Before => work_queue = <<>> /\ worker # "reading"
  /\ main \in After => write_queue \in Seq(Nat)

LEMMA OffloaderKeepsRing == RingInv /\ Offloader => RingInv'
<1> SUFFICES ASSUME RingInv, Offloader PROVE RingInv'
  OBVIOUS
<1> USE DEF RingInv, Before, After, BootPlaces
<1>1. CASE \E lcore \in WorkerLcores : StartWorker(lcore)
  BY <1>1 DEF StartWorker
<1>2. CASE CreateWriteQueue
  BY <1>2 DEF CreateWriteQueue, workerVars
<1>3. CASE NoWriteQueue
  BY <1>3 DEF NoWriteQueue, workerVars
<1>4. CASE \E n \in 1 .. MaxBurst : RxBurst(n)
  BY <1>4 DEF RxBurst, workerVars
<1>5. CASE Distribute
  <2>1. main = "distribute" /\ main' \in {"distribute", "dequeue"} /\ fault' # "null_ring"
    BY <1>5 DEF Distribute
  <2> QED BY <1>5, <2>1 DEF Distribute, workerVars
<1>6. CASE DequeueWrites
  <2>1. PICK n \in {0, 2} :
          n <= Len(write_queue) /\ write_queue' = SubSeq(write_queue, n + 1, Len(write_queue))
    BY <1>6 DEF DequeueWrites
  <2>2. write_queue' \in Seq(Nat)
    <3>1. write_queue \in Seq(Nat)
      BY <1>6 DEF DequeueWrites
    <3>2. \A q \in Seq(Nat) : \A i \in {0, 2} : i <= Len(q) => SubSeq(q, i + 1, Len(q)) \in Seq(Nat)
      OBVIOUS
    <3> QED BY <2>1, <3>1, <3>2
  <2> QED BY <1>6, <2>2 DEF DequeueWrites, workerVars
<1>7. CASE AllocWriteBuffers
  <2>1. fault' # "null_ring"
    BY <1>7 DEF AllocWriteBuffers
  <2> QED BY <1>7, <2>1 DEF AllocWriteBuffers, workerVars
<1>8. CASE \E n \in 0 .. 2 : Transmit(n)
  BY <1>8 DEF Transmit, workerVars
<1>9. CASE LeaveLoop
  BY <1>9 DEF LeaveLoop, workerVars
<1> QED BY <1>1, <1>2, <1>3, <1>4, <1>5, <1>6, <1>7, <1>8, <1>9 DEF Offloader

LEMMA WorkerKeepsRing == RingInv /\ (Dequeue \/ Write \/ FreePacket) => RingInv'
<1> SUFFICES ASSUME RingInv, Dequeue \/ Write \/ FreePacket PROVE RingInv'
  OBVIOUS
<1> USE DEF RingInv, mainVars
<1>1. CASE Dequeue
  BY <1>1 DEF Dequeue
<1>2. CASE Write
  <2>1. main \in After
    BY <1>2 DEF Write
  <2>2. write_queue # Null
    BY <2>1, PipelineAssumption
  <2>3. write_queue' \in Seq(Nat)
    <3>1. write_queue \in Seq(Nat) /\ written + 1 \in Nat
      BY <2>1
    <3>2. write_queue' = Append(write_queue, written + 1) \/ write_queue' = write_queue
      BY <1>2, <2>2 DEF Write
    <3>3. \A q \in Seq(Nat), x \in Nat : Append(q, x) \in Seq(Nat)
      OBVIOUS
    <3> QED BY <3>1, <3>2, <3>3
  <2> QED BY <1>2, <2>1, <2>2, <2>3 DEF Write, Before, After, BootPlaces
<1>3. CASE FreePacket
  BY <1>3 DEF FreePacket
<1> QED BY <1>1, <1>2, <1>3

LEMMA RingNext == RingInv /\ [Next]_vars => RingInv'
<1> SUFFICES ASSUME RingInv, [Next]_vars PROVE RingInv'
  OBVIOUS
<1>1. CASE (Boot \/ Signal) /\ UNCHANGED pipeVars
  <2>1. main' = main \/ (main \in Before /\ main' \in Before)
    BY <1>1 DEF Boot, Signal, InitEal, Exit, InitPort, PortsDone, LinkRound, LinkPort,
                LinkRoundEnd, NetStackInit, CheckReturns, Before, BootPlaces
  <2> QED BY <1>1, <2>1 DEF RingInv, pipeVars, workerVars, Before, After, BootPlaces
<1>2. CASE Close
  BY <1>2 DEF Close, RingInv, Before, After, BootPlaces, pipeVars, workerVars
<1>3. CASE Arrive \/ TxDone
  BY <1>3 DEF Arrive, TxDone, RingInv, mainVars, workerVars
<1>4. CASE Offloader \/ Dequeue \/ Write \/ FreePacket
  BY <1>4, OffloaderKeepsRing, WorkerKeepsRing
<1>5. CASE UNCHANGED vars
  BY <1>5 DEF vars, pipeVars, workerVars, RingInv
<1> QED BY <1>1, <1>2, <1>3, <1>4, <1>5 DEF Next

(***************************************************************************)
(* Although main starts the worker before it creates the write ring, no    *)
(* handler runs before the ring exists and none writes to a null ring: for *)
(* every capacity of the rings, every burst and every number of frames.    *)
(***************************************************************************)
THEOREM RingBeforeWrites == Spec => []WritesAfterRing
<1>1. Init => RingInv
  BY DEF Init, InitBoot, RingInv, Before, After, BootPlaces
<1>2. RingInv => WritesAfterRing
  BY PipelineAssumption DEF RingInv, WritesAfterRing
<1> QED BY <1>1, <1>2, RingNext, PTL DEF Spec

-----------------------------------------------------------------------------
(* The queues *)

Packets == [mbuf : Mbufs, frame : Nat]

\* a packet queue in the order its frames arrived, or its responses were written
InFrameOrder(packets) ==
  \A i, j \in DOMAIN packets : i < j => packets[i].frame < packets[j].frame

FramesIn(packets) == {packets[i].frame : i \in DOMAIN packets}
MbufsIn(packets) == {packets[i].mbuf : i \in DOMAIN packets}
ValuesIn(s) == {s[i] : i \in DOMAIN s}

Below(S, T) == \A x \in S, y \in T : x < y
UpTo(S, bound) == \A x \in S : x <= bound

\* what the worker has in hand, by where it is in consume_tasks
Read == IF worker = "reading" THEN <<buffer>> ELSE <<>>

(***************************************************************************)
(* The inductive invariant of the queues.  PlaceOK says what each lcore's  *)
(* place means for its locals; BootOK is the rest of TypeOK that start-up  *)
(* keeps; FlowOK orders the way from the NIC to the worker, SendOK the way *)
(* back, each with the bound on the numbers that the next one gets.        *)
(***************************************************************************)
PlaceOK ==
  /\ main # "distribute" => read_buffers = <<>>
  /\ main \notin {"alloc", "transmit"} => out_buffers = <<>>
  /\ main \in Before => write_queue = Null
  /\ worker \in {"none", "idle", "reading"} /\ (worker # "reading" => buffer = Null)
  /\ Len(write_buffers) \in {0, 2} /\ write_buffers \in Seq(Mbufs)
  /\ Alive /\ main = "transmit" /\ out_buffers # <<>> => write_buffers # <<>>
  /\ pool \subseteq Mbufs /\ writes \in 0 .. WriteBound
  /\ fault \in {"none", "exit", "null_ring", "wild_pointer"}

BootOK ==
  /\ started \subseteq devices /\ (main = "eal" => started = {})
  /\ interface \in {NoPort, 0} /\ count \in 0 .. MaxCheckTime + 1 /\ force_quit \in BOOLEAN

FlowOK ==
  /\ {Read, work_queue, read_buffers, nic_rx} \subseteq Seq(Packets)
  /\ InFrameOrder(work_queue) /\ InFrameOrder(read_buffers) /\ InFrameOrder(nic_rx)
  /\ Below(FramesIn(Read), FramesIn(work_queue))
  /\ Below(FramesIn(Read), FramesIn(read_buffers))
  /\ Below(FramesIn(Read), FramesIn(nic_rx))
  /\ Below(FramesIn(work_queue), FramesIn(read_buffers))
  /\ Below(FramesIn(work_queue), FramesIn(nic_rx))
  /\ Below(FramesIn(read_buffers), FramesIn(nic_rx))
  /\ UpTo(FramesIn(Read), arrived) /\ UpTo(FramesIn(work_queue), arrived)
  /\ UpTo(FramesIn(read_buffers), arrived) /\ UpTo(FramesIn(nic_rx), arrived)
  /\ Len(work_queue) <= WorkCapacity /\ Len(read_buffers) <= MaxBurst
  /\ arrived \in 0 .. FrameBound

SendOK ==
  /\ {wire, out_buffers, Responses} \subseteq Seq(Nat) /\ nic_tx \in Seq(Packets)
  /\ Increasing(wire) /\ Increasing(out_buffers) /\ Increasing(Responses)
  /\ InFrameOrder(nic_tx)
  /\ Below(ValuesIn(wire), FramesIn(nic_tx))
  /\ Below(ValuesIn(wire), ValuesIn(out_buffers))
  /\ Below(ValuesIn(wire), ValuesIn(Responses))
  /\ Below(FramesIn(nic_tx), ValuesIn(out_buffers))
  /\ Below(FramesIn(nic_tx), ValuesIn(Responses))
  /\ Below(ValuesIn(out_buffers), ValuesIn(Responses))
  /\ UpTo(ValuesIn(wire), written) /\ UpTo(FramesIn(nic_tx), written)
  /\ UpTo(ValuesIn(out_buffers), written) /\ UpTo(ValuesIn(Responses), written)
  /\ Len(nic_tx) <= TxRoom /\ Len(out_buffers) \in {0, 2} /\ Len(Responses) <= WriteCapacity

QInv == LinkInv /\ RingInv /\ PlaceOK /\ BootOK /\ FlowOK /\ SendOK

\* no two positions of a queue hold the same mbuf
Distinct(packets) ==
  \A i, j \in DOMAIN packets : i # j => packets[i].mbuf # packets[j].mbuf
DistinctValues(s) == \A i, j \in DOMAIN s : i # j => s[i] # s[j]

\* the mbufs main is about to fill and send
Filled == IF main = "transmit" /\ out_buffers # <<>> THEN write_buffers ELSE <<>>

Apart(S, T) == \A x \in S : x \notin T

AllApart(r, w, b, x, t, f, p) ==
  /\ Apart(r, w \union b \union x \union t \union f \union p)
  /\ Apart(w, b \union x \union t \union f \union p)
  /\ Apart(b, x \union t \union f \union p)
  /\ Apart(x, t \union f \union p)
  /\ Apart(t, f \union p)
  /\ Apart(f, p)

OwnedBy(r, w, b, x, t, f, p) ==
  /\ Distinct(w) /\ Distinct(b) /\ Distinct(x) /\ Distinct(t) /\ DistinctValues(f)
  /\ AllApart(MbufsIn(r), MbufsIn(w), MbufsIn(b), MbufsIn(x), MbufsIn(t), ValuesIn(f), p)

(***************************************************************************)
(* The inductive invariant of the mbufs: the holders and the pool are      *)
(* pairwise apart, and none holds one mbuf twice.                          *)
(***************************************************************************)
Owned == OwnedBy(Read, work_queue, read_buffers, nic_rx, nic_tx, Filled, pool)

OwnInv == ~ exhausted => Owned

-----------------------------------------------------------------------------
(* What the queue operations do to frames and mbufs *)

\* the queue operations, by names of their own
Added(s, e) == Append(s, e)
FirstOf(s, n) == SubSeq(s, 1, n)
Beyond(s, n) == SubSeq(s, n + 1, Len(s))

\* What an empty queue and one of a single packet hold.
LEMMA SmallQueues ==
  /\ FramesIn(<<>>) = {} /\ MbufsIn(<<>>) = {} /\ ValuesIn(<<>>) = {}
  /\ InFrameOrder(<<>>) /\ Distinct(<<>>) /\ Increasing(<<>>) /\ DistinctValues(<<>>)
  /\ \A x : FramesIn(<<x>>) = {x.frame} /\ MbufsIn(<<x>>) = {x.mbuf}
  /\ \A P : <<>> \in Seq(P)
BY DEF FramesIn, MbufsIn, ValuesIn, InFrameOrder, Distinct, Increasing, DistinctValues

\* A contiguous piece of a packet queue.
LEMMA PacketPiece ==
  ASSUME NEW s \in Seq(Packets), NEW t \in Seq(Packets), NEW k \in Nat,
         Len(t) + k <= Len(s), \A i \in 1 .. Len(t) : t[i] = s[i + k]
  PROVE  /\ FramesIn(t) \subseteq FramesIn(s) /\ MbufsIn(t) \subseteq MbufsIn(s)
         /\ InFrameOrder(s) => InFrameOrder(t)
         /\ Distinct(s) => Distinct(t)
<1>1. \A i \in 1 .. Len(t) : i + k \in 1 .. Len(s)
  OBVIOUS
<1>2. FramesIn(t) \subseteq FramesIn(s)
  BY <1>1 DEF FramesIn
<1>3. MbufsIn(t) \subseteq MbufsIn(s)
  BY <1>1 DEF MbufsIn
<1>4. InFrameOrder(s) => InFrameOrder(t)
  <2> SUFFICES ASSUME InFrameOrder(s), NEW i \in DOMAIN t, NEW j \in DOMAIN t, i < j
               PROVE  t[i].frame < t[j].frame
    BY Zenon DEF InFrameOrder
  <2>1. i + k \in DOMAIN s /\ j + k \in DOMAIN s /\ i + k < j + k
    BY <1>1
  <2>2. s[i + k].frame < s[j + k].frame
    BY <2>1 DEF InFrameOrder
  <2> QED BY <2>2
<1>5. Distinct(s) => Distinct(t)
  <2> SUFFICES ASSUME Distinct(s), NEW i \in 1 .. Len(t), NEW j \in 1 .. Len(t), i # j
               PROVE  t[i].mbuf # t[j].mbuf
    BY DEF Distinct
  <2>1. i + k \in DOMAIN s /\ j + k \in DOMAIN s /\ i + k # j + k
    BY <1>1
  <2>2. s[i + k].mbuf # s[j + k].mbuf
    BY <2>1 DEF Distinct
  <2> QED BY <2>2
<1> QED BY <1>2, <1>3, <1>4, <1>5

\* A burst is taken from the front of a packet queue.
LEMMA PacketSplit ==
  ASSUME NEW s \in Seq(Packets), NEW n \in Nat, n <= Len(s), NEW t, NEW u,
         t = FirstOf(s, n), u = Beyond(s, n)
  PROVE  /\ t \in Seq(Packets) /\ Len(t) = n /\ u \in Seq(Packets) /\ Len(u) = Len(s) - n
         /\ FramesIn(t) \subseteq FramesIn(s) /\ MbufsIn(t) \subseteq MbufsIn(s)
         /\ FramesIn(u) \subseteq FramesIn(s) /\ MbufsIn(u) \subseteq MbufsIn(s)
         /\ InFrameOrder(s) =>
              InFrameOrder(t) /\ InFrameOrder(u) /\ Below(FramesIn(t), FramesIn(u))
         /\ Distinct(s) =>
              Distinct(t) /\ Distinct(u) /\ Apart(MbufsIn(t), MbufsIn(u))
<1>1. /\ t \in Seq(Packets) /\ Len(t) = n /\ \A i \in 1 .. Len(t) : t[i] = s[i + 0]
      /\ 0 \in Nat /\ Len(t) + 0 <= Len(s) /\ DOMAIN t = 1 .. Len(t)
  BY DEF FirstOf
<1>2. /\ u \in Seq(Packets) /\ Len(u) = Len(s) - n /\ Len(u) + n <= Len(s)
      /\ DOMAIN u = 1 .. Len(u) /\ \A i \in 1 .. Len(u) : u[i] = s[i + n]
  BY DEF Beyond
<1>3. /\ FramesIn(t) \subseteq FramesIn(s) /\ MbufsIn(t) \subseteq MbufsIn(s)
      /\ InFrameOrder(s) => InFrameOrder(t)
      /\ Distinct(s) => Distinct(t)
  BY <1>1, PacketPiece
<1>4. /\ FramesIn(u) \subseteq FramesIn(s) /\ MbufsIn(u) \subseteq MbufsIn(s)
      /\ InFrameOrder(s) => InFrameOrder(u)
      /\ Distinct(s) => Distinct(u)
  BY <1>2, PacketPiece
<1>5. \A i \in 1 .. Len(t), j \in 1 .. Len(u) :
        i \in 1 .. Len(s) /\ j + n \in 1 .. Len(s) /\ i < j + n
  BY <1>1, <1>2
<1>6. InFrameOrder(s) => Below(FramesIn(t), FramesIn(u))
  <2> SUFFICES ASSUME InFrameOrder(s), NEW i \in DOMAIN t, NEW j \in DOMAIN u
               PROVE  t[i].frame < u[j].frame
    BY Zenon DEF Below, FramesIn
  <2>1. i \in DOMAIN s /\ j + n \in DOMAIN s /\ i < j + n
    BY <1>5
  <2>2. s[i].frame < s[j + n].frame
    BY <2>1 DEF InFrameOrder
  <2>3. t[i] = s[i]
    <3>1. i \in 1 .. Len(t)
      BY <1>1
    <3>2. i + 0 = i
      BY <3>1
    <3> QED BY <1>1, <3>1, <3>2
  <2>4. u[j] = s[j + n]
    <3>1. j \in 1 .. Len(u)
      BY <1>2
    <3> QED BY <1>2, <3>1
  <2> QED BY <2>2, <2>3, <2>4
<1>7. Distinct(s) => Apart(MbufsIn(t), MbufsIn(u))
  <2> SUFFICES ASSUME Distinct(s), NEW i \in DOMAIN t, NEW j \in DOMAIN u
               PROVE  t[i].mbuf # u[j].mbuf
    BY Zenon DEF Apart, MbufsIn
  <2>1. i \in DOMAIN s /\ j + n \in DOMAIN s /\ i # j + n
    BY <1>5
  <2>2. s[i].mbuf # s[j + n].mbuf
    BY <2>1 DEF Distinct
  <2>3. t[i] = s[i]
    BY <1>1
  <2>4. u[j] = s[j + n]
    BY <1>2
  <2> QED BY <2>2, <2>3, <2>4
<1> QED BY <1>1, <1>2, <1>3, <1>4, <1>6, <1>7

\* The packet at the head of a queue is taken.
LEMMA PacketTail ==
  ASSUME NEW s \in Seq(Packets), s # <<>>, NEW t, t = Tail(s), NEW e, e = Head(s)
  PROVE  /\ e \in Packets /\ t \in Seq(Packets) /\ Len(t) = Len(s) - 1
         /\ e.frame \in FramesIn(s) /\ e.mbuf \in MbufsIn(s)
         /\ FramesIn(t) \subseteq FramesIn(s) /\ MbufsIn(t) \subseteq MbufsIn(s)
         /\ InFrameOrder(s) => InFrameOrder(t) /\ Below({e.frame}, FramesIn(t))
         /\ Distinct(s) => Distinct(t) /\ e.mbuf \notin MbufsIn(t)
<1>1. /\ e \in Packets /\ e = s[1] /\ 1 \in 1 .. Len(s)
      /\ t \in Seq(Packets) /\ Len(t) = Len(s) - 1 /\ Len(t) + 1 <= Len(s) /\ 1 \in Nat
      /\ \A i \in 1 .. Len(t) : t[i] = s[i + 1]
  OBVIOUS
<1>2. /\ FramesIn(t) \subseteq FramesIn(s) /\ MbufsIn(t) \subseteq MbufsIn(s)
      /\ InFrameOrder(s) => InFrameOrder(t)
      /\ Distinct(s) => Distinct(t)
  BY <1>1, PacketPiece
<1>3. e.frame \in FramesIn(s) /\ e.mbuf \in MbufsIn(s)
  BY <1>1 DEF FramesIn, MbufsIn
<1>4. \A i \in 1 .. Len(t) : i + 1 \in 1 .. Len(s) /\ 1 < i + 1 /\ 1 # i + 1
  BY <1>1
<1>5. InFrameOrder(s) => Below({e.frame}, FramesIn(t))
  BY <1>1, <1>4 DEF InFrameOrder, Below, FramesIn
<1>6. Distinct(s) => e.mbuf \notin MbufsIn(t)
  BY <1>1, <1>4 DEF Distinct, MbufsIn
<1> QED BY <1>1, <1>2, <1>3, <1>5, <1>6

\* A packet is put at the end of a queue.
LEMMA PacketAppend ==
  ASSUME NEW s \in Seq(Packets), NEW e \in Packets, NEW t, t = Added(s, e)
  PROVE  /\ t \in Seq(Packets) /\ Len(t) = Len(s) + 1
         /\ FramesIn(t) = FramesIn(s) \union {e.frame}
         /\ MbufsIn(t) = MbufsIn(s) \union {e.mbuf}
         /\ InFrameOrder(s) /\ Below(FramesIn(s), {e.frame}) => InFrameOrder(t)
         /\ Distinct(s) /\ e.mbuf \notin MbufsIn(s) => Distinct(t)
<1>1. /\ t \in Seq(Packets) /\ Len(t) = Len(s) + 1
      /\ \A i \in 1 .. Len(s) : t[i] = s[i]
      /\ t[Len(s) + 1] = e /\ DOMAIN t = 1 .. Len(t)
  BY DEF Added
<1>2. \A i \in 1 .. Len(t) : i \in 1 .. Len(s) \/ i = Len(s) + 1
  BY <1>1
<1>3. \A i \in 1 .. Len(s) : i \in 1 .. Len(t) /\ i < Len(s) + 1
  BY <1>1
<1>4. Len(s) + 1 \in 1 .. Len(t)
  BY <1>1
<1>5. FramesIn(t) = FramesIn(s) \union {e.frame}
  BY <1>1, <1>2, <1>3, <1>4 DEF FramesIn
<1>6. MbufsIn(t) = MbufsIn(s) \union {e.mbuf}
  BY <1>1, <1>2, <1>3, <1>4 DEF MbufsIn
<1>7. InFrameOrder(s) /\ Below(FramesIn(s), {e.frame}) => InFrameOrder(t)
  <2> SUFFICES ASSUME InFrameOrder(s), Below(FramesIn(s), {e.frame}),
                      NEW i \in 1 .. Len(t), NEW j \in 1 .. Len(t), i < j
               PROVE  t[i].frame < t[j].frame
    BY <1>1 DEF InFrameOrder
  <2>1. i \in 1 .. Len(s)
    BY <1>1
  <2>2. s[i].frame \in FramesIn(s)
    BY <2>1 DEF FramesIn
  <2> QED BY <1>1, <1>2, <2>1, <2>2 DEF InFrameOrder, Below
<1>8. Distinct(s) /\ e.mbuf \notin MbufsIn(s) => Distinct(t)
  BY <1>1, <1>2 DEF Distinct, MbufsIn
<1> QED BY <1>1, <1>5, <1>6, <1>7, <1>8

\* The same for the rings of responses.
LEMMA ValueSplit ==
  ASSUME NEW S, NEW s \in Seq(S), NEW n \in Nat, n <= Len(s), NEW t, NEW u,
         t = FirstOf(s, n), u = Beyond(s, n), Increasing(s)
  PROVE  /\ t \in Seq(S) /\ Len(t) = n /\ u \in Seq(S) /\ Len(u) = Len(s) - n
         /\ ValuesIn(t) \subseteq ValuesIn(s) /\ ValuesIn(u) \subseteq ValuesIn(s)
         /\ Increasing(t) /\ Increasing(u) /\ Below(ValuesIn(t), ValuesIn(u))
<1>1. /\ t \in Seq(S) /\ Len(t) = n /\ DOMAIN t = 1 .. Len(t)
      /\ \A i \in 1 .. Len(t) : t[i] = s[i]
  BY DEF FirstOf
<1>2. /\ u \in Seq(S) /\ Len(u) = Len(s) - n /\ DOMAIN u = 1 .. Len(u)
      /\ \A i \in 1 .. Len(u) : u[i] = s[i + n]
  BY DEF Beyond
<1>3. \A i \in 1 .. Len(t) : i \in 1 .. Len(s)
  BY <1>1
<1>4. \A j \in 1 .. Len(u) : j + n \in 1 .. Len(s)
  <2> PICK l \in Nat : l = Len(s)
    OBVIOUS
  <2>1. Len(u) = l - n
    BY <1>2
  <2>2. \A j \in 1 .. l - n : j + n \in 1 .. l
    OBVIOUS
  <2>3. 1 .. Len(u) = 1 .. l - n /\ 1 .. Len(s) = 1 .. l
    BY <2>1
  <2> QED BY <2>2, <2>3
<1>5. ValuesIn(t) \subseteq ValuesIn(s) /\ ValuesIn(u) \subseteq ValuesIn(s)
  <2>1. \A i \in DOMAIN t : \E k \in DOMAIN s : t[i] = s[k]
    BY <1>1, <1>3
  <2>2. \A i \in DOMAIN u : \E k \in DOMAIN s : u[i] = s[k]
    BY <1>2, <1>4
  <2>3. \A k \in DOMAIN s : s[k] \in ValuesIn(s)
    BY DEF ValuesIn
  <2>4. \A x \in ValuesIn(t) : \E i \in DOMAIN t : x = t[i]
    BY DEF ValuesIn
  <2>5. \A x \in ValuesIn(u) : \E i \in DOMAIN u : x = u[i]
    BY DEF ValuesIn
  <2> HIDE DEF ValuesIn
  <2> QED BY <2>1, <2>2, <2>3, <2>4, <2>5
<1>6. Increasing(t)
  BY <1>1, <1>3 DEF Increasing
<1>7. Increasing(u)
  <2> SUFFICES ASSUME NEW i \in DOMAIN u, NEW j \in DOMAIN u, i < j
               PROVE  u[i] < u[j]
    BY Zenon DEF Increasing
  <2>1. i + n \in DOMAIN s /\ j + n \in DOMAIN s /\ i + n < j + n
    BY <1>4
  <2>2. s[i + n] < s[j + n]
    BY <2>1 DEF Increasing
  <2> QED BY <1>2, <2>2
<1>8. Below(ValuesIn(t), ValuesIn(u))
  <2> SUFFICES ASSUME NEW i \in DOMAIN t, NEW j \in DOMAIN u
               PROVE  t[i] < u[j]
    BY Zenon DEF Below, ValuesIn
  <2>1. i \in DOMAIN s /\ j + n \in DOMAIN s /\ i < j + n
    BY <1>1, <1>3, <1>4
  <2>2. s[i] < s[j + n]
    BY <2>1 DEF Increasing
  <2> QED BY <1>1, <1>2, <2>2
<1> QED BY <1>1, <1>2, <1>5, <1>6, <1>7, <1>8

\* A response is put at the end of a ring.
LEMMA ValueAppend ==
  ASSUME NEW S, NEW s \in Seq(S), NEW e \in S, NEW t, t = Added(s, e), Increasing(s),
         Below(ValuesIn(s), {e})
  PROVE  /\ t \in Seq(S) /\ Len(t) = Len(s) + 1
         /\ ValuesIn(t) = ValuesIn(s) \union {e}
         /\ Increasing(t)
<1>1. /\ t \in Seq(S) /\ Len(t) = Len(s) + 1
      /\ \A i \in 1 .. Len(s) : t[i] = s[i]
      /\ t[Len(s) + 1] = e /\ DOMAIN t = 1 .. Len(t)
  BY DEF Added
<1>2. \A i \in 1 .. Len(t) : i \in 1 .. Len(s) \/ i = Len(s) + 1
  BY <1>1
<1>3. \A i \in 1 .. Len(s) : i \in 1 .. Len(t)
  BY <1>1
<1>4. Len(s) + 1 \in 1 .. Len(t)
  BY <1>1
<1>5. ValuesIn(t) = ValuesIn(s) \union {e}
  BY <1>1, <1>2, <1>3, <1>4 DEF ValuesIn
<1>6. Increasing(t)
  <2> SUFFICES ASSUME NEW i \in DOMAIN t, NEW j \in DOMAIN t, i < j
               PROVE  t[i] < t[j]
    BY Zenon DEF Increasing
  <2>1. i \in 1 .. Len(s) /\ j \in 1 .. Len(t)
    BY <1>1
  <2>2. s[i] \in ValuesIn(s)
    BY <2>1 DEF ValuesIn
  <2> QED BY <1>1, <1>2, <2>1, <2>2 DEF Increasing, Below
<1> QED BY <1>1, <1>5, <1>6

\* What the rings of responses hold are numbers.
LEMMA NumberSplit ==
  ASSUME NEW s \in Seq(Nat), NEW n \in Nat, n <= Len(s), NEW t, NEW u,
         t = FirstOf(s, n), u = Beyond(s, n), Increasing(s)
  PROVE  /\ t \in Seq(Nat) /\ Len(t) = n /\ u \in Seq(Nat) /\ Len(u) = Len(s) - n
         /\ ValuesIn(t) \subseteq ValuesIn(s) /\ ValuesIn(u) \subseteq ValuesIn(s)
         /\ Increasing(t) /\ Increasing(u) /\ Below(ValuesIn(t), ValuesIn(u))
<1>1. PICK S : S = Nat
  OBVIOUS
<1>2. s \in Seq(S)
  BY <1>1
<1>3. /\ t \in Seq(S) /\ Len(t) = n /\ u \in Seq(S) /\ Len(u) = Len(s) - n
      /\ ValuesIn(t) \subseteq ValuesIn(s) /\ ValuesIn(u) \subseteq ValuesIn(s)
      /\ Increasing(t) /\ Increasing(u) /\ Below(ValuesIn(t), ValuesIn(u))
  BY <1>2, ValueSplit
<1> QED BY <1>1, <1>3

\* ... and stay so when one is put at the end.
LEMMA NumberAppend ==
  ASSUME NEW s \in Seq(Nat), NEW e \in Nat, NEW t, t = Added(s, e), Increasing(s),
         Below(ValuesIn(s), {e})
  PROVE  /\ t \in Seq(Nat) /\ Len(t) = Len(s) + 1
         /\ ValuesIn(t) = ValuesIn(s) \union {e}
         /\ Increasing(t)
<1>1. PICK S : S = Nat
  OBVIOUS
<1>2. s \in Seq(S) /\ e \in S
  BY <1>1
<1>3. /\ t \in Seq(S) /\ Len(t) = Len(s) + 1
      /\ ValuesIn(t) = ValuesIn(s) \union {e}
      /\ Increasing(t)
  BY <1>2, ValueAppend
<1> QED BY <1>1, <1>3

\* Frames are numbers and mbufs are mbufs.
LEMMA QueueTypes ==
  /\ \A s \in Seq(Packets) : FramesIn(s) \subseteq Nat /\ MbufsIn(s) \subseteq Mbufs
  /\ \A s \in Seq(Nat) : ValuesIn(s) \subseteq Nat
<1>1. ASSUME NEW s \in Seq(Packets)
      PROVE  FramesIn(s) \subseteq Nat /\ MbufsIn(s) \subseteq Mbufs
  <2>1. \A i \in DOMAIN s : s[i] \in Packets
    OBVIOUS
  <2>2. \A x \in Packets : x.frame \in Nat /\ x.mbuf \in Mbufs
    BY DEF Packets
  <2> QED BY <2>1, <2>2 DEF FramesIn, MbufsIn
<1>2. ASSUME NEW s \in Seq(Nat) PROVE ValuesIn(s) \subseteq Nat
  BY DEF ValuesIn
<1> QED BY <1>1, <1>2

-----------------------------------------------------------------------------
(* From the NIC to the worker *)

\* A step that touches none of the queues of received packets.
LEMMA FlowSame ==
  ASSUME FlowOK, UNCHANGED <<work_queue, read_buffers, nic_rx, arrived>>, Read' = Read
  PROVE  FlowOK'
BY DEF FlowOK

\* What FlowOK says of the numbers.
LEMMA FlowTypes ==
  ASSUME FlowOK
  PROVE  /\ Read \in Seq(Packets) /\ work_queue \in Seq(Packets)
         /\ read_buffers \in Seq(Packets) /\ nic_rx \in Seq(Packets)
         /\ FramesIn(Read) \subseteq Nat /\ FramesIn(work_queue) \subseteq Nat
         /\ FramesIn(read_buffers) \subseteq Nat /\ FramesIn(nic_rx) \subseteq Nat
         /\ arrived \in Nat /\ FrameBound \in Nat
<1>1. /\ Read \in Seq(Packets) /\ work_queue \in Seq(Packets)
      /\ read_buffers \in Seq(Packets) /\ nic_rx \in Seq(Packets)
  BY DEF FlowOK
<1>2. arrived \in Nat /\ FrameBound \in Nat
  BY PipelineAssumption DEF FlowOK
<1> QED BY <1>1, <1>2, QueueTypes

\* A frame arrives.
LEMMA FlowArrive == FlowOK /\ PlaceOK /\ Arrive => FlowOK'
<1> SUFFICES ASSUME FlowOK, PlaceOK, Arrive PROVE FlowOK'
  OBVIOUS
<1> USE FlowTypes
<1>1. PICK mbuf \in pool : nic_rx' = Append(nic_rx, Packet(mbuf, arrived + 1))
  BY DEF Arrive
<1>0. PICK next \in Nat : next = arrived + 1
  OBVIOUS
<1>2. PICK e \in Packets : nic_rx' = Added(nic_rx, e) /\ e.frame = arrived + 1
  <2>1. mbuf \in Mbufs
    BY DEF PlaceOK
  <2>2. Packet(mbuf, next) \in Packets /\ Packet(mbuf, next).frame = next
    BY <2>1 DEF Packet, Packets
  <2> QED BY <1>0, <1>1, <2>2 DEF Added
<1>3. /\ arrived' = arrived + 1 /\ arrived < FrameBound
      /\ UNCHANGED <<work_queue, read_buffers, worker, buffer>>
  BY DEF Arrive, mainVars, workerVars
<1>4. Read' = Read
  BY <1>3 DEF Read
<1>5. UpTo(FramesIn(nic_rx), arrived) /\ InFrameOrder(nic_rx)
  BY DEF FlowOK
<1>6. Below(FramesIn(nic_rx), {e.frame})
  BY <1>2, <1>5 DEF Below, UpTo
<1>7. /\ nic_rx' \in Seq(Packets) /\ InFrameOrder(nic_rx')
      /\ FramesIn(nic_rx') = FramesIn(nic_rx) \union {arrived + 1}
  BY <1>2, <1>5, <1>6, PacketAppend
<1>8. \A S : S \subseteq Nat /\ UpTo(S, arrived) =>
        UpTo(S, arrived') /\ Below(S, {arrived + 1})
  BY <1>3 DEF UpTo, Below
<1>9. \A S : Below(S, FramesIn(nic_rx)) /\ Below(S, {arrived + 1}) => Below(S, FramesIn(nic_rx'))
  BY <1>7 DEF Below
<1>10. UpTo(FramesIn(nic_rx'), arrived')
  BY <1>3, <1>5, <1>7, <1>8 DEF UpTo
<1>11. arrived' \in 0 .. FrameBound
  BY <1>3
<1> HIDE DEF Below, UpTo
<1> QED BY <1>3, <1>4, <1>7, <1>8, <1>9, <1>10, <1>11 DEF FlowOK

\* A burst is received.
LEMMA FlowRxBurst ==
  ASSUME NEW n \in 1 .. MaxBurst, FlowOK, PlaceOK, RxBurst(n)
  PROVE  FlowOK'
<1> USE FlowTypes
<1>1. /\ n \in Nat /\ n <= Len(nic_rx) /\ n <= MaxBurst /\ main = "rx"
      /\ read_buffers' = FirstOf(nic_rx, n) /\ nic_rx' = Beyond(nic_rx, n)
      /\ UNCHANGED <<work_queue, arrived, worker, buffer>>
  BY PipelineAssumption DEF RxBurst, workerVars, FirstOf, Beyond
<1>2. Read' = Read
  BY <1>1 DEF Read
<1>3. InFrameOrder(nic_rx)
  BY DEF FlowOK
<1>4. /\ read_buffers' \in Seq(Packets) /\ Len(read_buffers') = n
      /\ nic_rx' \in Seq(Packets)
      /\ FramesIn(read_buffers') \subseteq FramesIn(nic_rx)
      /\ FramesIn(nic_rx') \subseteq FramesIn(nic_rx)
      /\ InFrameOrder(read_buffers') /\ InFrameOrder(nic_rx')
      /\ Below(FramesIn(read_buffers'), FramesIn(nic_rx'))
  BY <1>1, <1>3, PacketSplit
<1>5. \A S, T, U : Below(S, T) /\ U \subseteq T => Below(S, U)
  BY DEF Below
<1>6. \A S, T, x : UpTo(S, x) /\ T \subseteq S => UpTo(T, x)
  BY DEF UpTo
<1> QED BY <1>1, <1>2, <1>4, <1>5, <1>6 DEF FlowOK

\* A received packet is handed to the worker, or dropped.
LEMMA FlowDistribute == FlowOK /\ Distribute => FlowOK'
<1> SUFFICES ASSUME FlowOK, Distribute PROVE FlowOK'
  OBVIOUS
<1> USE FlowTypes
<1>1. UNCHANGED <<nic_rx, arrived, worker, buffer>>
  BY DEF Distribute, nicVars, workerVars
<1>2. Read' = Read
  BY <1>1 DEF Read
<1>3. CASE read_buffers = <<>>
  <2>1. UNCHANGED <<read_buffers, work_queue>>
    BY <1>3 DEF Distribute
  <2> QED BY <1>1, <1>2, <2>1, FlowSame
<1>4. CASE read_buffers # <<>>
  <2>1. PICK e : e = Head(read_buffers)
    OBVIOUS
  <2>2. /\ read_buffers' = Tail(read_buffers)
        /\ \/ work_queue' = work_queue
           \/ work_queue' = Added(work_queue, e) /\ Len(work_queue) < WorkCapacity
    BY <1>4, <2>1 DEF Distribute, Added
  <2>3. /\ InFrameOrder(read_buffers) /\ InFrameOrder(work_queue)
        /\ Below(FramesIn(work_queue), FramesIn(read_buffers))
        /\ Len(read_buffers) <= MaxBurst /\ Len(work_queue) <= WorkCapacity
    BY DEF FlowOK
  <2>4. /\ e \in Packets /\ e.frame \in FramesIn(read_buffers)
        /\ read_buffers' \in Seq(Packets) /\ Len(read_buffers') = Len(read_buffers) - 1
        /\ FramesIn(read_buffers') \subseteq FramesIn(read_buffers)
        /\ InFrameOrder(read_buffers') /\ Below({e.frame}, FramesIn(read_buffers'))
    BY <1>4, <2>1, <2>2, <2>3, PacketTail
  <2>5. Len(read_buffers') <= MaxBurst
    BY <2>3, <2>4, PipelineAssumption
  <2>6. /\ work_queue' \in Seq(Packets) /\ InFrameOrder(work_queue')
        /\ FramesIn(work_queue') \subseteq FramesIn(work_queue) \union {e.frame}
        /\ Len(work_queue') <= WorkCapacity
    <3>1. CASE work_queue' = work_queue
      BY <2>3, <3>1
    <3>2. CASE work_queue' = Added(work_queue, e) /\ Len(work_queue) < WorkCapacity
      <4>1. Below(FramesIn(work_queue), {e.frame})
        BY <2>3, <2>4 DEF Below
      <4>2. /\ work_queue' \in Seq(Packets) /\ InFrameOrder(work_queue')
            /\ FramesIn(work_queue') = FramesIn(work_queue) \union {e.frame}
            /\ Len(work_queue') = Len(work_queue) + 1
        BY <2>3, <2>4, <3>2, <4>1, PacketAppend
      <4>3. Len(work_queue') <= WorkCapacity
        BY <3>2, <4>2, PipelineAssumption
      <4> QED BY <4>2, <4>3
    <3> QED BY <2>2, <3>1, <3>2
  <2>7. \A S, T, U : Below(S, T) /\ U \subseteq T => Below(S, U)
    BY DEF Below
  <2>8. \A S, T, x : UpTo(S, x) /\ T \subseteq S => UpTo(T, x)
    BY DEF UpTo
  <2>9. \A T : Below(FramesIn(work_queue), T) /\ Below({e.frame}, T)
               => Below(FramesIn(work_queue'), T)
    BY <2>6 DEF Below
  <2>10. /\ Below({e.frame}, FramesIn(nic_rx))
         /\ \A S : Below(S, FramesIn(work_queue)) /\ Below(S, FramesIn(read_buffers))
                   => Below(S, FramesIn(work_queue'))
    BY <2>4, <2>6 DEF FlowOK, Below
  <2>11. UpTo(FramesIn(work_queue'), arrived)
    BY <2>4, <2>6 DEF FlowOK, UpTo
  <2>12. /\ Below(FramesIn(Read'), FramesIn(work_queue'))
         /\ Below(FramesIn(Read'), FramesIn(read_buffers'))
         /\ Below(FramesIn(Read'), FramesIn(nic_rx'))
    BY <1>1, <1>2, <2>4, <2>7, <2>10 DEF FlowOK
  <2>13. /\ Below(FramesIn(work_queue'), FramesIn(read_buffers'))
         /\ Below(FramesIn(work_queue'), FramesIn(nic_rx'))
         /\ Below(FramesIn(read_buffers'), FramesIn(nic_rx'))
    <3>1. Below(FramesIn(work_queue), FramesIn(read_buffers'))
      BY <2>3, <2>4, <2>7
    <3>2. Below(FramesIn(work_queue), FramesIn(nic_rx))
      BY DEF FlowOK
    <3>3. Below(FramesIn(read_buffers'), FramesIn(nic_rx))
      BY <2>4 DEF FlowOK, Below
    <3> QED BY <1>1, <2>4, <2>9, <2>10, <3>1, <3>2, <3>3
  <2>14. /\ UpTo(FramesIn(Read'), arrived') /\ UpTo(FramesIn(work_queue'), arrived')
         /\ UpTo(FramesIn(read_buffers'), arrived') /\ UpTo(FramesIn(nic_rx'), arrived')
    BY <1>1, <1>2, <2>4, <2>8, <2>11 DEF FlowOK
  <2> QED BY <1>1, <1>2, <2>4, <2>5, <2>6, <2>12, <2>13, <2>14 DEF FlowOK
<1> QED BY <1>3, <1>4

\* The worker takes a packet from its ring.
LEMMA FlowDequeue == FlowOK /\ Dequeue => FlowOK'
<1> SUFFICES ASSUME FlowOK, Dequeue PROVE FlowOK'
  OBVIOUS
<1> USE FlowTypes
<1>1. PICK e : e = Head(work_queue)
  OBVIOUS
<1>2. /\ work_queue # <<>> /\ work_queue' = Tail(work_queue) /\ worker' = "reading"
      /\ buffer' = e /\ UNCHANGED <<read_buffers, nic_rx, arrived>>
  BY <1>1 DEF Dequeue, mainVars, nicVars
<1>3. InFrameOrder(work_queue) /\ Len(work_queue) <= WorkCapacity
  BY DEF FlowOK
<1>4. /\ e \in Packets /\ e.frame \in FramesIn(work_queue)
      /\ work_queue' \in Seq(Packets) /\ Len(work_queue') = Len(work_queue) - 1
      /\ FramesIn(work_queue') \subseteq FramesIn(work_queue)
      /\ InFrameOrder(work_queue') /\ Below({e.frame}, FramesIn(work_queue'))
  BY <1>1, <1>2, <1>3, PacketTail
<1>5. Read' = <<e>>
  BY <1>2 DEF Read
<1>6. Read' \in Seq(Packets) /\ FramesIn(Read') = {e.frame}
  BY <1>4, <1>5, SmallQueues
<1>7. Len(work_queue') <= WorkCapacity
  BY <1>3, <1>4, PipelineAssumption
<1>8. \A T : Below(FramesIn(work_queue), T)
             => Below(FramesIn(work_queue'), T) /\ Below({e.frame}, T)
  BY <1>4 DEF Below
<1>9. UpTo(FramesIn(work_queue'), arrived) /\ UpTo({e.frame}, arrived)
  BY <1>4 DEF UpTo, FlowOK
<1>10. FramesIn(Read)' = FramesIn(Read')
  BY DEF FramesIn
<1> QED BY <1>2, <1>4, <1>6, <1>7, <1>8, <1>9, <1>10 DEF FlowOK

\* The worker is done with its packet.
LEMMA FlowFree == FlowOK /\ FreePacket => FlowOK'
<1> SUFFICES ASSUME FlowOK, FreePacket PROVE FlowOK'
  OBVIOUS
<1>1. worker' = "idle" /\ UNCHANGED <<work_queue, read_buffers, nic_rx, arrived>>
  BY DEF FreePacket, mainVars, nicVars
<1>2. Read' = <<>>
  BY <1>1 DEF Read
<1>3. FramesIn(Read') = {} /\ Read' \in Seq(Packets)
  BY <1>2, SmallQueues
<1>4. \A T, x : Below({}, T) /\ UpTo({}, x)
  BY DEF Below, UpTo
<1> QED BY <1>1, <1>3, <1>4 DEF FlowOK

-----------------------------------------------------------------------------
(* From the handlers to the NIC *)

\* Packets are put at the end of the transmit queue.
LEMMA PacketConcat ==
  ASSUME NEW s \in Seq(Packets), NEW t \in Seq(Packets)
  PROVE  /\ s \o t \in Seq(Packets) /\ Len(s \o t) = Len(s) + Len(t)
         /\ FramesIn(s \o t) \subseteq FramesIn(s) \union FramesIn(t)
         /\ MbufsIn(s \o t) \subseteq MbufsIn(s) \union MbufsIn(t)
         /\ InFrameOrder(s) /\ InFrameOrder(t) /\ Below(FramesIn(s), FramesIn(t))
              => InFrameOrder(s \o t)
         /\ Distinct(s) /\ Distinct(t) /\ Apart(MbufsIn(s), MbufsIn(t))
              => Distinct(s \o t)
<1>1. PICK u \in Seq(Packets) :
        /\ u = s \o t /\ Len(u) = Len(s) + Len(t) /\ DOMAIN u = 1 .. Len(u)
        /\ \A i \in 1 .. Len(s) : u[i] = s[i]
        /\ \A i \in 1 .. Len(u) : i > Len(s) => i - Len(s) \in 1 .. Len(t) /\ u[i] = t[i - Len(s)]
  <2>1. s \o t \in Seq(Packets) /\ Len(s \o t) = Len(s) + Len(t)
        /\ \A i \in 1 .. Len(s) + Len(t) :
             (s \o t)[i] = IF i <= Len(s) THEN s[i] ELSE t[i - Len(s)]
    OBVIOUS
  <2>2. \A i \in 1 .. Len(s) + Len(t) : i > Len(s) => i - Len(s) \in 1 .. Len(t)
    OBVIOUS
  <2>3. \A i \in 1 .. Len(s) : i \in 1 .. Len(s) + Len(t) /\ i <= Len(s)
    OBVIOUS
  <2>4. DOMAIN (s \o t) = 1 .. Len(s) + Len(t)
    OBVIOUS
  <2>5. \A i \in 1 .. Len(s) + Len(t) : i > Len(s) => ~ (i <= Len(s))
    OBVIOUS
  <2> QED BY <2>1, <2>2, <2>3, <2>4, <2>5
<1>2. /\ \A i \in 1 .. Len(s) : s[i].frame \in FramesIn(s) /\ s[i].mbuf \in MbufsIn(s)
      /\ \A i \in 1 .. Len(t) : t[i].frame \in FramesIn(t) /\ t[i].mbuf \in MbufsIn(t)
  BY DEF FramesIn, MbufsIn
<1>3. \A i \in 1 .. Len(u) : i \in 1 .. Len(s) \/ i > Len(s)
  OBVIOUS
<1>4. \A i \in DOMAIN u : /\ u[i].frame \in FramesIn(s) \union FramesIn(t)
                          /\ u[i].mbuf \in MbufsIn(s) \union MbufsIn(t)
  BY <1>1, <1>2, <1>3
<1>5. /\ FramesIn(u) \subseteq FramesIn(s) \union FramesIn(t)
      /\ MbufsIn(u) \subseteq MbufsIn(s) \union MbufsIn(t)
  BY <1>4 DEF FramesIn, MbufsIn
<1>6. InFrameOrder(s) /\ InFrameOrder(t) /\ Below(FramesIn(s), FramesIn(t))
        => InFrameOrder(u)
  <2> SUFFICES ASSUME InFrameOrder(s), InFrameOrder(t), Below(FramesIn(s), FramesIn(t)),
                      NEW i \in DOMAIN u, NEW j \in DOMAIN u, i < j
               PROVE  u[i].frame < u[j].frame
    BY Zenon DEF InFrameOrder
  <2>0. i \in 1 .. Len(u) /\ j \in 1 .. Len(u)
    BY <1>1
  <2>1. CASE j \in 1 .. Len(s)
    <3>1. i \in 1 .. Len(s)
      BY <2>0, <2>1
    <3> QED BY <1>1, <2>1, <3>1 DEF InFrameOrder
  <2>2. CASE i \in 1 .. Len(s) /\ j > Len(s)
    BY <1>1, <1>2, <2>0, <2>2 DEF Below
  <2>3. CASE i > Len(s)
    <3>1. /\ i - Len(s) \in 1 .. Len(t) /\ u[i] = t[i - Len(s)]
          /\ j - Len(s) \in 1 .. Len(t) /\ u[j] = t[j - Len(s)]
      BY <1>1, <2>0, <2>3
    <3>2. i - Len(s) < j - Len(s)
      BY <2>0
    <3> QED BY <3>1, <3>2 DEF InFrameOrder
  <2> QED BY <1>3, <2>0, <2>1, <2>2, <2>3
<1>7. Distinct(s) /\ Distinct(t) /\ Apart(MbufsIn(s), MbufsIn(t)) => Distinct(u)
  <2> SUFFICES ASSUME Distinct(s), Distinct(t), Apart(MbufsIn(s), MbufsIn(t)),
                      NEW i \in DOMAIN u, NEW j \in DOMAIN u, i # j
               PROVE  u[i].mbuf # u[j].mbuf
    BY Zenon DEF Distinct
  <2>0. i \in 1 .. Len(u) /\ j \in 1 .. Len(u)
    BY <1>1
  <2>1. CASE i \in 1 .. Len(s) /\ j \in 1 .. Len(s)
    BY <1>1, <2>1 DEF Distinct
  <2>2. CASE i \in 1 .. Len(s) /\ j > Len(s)
    BY <1>1, <1>2, <2>0, <2>2 DEF Apart
  <2>3. CASE i > Len(s) /\ j \in 1 .. Len(s)
    BY <1>1, <1>2, <2>0, <2>3 DEF Apart
  <2>4. CASE i > Len(s) /\ j > Len(s)
    <3>1. /\ i - Len(s) \in 1 .. Len(t) /\ u[i] = t[i - Len(s)]
          /\ j - Len(s) \in 1 .. Len(t) /\ u[j] = t[j - Len(s)]
      BY <1>1, <2>0, <2>4
    <3>2. i - Len(s) # j - Len(s)
      BY <2>0
    <3> QED BY <3>1, <3>2 DEF Distinct
  <2> QED BY <1>3, <2>0, <2>1, <2>2, <2>3, <2>4
<1> QED BY <1>1, <1>5, <1>6, <1>7

\* What SendOK says of the numbers.
LEMMA SendTypes ==
  ASSUME SendOK
  PROVE  /\ wire \in Seq(Nat) /\ nic_tx \in Seq(Packets) /\ out_buffers \in Seq(Nat)
         /\ Responses \in Seq(Nat)
         /\ ValuesIn(wire) \subseteq Nat /\ FramesIn(nic_tx) \subseteq Nat
         /\ ValuesIn(out_buffers) \subseteq Nat /\ ValuesIn(Responses) \subseteq Nat
<1>1. /\ wire \in Seq(Nat) /\ nic_tx \in Seq(Packets) /\ out_buffers \in Seq(Nat)
      /\ Responses \in Seq(Nat)
  BY DEF SendOK
<1> QED BY <1>1, QueueTypes

\* A step that touches none of the queues of responses.
LEMMA SendSame ==
  ASSUME SendOK, UNCHANGED <<wire, nic_tx, out_buffers, written>>, Responses' = Responses
  PROVE  SendOK'
BY DEF SendOK

\* A packet has left.
LEMMA SendTxDone == SendOK /\ TxDone => SendOK'
<1> SUFFICES ASSUME SendOK, TxDone PROVE SendOK'
  OBVIOUS
<1> USE SendTypes
<1>1. PICK e : e = Head(nic_tx)
  OBVIOUS
<1>2. /\ nic_tx # <<>> /\ nic_tx' = Tail(nic_tx) /\ wire' = Added(wire, e.frame)
      /\ UNCHANGED <<out_buffers, written, write_queue>>
  BY <1>1 DEF TxDone, mainVars, workerVars, Added
<1>3. Responses' = Responses
  BY <1>2 DEF Responses
<1>4. /\ InFrameOrder(nic_tx) /\ Increasing(wire) /\ Below(ValuesIn(wire), FramesIn(nic_tx))
      /\ Len(nic_tx) <= TxRoom
  BY DEF SendOK
<1>5. /\ e \in Packets /\ e.frame \in FramesIn(nic_tx)
      /\ nic_tx' \in Seq(Packets) /\ Len(nic_tx') = Len(nic_tx) - 1
      /\ FramesIn(nic_tx') \subseteq FramesIn(nic_tx)
      /\ InFrameOrder(nic_tx') /\ Below({e.frame}, FramesIn(nic_tx'))
  BY <1>1, <1>2, <1>4, PacketTail
<1>6. Below(ValuesIn(wire), {e.frame})
  BY <1>4, <1>5 DEF Below
<1>7. /\ wire' \in Seq(Nat) /\ ValuesIn(wire') = ValuesIn(wire) \union {e.frame}
      /\ Increasing(wire')
  BY <1>2, <1>4, <1>5, <1>6, NumberAppend
<1>8. Len(nic_tx') <= TxRoom
  BY <1>4, <1>5, PipelineAssumption
<1>9. \A T : Below(FramesIn(nic_tx), T) => Below(FramesIn(nic_tx'), T) /\ Below({e.frame}, T)
  BY <1>5 DEF Below
<1>10. \A T : Below(ValuesIn(wire), T) /\ Below({e.frame}, T) => Below(ValuesIn(wire'), T)
  BY <1>7 DEF Below
<1>11. Below(ValuesIn(wire), FramesIn(nic_tx'))
  BY <1>4, <1>5 DEF Below
<1>12. UpTo(ValuesIn(wire'), written) /\ UpTo(FramesIn(nic_tx'), written)
  BY <1>5, <1>7 DEF UpTo, SendOK
<1>13. /\ Below(ValuesIn(wire'), FramesIn(nic_tx'))
       /\ Below(ValuesIn(wire'), ValuesIn(out_buffers))
       /\ Below(ValuesIn(wire'), ValuesIn(Responses))
  BY <1>5, <1>9, <1>10, <1>11 DEF SendOK
<1>14. /\ Below(FramesIn(nic_tx'), ValuesIn(out_buffers))
       /\ Below(FramesIn(nic_tx'), ValuesIn(Responses))
  BY <1>9 DEF SendOK
<1> QED BY <1>2, <1>3, <1>5, <1>7, <1>8, <1>12, <1>13, <1>14 DEF SendOK

\* Two responses are taken from the ring, or none.
LEMMA SendDequeue == SendOK /\ PlaceOK /\ RingInv /\ DequeueWrites => SendOK'
<1> SUFFICES ASSUME SendOK, PlaceOK, RingInv, DequeueWrites PROVE SendOK'
  OBVIOUS
<1> USE SendTypes
<1>1. main = "dequeue" /\ UNCHANGED <<wire, nic_tx, written>>
  BY DEF DequeueWrites, nicVars, workerVars
<1>2. write_queue \in Seq(Nat) /\ write_queue # Null
  BY <1>1, PipelineAssumption DEF RingInv, After
<1>3. Responses = write_queue
  BY <1>2 DEF Responses
<1>4. PICK n \in Nat :
        /\ n \in {0, 2} /\ n <= Len(write_queue)
        /\ out_buffers' = FirstOf(write_queue, n) /\ write_queue' = Beyond(write_queue, n)
  <2> DEFINE n == IF Len(write_queue) >= 2 THEN 2 ELSE 0
  <2>1. n \in Nat /\ n \in {0, 2} /\ n <= Len(write_queue)
    BY <1>2
  <2>2. /\ out_buffers' = SubSeq(write_queue, 1, n)
        /\ write_queue' = SubSeq(write_queue, n + 1, Len(write_queue))
    BY DEF DequeueWrites
  <2> HIDE DEF n
  <2> QED BY <2>1, <2>2 DEF FirstOf, Beyond
<1>5. /\ Increasing(write_queue) /\ Len(write_queue) <= WriteCapacity
  BY <1>3 DEF SendOK
<1>6. /\ out_buffers' \in Seq(Nat) /\ Len(out_buffers') = n
      /\ write_queue' \in Seq(Nat) /\ Len(write_queue') = Len(write_queue) - n
      /\ ValuesIn(out_buffers') \subseteq ValuesIn(write_queue)
      /\ ValuesIn(write_queue') \subseteq ValuesIn(write_queue)
      /\ Increasing(out_buffers') /\ Increasing(write_queue')
      /\ Below(ValuesIn(out_buffers'), ValuesIn(write_queue'))
  BY <1>2, <1>4, <1>5, NumberSplit
<1>7. Responses' = write_queue'
  <2>1. write_queue' # Null
    BY <1>6, PipelineAssumption
  <2> QED BY <2>1 DEF Responses
<1>8. Len(Responses') <= WriteCapacity /\ Len(out_buffers') \in {0, 2}
  BY <1>4, <1>5, <1>6, <1>7, PipelineAssumption
<1>9. \A S, T, U : Below(S, T) /\ U \subseteq T => Below(S, U)
  BY DEF Below
<1>10. UpTo(ValuesIn(out_buffers'), written) /\ UpTo(ValuesIn(Responses'), written)
  BY <1>3, <1>6, <1>7 DEF UpTo, SendOK
<1>11. /\ Below(ValuesIn(wire), ValuesIn(out_buffers'))
       /\ Below(ValuesIn(wire), ValuesIn(Responses'))
       /\ Below(FramesIn(nic_tx), ValuesIn(out_buffers'))
       /\ Below(FramesIn(nic_tx), ValuesIn(Responses'))
  BY <1>3, <1>6, <1>7, <1>9 DEF SendOK
<1> QED BY <1>1, <1>6, <1>7, <1>8, <1>10, <1>11 DEF SendOK

\* A handler writes a response: it is queued, or dropped.
LEMMA SendWrite == SendOK /\ RingInv /\ Write => SendOK'
<1> SUFFICES ASSUME SendOK, RingInv, Write PROVE SendOK'
  OBVIOUS
<1> USE SendTypes
<1>1. UNCHANGED <<wire, nic_tx, out_buffers, main>> /\ worker = "reading"
  BY DEF Write, nicVars, mainVars
<1>2. write_queue \in Seq(Nat) /\ write_queue # Null
  BY <1>1, PipelineAssumption DEF RingInv, Before, After
<1>3. Responses = write_queue
  BY <1>2 DEF Responses
<1>4. PICK e \in Nat : e = written + 1 /\ written' = e /\ written \in Nat
  BY DEF Write, RingInv
<1>5. /\ Increasing(write_queue) /\ Len(write_queue) <= WriteCapacity
      /\ UpTo(ValuesIn(write_queue), written)
  BY <1>3 DEF SendOK
<1>6. \A S : S \subseteq Nat /\ UpTo(S, written) => UpTo(S, written') /\ Below(S, {e})
  BY <1>4 DEF UpTo, Below
<1>7. /\ write_queue' \in Seq(Nat) /\ Increasing(write_queue')
      /\ ValuesIn(write_queue') \subseteq ValuesIn(write_queue) \union {e}
      /\ Len(write_queue') <= WriteCapacity
  <2>1. CASE Len(write_queue) < WriteCapacity
    <3>1. write_queue' = Added(write_queue, e)
      BY <1>2, <1>4, <2>1 DEF Write, Added
    <3>2. Below(ValuesIn(write_queue), {e})
      BY <1>3, <1>5, <1>6
    <3>3. /\ write_queue' \in Seq(Nat) /\ Increasing(write_queue')
          /\ ValuesIn(write_queue') = ValuesIn(write_queue) \union {e}
          /\ Len(write_queue') = Len(write_queue) + 1
      BY <1>2, <1>5, <3>1, <3>2, NumberAppend
    <3>4. Len(write_queue') <= WriteCapacity
      BY <1>2, <2>1, <3>3, PipelineAssumption
    <3> QED BY <3>3, <3>4
  <2>2. CASE ~ (Len(write_queue) < WriteCapacity)
    <3>1. write_queue' = write_queue
      BY <1>2, <2>2 DEF Write
    <3> QED BY <1>2, <1>5, <3>1
  <2> QED BY <2>1, <2>2
<1>8. Responses' = write_queue'
  <2>1. write_queue' # Null
    BY <1>7, PipelineAssumption
  <2> QED BY <2>1 DEF Responses
<1>9. \A S : Below(S, ValuesIn(write_queue)) /\ Below(S, {e}) => Below(S, ValuesIn(write_queue'))
  BY <1>7 DEF Below
<1>10. UpTo(ValuesIn(write_queue'), written')
  <2>1. UpTo(ValuesIn(write_queue), written')
    BY <1>3, <1>5, <1>6
  <2> QED BY <1>4, <1>7, <2>1 DEF UpTo
<1>11. /\ Below(ValuesIn(wire), ValuesIn(write_queue'))
       /\ Below(FramesIn(nic_tx), ValuesIn(write_queue'))
       /\ Below(ValuesIn(out_buffers), ValuesIn(write_queue'))
       /\ UpTo(ValuesIn(wire), written') /\ UpTo(FramesIn(nic_tx), written')
       /\ UpTo(ValuesIn(out_buffers), written')
  BY <1>3, <1>6, <1>9 DEF SendOK
<1> QED BY <1>1, <1>7, <1>8, <1>10, <1>11 DEF SendOK

\* what Transmit(n) puts into the transmit queue
Outgoing(n) == [i \in 1 .. n |-> Packet(write_buffers[i], out_buffers[i])]

LEMMA SeqIsFunction ==
  ASSUME NEW S, NEW s \in Seq(S)
  PROVE  s \in [1 .. Len(s) -> S]
OBVIOUS

\* The two elements of a burst.
LEMMA TwoElements ==
  ASSUME NEW S, NEW s \in Seq(S), Len(s) = 2
  PROVE  DOMAIN s = 1 .. 2 /\ \A i \in 1 .. 2 : s[i] \in S
<1>1. s \in [1 .. Len(s) -> S]
  BY SeqIsFunction, Zenon
<1>2. s \in [1 .. 2 -> S]
  BY <1>1, Zenon
<1> QED BY <1>2

\* The packets that are put into the transmit queue carry the responses.
LEMMA OutgoingPackets ==
  ASSUME NEW n \in 0 .. 2, SendOK, PlaceOK, RingInv, Transmit(n), out_buffers # <<>>
  PROVE  /\ Outgoing(n) \in Seq(Packets) /\ Len(Outgoing(n)) = n
         /\ InFrameOrder(Outgoing(n))
         /\ FramesIn(Outgoing(n)) \subseteq ValuesIn(out_buffers)
         /\ MbufsIn(Outgoing(n)) \subseteq ValuesIn(write_buffers)
         /\ DistinctValues(write_buffers) => Distinct(Outgoing(n))
         /\ nic_tx' = nic_tx \o Outgoing(n) /\ Len(nic_tx) + n <= TxRoom
<1>1. /\ nic_tx' = nic_tx \o Outgoing(n) /\ Len(nic_tx) + n <= TxRoom
      /\ Alive /\ main = "transmit"
  BY DEF Transmit, Outgoing
<1>2. write_buffers \in Seq(Mbufs) /\ Len(write_buffers) = 2
  BY <1>1 DEF PlaceOK
<1>3. out_buffers \in Seq(Nat) /\ Len(out_buffers) = 2 /\ Increasing(out_buffers)
  BY DEF SendOK
<1>4. /\ DOMAIN write_buffers = 1 .. 2 /\ DOMAIN out_buffers = 1 .. 2
      /\ \A i \in 1 .. n : i \in 1 .. 2
      /\ \A i \in 1 .. n : write_buffers[i] \in Mbufs /\ out_buffers[i] \in Nat
  <2>1. DOMAIN write_buffers = 1 .. 2 /\ \A i \in 1 .. 2 : write_buffers[i] \in Mbufs
    BY <1>2, TwoElements
  <2>2. DOMAIN out_buffers = 1 .. 2 /\ \A i \in 1 .. 2 : out_buffers[i] \in Nat
    BY <1>3, TwoElements
  <2>3. \A i \in 1 .. n : i \in 1 .. 2
    OBVIOUS
  <2> QED BY <2>1, <2>2, <2>3
<1>5. PICK u : u = Outgoing(n)
  OBVIOUS
<1>6. /\ DOMAIN u = 1 .. n
      /\ \A i \in 1 .. n : /\ u[i] \in Packets
                           /\ u[i].mbuf = write_buffers[i] /\ u[i].frame = out_buffers[i]
  BY <1>4, <1>5 DEF Outgoing, Packet, Packets
<1>7. u \in Seq(Packets) /\ Len(u) = n
  <2>1. u \in [1 .. n -> Packets]
    BY <1>5, <1>6 DEF Outgoing
  <2> QED BY <2>1
<1>8. InFrameOrder(u)
  <2> SUFFICES ASSUME NEW i \in DOMAIN u, NEW j \in DOMAIN u, i < j
               PROVE  u[i].frame < u[j].frame
    BY Zenon DEF InFrameOrder
  <2>1. out_buffers[i] < out_buffers[j]
    BY <1>3, <1>4, <1>6 DEF Increasing
  <2> QED BY <1>6, <2>1
<1>9. FramesIn(u) \subseteq ValuesIn(out_buffers)
  BY <1>4, <1>6 DEF FramesIn, ValuesIn
<1>10. MbufsIn(u) \subseteq ValuesIn(write_buffers)
  BY <1>4, <1>6 DEF MbufsIn, ValuesIn
<1>11. DistinctValues(write_buffers) => Distinct(u)
  BY <1>4, <1>6 DEF DistinctValues, Distinct
<1> QED BY <1>1, <1>5, <1>7, <1>8, <1>9, <1>10, <1>11

\* The NIC takes what fits its transmit queue.
LEMMA SendTransmit ==
  ASSUME NEW n \in 0 .. 2, SendOK, PlaceOK, RingInv, Transmit(n)
  PROVE  SendOK'
<1> USE SendTypes
<1>1. out_buffers' = <<>> /\ UNCHANGED <<wire, written, write_queue>>
  BY DEF Transmit, workerVars
<1>2. Responses' = Responses
  BY <1>1 DEF Responses
<1>3. CASE out_buffers = <<>>
  <2>1. nic_tx' = nic_tx
    BY <1>3 DEF Transmit
  <2> QED BY <1>1, <1>2, <1>3, <2>1, SendSame
<1>4. CASE out_buffers # <<>>
  <2>1. PICK u \in Seq(Packets) :
          /\ Len(u) = n /\ InFrameOrder(u) /\ FramesIn(u) \subseteq ValuesIn(out_buffers)
          /\ nic_tx' = nic_tx \o u /\ Len(nic_tx) + n <= TxRoom
    BY <1>4, OutgoingPackets
  <2>2. InFrameOrder(nic_tx) /\ Below(FramesIn(nic_tx), ValuesIn(out_buffers))
    BY DEF SendOK
  <2>3. Below(FramesIn(nic_tx), FramesIn(u))
    BY <2>1, <2>2 DEF Below
  <2>4. /\ nic_tx' \in Seq(Packets) /\ Len(nic_tx') = Len(nic_tx) + n
        /\ FramesIn(nic_tx') \subseteq FramesIn(nic_tx) \union FramesIn(u)
        /\ InFrameOrder(nic_tx')
    BY <2>1, <2>2, <2>3, PacketConcat
  <2>5. FramesIn(nic_tx') \subseteq FramesIn(nic_tx) \union ValuesIn(out_buffers)
    BY <2>1, <2>4
  <2>6. Len(nic_tx') <= TxRoom
    BY <2>1, <2>4
  <2>7. ValuesIn(out_buffers') = {} /\ Increasing(out_buffers') /\ out_buffers' \in Seq(Nat)
        /\ Len(out_buffers') = 0
    BY <1>1, SmallQueues
  <2>8. \A S : Below(S, {}) /\ Below({}, S) /\ UpTo({}, written')
    BY DEF Below, UpTo
  <2>9. /\ Below(ValuesIn(wire), FramesIn(nic_tx'))
        /\ Below(FramesIn(nic_tx'), ValuesIn(Responses))
    BY <2>5 DEF SendOK, Below
  <2>10. UpTo(FramesIn(nic_tx'), written)
    BY <2>5 DEF SendOK, UpTo
  <2> QED BY <1>1, <1>2, <2>4, <2>6, <2>7, <2>8, <2>9, <2>10 DEF SendOK
<1> QED BY <1>3, <1>4

-----------------------------------------------------------------------------
(* The places of the two lcores, and start-up *)

\* main: what its place says of its locals.
LEMMA OffloaderKeepsPlace == PlaceOK /\ RingInv /\ FlowOK /\ Offloader => PlaceOK'
<1> SUFFICES ASSUME PlaceOK, RingInv, FlowOK, Offloader PROVE PlaceOK'
  OBVIOUS
<1>1. ASSUME NEW lcore \in WorkerLcores, StartWorker(lcore) PROVE PlaceOK'
  <2>1. /\ main = "start" /\ main' = "ring" /\ worker' \in {"none", "idle"}
        /\ UNCHANGED <<read_buffers, out_buffers, write_buffers, write_queue, buffer, writes,
                       pool, fault>>
    BY <1>1 DEF StartWorker
  <2>2. worker # "reading" /\ write_queue = Null
    BY <2>1 DEF RingInv, PlaceOK, Before
  <2> QED BY <2>1, <2>2 DEF PlaceOK, Alive
<1>2. CASE CreateWriteQueue
  BY <1>2 DEF CreateWriteQueue, PlaceOK, Alive, workerVars, Before, BootPlaces
<1>3. CASE NoWriteQueue
  BY <1>3 DEF NoWriteQueue, PlaceOK, Alive, workerVars, Before, BootPlaces
<1>4. ASSUME NEW n \in 1 .. MaxBurst, RxBurst(n) PROVE PlaceOK'
  BY <1>4 DEF RxBurst, PlaceOK, Alive, workerVars, Before, BootPlaces
<1>5. CASE Distribute
  <2>1. /\ main = "distribute" /\ (main' = "dequeue" => read_buffers' = <<>>)
        /\ main' \in {"distribute", "dequeue"} /\ fault' \in {fault, "wild_pointer"}
    BY <1>5 DEF Distribute
  <2> QED BY <1>5, <2>1 DEF Distribute, PlaceOK, Alive, workerVars, Before, BootPlaces
<1>6. CASE DequeueWrites
  <2>1. main = "dequeue" /\ main' = "alloc"
        /\ UNCHANGED <<read_buffers, write_buffers, worker, buffer, writes, pool, fault>>
    BY <1>6 DEF DequeueWrites, workerVars
  <2> QED BY <2>1 DEF PlaceOK, Alive, Before, BootPlaces
<1>7. CASE AllocWriteBuffers
  <2>1. /\ main = "alloc" /\ main' = "transmit" /\ pool \subseteq Mbufs
        /\ UNCHANGED <<read_buffers, out_buffers, write_queue, worker, buffer, writes>>
        /\ fault' = IF out_buffers # <<>> /\ write_buffers' = <<>>
                    THEN "wild_pointer" ELSE fault
    BY <1>7 DEF AllocWriteBuffers, workerVars, PlaceOK
  <2>2. /\ pool' \subseteq Mbufs
        /\ Len(write_buffers') \in {0, 2} /\ write_buffers' \in Seq(Mbufs)
    <3>1. CASE Cardinality(pool) >= 2
      <4>1. PICK first \in pool, second \in pool :
              write_buffers' = <<first, second>> /\ pool' = pool \ {first, second}
        BY <1>7, <3>1 DEF AllocWriteBuffers
      <4> QED BY <2>1, <4>1
    <3>2. CASE ~ (Cardinality(pool) >= 2)
      BY <1>7, <3>2 DEF AllocWriteBuffers, PlaceOK
    <3> QED BY <3>1, <3>2
  <2> QED BY <2>1, <2>2 DEF PlaceOK, Alive, Before, BootPlaces
<1>8. ASSUME NEW n \in 0 .. 2, Transmit(n) PROVE PlaceOK'
  BY <1>8 DEF Transmit, PlaceOK, Alive, workerVars, Before, BootPlaces
<1>9. CASE LeaveLoop
  BY <1>9 DEF LeaveLoop, PlaceOK, Alive, workerVars, Before, BootPlaces
<1> QED BY <1>1, <1>2, <1>3, <1>4, <1>5, <1>6, <1>7, <1>8, <1>9 DEF Offloader

\* The worker and the NIC.
LEMMA OthersKeepPlace ==
  PlaceOK /\ RingInv /\ FlowOK /\ SendOK /\ (Arrive \/ TxDone \/ Dequeue \/ Write \/ FreePacket)
    => PlaceOK'
<1> SUFFICES ASSUME PlaceOK, RingInv, FlowOK, SendOK,
                    Arrive \/ TxDone \/ Dequeue \/ Write \/ FreePacket
             PROVE  PlaceOK'
  OBVIOUS
<1>0. WriteBound \in Nat
  BY PipelineAssumption
<1>1. CASE Arrive
  BY <1>1 DEF Arrive, PlaceOK, Alive, mainVars, workerVars
<1>2. CASE TxDone
  <2>1. Head(nic_tx).mbuf \in Mbufs
    <3>1. Head(nic_tx) \in Packets
      BY <1>2, SendTypes, PacketTail DEF TxDone
    <3> QED BY <3>1 DEF Packets
  <2> QED BY <1>2, <2>1 DEF TxDone, PlaceOK, Alive, mainVars, workerVars
<1>3. CASE Dequeue
  <2>1. 0 \in 0 .. WriteBound
    BY <1>0
  <2> QED BY <1>3, <2>1 DEF Dequeue, PlaceOK, Alive, mainVars
<1>4. CASE Write
  <2>1. main \notin Before /\ writes' \in 0 .. WriteBound
    BY <1>0, <1>4 DEF Write, RingInv, PlaceOK
  <2>2. fault' \in {fault, "null_ring"}
        /\ UNCHANGED <<main, read_buffers, out_buffers, write_buffers, worker, buffer, pool>>
    BY <1>4 DEF Write, mainVars
  <2> QED BY <2>1, <2>2 DEF PlaceOK, Alive
<1>5. CASE FreePacket
  <2>1. buffer.mbuf \in Mbufs
    <3>1. Read = <<buffer>> /\ Read \in Seq(Packets)
      BY <1>5, FlowTypes DEF FreePacket, Read
    <3>2. buffer \in Packets
      BY <3>1
    <3> QED BY <3>2 DEF Packets
  <2> QED BY <1>5, <2>1 DEF FreePacket, PlaceOK, Alive, mainVars
<1> QED BY <1>1, <1>2, <1>3, <1>4, <1>5

\* Start-up keeps its own types.
LEMMA BootKeepsTypes == BootOK /\ LinkInv /\ Boot => BootOK'
<1> SUFFICES ASSUME BootOK, LinkInv, Boot PROVE BootOK'
  OBVIOUS
<1> USE StartupAssumption DEF BootOK, bootVars, checkVars
<1>1. CASE InitEal
  BY <1>1 DEF InitEal
<1>2. CASE Exit \/ PortsDone \/ NetStackInit
  BY <1>2 DEF Exit, PortsDone, NetStackInit
<1>3. CASE InitPort
  <2>1. Min(devices \ started) \in devices \ started
    BY <1>3, MinIsMember DEF InitPort, LinkInv
  <2>2. main = "ports" /\ UNCHANGED <<devices, force_quit, count>>
        /\ started' = started \union {Min(devices \ started)}
        /\ main' \in {"ports", "exit"}
    BY <1>3 DEF InitPort
  <2>3. interface' \in {NoPort, 0}
    BY <1>3 DEF InitPort
  <2> QED BY <2>1, <2>2, <2>3
<1>4. CASE LinkRound
  <2>1. count' \in {0, count} /\ main' # "eal" /\ UNCHANGED <<force_quit, devices, started, interface>>
    BY <1>4 DEF LinkRound, CheckReturns
  <2> QED BY <2>1
<1>5. CASE LinkRoundEnd
  <2>1. /\ main = "links" /\ count' \in {0, count + 1} /\ main' # "eal"
        /\ UNCHANGED <<force_quit, devices, started, interface>>
    BY <1>5 DEF LinkRoundEnd, CheckReturns
  <2>2. count \in Nat /\ count <= MaxCheckTime
    BY <2>1 DEF LinkInv, CountOK
  <2> QED BY <2>1, <2>2
<1>6. ASSUME NEW link, LinkPort(link) PROVE BootOK'
  <2>1. count' \in {0, count} /\ main' # "eal" /\ UNCHANGED <<force_quit, devices, started, interface>>
    BY <1>6 DEF LinkPort, CheckReturns
  <2> QED BY <2>1
<1> QED BY <1>1, <1>2, <1>3, <1>4, <1>5, <1>6 DEF Boot

\* main touches the queues of received packets only in RxBurst and Distribute.
LEMMA OffloaderKeepsFlow == FlowOK /\ PlaceOK /\ RingInv /\ Offloader => FlowOK'
<1> SUFFICES ASSUME FlowOK, PlaceOK, RingInv, Offloader PROVE FlowOK'
  OBVIOUS
<1>1. ASSUME NEW lcore \in WorkerLcores, StartWorker(lcore) PROVE FlowOK'
  <2>1. /\ main = "start" /\ worker' \in {"none", "idle"}
        /\ UNCHANGED <<work_queue, read_buffers, nic_rx, arrived>>
    BY <1>1 DEF StartWorker, nicVars
  <2>2. worker # "reading"
    BY <2>1 DEF RingInv, Before
  <2>3. Read' = Read
    BY <2>1, <2>2 DEF Read
  <2> QED BY <2>1, <2>3, FlowSame
<1>2. CASE \/ CreateWriteQueue \/ NoWriteQueue \/ DequeueWrites \/ AllocWriteBuffers
           \/ LeaveLoop \/ \E n \in 0 .. 2 : Transmit(n)
  <2>1. UNCHANGED <<worker, buffer, work_queue, read_buffers, nic_rx, arrived>>
    BY <1>2 DEF CreateWriteQueue, NoWriteQueue, DequeueWrites, AllocWriteBuffers, LeaveLoop,
                Transmit, workerVars, nicVars
  <2>2. Read' = Read
    BY <2>1 DEF Read
  <2> QED BY <2>1, <2>2, FlowSame
<1> QED BY <1>1, <1>2, FlowRxBurst, FlowDistribute DEF Offloader

\* main touches the queues of responses only in DequeueWrites and Transmit.
LEMMA OffloaderKeepsSend == SendOK /\ PlaceOK /\ RingInv /\ Offloader => SendOK'
<1> SUFFICES ASSUME SendOK, PlaceOK, RingInv, Offloader PROVE SendOK'
  OBVIOUS
<1>1. CASE CreateWriteQueue
  <2>1. /\ main = "ring" /\ write_queue' = <<>>
        /\ UNCHANGED <<wire, nic_tx, out_buffers, written>>
    BY <1>1 DEF CreateWriteQueue, workerVars, nicVars
  <2>2. Responses = <<>>
    BY <2>1 DEF PlaceOK, Before, Responses
  <2>3. Responses' = <<>>
    BY <2>1 DEF Responses
  <2> QED BY <2>1, <2>2, <2>3, SendSame
<1>2. CASE \/ \E lcore \in WorkerLcores : StartWorker(lcore)
           \/ NoWriteQueue \/ Distribute \/ AllocWriteBuffers \/ LeaveLoop
           \/ \E n \in 1 .. MaxBurst : RxBurst(n)
  <2>1. UNCHANGED <<write_queue, wire, nic_tx, out_buffers, written>>
    BY <1>2 DEF StartWorker, NoWriteQueue, Distribute, AllocWriteBuffers, LeaveLoop, RxBurst,
                workerVars, nicVars
  <2>2. Responses' = Responses
    BY <2>1 DEF Responses
  <2> QED BY <2>1, <2>2, SendSame
<1> QED BY <1>1, <1>2, SendDequeue, SendTransmit DEF Offloader

\* The invariant of the queues holds when the process starts.
LEMMA QueuesInit == Init => QInv
<1> SUFFICES ASSUME Init PROVE QInv
  OBVIOUS
<1>1. LinkInv /\ RingInv
  BY DEF Init, InitBoot, LinkInv, CountOK, ReportOK, LinkReported, RingInv, Before, After,
         BootPlaces
<1>2. PlaceOK
  <2>1. Len(write_buffers) \in {0, 2} /\ write_buffers \in Seq(Mbufs)
    BY DEF Init
  <2>2. 0 \in 0 .. WriteBound
    BY PipelineAssumption
  <2> QED BY <2>1, <2>2 DEF Init, InitBoot, PlaceOK, Alive
<1>3. BootOK
  <2>1. 0 \in 0 .. MaxCheckTime + 1
    BY StartupAssumption
  <2> QED BY <2>1 DEF Init, InitBoot, BootOK
<1>4. Read = <<>> /\ Responses = <<>>
  BY DEF Init, Read, Responses
<1>5. \A S, x : Below({}, S) /\ UpTo({}, x)
  BY DEF Below, UpTo
<1>6. /\ WorkCapacity \in Nat /\ MaxBurst \in Nat /\ FrameBound \in Nat /\ TxRoom \in Nat
      /\ WriteCapacity \in Nat /\ Len(<<>>) = 0
  BY PipelineAssumption
<1>7. /\ Len(<<>>) <= WorkCapacity /\ Len(<<>>) <= MaxBurst /\ Len(<<>>) <= TxRoom
      /\ Len(<<>>) <= WriteCapacity /\ 0 \in 0 .. FrameBound
  BY <1>6
<1>8. FlowOK
  BY <1>4, <1>5, <1>7, SmallQueues DEF Init, FlowOK
<1>9. SendOK
  BY <1>4, <1>5, <1>6, <1>7, SmallQueues DEF Init, SendOK
<1> QED BY <1>1, <1>2, <1>3, <1>8, <1>9 DEF QInv

\* Every step of main, the worker, the NIC and a signal keeps it.
LEMMA QueuesNext == QInv /\ [Next]_vars => QInv'
<1> SUFFICES ASSUME QInv, [Next]_vars PROVE QInv'
  OBVIOUS
<1>0. LinkInv /\ RingInv /\ PlaceOK /\ BootOK /\ FlowOK /\ SendOK /\ LinkInv' /\ RingInv'
  BY LinkNext, RingNext DEF QInv
<1>1. ASSUME UNCHANGED <<work_queue, read_buffers, nic_rx, arrived, worker, buffer>>
      PROVE  FlowOK'
  <2>1. Read' = Read
    BY <1>1 DEF Read
  <2> QED BY <1>0, <1>1, <2>1, FlowSame
<1>2. ASSUME UNCHANGED <<wire, nic_tx, out_buffers, written, write_queue>>
      PROVE  SendOK'
  <2>1. Responses' = Responses
    BY <1>2 DEF Responses
  <2> QED BY <1>0, <1>2, <2>1, SendSame
<1>3. ASSUME UNCHANGED pipeVars
      PROVE  /\ FlowOK' /\ SendOK'
             /\ UNCHANGED <<read_buffers, out_buffers, write_buffers, write_queue, worker,
                            buffer, pool, writes, fault>>
  BY <1>1, <1>2, <1>3 DEF pipeVars, workerVars, nicVars
<1>4. CASE (Boot \/ Signal) /\ UNCHANGED pipeVars
  <2>1. BootOK'
    <3>1. CASE Signal
      BY <1>0, <3>1 DEF Signal, BootOK, bootVars, checkVars
    <3> QED BY <1>0, <1>4, <3>1, BootKeepsTypes
  <2>2. PlaceOK'
    <3>1. main' = main \/ (main \in Before /\ main' \in Before)
      BY <1>4 DEF Boot, Signal, InitEal, Exit, InitPort, PortsDone, LinkRound, LinkPort,
                  LinkRoundEnd, NetStackInit, CheckReturns, Before, BootPlaces
    <3> QED BY <1>0, <1>3, <1>4, <3>1 DEF PlaceOK, Alive, Before, BootPlaces
  <2> QED BY <1>0, <1>3, <1>4, <2>1, <2>2 DEF QInv
<1>5. CASE Close
  <2>1. /\ UNCHANGED pipeVars /\ main = "wait" /\ main' = "closed" /\ started' = {}
        /\ UNCHANGED <<force_quit, devices, interface, count>>
    BY <1>5 DEF Close, checkVars
  <2>2. PlaceOK'
    BY <1>0, <1>3, <2>1 DEF PlaceOK, Alive, Before, BootPlaces
  <2>3. BootOK'
    BY <1>0, <2>1 DEF BootOK
  <2> QED BY <1>0, <1>3, <2>1, <2>2, <2>3 DEF QInv
<1>6. CASE Offloader /\ UNCHANGED bootVars
  <2>1. BootOK'
    <3>1. main' # "eal" /\ force_quit' = force_quit
      BY <1>6 DEF Offloader, StartWorker, CreateWriteQueue, NoWriteQueue, RxBurst, Distribute,
                  DequeueWrites, AllocWriteBuffers, Transmit, LeaveLoop
    <3> QED BY <1>0, <1>6, <3>1 DEF BootOK, bootVars, checkVars
  <2> QED BY <1>0, <1>6, <2>1, OffloaderKeepsPlace, OffloaderKeepsFlow, OffloaderKeepsSend
          DEF QInv
<1>7. CASE (Arrive \/ TxDone \/ Dequeue \/ Write \/ FreePacket) /\ UNCHANGED bootVars
  <2>1. BootOK'
    <3>1. UNCHANGED <<main, force_quit>>
      BY <1>7 DEF Arrive, TxDone, Dequeue, Write, FreePacket, mainVars
    <3> QED BY <1>0, <1>7, <3>1 DEF BootOK, bootVars, checkVars
  <2>2. PlaceOK'
    BY <1>0, <1>7, OthersKeepPlace
  <2>3. FlowOK'
    <3>1. CASE TxDone \/ Write
      BY <1>1, <3>1 DEF TxDone, Write, mainVars, workerVars, nicVars
    <3> QED BY <1>0, <1>7, <3>1, FlowArrive, FlowDequeue, FlowFree
  <2>4. SendOK'
    <3>1. CASE Arrive \/ Dequeue \/ FreePacket
      BY <1>2, <3>1 DEF Arrive, Dequeue, FreePacket, mainVars, workerVars, nicVars
    <3> QED BY <1>0, <1>7, <3>1, SendTxDone, SendWrite
  <2> QED BY <1>0, <2>1, <2>2, <2>3, <2>4 DEF QInv
<1>8. CASE UNCHANGED vars
  <2>1. UNCHANGED pipeVars /\ UNCHANGED <<main, force_quit, devices, started, interface, count>>
    BY <1>8 DEF vars, bootVars, checkVars
  <2>2. PlaceOK'
    BY <1>0, <1>3, <2>1 DEF PlaceOK, Alive
  <2>3. BootOK'
    BY <1>0, <2>1 DEF BootOK
  <2> QED BY <1>0, <1>3, <2>1, <2>2, <2>3 DEF QInv
<1> QED BY <1>4, <1>5, <1>6, <1>7, <1>8 DEF Next

-----------------------------------------------------------------------------
(* From the pairs to the whole way of a packet *)

\* Two increasing sequences, one below the other.
LEMMA IncreasingConcat ==
  ASSUME NEW s \in Seq(Nat), NEW t \in Seq(Nat), Increasing(s), Increasing(t),
         Below(ValuesIn(s), ValuesIn(t))
  PROVE  /\ s \o t \in Seq(Nat) /\ Increasing(s \o t)
         /\ ValuesIn(s \o t) \subseteq ValuesIn(s) \union ValuesIn(t)
<1>1. PICK S : S = Nat
  OBVIOUS
<1>2. s \in Seq(S) /\ t \in Seq(S)
  BY <1>1
<1>3. PICK u \in Seq(S) :
        /\ u = s \o t /\ Len(u) = Len(s) + Len(t) /\ DOMAIN u = 1 .. Len(u)
        /\ \A i \in 1 .. Len(s) : u[i] = s[i]
        /\ \A i \in 1 .. Len(u) : i > Len(s) => i - Len(s) \in 1 .. Len(t) /\ u[i] = t[i - Len(s)]
  <2> HIDE <1>1
  <2>1. s \o t \in Seq(S) /\ Len(s \o t) = Len(s) + Len(t)
        /\ \A i \in 1 .. Len(s) + Len(t) :
             (s \o t)[i] = IF i <= Len(s) THEN s[i] ELSE t[i - Len(s)]
    BY <1>2
  <2>2. \A i \in 1 .. Len(s) + Len(t) : i > Len(s) => i - Len(s) \in 1 .. Len(t)
    BY <1>2
  <2>3. \A i \in 1 .. Len(s) : i \in 1 .. Len(s) + Len(t) /\ i <= Len(s)
    BY <1>2
  <2>4. DOMAIN (s \o t) = 1 .. Len(s) + Len(t)
    BY <1>2
  <2>5. \A i \in 1 .. Len(s) + Len(t) : i > Len(s) => ~ (i <= Len(s))
    BY <1>2
  <2> QED BY <2>1, <2>2, <2>3, <2>4, <2>5
<1>4. /\ \A i \in 1 .. Len(s) : s[i] \in ValuesIn(s)
      /\ \A i \in 1 .. Len(t) : t[i] \in ValuesIn(t)
  BY <1>2 DEF ValuesIn
<1>5. \A i \in 1 .. Len(u) : i \in 1 .. Len(s) \/ i > Len(s)
  BY <1>2, <1>3
<1>6. ValuesIn(u) \subseteq ValuesIn(s) \union ValuesIn(t)
  <2>1. \A i \in DOMAIN u : u[i] \in ValuesIn(s) \union ValuesIn(t)
    BY <1>3, <1>4, <1>5
  <2>2. \A x \in ValuesIn(u) : \E i \in DOMAIN u : x = u[i]
    BY DEF ValuesIn
  <2> QED BY <2>1, <2>2
<1>7. Increasing(u)
  <2> SUFFICES ASSUME NEW i \in DOMAIN u, NEW j \in DOMAIN u, i < j
               PROVE  u[i] < u[j]
    BY Zenon DEF Increasing
  <2>0. i \in 1 .. Len(u) /\ j \in 1 .. Len(u) /\ i \in Int /\ j \in Int /\ Len(s) \in Nat
    BY <1>2, <1>3
  <2>1. CASE j \in 1 .. Len(s)
    <3>1. i \in 1 .. Len(s)
      BY <2>0, <2>1
    <3>2. s[i] < s[j]
      BY <1>2, <2>1, <3>1 DEF Increasing
    <3> QED BY <1>3, <2>1, <3>1, <3>2
  <2>2. CASE i \in 1 .. Len(s) /\ j > Len(s)
    <3>1. u[i] \in ValuesIn(s) /\ u[j] \in ValuesIn(t)
      BY <1>3, <1>4, <2>0, <2>2
    <3> QED BY <3>1 DEF Below
  <2>3. CASE i > Len(s)
    <3>1. /\ i - Len(s) \in 1 .. Len(t) /\ u[i] = t[i - Len(s)]
          /\ j - Len(s) \in 1 .. Len(t) /\ u[j] = t[j - Len(s)]
      BY <1>3, <2>0, <2>3, SMTT(20)
    <3>2. i - Len(s) < j - Len(s)
      BY <2>0
    <3>3. i - Len(s) \in DOMAIN t /\ j - Len(s) \in DOMAIN t
      BY <1>2, <3>1
    <3>4. t[i - Len(s)] < t[j - Len(s)]
      BY <3>2, <3>3 DEF Increasing
    <3> QED BY <3>1, <3>4
  <2> QED BY <1>5, <2>0, <2>1, <2>2, <2>3
<1> QED BY <1>1, <1>3, <1>6, <1>7

\* The frames of a packet queue.
LEMMA FramesOf ==
  ASSUME NEW s \in Seq(Packets)
  PROVE  /\ Frames(s) \in Seq(Nat) /\ ValuesIn(Frames(s)) = FramesIn(s)
         /\ InFrameOrder(s) => Increasing(Frames(s))
<1>1. \A i \in DOMAIN s : s[i] \in Packets
  OBVIOUS
<1>2. PICK f : f = Frames(s)
  OBVIOUS
<1>3. DOMAIN f = DOMAIN s /\ \A i \in DOMAIN s : f[i] = s[i].frame /\ f[i] \in Nat
  BY <1>1, <1>2 DEF Frames, Packets
<1>4. f \in Seq(Nat)
  <2>1. f \in [1 .. Len(s) -> Nat]
    BY <1>2, <1>3 DEF Frames
  <2> QED BY <2>1
<1>5. ValuesIn(f) = FramesIn(s)
  BY <1>3 DEF ValuesIn, FramesIn
<1>6. InFrameOrder(s) => Increasing(f)
  BY <1>3 DEF InFrameOrder, Increasing
<1> QED BY <1>2, <1>4, <1>5, <1>6

\* Four sequences in a row.
LEMMA IncreasingChain ==
  ASSUME NEW a \in Seq(Nat), NEW b \in Seq(Nat), NEW c \in Seq(Nat), NEW d \in Seq(Nat),
         Increasing(a), Increasing(b), Increasing(c), Increasing(d),
         Below(ValuesIn(a), ValuesIn(b)), Below(ValuesIn(a), ValuesIn(c)),
         Below(ValuesIn(a), ValuesIn(d)), Below(ValuesIn(b), ValuesIn(c)),
         Below(ValuesIn(b), ValuesIn(d)), Below(ValuesIn(c), ValuesIn(d))
  PROVE  Increasing(a \o b \o c \o d)
<1>1. PICK e : e = a \o b
  OBVIOUS
<1>2. /\ e \in Seq(Nat) /\ Increasing(e)
      /\ ValuesIn(e) \subseteq ValuesIn(a) \union ValuesIn(b)
  BY <1>1, IncreasingConcat
<1>3. Below(ValuesIn(e), ValuesIn(c)) /\ Below(ValuesIn(e), ValuesIn(d))
  BY <1>2 DEF Below
<1>4. PICK f : f = e \o c
  OBVIOUS
<1>5. /\ f \in Seq(Nat) /\ Increasing(f)
      /\ ValuesIn(f) \subseteq ValuesIn(e) \union ValuesIn(c)
  BY <1>2, <1>3, <1>4, IncreasingConcat
<1>6. Below(ValuesIn(f), ValuesIn(d))
  BY <1>3, <1>5 DEF Below
<1>7. Increasing(f \o d)
  BY <1>5, <1>6, IncreasingConcat
<1> QED BY <1>1, <1>4, <1>7

(***************************************************************************)
(* Every ring and queue keeps its bound, packets reach the handlers in the *)
(* order in which they arrived and responses leave in the order in which   *)
(* they were written: for every capacity, burst, number of mbufs and       *)
(* number of frames.                                                       *)
(***************************************************************************)
THEOREM QueuesStayConsistent == Spec => []QueuesConsistent
<1>1. QInv => TypeOK
  <2> SUFFICES ASSUME QInv PROVE TypeOK
    OBVIOUS
  <2>1. InHand \in {<<>>, Read}
    BY DEF QInv, PlaceOK, InHand, Read
  <2>2. \A s \in Seq(Packets) : \A i \in DOMAIN s : s[i].mbuf \in Mbufs
    <3>1. \A x \in Packets : x.mbuf \in Mbufs
      BY DEF Packets
    <3> QED BY <3>1
  <2>3. \A packets \in {InHand, work_queue, read_buffers, nic_rx, nic_tx} :
          packets \in Seq(Packets)
    BY <2>1, FlowTypes, SendTypes, SmallQueues DEF QInv
  <2>4. \A packets \in {InHand, work_queue, read_buffers, nic_rx, nic_tx} :
          \A i \in DOMAIN packets : packets[i].mbuf \in Mbufs
    BY <2>2, <2>3
  <2> QED BY <2>4 DEF QInv, RingInv, PlaceOK, BootOK, FlowOK, SendOK, TypeOK, Before, After
<1>2. QInv => HandledInOrder
  <2> SUFFICES ASSUME QInv PROVE HandledInOrder
    OBVIOUS
  <2>1. PICK h \in Seq(Packets) : h = InHand /\ InFrameOrder(h) /\ FramesIn(h) \subseteq FramesIn(Read)
    <3>1. CASE InHand = <<>>
      BY <3>1, SmallQueues
    <3>2. CASE InHand # <<>>
      <4>1. InHand = Read /\ InHand = <<buffer>>
        BY <3>2 DEF QInv, PlaceOK, InHand, Read
      <4>2. InFrameOrder(<<buffer>>)
        BY DEF InFrameOrder
      <4> QED BY <4>1, <4>2, FlowTypes DEF QInv
    <3> QED BY <3>1, <3>2
  <2>2. /\ Below(FramesIn(h), FramesIn(work_queue)) /\ Below(FramesIn(h), FramesIn(read_buffers))
        /\ Below(FramesIn(h), FramesIn(nic_rx))
    BY <2>1 DEF QInv, FlowOK, Below
  <2>3. FlowOK
    BY DEF QInv
  <2>4. PICK a \in Seq(Nat) : a = Frames(h) /\ ValuesIn(a) = FramesIn(h) /\ Increasing(a)
    BY <2>1, FramesOf
  <2>5. PICK b \in Seq(Nat) :
          b = Frames(work_queue) /\ ValuesIn(b) = FramesIn(work_queue) /\ Increasing(b)
    BY <2>3, FlowTypes, FramesOf DEF FlowOK
  <2>6. PICK c \in Seq(Nat) :
          c = Frames(read_buffers) /\ ValuesIn(c) = FramesIn(read_buffers) /\ Increasing(c)
    BY <2>3, FlowTypes, FramesOf DEF FlowOK
  <2>7. PICK d \in Seq(Nat) :
          d = Frames(nic_rx) /\ ValuesIn(d) = FramesIn(nic_rx) /\ Increasing(d)
    BY <2>3, FlowTypes, FramesOf DEF FlowOK
  <2>8. /\ Below(ValuesIn(a), ValuesIn(b)) /\ Below(ValuesIn(a), ValuesIn(c))
        /\ Below(ValuesIn(a), ValuesIn(d)) /\ Below(ValuesIn(b), ValuesIn(c))
        /\ Below(ValuesIn(b), ValuesIn(d)) /\ Below(ValuesIn(c), ValuesIn(d))
    BY <2>2, <2>3, <2>4, <2>5, <2>6, <2>7 DEF FlowOK
  <2>9. Increasing(a \o b \o c \o d)
    BY <2>4, <2>5, <2>6, <2>7, <2>8, IncreasingChain
  <2> QED BY <2>1, <2>4, <2>5, <2>6, <2>7, <2>9 DEF HandledInOrder
<1>3. QInv => SentInOrder
  <2> SUFFICES ASSUME QInv PROVE SentInOrder
    OBVIOUS
  <2>1. SendOK
    BY DEF QInv
  <2>2. PICK b \in Seq(Nat) :
          b = Frames(nic_tx) /\ ValuesIn(b) = FramesIn(nic_tx) /\ Increasing(b)
    BY <2>1, SendTypes, FramesOf DEF SendOK
  <2>3. PICK a \in Seq(Nat), c \in Seq(Nat), d \in Seq(Nat) :
          a = wire /\ c = out_buffers /\ d = Responses
    BY <2>1, SendTypes
  <2>4. /\ Increasing(a) /\ Increasing(c) /\ Increasing(d)
        /\ Below(ValuesIn(a), ValuesIn(b)) /\ Below(ValuesIn(a), ValuesIn(c))
        /\ Below(ValuesIn(a), ValuesIn(d)) /\ Below(ValuesIn(b), ValuesIn(c))
        /\ Below(ValuesIn(b), ValuesIn(d)) /\ Below(ValuesIn(c), ValuesIn(d))
    BY <2>1, <2>2, <2>3 DEF SendOK
  <2>5. Increasing(a \o b \o c \o d)
    BY <2>2, <2>4, IncreasingChain
  <2> QED BY <2>2, <2>3, <2>5 DEF SentInOrder
<1>4. QInv => QueuesConsistent
  BY <1>1, <1>2, <1>3 DEF QueuesConsistent
<1> QED BY <1>4, QueuesInit, QueuesNext, PTL DEF Spec

-----------------------------------------------------------------------------
(* The mbufs *)

\* A frame arrives in an mbuf of the pool.
LEMMA OwnedArrive ==
  ASSUME NEW r, NEW w, NEW b, NEW x \in Seq(Packets), NEW t, NEW f, NEW p,
         OwnedBy(r, w, b, x, t, f, p), NEW e \in Packets, e.mbuf \in p, NEW y, y = Added(x, e)
  PROVE  OwnedBy(r, w, b, y, t, f, p \ {e.mbuf})
<1>1. e.mbuf \notin MbufsIn(x)
  BY DEF OwnedBy, AllApart, Apart
<1>2. Distinct(y) /\ MbufsIn(y) = MbufsIn(x) \union {e.mbuf}
  BY <1>1, PacketAppend DEF OwnedBy
<1>3. AllApart(MbufsIn(r), MbufsIn(w), MbufsIn(b), MbufsIn(y), MbufsIn(t), ValuesIn(f),
               p \ {e.mbuf})
  BY <1>2 DEF OwnedBy, AllApart, Apart
<1> QED BY <1>2, <1>3 DEF OwnedBy

\* The oldest packet of the transmit queue left.
LEMMA OwnedTxDone ==
  ASSUME NEW r, NEW w, NEW b, NEW x, NEW t \in Seq(Packets), NEW f, NEW p,
         OwnedBy(r, w, b, x, t, f, p), t # <<>>, NEW y, y = Tail(t), NEW e, e = Head(t)
  PROVE  OwnedBy(r, w, b, x, y, f, p \union {e.mbuf})
<1>1. /\ e.mbuf \in MbufsIn(t) /\ MbufsIn(y) \subseteq MbufsIn(t)
      /\ Distinct(y) /\ e.mbuf \notin MbufsIn(y)
  BY PacketTail DEF OwnedBy
<1>2. AllApart(MbufsIn(r), MbufsIn(w), MbufsIn(b), MbufsIn(x), MbufsIn(y), ValuesIn(f),
               p \union {e.mbuf})
  BY <1>1 DEF OwnedBy, AllApart, Apart
<1> QED BY <1>1, <1>2 DEF OwnedBy

\* A burst is received; the burst before it has been distributed.
LEMMA OwnedRxBurst ==
  ASSUME NEW r, NEW w, NEW b, NEW x \in Seq(Packets), NEW t, NEW f, NEW p,
         OwnedBy(r, w, b, x, t, f, p), NEW n \in Nat, n <= Len(x),
         NEW y, y = FirstOf(x, n), NEW z, z = Beyond(x, n)
  PROVE  OwnedBy(r, w, y, z, t, f, p)
<1>1. /\ MbufsIn(y) \subseteq MbufsIn(x) /\ MbufsIn(z) \subseteq MbufsIn(x)
      /\ Distinct(y) /\ Distinct(z) /\ Apart(MbufsIn(y), MbufsIn(z))
  BY PacketSplit DEF OwnedBy
<1>2. AllApart(MbufsIn(r), MbufsIn(w), MbufsIn(y), MbufsIn(z), MbufsIn(t), ValuesIn(f), p)
  BY <1>1 DEF OwnedBy, AllApart, Apart
<1> QED BY <1>1, <1>2 DEF OwnedBy

\* A received packet is handed to the worker, or its mbuf is lost.
LEMMA OwnedDistribute ==
  ASSUME NEW r, NEW w \in Seq(Packets), NEW b \in Seq(Packets), NEW x, NEW t, NEW f, NEW p,
         OwnedBy(r, w, b, x, t, f, p), b # <<>>, NEW y, y = Tail(b), NEW e, e = Head(b),
         NEW z, z = w \/ z = Added(w, e)
  PROVE  OwnedBy(r, z, y, x, t, f, p)
<1>1. /\ e \in Packets /\ e.mbuf \in MbufsIn(b) /\ MbufsIn(y) \subseteq MbufsIn(b)
      /\ Distinct(y) /\ e.mbuf \notin MbufsIn(y)
  BY PacketTail DEF OwnedBy
<1>2. Distinct(z) /\ MbufsIn(z) \subseteq MbufsIn(w) \union {e.mbuf}
  <2>1. Distinct(w)
    BY DEF OwnedBy
  <2>2. CASE z = Added(w, e)
    <3>1. e.mbuf \notin MbufsIn(w)
      BY <1>1 DEF OwnedBy, AllApart, Apart
    <3> QED BY <1>1, <2>1, <2>2, <3>1, PacketAppend
  <2> QED BY <2>1, <2>2
<1>3. AllApart(MbufsIn(r), MbufsIn(z), MbufsIn(y), MbufsIn(x), MbufsIn(t), ValuesIn(f), p)
  BY <1>1, <1>2 DEF OwnedBy, AllApart, Apart
<1> QED BY <1>1, <1>2, <1>3 DEF OwnedBy

\* The worker takes a packet from its ring.
LEMMA OwnedDequeue ==
  ASSUME NEW r, NEW w \in Seq(Packets), NEW b, NEW x, NEW t, NEW f, NEW p,
         OwnedBy(r, w, b, x, t, f, p), w # <<>>, NEW y, y = Tail(w), NEW e, e = Head(w)
  PROVE  OwnedBy(<<e>>, y, b, x, t, f, p)
<1>1. /\ e.mbuf \in MbufsIn(w) /\ MbufsIn(y) \subseteq MbufsIn(w)
      /\ Distinct(y) /\ e.mbuf \notin MbufsIn(y)
  BY PacketTail DEF OwnedBy
<1>2. MbufsIn(<<e>>) = {e.mbuf}
  BY SmallQueues
<1>3. AllApart(MbufsIn(<<e>>), MbufsIn(y), MbufsIn(b), MbufsIn(x), MbufsIn(t), ValuesIn(f), p)
  BY <1>1, <1>2 DEF OwnedBy, AllApart, Apart
<1> QED BY <1>1, <1>3 DEF OwnedBy

\* The worker frees the packet it read.
LEMMA OwnedFree ==
  ASSUME NEW e, NEW w, NEW b, NEW x, NEW t, NEW f, NEW p,
         OwnedBy(<<e>>, w, b, x, t, f, p)
  PROVE  OwnedBy(<<>>, w, b, x, t, f, p \union {e.mbuf})
<1>1. MbufsIn(<<e>>) = {e.mbuf} /\ MbufsIn(<<>>) = {}
  BY SmallQueues
<1>2. AllApart(MbufsIn(<<>>), MbufsIn(w), MbufsIn(b), MbufsIn(x), MbufsIn(t), ValuesIn(f),
               p \union {e.mbuf})
  BY <1>1 DEF OwnedBy, AllApart, Apart
<1> QED BY <1>2 DEF OwnedBy

\* Mbufs are allocated: to be filled, or only taken from the pool.
LEMMA OwnedAlloc ==
  ASSUME NEW r, NEW w, NEW b, NEW x, NEW t, NEW f, NEW p,
         OwnedBy(r, w, b, x, t, f, p), NEW g, DistinctValues(g), ValuesIn(g) \subseteq p,
         NEW q, q \subseteq p, Apart(ValuesIn(g), q)
  PROVE  OwnedBy(r, w, b, x, t, g, q)
<1>1. AllApart(MbufsIn(r), MbufsIn(w), MbufsIn(b), MbufsIn(x), MbufsIn(t), ValuesIn(g), q)
  BY DEF OwnedBy, AllApart, Apart
<1> QED BY <1>1 DEF OwnedBy

\* The filled mbufs, or the first of them, join the transmit queue.
LEMMA OwnedTransmit ==
  ASSUME NEW r, NEW w, NEW b, NEW x, NEW t \in Seq(Packets), NEW f, NEW p,
         OwnedBy(r, w, b, x, t, f, p), NEW o \in Seq(Packets), Distinct(o),
         MbufsIn(o) \subseteq ValuesIn(f), NEW y, y = t \o o
  PROVE  OwnedBy(r, w, b, x, y, <<>>, p)
<1>1. Apart(MbufsIn(t), MbufsIn(o)) /\ Distinct(t)
  BY DEF OwnedBy, AllApart, Apart
<1>2. Distinct(y) /\ MbufsIn(y) \subseteq MbufsIn(t) \union MbufsIn(o)
  BY <1>1, PacketConcat
<1>3. DistinctValues(<<>>) /\ ValuesIn(<<>>) = {}
  BY SmallQueues
<1>4. AllApart(MbufsIn(r), MbufsIn(w), MbufsIn(b), MbufsIn(x), MbufsIn(y), ValuesIn(<<>>), p)
  BY <1>2, <1>3 DEF OwnedBy, AllApart, Apart
<1> QED BY <1>2, <1>3, <1>4 DEF OwnedBy

\* What the invariant says after a step, queue by queue.
LEMMA OwnedAfter ==
  Owned' <=> OwnedBy(Read', work_queue', read_buffers', nic_rx', nic_tx', Filled', pool')
BY DEF Owned, OwnedBy, AllApart, Apart, Distinct, DistinctValues, MbufsIn, ValuesIn

\* A step that moves no mbuf.
LEMMA OwnedSame ==
  ASSUME OwnInv, UNCHANGED <<work_queue, read_buffers, nic_rx, nic_tx, pool, exhausted>>,
         Read' = Read, Filled' = Filled
  PROVE  OwnInv'
BY OwnedAfter DEF OwnInv, Owned

\* The steps of the NIC and the worker.
LEMMA OthersKeepOwned ==
  OwnInv /\ FlowOK /\ SendOK /\ PlaceOK /\ (Arrive \/ TxDone \/ Dequeue \/ Write \/ FreePacket)
    => OwnInv'
<1> SUFFICES ASSUME OwnInv, FlowOK, SendOK, PlaceOK,
                    Arrive \/ TxDone \/ Dequeue \/ Write \/ FreePacket
             PROVE  OwnInv'
  OBVIOUS
<1>1. UNCHANGED <<main, out_buffers, write_buffers, read_buffers, exhausted>>
  BY DEF Arrive, TxDone, Dequeue, Write, FreePacket, mainVars
<1>2. Filled' = Filled
  BY <1>1 DEF Filled
<1> SUFFICES ASSUME ~ exhausted, Owned PROVE Owned'
  BY <1>1 DEF OwnInv
<1>3. /\ Read \in Seq(Packets) /\ work_queue \in Seq(Packets)
      /\ read_buffers \in Seq(Packets) /\ nic_rx \in Seq(Packets) /\ nic_tx \in Seq(Packets)
  BY FlowTypes, SendTypes
<1>4. OwnedBy(Read, work_queue, read_buffers, nic_rx, nic_tx, Filled, pool)
  BY DEF Owned
<1>5. CASE Arrive
  <2>1. UNCHANGED <<work_queue, nic_tx, worker, buffer>>
    BY <1>5 DEF Arrive, workerVars
  <2>2. Read' = Read
    BY <2>1 DEF Read
  <2>3. PICK mbuf \in pool : /\ pool' = pool \ {mbuf}
                             /\ nic_rx' = Append(nic_rx, Packet(mbuf, arrived + 1))
    BY <1>5 DEF Arrive
  <2>4. PICK next \in Nat : next = arrived + 1
    BY FlowTypes
  <2>5. PICK e \in Packets : nic_rx' = Added(nic_rx, e) /\ e.mbuf = mbuf
    <3>1. mbuf \in Mbufs
      BY DEF PlaceOK
    <3>2. Packet(mbuf, next) \in Packets /\ Packet(mbuf, next).mbuf = mbuf
      BY <3>1 DEF Packet, Packets
    <3> QED BY <2>3, <2>4, <3>2 DEF Added
  <2>6. OwnedBy(Read, work_queue, read_buffers, nic_rx', nic_tx, Filled, pool \ {e.mbuf})
    BY <1>3, <1>4, <2>5, OwnedArrive
  <2> QED BY <1>1, <1>2, <2>1, <2>2, <2>3, <2>5, <2>6, OwnedAfter
<1>6. CASE TxDone
  <2>1. /\ nic_tx # <<>> /\ nic_tx' = Tail(nic_tx) /\ pool' = pool \union {Head(nic_tx).mbuf}
        /\ UNCHANGED <<work_queue, nic_rx, worker, buffer>>
    BY <1>6 DEF TxDone, workerVars
  <2>2. Read' = Read
    BY <2>1 DEF Read
  <2>3. OwnedBy(Read, work_queue, read_buffers, nic_rx, nic_tx', Filled,
                pool \union {Head(nic_tx).mbuf})
    BY <1>3, <1>4, <2>1, OwnedTxDone
  <2> QED BY <1>1, <1>2, <2>1, <2>2, <2>3, OwnedAfter
<1>7. CASE Dequeue
  <2>1. PICK e : e = Head(work_queue)
    OBVIOUS
  <2>2. /\ work_queue # <<>> /\ work_queue' = Tail(work_queue) /\ worker' = "reading"
        /\ buffer' = e /\ UNCHANGED <<nic_rx, nic_tx, pool>>
    BY <1>7, <2>1 DEF Dequeue, nicVars
  <2>3. Read' = <<e>>
    BY <2>2 DEF Read
  <2>4. OwnedBy(<<e>>, work_queue', read_buffers, nic_rx, nic_tx, Filled, pool)
    BY <1>3, <1>4, <2>1, <2>2, OwnedDequeue
  <2> QED BY <1>1, <1>2, <2>2, <2>3, <2>4, OwnedAfter
<1>8. CASE Write
  <2>1. UNCHANGED <<work_queue, nic_rx, nic_tx, pool, worker, buffer>>
    BY <1>8 DEF Write, nicVars
  <2>2. Read' = Read
    BY <2>1 DEF Read
  <2> QED BY <1>1, <1>2, <1>4, <2>1, <2>2, OwnedAfter
<1>9. CASE FreePacket
  <2>1. /\ worker = "reading" /\ worker' = "idle" /\ pool' = pool \union {buffer.mbuf}
        /\ UNCHANGED <<work_queue, nic_rx, nic_tx>>
    BY <1>9 DEF FreePacket, nicVars
  <2>2. Read = <<buffer>> /\ Read' = <<>>
    BY <2>1 DEF Read
  <2>3. OwnedBy(<<>>, work_queue, read_buffers, nic_rx, nic_tx, Filled,
                pool \union {buffer.mbuf})
    BY <1>4, <2>2, OwnedFree
  <2> QED BY <1>1, <1>2, <2>1, <2>2, <2>3, OwnedAfter
<1> QED BY <1>5, <1>6, <1>7, <1>8, <1>9

\* Two mbufs are allocated, or the pool is left as it is.
LEMMA AllocKeepsOwned == OwnInv /\ PlaceOK /\ AllocWriteBuffers => OwnInv'
<1> SUFFICES ASSUME OwnInv, PlaceOK, AllocWriteBuffers PROVE OwnInv'
  OBVIOUS
<1>1. /\ main' = "transmit"
      /\ UNCHANGED <<out_buffers, work_queue, read_buffers, nic_rx, nic_tx, worker, buffer>>
  BY DEF AllocWriteBuffers, workerVars, nicVars
<1>2. Read' = Read
  BY <1>1 DEF Read
<1> SUFFICES ASSUME ~ exhausted' PROVE Owned'
  BY DEF OwnInv
<1>3. ~ exhausted /\ (out_buffers = <<>> \/ ~ (Cardinality(pool) < 2))
  BY DEF AllocWriteBuffers
<1>4. OwnedBy(Read, work_queue, read_buffers, nic_rx, nic_tx, Filled, pool)
  BY <1>3 DEF OwnInv, Owned
<1>5. pool' \subseteq pool
  BY DEF AllocWriteBuffers
<1>6. CASE out_buffers = <<>>
  <2>1. Filled' = <<>>
    BY <1>1, <1>6 DEF Filled
  <2>2. DistinctValues(<<>>) /\ ValuesIn(<<>>) = {}
    BY SmallQueues
  <2>3. ValuesIn(<<>>) \subseteq pool /\ Apart(ValuesIn(<<>>), pool')
    BY <2>2 DEF Apart
  <2>4. OwnedBy(Read, work_queue, read_buffers, nic_rx, nic_tx, <<>>, pool')
    BY <1>4, <1>5, <2>2, <2>3, OwnedAlloc
  <2> QED BY <1>1, <1>2, <2>1, <2>4, OwnedAfter
<1>7. CASE out_buffers # <<>>
  <2>1. IsFiniteSet(pool)
    BY PipelineAssumption, FS_Subset DEF PlaceOK
  <2>2. Cardinality(pool) \in Nat
    BY <2>1, FS_CardinalityType
  <2>3. Cardinality(pool) >= 2
    BY <1>3, <1>7, <2>2
  <2>4. PICK first \in pool, second \in pool :
          /\ first # second /\ write_buffers' = <<first, second>>
          /\ pool' = pool \ {first, second}
    BY <2>3 DEF AllocWriteBuffers
  <2>5. Filled' = <<first, second>>
    BY <1>1, <1>7, <2>4 DEF Filled
  <2>6. DistinctValues(<<first, second>>) /\ ValuesIn(<<first, second>>) = {first, second}
    BY <2>4 DEF DistinctValues, ValuesIn
  <2>7. ValuesIn(<<first, second>>) \subseteq pool /\ Apart(ValuesIn(<<first, second>>), pool')
    BY <2>4, <2>6 DEF Apart
  <2>8. OwnedBy(Read, work_queue, read_buffers, nic_rx, nic_tx, <<first, second>>, pool')
    BY <1>4, <1>5, <2>6, <2>7, OwnedAlloc
  <2> QED BY <1>1, <1>2, <2>5, <2>8, OwnedAfter
<1> QED BY <1>6, <1>7

\* The steps of main.
LEMMA OffloaderKeepsOwned ==
  OwnInv /\ FlowOK /\ SendOK /\ PlaceOK /\ RingInv /\ Offloader => OwnInv'
<1> SUFFICES ASSUME OwnInv, FlowOK, SendOK, PlaceOK, RingInv, Offloader PROVE OwnInv'
  OBVIOUS
<1>1. /\ Read \in Seq(Packets) /\ work_queue \in Seq(Packets)
      /\ read_buffers \in Seq(Packets) /\ nic_rx \in Seq(Packets) /\ nic_tx \in Seq(Packets)
  BY FlowTypes, SendTypes
<1>2. ASSUME NEW lcore \in WorkerLcores, StartWorker(lcore) PROVE OwnInv'
  <2>1. /\ main = "start" /\ main' = "ring" /\ worker' \in {"none", "idle"}
        /\ UNCHANGED <<work_queue, read_buffers, nic_rx, nic_tx, pool, exhausted>>
    BY <1>2 DEF StartWorker, nicVars
  <2>2. worker # "reading"
    BY <2>1 DEF RingInv, Before
  <2>3. Read' = Read /\ Filled' = Filled
    BY <2>1, <2>2 DEF Read, Filled
  <2> QED BY <2>1, <2>3, OwnedSame
<1>3. CASE CreateWriteQueue \/ NoWriteQueue \/ DequeueWrites \/ LeaveLoop
  <2>1. /\ main # "transmit" /\ main' # "transmit"
        /\ UNCHANGED <<work_queue, read_buffers, nic_rx, nic_tx, pool, exhausted, worker, buffer>>
    BY <1>3 DEF CreateWriteQueue, NoWriteQueue, DequeueWrites, LeaveLoop, workerVars, nicVars
  <2>2. Read' = Read /\ Filled' = Filled
    BY <2>1 DEF Read, Filled
  <2> QED BY <2>1, <2>2, OwnedSame
<1>4. ASSUME NEW n \in 1 .. MaxBurst, RxBurst(n) PROVE OwnInv'
  <2>1. /\ n \in Nat /\ n <= Len(nic_rx) /\ main = "rx" /\ main' = "distribute"
        /\ read_buffers' = FirstOf(nic_rx, n) /\ nic_rx' = Beyond(nic_rx, n)
        /\ UNCHANGED <<work_queue, nic_tx, pool, exhausted, worker, buffer>>
    BY <1>4, PipelineAssumption DEF RxBurst, workerVars, FirstOf, Beyond
  <2>2. Read' = Read /\ Filled' = Filled
    BY <2>1 DEF Read, Filled
  <2> SUFFICES ASSUME ~ exhausted, Owned PROVE Owned'
    BY <2>1 DEF OwnInv
  <2>3. OwnedBy(Read, work_queue, read_buffers, nic_rx, nic_tx, Filled, pool)
    BY DEF Owned
  <2>4. OwnedBy(Read, work_queue, read_buffers', nic_rx', nic_tx, Filled, pool)
    BY <1>1, <2>1, <2>3, OwnedRxBurst
  <2> QED BY <2>1, <2>2, <2>4, OwnedAfter
<1>5. CASE Distribute
  <2>1. /\ main = "distribute" /\ main' # "transmit"
        /\ UNCHANGED <<nic_rx, nic_tx, pool, exhausted, worker, buffer>>
    BY <1>5 DEF Distribute, workerVars, nicVars
  <2>2. Read' = Read /\ Filled' = Filled
    BY <2>1 DEF Read, Filled
  <2>3. CASE read_buffers = <<>>
    <3>1. UNCHANGED <<read_buffers, work_queue>>
      BY <1>5, <2>3 DEF Distribute
    <3> QED BY <2>1, <2>2, <3>1, OwnedSame
  <2>4. CASE read_buffers # <<>>
    <3>1. PICK e : e = Head(read_buffers)
      OBVIOUS
    <3>2. /\ read_buffers' = Tail(read_buffers)
          /\ work_queue' = work_queue \/ work_queue' = Added(work_queue, e)
      BY <1>5, <2>4, <3>1 DEF Distribute, Added
    <3> SUFFICES ASSUME ~ exhausted, Owned PROVE Owned'
      BY <2>1 DEF OwnInv
    <3>3. OwnedBy(Read, work_queue, read_buffers, nic_rx, nic_tx, Filled, pool)
      BY DEF Owned
    <3>4. OwnedBy(Read, work_queue', read_buffers', nic_rx, nic_tx, Filled, pool)
      BY <1>1, <2>4, <3>1, <3>2, <3>3, OwnedDistribute
    <3> QED BY <2>1, <2>2, <3>4, OwnedAfter
  <2> QED BY <2>3, <2>4
<1>6. ASSUME NEW n \in 0 .. 2, Transmit(n) PROVE OwnInv'
  <2>1. /\ main = "transmit" /\ main' = "rx"
        /\ UNCHANGED <<work_queue, read_buffers, nic_rx, pool, exhausted, worker, buffer>>
    BY <1>6 DEF Transmit, workerVars
  <2>2. Read' = Read /\ Filled' = <<>>
    BY <2>1 DEF Read, Filled
  <2>3. CASE out_buffers = <<>>
    <3>1. nic_tx' = nic_tx /\ Filled = <<>>
      BY <1>6, <2>3 DEF Transmit, Filled
    <3> QED BY <2>1, <2>2, <3>1, OwnedSame
  <2>4. CASE out_buffers # <<>>
    <3>1. Filled = write_buffers
      BY <2>1, <2>4 DEF Filled
    <3>2. PICK o \in Seq(Packets) :
            /\ nic_tx' = nic_tx \o o /\ MbufsIn(o) \subseteq ValuesIn(Filled)
            /\ DistinctValues(Filled) => Distinct(o)
      BY <1>6, <2>4, <3>1, OutgoingPackets
    <3> SUFFICES ASSUME ~ exhausted, Owned PROVE Owned'
      BY <2>1 DEF OwnInv
    <3>3. OwnedBy(Read, work_queue, read_buffers, nic_rx, nic_tx, Filled, pool)
      BY DEF Owned
    <3>4. Distinct(o)
      BY <3>2, <3>3 DEF OwnedBy
    <3>5. OwnedBy(Read, work_queue, read_buffers, nic_rx, nic_tx', <<>>, pool)
      BY <1>1, <3>2, <3>3, <3>4, OwnedTransmit
    <3> QED BY <2>1, <2>2, <3>5, OwnedAfter
  <2> QED BY <2>3, <2>4
<1> QED BY <1>2, <1>3, <1>4, <1>5, <1>6, AllocKeepsOwned DEF Offloader

\* All mbufs are free when the process starts.
LEMMA OwnedInit == Init => OwnInv
<1> SUFFICES ASSUME Init PROVE Owned
  BY DEF OwnInv
<1>1. /\ Read = <<>> /\ work_queue = <<>> /\ read_buffers = <<>> /\ nic_rx = <<>>
      /\ nic_tx = <<>> /\ Filled = <<>>
  BY DEF Init, InitBoot, Read, Filled
<1>2. AllApart({}, {}, {}, {}, {}, {}, pool)
  BY DEF AllApart, Apart
<1> QED BY <1>1, <1>2, SmallQueues DEF Owned, OwnedBy

\* Every step keeps the owners apart.
LEMMA OwnedNext == QInv /\ OwnInv /\ [Next]_vars => OwnInv'
<1> SUFFICES ASSUME QInv, OwnInv, [Next]_vars PROVE OwnInv'
  OBVIOUS
<1>1. RingInv /\ PlaceOK /\ FlowOK /\ SendOK
  BY DEF QInv
<1>2. ASSUME UNCHANGED pipeVars, main' = main \/ (main # "transmit" /\ main' # "transmit")
      PROVE  OwnInv'
  <2>1. UNCHANGED <<work_queue, read_buffers, out_buffers, write_buffers, nic_rx, nic_tx, pool,
                    exhausted, worker, buffer>>
    BY <1>2 DEF pipeVars, workerVars, nicVars
  <2>2. Read' = Read /\ Filled' = Filled
    BY <1>2, <2>1 DEF Read, Filled
  <2> QED BY <2>1, <2>2, OwnedSame
<1>3. CASE (Boot \/ Signal) /\ UNCHANGED pipeVars
  <2>1. main' = main \/ (main # "transmit" /\ main' # "transmit")
    BY <1>3 DEF Boot, Signal, InitEal, Exit, InitPort, PortsDone, LinkRound, LinkPort,
                LinkRoundEnd, NetStackInit, CheckReturns, BootPlaces
  <2> QED BY <1>2, <1>3, <2>1
<1>4. CASE Close
  BY <1>2, <1>4 DEF Close
<1>5. CASE UNCHANGED vars
  BY <1>2, <1>5 DEF vars
<1> QED BY <1>1, <1>3, <1>4, <1>5, OffloaderKeepsOwned, OthersKeepOwned DEF Next

\* Two sequences without repetition that have nothing in common.
LEMMA DistinctConcat ==
  ASSUME NEW S, NEW s \in Seq(S), NEW t \in Seq(S), DistinctValues(s), DistinctValues(t),
         Apart(ValuesIn(s), ValuesIn(t))
  PROVE  /\ s \o t \in Seq(S) /\ DistinctValues(s \o t)
         /\ ValuesIn(s \o t) \subseteq ValuesIn(s) \union ValuesIn(t)
<1>1. PICK u \in Seq(S) :
        /\ u = s \o t /\ Len(u) = Len(s) + Len(t) /\ DOMAIN u = 1 .. Len(u)
        /\ \A i \in 1 .. Len(s) : u[i] = s[i]
        /\ \A i \in 1 .. Len(u) : i > Len(s) => i - Len(s) \in 1 .. Len(t) /\ u[i] = t[i - Len(s)]
  <2>1. s \o t \in Seq(S) /\ Len(s \o t) = Len(s) + Len(t)
        /\ \A i \in 1 .. Len(s) + Len(t) :
             (s \o t)[i] = IF i <= Len(s) THEN s[i] ELSE t[i - Len(s)]
    OBVIOUS
  <2>2. \A i \in 1 .. Len(s) + Len(t) : i > Len(s) => i - Len(s) \in 1 .. Len(t)
    OBVIOUS
  <2>3. \A i \in 1 .. Len(s) : i \in 1 .. Len(s) + Len(t) /\ i <= Len(s)
    OBVIOUS
  <2>4. DOMAIN (s \o t) = 1 .. Len(s) + Len(t)
    OBVIOUS
  <2>5. \A i \in 1 .. Len(s) + Len(t) : i > Len(s) => ~ (i <= Len(s))
    OBVIOUS
  <2> QED BY <2>1, <2>2, <2>3, <2>4, <2>5
<1>2. /\ \A i \in 1 .. Len(s) : s[i] \in ValuesIn(s)
      /\ \A i \in 1 .. Len(t) : t[i] \in ValuesIn(t)
  BY DEF ValuesIn
<1>3. \A i \in 1 .. Len(u) : i \in 1 .. Len(s) \/ i > Len(s)
  BY <1>1
<1>4. ValuesIn(u) \subseteq ValuesIn(s) \union ValuesIn(t)
  <2>1. \A i \in DOMAIN u : u[i] \in ValuesIn(s) \union ValuesIn(t)
    BY <1>1, <1>2, <1>3
  <2>2. \A x \in ValuesIn(u) : \E i \in DOMAIN u : x = u[i]
    BY DEF ValuesIn
  <2> QED BY <2>1, <2>2
<1>5. DistinctValues(u)
  <2> SUFFICES ASSUME NEW i \in DOMAIN u, NEW j \in DOMAIN u, i # j
               PROVE  u[i] # u[j]
    BY Zenon DEF DistinctValues
  <2>0. i \in 1 .. Len(u) /\ j \in 1 .. Len(u) /\ i \in Int /\ j \in Int /\ Len(s) \in Nat
    BY <1>1
  <2>1. CASE i \in 1 .. Len(s) /\ j \in 1 .. Len(s)
    <3>1. s[i] # s[j]
      BY <2>1 DEF DistinctValues
    <3> QED BY <1>1, <2>1, <3>1
  <2>2. ASSUME NEW k \in 1 .. Len(s), NEW l \in 1 .. Len(u), l > Len(s)
        PROVE  u[k] # u[l]
    <3>1. u[k] \in ValuesIn(s) /\ u[l] \in ValuesIn(t)
      BY <1>1, <1>2, <2>2
    <3> QED BY <3>1 DEF Apart
  <2>3. CASE i > Len(s) /\ j > Len(s)
    <3>1. /\ i - Len(s) \in 1 .. Len(t) /\ u[i] = t[i - Len(s)]
          /\ j - Len(s) \in 1 .. Len(t) /\ u[j] = t[j - Len(s)]
      BY <1>1, <2>0, <2>3
    <3>2. i - Len(s) # j - Len(s)
      BY <2>0
    <3>3. i - Len(s) \in DOMAIN t /\ j - Len(s) \in DOMAIN t
      BY <3>1
    <3>4. t[i - Len(s)] # t[j - Len(s)]
      BY <3>2, <3>3 DEF DistinctValues
    <3> QED BY <3>1, <3>4
  <2> QED BY <1>3, <2>0, <2>1, <2>2, <2>3
<1> QED BY <1>1, <1>4, <1>5

\* The mbufs of a packet queue.
LEMMA MbufsOfQueue ==
  ASSUME NEW s \in Seq(Packets), Distinct(s)
  PROVE  /\ MbufsOf(s) \in Seq(Mbufs) /\ ValuesIn(MbufsOf(s)) = MbufsIn(s)
         /\ DistinctValues(MbufsOf(s))
<1>1. \A i \in DOMAIN s : s[i] \in Packets
  OBVIOUS
<1>2. PICK f : f = MbufsOf(s)
  OBVIOUS
<1>3. DOMAIN f = DOMAIN s /\ \A i \in DOMAIN s : f[i] = s[i].mbuf /\ f[i] \in Mbufs
  BY <1>1, <1>2 DEF MbufsOf, Packets
<1>4. f \in Seq(Mbufs)
  <2>1. f \in [1 .. Len(s) -> Mbufs]
    BY <1>2, <1>3 DEF MbufsOf
  <2> QED BY <2>1
<1>5. ValuesIn(f) = MbufsIn(s)
  BY <1>3 DEF ValuesIn, MbufsIn
<1>6. DistinctValues(f)
  BY <1>3 DEF Distinct, DistinctValues
<1> QED BY <1>2, <1>4, <1>5, <1>6

\* The holders in a row: none has an mbuf twice, none has a free one.
Links(a, b, c, d, e, f, p) ==
  /\ a \in Seq(Mbufs) /\ b \in Seq(Mbufs) /\ c \in Seq(Mbufs)
  /\ d \in Seq(Mbufs) /\ e \in Seq(Mbufs) /\ f \in Seq(Mbufs)
  /\ DistinctValues(a) /\ DistinctValues(b) /\ DistinctValues(c)
  /\ DistinctValues(d) /\ DistinctValues(e) /\ DistinctValues(f)
  /\ AllApart(ValuesIn(a), ValuesIn(b), ValuesIn(c), ValuesIn(d), ValuesIn(e), ValuesIn(f), p)

LEMMA OwnedChain ==
  ASSUME NEW a, NEW b, NEW c, NEW d, NEW e, NEW f, NEW p, Links(a, b, c, d, e, f, p)
  PROVE  /\ DistinctValues(a \o b \o c \o d \o e \o f)
         /\ Apart(ValuesIn(a \o b \o c \o d \o e \o f), p)
<1> USE DEF Links
<1>1. PICK ab : ab = a \o b
  OBVIOUS
<1>2. /\ ab \in Seq(Mbufs) /\ DistinctValues(ab)
      /\ ValuesIn(ab) \subseteq ValuesIn(a) \union ValuesIn(b)
  <2>1. Apart(ValuesIn(a), ValuesIn(b))
    BY DEF AllApart, Apart
  <2> QED BY <1>1, <2>1, DistinctConcat
<1>3. PICK ac : ac = ab \o c
  OBVIOUS
<1>4. /\ ac \in Seq(Mbufs) /\ DistinctValues(ac)
      /\ ValuesIn(ac) \subseteq ValuesIn(ab) \union ValuesIn(c)
  <2>1. Apart(ValuesIn(ab), ValuesIn(c))
    BY <1>2 DEF AllApart, Apart
  <2> QED BY <1>2, <1>3, <2>1, DistinctConcat
<1>5. PICK ad : ad = ac \o d
  OBVIOUS
<1>6. /\ ad \in Seq(Mbufs) /\ DistinctValues(ad)
      /\ ValuesIn(ad) \subseteq ValuesIn(ac) \union ValuesIn(d)
  <2>1. Apart(ValuesIn(ac), ValuesIn(d))
    BY <1>2, <1>4 DEF AllApart, Apart
  <2> QED BY <1>4, <1>5, <2>1, DistinctConcat
<1>7. PICK ae : ae = ad \o e
  OBVIOUS
<1>8. /\ ae \in Seq(Mbufs) /\ DistinctValues(ae)
      /\ ValuesIn(ae) \subseteq ValuesIn(ad) \union ValuesIn(e)
  <2>1. Apart(ValuesIn(ad), ValuesIn(e))
    BY <1>2, <1>4, <1>6 DEF AllApart, Apart
  <2> QED BY <1>6, <1>7, <2>1, DistinctConcat
<1>9. PICK af : af = ae \o f
  OBVIOUS
<1>10. /\ DistinctValues(af) /\ ValuesIn(af) \subseteq ValuesIn(ae) \union ValuesIn(f)
  <2>1. Apart(ValuesIn(ae), ValuesIn(f))
    BY <1>2, <1>4, <1>6, <1>8 DEF AllApart, Apart
  <2> QED BY <1>8, <1>9, <2>1, DistinctConcat
<1>11. Apart(ValuesIn(af), p)
  BY <1>2, <1>4, <1>6, <1>8, <1>10 DEF AllApart, Apart
<1> QED BY <1>1, <1>3, <1>5, <1>7, <1>9, <1>10, <1>11

(***************************************************************************)
(* Until the pool runs dry every mbuf has one owner, for every number of   *)
(* mbufs and every capacity of the rings: consume_tasks frees only what no *)
(* queue holds any more, and offloader_loop fills only what nobody else    *)
(* has.                                                                    *)
(***************************************************************************)
THEOREM MbufsStayOwnedOnce == Spec => []MbufOwnedOnce
<1>1. QInv /\ OwnInv => MbufOwnedOnce
  <2> SUFFICES ASSUME QInv, OwnInv, ~ exhausted PROVE OneOwner
    BY DEF MbufOwnedOnce
  <2>1. OwnedBy(Read, work_queue, read_buffers, nic_rx, nic_tx, Filled, pool)
    BY DEF OwnInv, Owned
  <2>2. /\ Read \in Seq(Packets) /\ work_queue \in Seq(Packets)
        /\ read_buffers \in Seq(Packets) /\ nic_rx \in Seq(Packets) /\ nic_tx \in Seq(Packets)
    BY FlowTypes, SendTypes DEF QInv
  <2>3. PICK h \in Seq(Packets) : h = InHand /\ Distinct(h) /\ MbufsIn(h) \subseteq MbufsIn(Read)
    <3>1. CASE InHand = <<>>
      BY <3>1, SmallQueues
    <3>2. CASE InHand # <<>>
      <4>1. InHand = Read /\ InHand = <<buffer>>
        BY <3>2 DEF QInv, PlaceOK, InHand, Read
      <4>2. Distinct(<<buffer>>)
        BY DEF Distinct
      <4> QED BY <2>2, <4>1, <4>2
    <3> QED BY <3>1, <3>2
  <2>4. PICK a \in Seq(Mbufs) : a = MbufsOf(h) /\ ValuesIn(a) = MbufsIn(h) /\ DistinctValues(a)
    BY <2>3, MbufsOfQueue
  <2>5. PICK b \in Seq(Mbufs) :
          b = MbufsOf(work_queue) /\ ValuesIn(b) = MbufsIn(work_queue) /\ DistinctValues(b)
    BY <2>1, <2>2, MbufsOfQueue DEF OwnedBy
  <2>6. PICK c \in Seq(Mbufs) :
          c = MbufsOf(read_buffers) /\ ValuesIn(c) = MbufsIn(read_buffers) /\ DistinctValues(c)
    BY <2>1, <2>2, MbufsOfQueue DEF OwnedBy
  <2>7. PICK d \in Seq(Mbufs) :
          d = MbufsOf(nic_rx) /\ ValuesIn(d) = MbufsIn(nic_rx) /\ DistinctValues(d)
    BY <2>1, <2>2, MbufsOfQueue DEF OwnedBy
  <2>8. PICK e \in Seq(Mbufs) :
          e = MbufsOf(nic_tx) /\ ValuesIn(e) = MbufsIn(nic_tx) /\ DistinctValues(e)
    BY <2>1, <2>2, MbufsOfQueue DEF OwnedBy
  <2>9. PICK f \in Seq(Mbufs) : f = Filled /\ DistinctValues(f)
    BY <2>1, SmallQueues DEF OwnedBy, QInv, PlaceOK, Filled
  <2>10. AllApart(ValuesIn(a), ValuesIn(b), ValuesIn(c), ValuesIn(d), ValuesIn(e), ValuesIn(f),
                  pool)
    <3>1. AllApart(MbufsIn(Read), ValuesIn(b), ValuesIn(c), ValuesIn(d), ValuesIn(e),
                   ValuesIn(f), pool)
      BY <2>1, <2>5, <2>6, <2>7, <2>8, <2>9 DEF OwnedBy
    <3> QED BY <2>3, <2>4, <3>1 DEF AllApart, Apart
  <2>11. PICK held : held = a \o b \o c \o d \o e \o f
    OBVIOUS
  <2>12. DistinctValues(held) /\ Apart(ValuesIn(held), pool)
    <3>1. Links(a, b, c, d, e, f, pool)
      BY <2>4, <2>5, <2>6, <2>7, <2>8, <2>9, <2>10, Zenon DEF Links
    <3>2. /\ DistinctValues(a \o b \o c \o d \o e \o f)
          /\ Apart(ValuesIn(a \o b \o c \o d \o e \o f), pool)
      BY <3>1, OwnedChain, Zenon
    <3> QED BY <2>11, <3>2, Zenon
  <2>13. Held = held
    BY <2>3, <2>4, <2>5, <2>6, <2>7, <2>8, <2>9, <2>11 DEF Held, Filled
  <2>14. \A i \in DOMAIN held : held[i] \in ValuesIn(held)
    BY DEF ValuesIn
  <2> QED BY <2>12, <2>13, <2>14 DEF OneOwner, DistinctValues, Apart
<1> QED BY <1>1, QueuesInit, QueuesNext, OwnedInit, OwnedNext, PTL DEF Spec
=============================================================================
