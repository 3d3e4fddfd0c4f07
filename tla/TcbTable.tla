------------------------------ MODULE TcbTable ------------------------------
(***************************************************************************)
(* The tables of TCP (socket.c): the handler's list of sockets and each    *)
(* socket's table of transmission control blocks, used by the worker       *)
(* (tcp_read and the state functions) and by application threads           *)
(* (tcp_add_socket, connect and send).                                     *)
(*                                                                         *)
(* Each function that takes tcb_list_lock is one step; what a thread does  *)
(* with the pointer it got happens later, in steps of its own.  A socket   *)
(* is its port.  Of a connection the model keeps what decides whether its  *)
(* block is stored, found or deleted.                                      *)
(***************************************************************************)
EXTENDS Naturals, Sequences, FiniteSets, FiniteSetsExt

CONSTANTS
  PortSpace,      \* 2^16
  Sockets,        \* ports the applications open
  Hosts, Ports,   \* remote addresses and ports
  Apps,           \* application threads
  FlagSets,       \* control bits of arriving segments
  ListSize,       \* SOCKET_BUFFER_SIZE
  NumTcb,         \* TCP_SOCKET_NUM_TCB
  ListMemory,     \* what malloc may leave in the list of sockets
  TableMemory,    \* ... and in a table of control blocks
  TcbBound,       \* bound: control blocks ever created
  Null, Wild      \* the pointer 0, and one that malloc left behind

ASSUME TableAssumption ==
  /\ PortSpace \in Nat \ {0} /\ ListSize \in Nat \ {0} /\ NumTcb \in Nat \ {0}
  /\ Sockets \union Ports \subseteq 0 .. PortSpace - 1 /\ Hosts \subseteq Nat
  /\ ListMemory \subseteq {Null, Wild} /\ TableMemory \subseteq {Null, Wild}
  /\ TcbBound \in Nat /\ Null \notin Nat /\ Wild \notin Nat /\ Null # Wild

VARIABLES
  tcp_sockets,          \* the handler's list, read up to its first 0
  created,              \* sockets that tcp_create_socket returned
  trans_control_block,  \* each socket's table
  tcbs,                 \* the control blocks ever created
  worker,               \* its place, the segment and the block it handles
  apps,                 \* each application thread's place and locals
  fault,                \* why the process died, or "none"
  dropped,              \* blocks that an add found no slot for
  reset                 \* connections that a segment deleted

vars == <<tcp_sockets, created, trans_control_block, tcbs, worker, apps, fault, dropped, reset>>

Places == 0 .. ListSize - 1
Slots == 1 .. NumTcb
Alive == fault = "none"
Segment == [from : Hosts, port : Ports, to : Sockets, flags : FlagSets]

IdleWorker == [pc |-> "idle", segment |-> Null, tcb |-> Null]
FreshApp == [pc |-> "ready", socket |-> Null, id |-> 0, tcb |-> Null, place |-> 0]

-----------------------------------------------------------------------------
(* Helpers *)

\* Mutation of ConnectionId: the remote port is shifted too far.
ConnectionIdNoPort(host, port, socket) ==
  ((host * PortSpace + port) * PortSpace * PortSpace + socket) % (PortSpace * PortSpace)

\* tcp_shared_calculate_connection_id: returned as uint32_t
ConnectionId(host, port, socket) ==
  ((host * PortSpace + port) * PortSpace + socket) % (PortSpace * PortSpace)

IdOf(segment) == ConnectionId(segment.from, segment.port, segment.to)

\* tcp_get_socket: it takes no lock
GetSocket(port) ==
  LET stops == {i \in Places : tcp_sockets[i] \in {Null, Wild, port}}
  IN  IF stops = {} THEN Null ELSE tcp_sockets[Min(stops)]

\* the slots at which a scan for `id` looks closer
Matches(socket, id) ==
  {i \in Slots : \/ trans_control_block[socket][i] = Wild
                 \/ /\ trans_control_block[socket][i] # Null
                    /\ tcbs[trans_control_block[socket][i]].id = id}

\* Mutation of GetTcb: the scan ends at the first empty slot.
GetTcbUpToGap(socket, id) ==
  LET stops == {i \in Slots : \/ trans_control_block[socket][i] = Null
                              \/ i \in Matches(socket, id)}
  IN  IF stops = {} THEN Null ELSE trans_control_block[socket][Min(stops)]

\* tcp_get_transmission_control_block: a wild pointer is dereferenced
GetTcb(socket, id) ==
  IF Matches(socket, id) = {}
  THEN Null ELSE trans_control_block[socket][Min(Matches(socket, id))]

EmptySlots(socket) == {i \in Slots : trans_control_block[socket][i] = Null}

\* Mutation of AddTcb: a full table gives up its last entry.
AddTcbReplaces(socket, tcb) ==
  LET slot == IF EmptySlots(socket) = {} THEN NumTcb ELSE Min(EmptySlots(socket))
  IN  /\ trans_control_block' = [trans_control_block EXCEPT ![socket][slot] = tcb]
      /\ UNCHANGED dropped

\* tcp_add_transmission_control_block: a full table is not reported
AddTcb(socket, tcb) ==
  IF EmptySlots(socket) = {}
  THEN dropped' = dropped \union {tcb} /\ UNCHANGED trans_control_block
  ELSE /\ trans_control_block' =
            [trans_control_block EXCEPT ![socket][Min(EmptySlots(socket))] = tcb]
       /\ UNCHANGED dropped

\* tcp_create_transmission_control_block and the add that follows it
CreateTcb(socket, host, port, state) ==
  /\ Len(tcbs) < TcbBound
  /\ tcbs' = Append(tcbs, [id |-> ConnectionId(host, port, socket), socket |-> socket,
                           remote_ipv4 |-> host, remote_port |-> port, state |-> state,
                           active |-> state = "SYN_SENT", syn_counted |-> FALSE,
                           live |-> TRUE])
  /\ AddTcb(socket, Len(tcbs) + 1)

\* Mutation of DeleteTcb: every connection of the socket is deleted.
DeleteTcbAll(socket, id) ==
  /\ tcbs' = [t \in DOMAIN tcbs |->
                IF \E i \in Slots : trans_control_block[socket][i] = t
                THEN [tcbs[t] EXCEPT !.live = FALSE] ELSE tcbs[t]]
  /\ trans_control_block' = [trans_control_block EXCEPT ![socket] = [i \in Slots |-> Null]]
  /\ reset' = reset \union {<<socket, id>>}
  /\ UNCHANGED fault

(***************************************************************************)
(* tcp_delete_transmission_control_block frees every block with the id.    *)
(* It looks at every slot, a wild pointer included, and tcb->lock, which   *)
(* it takes around the free, was never initialised.                        *)
(***************************************************************************)
DeleteTcb(socket, id) ==
  \/ /\ \A i \in Matches(socket, id) : trans_control_block[socket][i] # Wild
     /\ tcbs' = [t \in DOMAIN tcbs |->
                   IF \E i \in Matches(socket, id) : trans_control_block[socket][i] = t
                   THEN [tcbs[t] EXCEPT !.live = FALSE] ELSE tcbs[t]]
     /\ trans_control_block' =
          [trans_control_block EXCEPT ![socket] =
             [i \in Slots |-> IF i \in Matches(socket, id) THEN Null ELSE @[i]]]
     /\ reset' = reset \union {<<socket, id>>}
     /\ UNCHANGED fault
  \/ /\ Matches(socket, id) # {}
     /\ fault' = IF \E i \in Matches(socket, id) : trans_control_block[socket][i] = Wild
                 THEN "wild_pointer" ELSE "uninitialised_lock"
     /\ UNCHANGED <<tcbs, trans_control_block, reset>>

Dies(why) ==
  /\ fault' = why
  /\ UNCHANGED <<tcp_sockets, created, trans_control_block, tcbs, worker, apps, dropped, reset>>

-----------------------------------------------------------------------------
(* The worker: tcp_read.  A segment without a socket, and one without SYN  *)
(* and without a connection, is dropped.                                   *)

ReadWild(segment) ==
  /\ Alive /\ worker.pc = "idle"
  /\ LET socket == GetSocket(segment.to)
     IN  \/ socket = Wild
         \/ socket \in Sockets /\ GetTcb(socket, IdOf(segment)) = Wild
  /\ Dies("wild_pointer")

ReadExisting(segment) ==
  /\ Alive /\ worker.pc = "idle"
  /\ GetSocket(segment.to) \in Sockets
  /\ GetTcb(segment.to, IdOf(segment)) \in DOMAIN tcbs
  /\ worker' = [pc |-> "state", segment |-> segment,
                tcb |-> GetTcb(segment.to, IdOf(segment))]
  /\ UNCHANGED <<tcp_sockets, created, trans_control_block, tcbs, apps, fault, dropped, reset>>

\* the lookup found nothing; the new block is added under the lock taken anew
ReadMissing(segment) ==
  /\ Alive /\ worker.pc = "idle"
  /\ GetSocket(segment.to) \in Sockets
  /\ GetTcb(segment.to, IdOf(segment)) = Null /\ "SYN" \in segment.flags
  /\ worker' = [pc |-> "create", segment |-> segment, tcb |-> Null]
  /\ UNCHANGED <<tcp_sockets, created, trans_control_block, tcbs, apps, fault, dropped, reset>>

ReadCreate ==
  /\ Alive /\ worker.pc = "create"
  /\ CreateTcb(worker.segment.to, worker.segment.from, worker.segment.port, "LISTEN")
  /\ worker' = [worker EXCEPT !.pc = "state", !.tcb = Len(tcbs) + 1]
  /\ UNCHANGED <<tcp_sockets, created, apps, fault, reset>>

-----------------------------------------------------------------------------
(* The worker: what the state functions do to the tables *)

Has(flag) == flag \in worker.segment.flags
InState(state) == Alive /\ worker.pc = "state" /\ tcbs[worker.tcb].state = state

\* an acceptable acknowledgement is above the initial sequence number and at
\* most send_next, which connect increments after its write
AckAcceptable == Has("ACK") /\ tcbs[worker.tcb].syn_counted

StateDelete ==
  /\ \/ InState("LISTEN") /\ Has("RST")
     \/ InState("SYN_SENT") /\ Has("RST") /\ AckAcceptable
  /\ DeleteTcb(worker.segment.to, tcbs[worker.tcb].id)
  /\ worker' = IdleWorker
  /\ UNCHANGED <<tcp_sockets, created, apps, dropped>>

StateSyn ==
  /\ \/ InState("LISTEN") /\ ~ Has("RST") /\ ~ Has("ACK")
     \/ /\ InState("SYN_SENT") /\ ~ Has("RST") /\ Has("SYN")
        /\ Has("ACK") => AckAcceptable
  /\ tcbs' = [tcbs EXCEPT ![worker.tcb].state = "OTHERS"]
  /\ worker' = IdleWorker
  /\ UNCHANGED <<tcp_sockets, created, trans_control_block, apps, fault, dropped, reset>>

\* tcp_others, an acknowledgement that is not acceptable, or a block that is
\* not ready, which depends on sequence numbers: the tables stay as they are
StateOther ==
  /\ Alive /\ worker.pc = "state"
  /\ worker' = IdleWorker
  /\ UNCHANGED <<tcp_sockets, created, trans_control_block, tcbs, apps, fault, dropped, reset>>

-----------------------------------------------------------------------------
(* The application: tcp_create_socket and tcp_add_socket *)

At(a, pc) == Alive /\ apps[a].pc = pc
ListLocked == \E a \in Apps : apps[a].pc = "terminate"

\* a new table holds whatever malloc returned
CreateSocket(a, port) ==
  /\ At(a, "ready") /\ port \notin created
  /\ created' = created \union {port}
  /\ \E memory \in [Slots -> TableMemory] :
       trans_control_block' = [trans_control_block EXCEPT ![port] = memory]
  /\ apps' = [apps EXCEPT ![a].pc = "add_socket", ![a].socket = port]
  /\ UNCHANGED <<tcp_sockets, tcbs, worker, fault, dropped, reset>>

\* the last place is never used; when no other is empty the call returns false
AddSocket(a) ==
  LET empty == {i \in Places : i < ListSize - 1 /\ tcp_sockets[i] = Null}
  IN  /\ At(a, "add_socket") /\ ~ ListLocked
      /\ IF empty = {}
         THEN apps' = [apps EXCEPT ![a].pc = "ready"] /\ UNCHANGED tcp_sockets
         ELSE /\ tcp_sockets' = [tcp_sockets EXCEPT ![Min(empty)] = apps[a].socket]
              /\ apps' = [apps EXCEPT ![a].pc = "terminate", ![a].place = Min(empty)]
      /\ UNCHANGED <<created, trans_control_block, tcbs, worker, fault, dropped, reset>>

\* Mutation of TerminateList: the element behind the new socket is not set.
TerminateListNot(a) ==
  /\ At(a, "terminate")
  /\ apps' = [apps EXCEPT ![a] = [FreshApp EXCEPT !.socket = apps[a].socket]]
  /\ UNCHANGED <<tcp_sockets, created, trans_control_block, tcbs, worker, fault, dropped, reset>>

\* the element behind the new socket becomes the end of the list
TerminateList(a) ==
  /\ At(a, "terminate")
  /\ tcp_sockets' = [tcp_sockets EXCEPT ![apps[a].place + 1] = Null]
  /\ apps' = [apps EXCEPT ![a] = [FreshApp EXCEPT !.socket = apps[a].socket]]
  /\ UNCHANGED <<created, trans_control_block, tcbs, worker, fault, dropped, reset>>

-----------------------------------------------------------------------------
(* The application: tcp_socket_connect and tcp_socket_send *)

Connect(a, host, port) ==
  /\ At(a, "ready") /\ apps[a].socket # Null
  /\ CreateTcb(apps[a].socket, host, port, "SYN_SENT")
  /\ apps' = [apps EXCEPT ![a].pc = "write_syn", ![a].tcb = Len(tcbs) + 1,
                          ![a].id = ConnectionId(host, port, apps[a].socket)]
  /\ UNCHANGED <<tcp_sockets, created, worker, fault, reset>>

\* Mutation of WriteSyn: the id is returned whether or not the SYN was sent.
WriteSynUnchecked(a) ==
  LET found == GetTcb(apps[a].socket, apps[a].id)
  IN  /\ At(a, "write_syn") /\ found # Wild
      /\ apps' = [apps EXCEPT ![a].pc = "count_syn"]
      /\ UNCHANGED <<tcp_sockets, created, trans_control_block, tcbs, worker, fault, dropped,
                     reset>>

(***************************************************************************)
(* tcp_write looks the block up by its id; without one, or with the id 0,  *)
(* connect returns 0.                                                      *)
(***************************************************************************)
WriteSyn(a) ==
  LET found == IF apps[a].id = 0 THEN Null ELSE GetTcb(apps[a].socket, apps[a].id)
  IN  /\ At(a, "write_syn")
      /\ IF found = Wild
         THEN fault' = "wild_pointer" /\ UNCHANGED apps
         ELSE /\ apps' = [apps EXCEPT ![a] =
                            IF found = Null
                            THEN [FreshApp EXCEPT !.socket = apps[a].socket]
                            ELSE [@ EXCEPT !.pc = "count_syn"]]
              /\ UNCHANGED fault
      /\ UNCHANGED <<tcp_sockets, created, trans_control_block, tcbs, worker, dropped, reset>>

\* tcb->send_next++ through the pointer that connect has kept
CountSyn(a) ==
  /\ At(a, "count_syn")
  /\ IF tcbs[apps[a].tcb].live
     THEN tcbs' = [tcbs EXCEPT ![apps[a].tcb].syn_counted = TRUE] /\ UNCHANGED fault
     ELSE fault' = "use_after_free" /\ UNCHANGED tcbs
  /\ apps' = [apps EXCEPT ![a].pc = "connected", ![a].tcb = Null]
  /\ UNCHANGED <<tcp_sockets, created, trans_control_block, worker, dropped, reset>>

\* the result of the lookup is used as it is
SendLookup(a) ==
  LET found == GetTcb(apps[a].socket, apps[a].id)
  IN  /\ At(a, "connected")
      /\ IF found \in {Null, Wild}
         THEN /\ fault' = IF found = Null THEN "null_tcb" ELSE "wild_pointer"
              /\ UNCHANGED apps
         ELSE apps' = [apps EXCEPT ![a].pc = "send", ![a].tcb = found] /\ UNCHANGED fault
      /\ UNCHANGED <<tcp_sockets, created, trans_control_block, tcbs, worker, dropped, reset>>

\* active_mode_args of the block; only connect sets them
SendWrite(a) ==
  /\ At(a, "send")
  /\ fault' = IF ~ tcbs[apps[a].tcb].live THEN "use_after_free"
              ELSE IF ~ tcbs[apps[a].tcb].active THEN "no_handlers" ELSE fault
  /\ apps' = [apps EXCEPT ![a].pc = "connected", ![a].tcb = Null]
  /\ UNCHANGED <<tcp_sockets, created, trans_control_block, tcbs, worker, dropped, reset>>

\* the application turns to another connection or another socket
Leave(a) ==
  /\ At(a, "connected")
  /\ apps' = [apps EXCEPT ![a] = [FreshApp EXCEPT !.socket = apps[a].socket]]
  /\ UNCHANGED <<tcp_sockets, created, trans_control_block, tcbs, worker, fault, dropped, reset>>

-----------------------------------------------------------------------------

Init ==
  /\ tcp_sockets \in [Places -> ListMemory] /\ created = {}
  /\ trans_control_block = [socket \in Sockets |-> [i \in Slots |-> Null]]
  /\ tcbs = <<>> /\ worker = IdleWorker /\ apps = [a \in Apps |-> FreshApp]
  /\ fault = "none" /\ dropped = {} /\ reset = {}

Worker ==
  \/ \E segment \in Segment :
       ReadWild(segment) \/ ReadExisting(segment) \/ ReadMissing(segment)
  \/ ReadCreate \/ StateDelete \/ StateSyn \/ StateOther

Application(a) ==
  \/ \E port \in Sockets : CreateSocket(a, port)
  \/ AddSocket(a) \/ TerminateList(a)
  \/ \E host \in Hosts, port \in Ports : Connect(a, host, port)
  \/ WriteSyn(a) \/ CountSyn(a) \/ SendLookup(a) \/ SendWrite(a) \/ Leave(a)

Next == Worker \/ \E a \in Apps : Application(a)

Spec == Init /\ [][Next]_vars
-----------------------------------------------------------------------------
(* Properties *)

Pointer == Nat \union {Null, Wild}
Stored == UNION {{trans_control_block[socket][i] : i \in Slots} : socket \in Sockets}

\* Every variable has its type; a table holds blocks that were created.
TypeOK ==
  /\ tcp_sockets \in [Places -> Sockets \union {Null, Wild}] /\ created \subseteq Sockets
  /\ trans_control_block \in [Sockets -> [Slots -> DOMAIN tcbs \union {Null, Wild}]]
  /\ \A t \in DOMAIN tcbs : tcbs[t].id \in 0 .. PortSpace * PortSpace - 1
  /\ worker.pc \in {"idle", "create", "state"} /\ worker.tcb \in DOMAIN tcbs \union {Null}
  /\ \A a \in Apps :
       /\ apps[a].pc \in {"ready", "add_socket", "terminate", "write_syn", "count_syn",
                          "connected", "send"}
       /\ apps[a].tcb \in DOMAIN tcbs \union {Null} /\ apps[a].place \in Places
  /\ dropped \subseteq DOMAIN tcbs

(***************************************************************************)
(* Every pointer that a table holds is to a block that has not been freed, *)
(* belongs to that socket and is in no other slot: adding fills one slot   *)
(* and deleting clears every slot of what it frees.                        *)
(***************************************************************************)
StoredOnce ==
  \A socket \in Sockets, i \in Slots :
    LET t == trans_control_block[socket][i]
    IN  t \in DOMAIN tcbs =>
          /\ tcbs[t].live /\ tcbs[t].socket = socket
          /\ \A other \in Sockets, j \in Slots :
               trans_control_block[other][j] = t => other = socket /\ j = i

(***************************************************************************)
(* tcp_read looks up and adds under two separate locks.  Even so it never  *)
(* stores a second block for a connection that it opened, also after       *)
(* deletions have left gaps in the table; only connect makes duplicates.   *)
(***************************************************************************)
PassiveUnique ==
  \A socket \in Sockets : \A i, j \in Slots :
    LET t == trans_control_block[socket][i]
        u == trans_control_block[socket][j]
    IN  i # j /\ {t, u} \subseteq DOMAIN tcbs /\ tcbs[t].id = tcbs[u].id
          => tcbs[t].active \/ tcbs[u].active

(***************************************************************************)
(* The tables are consistent whatever the threads do: typed, every live    *)
(* block in one slot, and no second block for a passive connection.        *)
(***************************************************************************)
TablesConsistent == TypeOK /\ StoredOnce /\ PassiveUnique

(***************************************************************************)
(* A block that is in no table any more has been freed: connections are    *)
(* lost, and their memory with them, only by an add to a full table.       *)
(***************************************************************************)
LostOnlyWhenFull ==
  \A t \in DOMAIN tcbs : tcbs[t].live => t \in Stored \/ t \in dropped

(***************************************************************************)
(* Between connect and a reset of the same connection, send finds a block  *)
(* for the id that connect returned, whatever else was added or deleted.   *)
(***************************************************************************)
FoundUntilReset ==
  \A a \in Apps :
    apps[a].pc \in {"count_syn", "connected", "send"}
      => \/ Matches(apps[a].socket, apps[a].id) # {}
         \/ <<apps[a].socket, apps[a].id>> \in reset

(***************************************************************************)
(* The block that tcp_read's state function works on stays allocated until *)
(* the worker itself deletes it; the block that connect or send holds is   *)
(* only ever freed by a reset of that connection.                          *)
(***************************************************************************)
HeldBlockLive ==
  /\ worker.tcb # Null => tcbs[worker.tcb].live
  /\ \A a \in Apps : apps[a].tcb # Null =>
       tcbs[apps[a].tcb].live \/ <<apps[a].socket, apps[a].id>> \in reset

(***************************************************************************)
(* The truncated id still tells ports apart: a segment is handled by a     *)
(* block of its own pair of ports.                                         *)
(***************************************************************************)
SamePorts ==
  worker.tcb # Null =>
    /\ tcbs[worker.tcb].remote_port = worker.segment.port
    /\ tcbs[worker.tcb].socket = worker.segment.to

(***************************************************************************)
(* If the first element of the list was 0 to begin with, then outside      *)
(* tcp_add_socket a scan finds every listed socket and ends before it      *)
(* meets memory that was never set, also when the list is full.            *)
(***************************************************************************)
SocketListUsable ==
  tcp_sockets[0] # Wild /\ ~ ListLocked =>
    \A port \in Sockets :
      GetSocket(port) = IF \E i \in Places : tcp_sockets[i] = port THEN port ELSE Null

-----------------------------------------------------------------------------
(* What the code's comments say, and the code does not do *)

(***************************************************************************)
(* tcp.c:76 says of the id that "This function assumes that destination id *)
(* always is the same", so that the source tells connections apart: a      *)
(* segment is handled by the block of the host that sent it.               *)
(***************************************************************************)
OwnConnection == worker.tcb # Null => tcbs[worker.tcb].remote_ipv4 = worker.segment.from

(***************************************************************************)
(* socket.c:104: "Deletes the given transmission control block": of two    *)
(* blocks one stays, so that what connect holds outlives the reset of      *)
(* another connection.                                                     *)
(***************************************************************************)
NoUseAfterFree == fault # "use_after_free"

(***************************************************************************)
(* socket.c:152: tcp_add_socket is "Called by other libraries to open a    *)
(* tcp connection on a specific port", from any thread: a scan that runs   *)
(* beside it ends.                                                         *)
(***************************************************************************)
ScanEnds == tcp_sockets[0] # Wild => \A port \in Sockets : GetSocket(port) # Wild
=============================================================================
