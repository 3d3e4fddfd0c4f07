-------------------------- MODULE TcbTable_proofs --------------------------
(***************************************************************************)
(* What the tables of TCP keep, for every number of sockets, connections,  *)
(* threads, slots and hosts, and whatever memory malloc returned.          *)
(***************************************************************************)
EXTENDS TcbTable, WellFoundedInduction, TLAPS

TcbRecord ==
  [id : 0 .. PortSpace * PortSpace - 1, socket : Sockets, remote_ipv4 : Hosts,
   remote_port : Ports, state : {"LISTEN", "SYN_SENT", "OTHERS"}, active : BOOLEAN,
   syn_counted : BOOLEAN, live : BOOLEAN]

WorkerRecord ==
  [pc : {"idle", "create", "state"}, segment : Segment \union {Null},
   tcb : DOMAIN tcbs \union {Null}]

AppRecord ==
  [pc : {"ready", "add_socket", "terminate", "write_syn", "count_syn", "connected", "send"},
   socket : created \union {Null}, id : Nat, tcb : DOMAIN tcbs \union {Null}, place : Places]

(***************************************************************************)
(* The inductive invariant.  The tables: a socket that was not created yet *)
(* has an empty one, and every block that was not freed is stored or was   *)
(* dropped.                                                                *)
(***************************************************************************)
TablesOK ==
  /\ created \subseteq Sockets
  /\ trans_control_block \in [Sockets -> [Slots -> DOMAIN tcbs \union {Null, Wild}]]
  /\ tcbs \in Seq(TcbRecord) /\ dropped \subseteq DOMAIN tcbs
  /\ \A socket \in Sockets \ created, i \in Slots : trans_control_block[socket][i] = Null
  /\ StoredOnce /\ LostOnlyWhenFull

ListOK == tcp_sockets \in [Places -> created \union {Null, Wild}]

\* no block of tcp_read's own making is stored for the connection
NoPassive(socket, id) ==
  \A i \in Slots :
    LET t == trans_control_block[socket][i]
    IN  t \in DOMAIN tcbs /\ tcbs[t].id = id => tcbs[t].active

WorkerOK ==
  /\ worker \in WorkerRecord
  /\ worker.pc # "state" => worker.tcb = Null
  /\ worker.pc # "idle" => worker.segment \in Segment /\ worker.segment.to \in created
  /\ worker.pc = "create" => NoPassive(worker.segment.to, IdOf(worker.segment))
  /\ worker.pc = "state" => worker.tcb # Null /\ tcbs[worker.tcb].live

\* the block that connect or send holds is one of their connection
AppOK(a) ==
  /\ apps[a] \in AppRecord
  /\ apps[a].pc # "ready" => apps[a].socket # Null
  /\ apps[a].pc \in {"ready", "add_socket", "terminate", "connected"} => apps[a].tcb = Null
  /\ apps[a].pc \in {"write_syn", "count_syn", "send"} => apps[a].tcb # Null
  /\ apps[a].pc = "terminate" => apps[a].place < ListSize - 1
  /\ apps[a].tcb # Null =>
       /\ tcbs[apps[a].tcb].id = apps[a].id /\ tcbs[apps[a].tcb].socket = apps[a].socket
       /\ tcbs[apps[a].tcb].live \/ <<apps[a].socket, apps[a].id>> \in reset

AppsOK == DOMAIN apps = Apps /\ \A a \in Apps : AppOK(a)

TInv == TablesOK /\ ListOK /\ PassiveUnique /\ WorkerOK /\ AppsOK /\ FoundUntilReset

-----------------------------------------------------------------------------
(* The helpers *)

\* A set of slots or places that is not empty has a first one.
LEMMA MinIsMember ==
  ASSUME NEW S, S \subseteq Nat, S # {}
  PROVE  Min(S) \in S
<1>1. PICK x \in S : \A y \in S : <<y, x>> \notin OpToRel(<, Nat)
  BY NatLessThanWellFounded, WFMin
<1>2. \A y \in S : ~ (y < x)
  BY <1>1 DEF OpToRel
<1>3. \A y \in S : x <= y
  BY <1>2
<1> QED BY <1>3 DEF Min

\* An id is a 32-bit number.
LEMMA ConnectionIdType ==
  ASSUME NEW host \in Hosts, NEW port \in Ports, NEW socket \in Sockets
  PROVE  /\ ConnectionId(host, port, socket) \in 0 .. PortSpace * PortSpace - 1
         /\ ConnectionId(host, port, socket) \in Nat
<1> DEFINE P == PortSpace
<1>1. P \in Nat /\ P > 0 /\ host \in Nat /\ port \in Nat /\ socket \in Nat
  BY TableAssumption
<1>2. P * P \in Nat /\ P * P > 0
  BY <1>1
<1>3. host * P + port \in Nat
  BY <1>1
<1>4. (host * P + port) * P + socket \in Nat
  BY <1>1, <1>3
<1> DEFINE n == (host * P + port) * P + socket
           q == P * P
<1>5. n \in Nat /\ q \in Nat /\ q > 0
  BY <1>2, <1>4
<1> HIDE DEF n, q
<1>6. n % q \in 0 .. q - 1 /\ n % q \in Nat
  BY <1>5
<1> QED BY <1>6 DEF ConnectionId, n, q

\* tcp_get_transmission_control_block returns what a matching slot holds.
LEMMA GetTcbFinds ==
  ASSUME NEW socket \in Sockets, NEW id
  PROVE  \/ GetTcb(socket, id) = Null /\ Matches(socket, id) = {}
         \/ \E i \in Matches(socket, id) : GetTcb(socket, id) = trans_control_block[socket][i]
<1>1. CASE Matches(socket, id) = {}
  BY <1>1 DEF GetTcb
<1>2. CASE Matches(socket, id) # {}
  <2>1. Matches(socket, id) \subseteq Nat
    BY DEF Matches, Slots
  <2>2. Min(Matches(socket, id)) \in Matches(socket, id)
    BY <1>2, <2>1, MinIsMember
  <2> QED BY <1>2, <2>2 DEF GetTcb
<1> QED BY <1>1, <1>2

\* tcp_get_socket returns a socket of the list, or nothing, or memory never set.
LEMMA GetSocketFinds ==
  ASSUME ListOK, NEW port \in Sockets, GetSocket(port) \in Sockets
  PROVE  port \in created /\ GetSocket(port) = port
<1> DEFINE stops == {i \in Places : tcp_sockets[i] \in {Null, Wild, port}}
<1>1. stops \subseteq Nat
  BY TableAssumption DEF Places
<1>2. Null \notin Sockets /\ Wild \notin Sockets
  BY TableAssumption
<1>3. stops # {}
  BY <1>2 DEF GetSocket
<1>4. Min(stops) \in stops
  BY <1>1, <1>3, MinIsMember
<1>5. GetSocket(port) = tcp_sockets[Min(stops)]
  BY <1>3 DEF GetSocket
<1> QED BY <1>2, <1>4, <1>5 DEF ListOK

-----------------------------------------------------------------------------
(* What a new block does to the tables *)

\* The new block is the last one; the old ones are what they were.
NewBlock(socket, id, active, new) ==
  /\ tcbs' \in Seq(TcbRecord)
  /\ DOMAIN tcbs' = DOMAIN tcbs \union {new} /\ new \in Nat /\ new \notin DOMAIN tcbs
  /\ \A t \in DOMAIN tcbs : tcbs'[t] = tcbs[t]
  /\ tcbs'[new].id = id /\ tcbs'[new].socket = socket
  /\ tcbs'[new].active = active /\ tcbs'[new].live = TRUE

\* At most one slot changes, from 0 to the new block; without it the block is dropped.
NewSlot(socket, new) ==
  \/ dropped' = dropped \union {new} /\ UNCHANGED trans_control_block
  \/ /\ UNCHANGED dropped
     /\ \E slot \in Slots :
          /\ trans_control_block[socket][slot] = Null
          /\ trans_control_block' = [trans_control_block EXCEPT ![socket][slot] = new]

\* What tcp_create_transmission_control_block and the add do, in these terms.
LEMMA CreateFacts ==
  ASSUME TablesOK, NEW socket \in created, NEW host \in Hosts, NEW port \in Ports,
         NEW state \in {"LISTEN", "SYN_SENT"}, CreateTcb(socket, host, port, state),
         NEW new, new = Len(tcbs) + 1
  PROVE  /\ NewBlock(socket, ConnectionId(host, port, socket), state = "SYN_SENT", new)
         /\ NewSlot(socket, new)
<1> DEFINE tcb == [id |-> ConnectionId(host, port, socket), socket |-> socket,
                   remote_ipv4 |-> host, remote_port |-> port, state |-> state,
                   active |-> state = "SYN_SENT", syn_counted |-> FALSE, live |-> TRUE]
<1>1. socket \in Sockets /\ tcbs \in Seq(TcbRecord)
  BY DEF TablesOK
<1>2. ConnectionId(host, port, socket) \in 0 .. PortSpace * PortSpace - 1
  BY <1>1, ConnectionIdType
<1>3. tcb \in TcbRecord
  BY <1>1, <1>2 DEF TcbRecord
<1>4. tcbs' = Append(tcbs, tcb)
  BY DEF CreateTcb
<1> HIDE DEF tcb
<1>5. /\ tcbs' \in Seq(TcbRecord) /\ DOMAIN tcbs' = DOMAIN tcbs \union {new}
      /\ new \in Nat /\ new \notin DOMAIN tcbs
      /\ \A t \in DOMAIN tcbs : tcbs'[t] = tcbs[t]
      /\ tcbs'[new] = tcb
  BY <1>1, <1>3, <1>4
<1>6. NewSlot(socket, new)
  <2>1. CASE EmptySlots(socket) = {}
    BY <2>1 DEF CreateTcb, AddTcb, NewSlot
  <2>2. CASE EmptySlots(socket) # {}
    <3>1. EmptySlots(socket) \subseteq Nat
      BY DEF EmptySlots, Slots
    <3>2. Min(EmptySlots(socket)) \in EmptySlots(socket)
      BY <2>2, <3>1, MinIsMember
    <3>3. UNCHANGED dropped
      BY <2>2 DEF CreateTcb, AddTcb
    <3>4. trans_control_block' =
            [trans_control_block EXCEPT ![socket][Min(EmptySlots(socket))] = new]
      BY <2>2 DEF CreateTcb, AddTcb
    <3> QED BY <3>2, <3>3, <3>4 DEF EmptySlots, NewSlot
  <2> QED BY <2>1, <2>2
<1>7. /\ tcb.id = ConnectionId(host, port, socket) /\ tcb.socket = socket
      /\ tcb.active = (state = "SYN_SENT") /\ tcb.live = TRUE
  BY DEF tcb
<1> QED BY <1>5, <1>6, <1>7 DEF NewBlock

\* The tables stay in order when a block is created.
LEMMA CreateKeeps ==
  ASSUME TablesOK, NEW socket \in created, NEW id, NEW active, NEW new,
         NewBlock(socket, id, active, new), NewSlot(socket, new), UNCHANGED created
  PROVE  TablesOK'
<1>1. /\ tcbs' \in Seq(TcbRecord)
      /\ DOMAIN tcbs' = DOMAIN tcbs \union {new} /\ new \in Nat /\ new \notin DOMAIN tcbs
      /\ \A t \in DOMAIN tcbs : tcbs'[t] = tcbs[t]
      /\ tcbs'[new].socket = socket /\ tcbs'[new].live = TRUE
  BY DEF NewBlock
<1>2. new # Null /\ new # Wild
  BY <1>1, TableAssumption
<1>3. socket \in Sockets /\ created \subseteq Sockets
  BY DEF TablesOK
<1>4. trans_control_block \in [Sockets -> [Slots -> DOMAIN tcbs \union {Null, Wild}]]
  BY DEF TablesOK
<1>5. CASE dropped' = dropped \union {new} /\ UNCHANGED trans_control_block
  <2>1. StoredOnce'
    BY <1>1, <1>2, <1>4, <1>5 DEF TablesOK, StoredOnce
  <2>2. LostOnlyWhenFull'
    BY <1>1, <1>5 DEF TablesOK, LostOnlyWhenFull, Stored
  <2> QED BY <1>1, <1>3, <1>4, <1>5, <2>1, <2>2 DEF TablesOK
<1>6. ASSUME UNCHANGED dropped, NEW slot \in Slots, trans_control_block[socket][slot] = Null,
             trans_control_block' = [trans_control_block EXCEPT ![socket][slot] = new]
      PROVE  TablesOK'
  <2>1. \A s \in Sockets, i \in Slots :
          trans_control_block'[s][i] =
            IF s = socket /\ i = slot THEN new ELSE trans_control_block[s][i]
    BY <1>3, <1>4, <1>6
  <2>2. trans_control_block' \in [Sockets -> [Slots -> DOMAIN tcbs' \union {Null, Wild}]]
    BY <1>1, <1>3, <1>4, <1>6
  <2>3. \A s \in Sockets, i \in Slots : trans_control_block[s][i] # new
    BY <1>1, <1>2, <1>4
  <2>4. StoredOnce'
    BY <1>1, <1>2, <1>4, <2>1, <2>3 DEF TablesOK, StoredOnce
  <2>5. LostOnlyWhenFull'
    <3> SUFFICES ASSUME NEW t \in DOMAIN tcbs', tcbs'[t].live, t \notin dropped
                 PROVE  \E s \in Sockets, i \in Slots : trans_control_block'[s][i] = t
      BY <1>6 DEF LostOnlyWhenFull, Stored
    <3>1. CASE t = new
      BY <1>3, <2>1, <3>1
    <3>2. CASE t \in DOMAIN tcbs
      <4>1. PICK s \in Sockets, i \in Slots : trans_control_block[s][i] = t
        BY <1>1, <3>2 DEF TablesOK, LostOnlyWhenFull, Stored
      <4>2. t # Null
        BY <1>1, <3>2, TableAssumption DEF TablesOK
      <4> QED BY <1>6, <2>1, <4>1, <4>2
    <3> QED BY <1>1, <3>1, <3>2
  <2>6. \A s \in Sockets \ created', i \in Slots : trans_control_block'[s][i] = Null
    BY <2>1 DEF TablesOK
  <2> QED BY <1>1, <1>3, <1>6, <2>2, <2>4, <2>5, <2>6 DEF TablesOK
<1> QED BY <1>5, <1>6 DEF NewSlot

-----------------------------------------------------------------------------
(* What a step leaves to the threads that do not take it *)

BlocksKept ==
  /\ tcbs' \in Seq(TcbRecord) /\ DOMAIN tcbs \subseteq DOMAIN tcbs'
  /\ created \subseteq created' /\ reset \subseteq reset'
  /\ \A t \in DOMAIN tcbs :
       /\ tcbs'[t].id = tcbs[t].id /\ tcbs'[t].socket = tcbs[t].socket
       /\ tcbs[t].live => tcbs'[t].live \/ <<tcbs[t].socket, tcbs[t].id>> \in reset'

MatchesKept ==
  \A socket \in created, id \in Nat :
    Matches(socket, id) # {} => Matches(socket, id)' # {} \/ <<socket, id>> \in reset'

\* ... to the worker: nothing that it relies on is freed or added
WorkerSafe ==
  /\ \A t \in DOMAIN tcbs : tcbs[t].live => tcbs'[t].live
  /\ \A socket \in created, id \in Nat : NoPassive(socket, id) => NoPassive(socket, id)'

\* one application's part of FoundUntilReset
AppFound(a) ==
  apps[a].pc \in {"count_syn", "connected", "send"}
    => \/ Matches(apps[a].socket, apps[a].id) # {}
       \/ <<apps[a].socket, apps[a].id>> \in reset

\* A thread that takes no part in the step keeps its pointer and its id.
LEMMA OtherAppsKept ==
  ASSUME TInv, BlocksKept, MatchesKept, NEW a \in Apps, apps'[a] = apps[a]
  PROVE  AppOK(a)' /\ AppFound(a)'
<1>1. AppOK(a) /\ AppFound(a)
  BY DEF TInv, AppsOK, FoundUntilReset, AppFound
<1>2. AppOK(a)'
  <2>1. apps[a].tcb # Null => apps[a].tcb \in DOMAIN tcbs
    BY <1>1 DEF AppOK, AppRecord
  <2> QED BY <1>1, <2>1 DEF AppOK, AppRecord, BlocksKept
<1>3. AppFound(a)'
  <2> SUFFICES ASSUME apps[a].pc \in {"count_syn", "connected", "send"}
               PROVE  \/ Matches(apps[a].socket, apps[a].id)' # {}
                      \/ <<apps[a].socket, apps[a].id>> \in reset'
    BY DEF AppFound
  <2>1. PICK socket, id : socket = apps[a].socket /\ id = apps[a].id
    OBVIOUS
  <2>2. socket \in created /\ id \in Nat
    BY <1>1, <2>1 DEF AppOK, AppRecord
  <2>3. Matches(socket, id) # {} \/ <<socket, id>> \in reset
    BY <1>1, <2>1 DEF AppFound
  <2>4. Matches(socket, id)' # {} \/ <<socket, id>> \in reset'
    BY <2>2, <2>3 DEF MatchesKept, BlocksKept
  <2> QED BY <2>1, <2>4
<1> QED BY <1>2, <1>3

\* So does the worker in a step of an application.
LEMMA WorkerKept ==
  ASSUME TInv, BlocksKept, WorkerSafe, UNCHANGED worker
  PROVE  WorkerOK'
<1>1. WorkerOK
  BY DEF TInv
<1>2. worker \in WorkerRecord'
  BY <1>1 DEF WorkerOK, WorkerRecord, BlocksKept
<1>3. worker.pc # "idle" => worker.segment \in Segment /\ worker.segment.to \in created'
  BY <1>1 DEF WorkerOK, BlocksKept
<1>4. ASSUME worker.pc = "create"
      PROVE  NoPassive(worker.segment.to, IdOf(worker.segment))'
  <2>1. PICK segment \in Segment : segment = worker.segment
    BY <1>1, <1>4 DEF WorkerOK
  <2>2. NoPassive(segment.to, IdOf(segment)) /\ segment.to \in created
    BY <1>1, <1>4, <2>1 DEF WorkerOK
  <2>3. IdOf(segment) \in Nat
    BY ConnectionIdType DEF IdOf, Segment
  <2>4. NoPassive(segment.to, IdOf(segment))'
    BY <2>2, <2>3 DEF WorkerSafe, IdOf, ConnectionId
  <2> QED BY <2>1, <2>4
<1>5. worker.pc = "state" => worker.tcb # Null /\ tcbs'[worker.tcb].live
  BY <1>1 DEF WorkerOK, WorkerRecord, WorkerSafe
<1> QED BY <1>1, <1>2, <1>3, <1>4, <1>5 DEF WorkerOK

\* A step that leaves the blocks and the tables alone.
LEMMA StableKeeps ==
  ASSUME TInv, UNCHANGED <<created, trans_control_block, tcbs, dropped, reset>>
  PROVE  TablesOK' /\ PassiveUnique' /\ BlocksKept /\ MatchesKept /\ WorkerSafe
<1>1. TablesOK /\ PassiveUnique
  BY DEF TInv
<1>2. TablesOK'
  BY <1>1 DEF TablesOK, StoredOnce, LostOnlyWhenFull, Stored
<1>3. PassiveUnique'
  BY <1>1 DEF PassiveUnique
<1>4. BlocksKept
  BY <1>1 DEF BlocksKept, TablesOK
<1>5. MatchesKept
  BY DEF MatchesKept, Matches
<1>6. WorkerSafe
  BY DEF WorkerSafe, NoPassive
<1> QED BY <1>2, <1>3, <1>4, <1>5, <1>6

\* A step that writes a field of a block that no table depends on.
FieldWritten ==
  /\ tcbs' \in Seq(TcbRecord) /\ DOMAIN tcbs' = DOMAIN tcbs
  /\ \A t \in DOMAIN tcbs :
       /\ tcbs'[t].id = tcbs[t].id /\ tcbs'[t].socket = tcbs[t].socket
       /\ tcbs'[t].active = tcbs[t].active /\ tcbs'[t].live = tcbs[t].live

\* Neither the tables nor what the threads rely on depend on such a field.
LEMMA FieldKeeps ==
  ASSUME TInv, FieldWritten, UNCHANGED <<created, trans_control_block, dropped, reset>>
  PROVE  TablesOK' /\ PassiveUnique' /\ BlocksKept /\ MatchesKept /\ WorkerSafe
<1>1. TablesOK /\ PassiveUnique
  BY DEF TInv
<1>2. trans_control_block \in [Sockets -> [Slots -> DOMAIN tcbs \union {Null, Wild}]]
  BY <1>1 DEF TablesOK
<1>3. TablesOK'
  <2>1. StoredOnce'
    BY <1>1 DEF TablesOK, StoredOnce, FieldWritten
  <2>2. LostOnlyWhenFull'
    BY <1>1 DEF TablesOK, LostOnlyWhenFull, Stored, FieldWritten
  <2> QED BY <1>1, <2>1, <2>2 DEF TablesOK, FieldWritten
<1>4. PassiveUnique'
  BY <1>1 DEF PassiveUnique, FieldWritten
<1>5. BlocksKept
  BY <1>1 DEF BlocksKept, FieldWritten
<1>6. MatchesKept
  <2>1. \A socket \in created, i \in Slots :
          \/ trans_control_block[socket][i] \in {Null, Wild}
          \/ trans_control_block[socket][i] \in DOMAIN tcbs
    BY <1>1, <1>2 DEF TablesOK
  <2>2. ASSUME NEW socket \in created, NEW id \in Nat
        PROVE  Matches(socket, id) \subseteq Matches(socket, id)'
    BY <2>1 DEF Matches, FieldWritten
  <2> QED BY <2>2 DEF MatchesKept
<1>7. WorkerSafe
  BY DEF WorkerSafe, NoPassive, FieldWritten
<1> QED BY <1>3, <1>4, <1>5, <1>6, <1>7

-----------------------------------------------------------------------------
(* A new block, seen by the other threads *)

\* Slot by slot: what the tables hold after an add.
LEMMA NewSlotValues ==
  ASSUME TablesOK, NEW socket \in created, NEW new, NewSlot(socket, new),
         NEW id, NEW active, NewBlock(socket, id, active, new)
  PROVE  /\ \A s \in Sockets, i \in Slots :
              \/ trans_control_block'[s][i] = trans_control_block[s][i]
              \/ /\ s = socket /\ trans_control_block[s][i] = Null
                 /\ trans_control_block'[s][i] = new
         /\ \A s \in Sockets, i \in Slots :
              trans_control_block[s][i] \in DOMAIN tcbs \union {Null, Wild}
         /\ \A i, j \in Slots :
              trans_control_block'[socket][i] = new /\ trans_control_block'[socket][j] = new
                => i = j
<1>1. trans_control_block \in [Sockets -> [Slots -> DOMAIN tcbs \union {Null, Wild}]]
  BY DEF TablesOK
<1>2. socket \in Sockets
  BY DEF TablesOK
<1>3. new \notin DOMAIN tcbs \union {Null, Wild}
  BY TableAssumption DEF NewBlock
<1>4. CASE UNCHANGED trans_control_block
  BY <1>1, <1>2, <1>3, <1>4
<1>5. CASE \E slot \in Slots :
             /\ trans_control_block[socket][slot] = Null
             /\ trans_control_block' = [trans_control_block EXCEPT ![socket][slot] = new]
  BY <1>1, <1>2, <1>3, <1>5
<1> QED BY <1>4, <1>5 DEF NewSlot

\* An add takes nothing from another thread.
LEMMA CreateBlocksKept ==
  ASSUME TablesOK, NEW socket \in created, NEW id, NEW active, NEW new,
         NewBlock(socket, id, active, new), NewSlot(socket, new), UNCHANGED <<created, reset>>
  PROVE  BlocksKept /\ MatchesKept
<1>1. BlocksKept
  BY DEF BlocksKept, NewBlock
<1>2. MatchesKept
  <2>1. ASSUME NEW s \in created, NEW i \in Slots, trans_control_block[s][i] # Null
        PROVE  /\ trans_control_block'[s][i] = trans_control_block[s][i]
               /\ trans_control_block[s][i] \in DOMAIN tcbs \union {Wild}
    BY <2>1, NewSlotValues DEF TablesOK
  <2>2. ASSUME NEW s \in created, NEW other \in Nat
        PROVE  Matches(s, other) \subseteq Matches(s, other)'
    <3> SUFFICES ASSUME NEW i \in Matches(s, other) PROVE i \in Matches(s, other)'
      OBVIOUS
    <3>1. i \in Slots /\ trans_control_block[s][i] # Null
      BY TableAssumption DEF Matches
    <3> QED BY <2>1, <3>1 DEF Matches, NewBlock
  <2> QED BY <2>2 DEF MatchesKept
<1> QED BY <1>1, <1>2

\* connect's block is active: what the worker found missing stays missing.
LEMMA ConnectWorkerSafe ==
  ASSUME TablesOK, NEW socket \in created, NEW id, NEW active, NEW new,
         NewBlock(socket, id, active, new), NewSlot(socket, new), tcbs'[new].active
  PROVE  WorkerSafe
<1>0. \A s \in Sockets, i \in Slots :
        /\ trans_control_block[s][i] \in DOMAIN tcbs \union {Null, Wild}
        /\ \/ trans_control_block'[s][i] = trans_control_block[s][i]
           \/ /\ s = socket /\ trans_control_block[s][i] = Null
              /\ trans_control_block'[s][i] = new
  BY NewSlotValues
<1>1. ASSUME NEW s \in created, NEW other \in Nat, NoPassive(s, other)
      PROVE  NoPassive(s, other)'
  <2> SUFFICES ASSUME NEW i \in Slots, trans_control_block'[s][i] \in DOMAIN tcbs',
                      tcbs'[trans_control_block'[s][i]].id = other
               PROVE  tcbs'[trans_control_block'[s][i]].active
    BY DEF NoPassive
  <2>1. s \in Sockets
    BY DEF TablesOK
  <2>2. CASE trans_control_block'[s][i] = new
    BY <2>2 DEF NewBlock
  <2>3. CASE trans_control_block'[s][i] # new
    BY <1>0, <1>1, <2>1, <2>3 DEF NoPassive, NewBlock
  <2> QED BY <2>2, <2>3
<1> QED BY <1>1 DEF WorkerSafe, NewBlock

\* A second block for a connection is connect's.
LEMMA CreateUnique ==
  ASSUME TablesOK, PassiveUnique, NEW socket \in created, NEW id, NEW active,
         NEW new, NewBlock(socket, id, active, new), NewSlot(socket, new),
         tcbs'[new].active \/ NoPassive(socket, id)
  PROVE  PassiveUnique'
<1> SUFFICES ASSUME NEW s \in Sockets, NEW i \in Slots, NEW j \in Slots, NEW t, NEW u,
                    t = trans_control_block'[s][i], u = trans_control_block'[s][j],
                    i # j, t \in DOMAIN tcbs', u \in DOMAIN tcbs', tcbs'[t].id = tcbs'[u].id
             PROVE  tcbs'[t].active \/ tcbs'[u].active
  BY DEF PassiveUnique
<1>0. \A r \in Sockets, k \in Slots :
        /\ trans_control_block[r][k] \in DOMAIN tcbs \union {Null, Wild}
        /\ \/ trans_control_block'[r][k] = trans_control_block[r][k]
           \/ /\ r = socket /\ trans_control_block[r][k] = Null
              /\ trans_control_block'[r][k] = new
  BY NewSlotValues
<1>1. /\ t # new => t = trans_control_block[s][i] /\ t \in DOMAIN tcbs
      /\ u # new => u = trans_control_block[s][j] /\ u \in DOMAIN tcbs
  BY <1>0 DEF NewBlock
<1>2. /\ t = new => s = socket
      /\ u = new => s = socket
  BY <1>0, TableAssumption DEF NewBlock
<1>3. ~ (t = new /\ u = new)
  BY <1>2, NewSlotValues
<1>4. CASE t # new /\ u # new
  BY <1>1, <1>4 DEF PassiveUnique, NewBlock
<1>5. CASE t = new /\ u # new
  BY <1>1, <1>2, <1>5 DEF NoPassive, NewBlock
<1>6. CASE t # new /\ u = new
  BY <1>1, <1>2, <1>6 DEF NoPassive, NewBlock
<1> QED BY <1>3, <1>4, <1>5, <1>6

-----------------------------------------------------------------------------
(* A deleted connection *)

\* Every slot of the connection is cleared and what it held is freed.
Deleted(socket, id) ==
  /\ trans_control_block' \in [Sockets -> [Slots -> DOMAIN tcbs \union {Null, Wild}]]
  /\ \A s \in Sockets, i \in Slots :
       trans_control_block'[s][i] =
         IF s = socket /\ i \in Matches(socket, id) THEN Null ELSE trans_control_block[s][i]
  /\ tcbs' \in Seq(TcbRecord) /\ DOMAIN tcbs' = DOMAIN tcbs
  /\ \A t \in DOMAIN tcbs :
       /\ tcbs'[t].id = tcbs[t].id /\ tcbs'[t].socket = tcbs[t].socket
       /\ tcbs'[t].active = tcbs[t].active
       /\ tcbs'[t].live <=> /\ tcbs[t].live
                            /\ \A i \in Matches(socket, id) : trans_control_block[socket][i] # t
  /\ reset' = reset \union {<<socket, id>>}

\* What tcp_delete_transmission_control_block does, in these terms, unless it dies.
LEMMA DeleteFacts ==
  ASSUME TablesOK, NEW socket \in created, NEW id, DeleteTcb(socket, id)
  PROVE  \/ UNCHANGED <<tcbs, trans_control_block, reset>>
         \/ /\ Deleted(socket, id)
            /\ \A i \in Matches(socket, id) : trans_control_block[socket][i] # Wild
<1> DEFINE gone(t) == \E i \in Matches(socket, id) : trans_control_block[socket][i] = t
<1>1. /\ socket \in Sockets /\ tcbs \in Seq(TcbRecord)
      /\ trans_control_block \in [Sockets -> [Slots -> DOMAIN tcbs \union {Null, Wild}]]
  BY DEF TablesOK
<1> SUFFICES ASSUME tcbs' = [t \in DOMAIN tcbs |->
                               IF gone(t) THEN [tcbs[t] EXCEPT !.live = FALSE] ELSE tcbs[t]],
                    trans_control_block' =
                      [trans_control_block EXCEPT ![socket] =
                         [i \in Slots |-> IF i \in Matches(socket, id) THEN Null ELSE @[i]]],
                    reset' = reset \union {<<socket, id>>}
             PROVE  Deleted(socket, id)
  BY DEF DeleteTcb
<1>2. \A t \in DOMAIN tcbs : tcbs[t] \in TcbRecord
  BY <1>1
<1>3. \A t \in DOMAIN tcbs :
        /\ tcbs'[t] \in TcbRecord
        /\ tcbs'[t].id = tcbs[t].id /\ tcbs'[t].socket = tcbs[t].socket
        /\ tcbs'[t].active = tcbs[t].active
        /\ tcbs'[t].live <=> tcbs[t].live /\ ~ gone(t)
  <2> TAKE t \in DOMAIN tcbs
  <2>1. CASE gone(t)
    <3>1. tcbs'[t] = [tcbs[t] EXCEPT !.live = FALSE]
      BY <2>1
    <3> QED BY <1>2, <2>1, <3>1 DEF TcbRecord
  <2>2. CASE ~ gone(t)
    <3>1. tcbs'[t] = tcbs[t]
      BY <2>2
    <3> QED BY <1>2, <2>2, <3>1 DEF TcbRecord
  <2> QED BY <2>1, <2>2
<1>4. DOMAIN tcbs' = DOMAIN tcbs /\ tcbs' \in Seq(TcbRecord)
  <2>1. Len(tcbs) \in Nat /\ DOMAIN tcbs = 1 .. Len(tcbs)
    BY <1>1
  <2>2. tcbs' \in [1 .. Len(tcbs) -> TcbRecord]
    BY <1>3, <2>1
  <2> QED BY <2>1, <2>2
<1>5. \A s \in Sockets, i \in Slots :
        trans_control_block'[s][i] =
          IF s = socket /\ i \in Matches(socket, id) THEN Null ELSE trans_control_block[s][i]
  BY <1>1
<1>6. trans_control_block' \in [Sockets -> [Slots -> DOMAIN tcbs \union {Null, Wild}]]
  BY <1>1
<1> QED BY <1>3, <1>4, <1>5, <1>6 DEF Deleted

\* A deletion leaves the tables in order and takes from others only what it reset.
LEMMA DeleteKeeps ==
  ASSUME TablesOK, PassiveUnique, NEW socket \in created, NEW id, Deleted(socket, id),
         \A i \in Matches(socket, id) : trans_control_block[socket][i] # Wild,
         UNCHANGED <<created, dropped>>
  PROVE  TablesOK' /\ PassiveUnique' /\ BlocksKept /\ MatchesKept
<1>1. /\ socket \in Sockets /\ created \subseteq Sockets
      /\ trans_control_block \in [Sockets -> [Slots -> DOMAIN tcbs \union {Null, Wild}]]
      /\ \A t \in DOMAIN tcbs : t # Null /\ t # Wild
  BY TableAssumption DEF TablesOK
<1>2. \A i \in Matches(socket, id) :
        /\ i \in Slots /\ trans_control_block[socket][i] \in DOMAIN tcbs
        /\ tcbs[trans_control_block[socket][i]].id = id
  BY <1>1 DEF Matches
<1>3. StoredOnce'
  <2> SUFFICES ASSUME NEW s \in Sockets, NEW i \in Slots, NEW t \in DOMAIN tcbs,
                      trans_control_block'[s][i] = t
               PROVE  /\ tcbs'[t].live /\ tcbs'[t].socket = s
                      /\ \A other \in Sockets, j \in Slots :
                           trans_control_block'[other][j] = t => other = s /\ j = i
    BY DEF StoredOnce, Deleted
  <2>1. t # Null
    BY <1>1
  <2>2. trans_control_block[s][i] = t /\ ~ (s = socket /\ i \in Matches(socket, id))
    BY <2>1 DEF Deleted
  <2>3. /\ tcbs[t].live /\ tcbs[t].socket = s
        /\ \A other \in Sockets, j \in Slots :
             trans_control_block[other][j] = t => other = s /\ j = i
    BY <2>2 DEF TablesOK, StoredOnce
  <2>4. \A other \in Sockets, j \in Slots :
          trans_control_block'[other][j] = t => trans_control_block[other][j] = t
    BY <2>1 DEF Deleted
  <2>5. \A k \in Matches(socket, id) : trans_control_block[socket][k] # t
    BY <1>1, <1>2, <2>2, <2>3
  <2>6. tcbs'[t].live /\ tcbs'[t].socket = s
    BY <2>3, <2>5 DEF Deleted
  <2> QED BY <2>3, <2>4, <2>6
<1>4. LostOnlyWhenFull'
  <2> SUFFICES ASSUME NEW t \in DOMAIN tcbs, tcbs'[t].live, t \notin dropped
               PROVE  \E s \in Sockets, i \in Slots : trans_control_block'[s][i] = t
    BY DEF LostOnlyWhenFull, Stored, Deleted
  <2>1. tcbs[t].live /\ \A i \in Matches(socket, id) : trans_control_block[socket][i] # t
    BY DEF Deleted
  <2>2. PICK s \in Sockets, i \in Slots : trans_control_block[s][i] = t
    BY <2>1 DEF TablesOK, LostOnlyWhenFull, Stored
  <2> QED BY <2>1, <2>2 DEF Deleted
<1>5. TablesOK'
  <2>1. \A s \in Sockets \ created, i \in Slots : trans_control_block'[s][i] = Null
    BY DEF TablesOK, Deleted
  <2> QED BY <1>1, <1>3, <1>4, <2>1 DEF TablesOK, Deleted
<1>6. PassiveUnique'
  <2> SUFFICES ASSUME NEW s \in Sockets, NEW i \in Slots, NEW j \in Slots, i # j,
                      NEW t \in DOMAIN tcbs, NEW u \in DOMAIN tcbs,
                      t = trans_control_block'[s][i], u = trans_control_block'[s][j],
                      tcbs'[t].id = tcbs'[u].id
               PROVE  tcbs'[t].active \/ tcbs'[u].active
    BY DEF PassiveUnique, Deleted
  <2>1. t = trans_control_block[s][i] /\ u = trans_control_block[s][j]
    BY <1>1 DEF Deleted
  <2>2. tcbs[t].id = tcbs[u].id
    BY DEF Deleted
  <2>3. tcbs[t].active \/ tcbs[u].active
    BY <2>1, <2>2 DEF PassiveUnique
  <2> QED BY <2>3 DEF Deleted
<1>7. BlocksKept
  <2> SUFFICES ASSUME NEW t \in DOMAIN tcbs, tcbs[t].live, ~ tcbs'[t].live
               PROVE  <<tcbs[t].socket, tcbs[t].id>> \in reset'
    BY DEF BlocksKept, Deleted
  <2>1. PICK i \in Matches(socket, id) : trans_control_block[socket][i] = t
    BY DEF Deleted
  <2>2. tcbs[t].id = id /\ tcbs[t].socket = socket
    BY <1>1, <1>2, <2>1 DEF TablesOK, StoredOnce
  <2> QED BY <2>2 DEF Deleted
<1>8. MatchesKept
  <2> SUFFICES ASSUME NEW s \in created, NEW other \in Nat, <<s, other>> # <<socket, id>>,
                      NEW i \in Matches(s, other)
               PROVE  i \in Matches(s, other)'
    BY DEF MatchesKept, Deleted
  <2>1. i \in Slots /\ s \in Sockets
    BY <1>1 DEF Matches
  <2>2. ~ (s = socket /\ i \in Matches(socket, id))
    BY <1>1, <1>2, <2>1 DEF Matches
  <2>3. trans_control_block'[s][i] = trans_control_block[s][i]
    BY <2>1, <2>2 DEF Deleted
  <2>4. trans_control_block[s][i] \in DOMAIN tcbs \union {Wild}
    BY <1>1, <2>1, TableAssumption DEF Matches
  <2>5. CASE trans_control_block[s][i] = Wild
    BY <2>1, <2>3, <2>5 DEF Matches
  <2>6. ASSUME trans_control_block[s][i] \in DOMAIN tcbs, trans_control_block[s][i] # Wild
        PROVE  i \in Matches(s, other)'
    <3>1. trans_control_block[s][i] # Null /\ tcbs[trans_control_block[s][i]].id = other
      BY <2>6 DEF Matches
    <3>2. tcbs'[trans_control_block[s][i]].id = other
      BY <2>6, <3>1 DEF Deleted
    <3> QED BY <2>1, <2>3, <3>1, <3>2 DEF Matches
  <2> QED BY <2>4, <2>5, <2>6
<1> QED BY <1>5, <1>6, <1>7, <1>8

-----------------------------------------------------------------------------
(* A new socket: its table was empty *)

\* tcp_create_socket overwrites no block, whatever malloc returned.
LEMMA SocketKeeps ==
  ASSUME TInv, NEW port \in Sockets, port \notin created, created' = created \union {port},
         NEW memory \in [Slots -> TableMemory],
         trans_control_block' = [trans_control_block EXCEPT ![port] = memory],
         UNCHANGED <<tcbs, dropped, reset>>
  PROVE  TablesOK' /\ PassiveUnique' /\ BlocksKept /\ MatchesKept /\ WorkerSafe
<1>1. /\ TablesOK /\ PassiveUnique
      /\ trans_control_block \in [Sockets -> [Slots -> DOMAIN tcbs \union {Null, Wild}]]
  BY DEF TInv, TablesOK
<1>2. \A t \in DOMAIN tcbs : t # Null /\ t # Wild
  BY <1>1, TableAssumption DEF TablesOK
<1>3. \A i \in Slots : memory[i] \in {Null, Wild} /\ trans_control_block[port][i] = Null
  BY <1>1, TableAssumption DEF TablesOK
<1>4. \A s \in Sockets, i \in Slots :
        trans_control_block'[s][i] = IF s = port THEN memory[i] ELSE trans_control_block[s][i]
  BY <1>1
<1>5. TablesOK'
  <2>1. trans_control_block' \in [Sockets -> [Slots -> DOMAIN tcbs \union {Null, Wild}]]
    BY <1>1, <1>3
  <2>2. StoredOnce'
    BY <1>1, <1>2, <1>3, <1>4 DEF TablesOK, StoredOnce
  <2>3. LostOnlyWhenFull'
    <3> SUFFICES ASSUME NEW t \in DOMAIN tcbs, tcbs[t].live, t \notin dropped
                 PROVE  \E s \in Sockets, i \in Slots : trans_control_block'[s][i] = t
      BY DEF LostOnlyWhenFull, Stored
    <3>1. PICK s \in Sockets, i \in Slots : trans_control_block[s][i] = t
      BY <1>1 DEF TablesOK, LostOnlyWhenFull, Stored
    <3> QED BY <1>2, <1>3, <1>4, <3>1
  <2>4. \A s \in Sockets \ created', i \in Slots : trans_control_block'[s][i] = Null
    BY <1>1, <1>4 DEF TablesOK
  <2> QED BY <1>1, <2>1, <2>2, <2>3, <2>4 DEF TablesOK
<1>6. PassiveUnique'
  BY <1>1, <1>2, <1>3, <1>4 DEF PassiveUnique
<1>7. BlocksKept
  BY <1>1 DEF BlocksKept, TablesOK
<1>8. \A s \in created : s \in Sockets /\ s # port
  BY <1>1 DEF TablesOK
<1>9. MatchesKept
  BY <1>4, <1>8 DEF MatchesKept, Matches
<1>10. WorkerSafe
  BY <1>4, <1>8 DEF WorkerSafe, NoPassive
<1> QED BY <1>5, <1>6, <1>7, <1>9, <1>10

-----------------------------------------------------------------------------
(* The steps *)

\* A step of one application, or of none, leaves the others as they were.
LEMMA AppsAssembled ==
  ASSUME TInv, BlocksKept, MatchesKept, DOMAIN apps' = Apps,
         \A b \in Apps : apps'[b] = apps[b] \/ (AppOK(b)' /\ AppFound(b)')
  PROVE  AppsOK' /\ FoundUntilReset'
<1>1. \A b \in Apps : AppOK(b)' /\ AppFound(b)'
  BY OtherAppsKept
<1> QED BY <1>1 DEF AppsOK, FoundUntilReset, AppFound

\* What a step of the worker has to show.
LEMMA WorkerStep ==
  ASSUME TInv, BlocksKept, MatchesKept, TablesOK', PassiveUnique', WorkerOK',
         UNCHANGED <<tcp_sockets, created, apps>>
  PROVE  TInv'
<1>1. AppsOK' /\ FoundUntilReset'
  <2>1. DOMAIN apps' = Apps
    BY DEF TInv, AppsOK
  <2> QED BY <2>1, AppsAssembled
<1>2. ListOK'
  BY DEF TInv, ListOK
<1> QED BY <1>1, <1>2 DEF TInv

\* What a step of an application has to show.
LEMMA AppStep ==
  ASSUME TInv, NEW a \in Apps, BlocksKept, MatchesKept, WorkerSafe, TablesOK', PassiveUnique',
         UNCHANGED worker, ListOK', DOMAIN apps' = Apps,
         \A b \in Apps \ {a} : apps'[b] = apps[b], AppOK(a)', AppFound(a)'
  PROVE  TInv'
<1>1. AppsOK' /\ FoundUntilReset'
  <2>1. \A b \in Apps : apps'[b] = apps[b] \/ (AppOK(b)' /\ AppFound(b)')
    OBVIOUS
  <2> QED BY <2>1, AppsAssembled
<1>2. WorkerOK'
  BY WorkerKept
<1> QED BY <1>1, <1>2 DEF TInv

\* tcp_read up to its lookup: the block it found was not freed, or there is none.
LEMMA ReadKeeps ==
  ASSUME TInv, NEW segment \in Segment,
         ReadWild(segment) \/ ReadExisting(segment) \/ ReadMissing(segment)
  PROVE  TInv'
<1>1. UNCHANGED <<tcp_sockets, created, trans_control_block, tcbs, apps, dropped, reset>>
  BY DEF ReadWild, ReadExisting, ReadMissing, Dies
<1>2. TablesOK' /\ PassiveUnique' /\ BlocksKept /\ MatchesKept /\ WorkerSafe
  BY <1>1, StableKeeps
<1>3. /\ TablesOK /\ ListOK /\ WorkerOK
      /\ trans_control_block \in [Sockets -> [Slots -> DOMAIN tcbs \union {Null, Wild}]]
  BY DEF TInv, TablesOK
<1>4. segment.to \in Sockets
  BY DEF Segment
<1>5. CASE ReadWild(segment)
  <2>1. WorkerOK'
    BY <1>2, <1>5, WorkerKept DEF ReadWild, Dies
  <2> QED BY <1>1, <1>2, <2>1, WorkerStep
<1>6. CASE ReadExisting(segment)
  <2>1. segment.to \in created
    BY <1>3, <1>4, <1>6, GetSocketFinds DEF ReadExisting
  <2>2. PICK t \in DOMAIN tcbs : t = GetTcb(segment.to, IdOf(segment))
    BY <1>6 DEF ReadExisting
  <2>3. \E i \in Slots : trans_control_block[segment.to][i] = t
    <3>1. t # Null
      BY <1>3, TableAssumption DEF TablesOK
    <3> QED BY <1>4, <2>2, <3>1, GetTcbFinds DEF Matches
  <2>4. tcbs[t].live /\ t # Null
    BY <1>3, <1>4, <2>3, TableAssumption DEF TablesOK, StoredOnce
  <2>5. worker' = [pc |-> "state", segment |-> segment, tcb |-> t]
    BY <1>6, <2>2 DEF ReadExisting
  <2>6. WorkerOK'
    BY <1>1, <2>1, <2>4, <2>5 DEF WorkerOK, WorkerRecord
  <2> QED BY <1>1, <1>2, <2>6, WorkerStep
<1>7. CASE ReadMissing(segment)
  <2>1. segment.to \in created
    BY <1>3, <1>4, <1>7, GetSocketFinds DEF ReadMissing
  <2>2. Matches(segment.to, IdOf(segment)) = {}
    <3>1. GetTcb(segment.to, IdOf(segment)) = Null
      BY <1>7 DEF ReadMissing
    <3>2. \A i \in Matches(segment.to, IdOf(segment)) :
            trans_control_block[segment.to][i] # Null
      BY TableAssumption DEF Matches
    <3> QED BY <1>4, <3>1, <3>2, GetTcbFinds
  <2>3. NoPassive(segment.to, IdOf(segment))
    <3>1. \A t \in DOMAIN tcbs : t # Null
      BY <1>3, TableAssumption DEF TablesOK
    <3> QED BY <2>2, <3>1 DEF NoPassive, Matches
  <2>4. worker' = [pc |-> "create", segment |-> segment, tcb |-> Null]
    BY <1>7 DEF ReadMissing
  <2>5. NoPassive(segment.to, IdOf(segment))'
    BY <1>1, <2>3 DEF NoPassive, IdOf, ConnectionId
  <2>6. WorkerOK'
    BY <1>1, <2>1, <2>4, <2>5 DEF WorkerOK, WorkerRecord
  <2> QED BY <1>1, <1>2, <2>6, WorkerStep
<1> QED BY <1>5, <1>6, <1>7

\* tcp_read adds a block: since its lookup only connect can have added one.
LEMMA ReadCreateKeeps == TInv /\ ReadCreate => TInv'
<1> SUFFICES ASSUME TInv, ReadCreate PROVE TInv'
  OBVIOUS
<1>1. TablesOK /\ WorkerOK /\ PassiveUnique
  BY DEF TInv
<1>2. worker.pc = "create" /\ worker.segment \in Segment
  BY <1>1 DEF ReadCreate, WorkerOK
<1>3. PICK segment \in Segment : segment = worker.segment
  BY <1>2
<1>4. PICK new : new = Len(tcbs) + 1
  OBVIOUS
<1>5. segment.to \in created /\ segment.from \in Hosts /\ segment.port \in Ports
  BY <1>1, <1>2, <1>3 DEF WorkerOK, Segment
<1>6. CreateTcb(segment.to, segment.from, segment.port, "LISTEN")
  BY <1>3 DEF ReadCreate
<1>7. /\ NewBlock(segment.to, IdOf(segment), "LISTEN" = "SYN_SENT", new)
      /\ NewSlot(segment.to, new)
  BY <1>1, <1>4, <1>5, <1>6, CreateFacts DEF IdOf
<1>8. UNCHANGED <<tcp_sockets, created, apps, reset>>
  BY DEF ReadCreate
<1>9. TablesOK'
  BY <1>1, <1>5, <1>7, <1>8, CreateKeeps
<1>10. BlocksKept /\ MatchesKept
  BY <1>1, <1>5, <1>7, <1>8, CreateBlocksKept
<1>11. PassiveUnique'
  <2>1. NoPassive(segment.to, IdOf(segment))
    BY <1>1, <1>2, <1>3 DEF WorkerOK
  <2> QED BY <1>1, <1>5, <1>7, <2>1, CreateUnique
<1>12. WorkerOK'
  <2>1. worker' = [worker EXCEPT !.pc = "state", !.tcb = new]
    BY <1>4 DEF ReadCreate
  <2>2. new \in DOMAIN tcbs' /\ new # Null /\ tcbs'[new].live
    BY <1>7, TableAssumption DEF NewBlock
  <2>3. worker \in WorkerRecord
    BY <1>1 DEF WorkerOK
  <2>4. worker' \in WorkerRecord'
    BY <2>1, <2>2, <2>3 DEF WorkerRecord
  <2>5. worker'.pc = "state" /\ worker'.tcb = new /\ worker'.segment = segment
    BY <1>3, <2>1, <2>3 DEF WorkerRecord
  <2> QED BY <1>5, <1>8, <2>2, <2>4, <2>5 DEF WorkerOK
<1> QED BY <1>8, <1>9, <1>10, <1>11, <1>12, WorkerStep

\* Between segments the worker relies on nothing.
LEMMA IdleWorkerOK == worker' = IdleWorker => WorkerOK'
  BY DEF WorkerOK, WorkerRecord, IdleWorker

\* A reset deletes the connection and ends the worker's use of it.
LEMMA StateDeleteKeeps == TInv /\ StateDelete => TInv'
<1> SUFFICES ASSUME TInv, StateDelete PROVE TInv'
  OBVIOUS
<1>1. TablesOK /\ WorkerOK /\ PassiveUnique
  BY DEF TInv
<1>2. PICK socket, id : socket = worker.segment.to /\ id = tcbs[worker.tcb].id
  OBVIOUS
<1>3. socket \in created
  BY <1>1, <1>2 DEF StateDelete, InState, WorkerOK
<1>4. DeleteTcb(socket, id)
  BY <1>2 DEF StateDelete
<1>5. UNCHANGED <<tcp_sockets, created, apps, dropped>> /\ WorkerOK'
  BY IdleWorkerOK DEF StateDelete
<1>6. \/ UNCHANGED <<tcbs, trans_control_block, reset>>
      \/ /\ Deleted(socket, id)
         /\ \A i \in Matches(socket, id) : trans_control_block[socket][i] # Wild
  BY <1>1, <1>3, <1>4, DeleteFacts
<1>7. TablesOK' /\ PassiveUnique' /\ BlocksKept /\ MatchesKept
  <2>1. CASE UNCHANGED <<tcbs, trans_control_block, reset>>
    BY <1>5, <2>1, StableKeeps
  <2>2. CASE /\ Deleted(socket, id)
             /\ \A i \in Matches(socket, id) : trans_control_block[socket][i] # Wild
    BY <1>1, <1>3, <1>5, <2>2, DeleteKeeps
  <2> QED BY <1>6, <2>1, <2>2
<1> QED BY <1>5, <1>7, WorkerStep

\* A SYN moves the connection on.
LEMMA StateSynKeeps == TInv /\ StateSyn => TInv'
<1> SUFFICES ASSUME TInv, StateSyn PROVE TInv'
  OBVIOUS
<1>1. tcbs \in Seq(TcbRecord) /\ worker.tcb \in DOMAIN tcbs
  BY DEF TInv, TablesOK, WorkerOK, WorkerRecord, StateSyn, InState
<1>2. FieldWritten
  <2>1. tcbs[worker.tcb] \in TcbRecord
    BY <1>1
  <2>2. [tcbs[worker.tcb] EXCEPT !.state = "OTHERS"] \in TcbRecord
    BY <2>1 DEF TcbRecord
  <2>3. tcbs' = [tcbs EXCEPT ![worker.tcb] = [tcbs[worker.tcb] EXCEPT !.state = "OTHERS"]]
    BY DEF StateSyn
  <2>4. tcbs' \in Seq(TcbRecord) /\ DOMAIN tcbs' = DOMAIN tcbs
    BY <1>1, <2>2, <2>3
  <2> QED BY <1>1, <2>1, <2>3, <2>4 DEF FieldWritten, TcbRecord
<1>3. /\ UNCHANGED <<tcp_sockets, created, trans_control_block, apps, dropped, reset>>
      /\ WorkerOK'
  BY IdleWorkerOK DEF StateSyn
<1>4. TablesOK' /\ PassiveUnique' /\ BlocksKept /\ MatchesKept
  BY <1>2, <1>3, FieldKeeps
<1> QED BY <1>3, <1>4, WorkerStep

\* Any other segment.
LEMMA StateOtherKeeps == TInv /\ StateOther => TInv'
<1> SUFFICES ASSUME TInv, StateOther PROVE TInv'
  OBVIOUS
<1>1. /\ UNCHANGED <<tcp_sockets, created, trans_control_block, tcbs, apps, dropped, reset>>
      /\ WorkerOK'
  BY IdleWorkerOK DEF StateOther
<1>2. TablesOK' /\ PassiveUnique' /\ BlocksKept /\ MatchesKept
  BY <1>1, StableKeeps
<1> QED BY <1>1, <1>2, WorkerStep

-----------------------------------------------------------------------------
(* The steps of an application *)

\* A step that leaves the blocks and the tables alone.
LEMMA StableAppStep ==
  ASSUME TInv, NEW a \in Apps, NEW app, apps' = [apps EXCEPT ![a] = app],
         UNCHANGED <<created, trans_control_block, tcbs, worker, dropped, reset>>,
         ListOK', AppOK(a)', AppFound(a)'
  PROVE  TInv'
<1>1. TablesOK' /\ PassiveUnique' /\ BlocksKept /\ MatchesKept /\ WorkerSafe
  BY StableKeeps
<1>2. DOMAIN apps = Apps
  BY DEF TInv, AppsOK
<1>3. DOMAIN apps' = Apps /\ \A b \in Apps \ {a} : apps'[b] = apps[b]
  BY <1>2
<1> QED BY <1>1, <1>3, AppStep

\* An application that has returned to its caller.
LEMMA ReturnKeeps ==
  ASSUME TInv, NEW a \in Apps,
         apps' = [apps EXCEPT ![a] = [FreshApp EXCEPT !.socket = apps[a].socket]],
         UNCHANGED <<created, trans_control_block, tcbs, worker, dropped, reset>>, ListOK'
  PROVE  TInv'
<1>1. PICK app : app = [FreshApp EXCEPT !.socket = apps[a].socket]
  OBVIOUS
<1>2. DOMAIN apps = Apps /\ apps[a].socket \in created \union {Null}
  BY DEF TInv, AppsOK, AppOK, AppRecord
<1>3. apps' = [apps EXCEPT ![a] = app] /\ apps'[a] = app
  BY <1>1, <1>2
<1>4. 0 \in Places
  BY TableAssumption DEF Places
<1>5. app \in AppRecord /\ app.pc = "ready" /\ app.tcb = Null
  BY <1>1, <1>2, <1>4 DEF FreshApp, AppRecord
<1>6. app \in AppRecord'
  BY <1>5 DEF AppRecord
<1>7. AppOK(a)' /\ AppFound(a)'
  BY <1>3, <1>5, <1>6 DEF AppOK, AppFound
<1> QED BY <1>3, <1>7, StableAppStep

\* tcp_create_socket.
LEMMA CreateSocketKeeps ==
  ASSUME TInv, NEW a \in Apps, NEW port \in Sockets, CreateSocket(a, port)
  PROVE  TInv'
<1>1. PICK memory \in [Slots -> TableMemory] :
        trans_control_block' = [trans_control_block EXCEPT ![port] = memory]
  BY DEF CreateSocket
<1>2. /\ port \notin created /\ created' = created \union {port}
      /\ UNCHANGED <<tcp_sockets, tcbs, worker, dropped, reset>>
      /\ apps' = [apps EXCEPT ![a].pc = "add_socket", ![a].socket = port]
      /\ apps[a].pc = "ready"
  BY DEF CreateSocket, At
<1>3. TablesOK' /\ PassiveUnique' /\ BlocksKept /\ MatchesKept /\ WorkerSafe
  BY <1>1, <1>2, SocketKeeps
<1>4. ListOK'
  BY <1>2 DEF TInv, ListOK
<1>5. DOMAIN apps = Apps /\ apps[a] \in AppRecord /\ apps[a].tcb = Null
  BY <1>2 DEF TInv, AppsOK, AppOK
<1>6. /\ DOMAIN apps' = Apps /\ \A b \in Apps \ {a} : apps'[b] = apps[b]
      /\ apps'[a] = [apps[a] EXCEPT !.pc = "add_socket", !.socket = port]
  BY <1>2, <1>5
<1>7. apps'[a] \in AppRecord' /\ apps'[a].pc = "add_socket" /\ apps'[a].socket = port
      /\ apps'[a].tcb = Null
  BY <1>2, <1>5, <1>6 DEF AppRecord
<1>8. port # Null
  BY TableAssumption
<1>9. AppOK(a)' /\ AppFound(a)'
  BY <1>7, <1>8 DEF AppOK, AppFound
<1> QED BY <1>2, <1>3, <1>4, <1>6, <1>9, AppStep

\* tcp_add_socket, up to the end mark.
LEMMA AddSocketKeeps ==
  ASSUME TInv, NEW a \in Apps, AddSocket(a)
  PROVE  TInv'
<1> DEFINE empty == {i \in Places : i < ListSize - 1 /\ tcp_sockets[i] = Null}
<1>1. /\ apps[a].pc = "add_socket"
      /\ UNCHANGED <<created, trans_control_block, tcbs, worker, dropped, reset>>
  BY DEF AddSocket, At
<1>2. /\ ListOK /\ DOMAIN apps = Apps /\ apps[a] \in AppRecord /\ apps[a].tcb = Null
      /\ apps[a].socket \in created
  BY <1>1 DEF TInv, AppsOK, AppOK, AppRecord
<1>3. apps[a].socket # Null
  BY <1>1 DEF TInv, AppsOK, AppOK
<1>4. CASE empty = {}
  <2>1. UNCHANGED tcp_sockets /\ apps' = [apps EXCEPT ![a].pc = "ready"]
    BY <1>4 DEF AddSocket
  <2>2. PICK app : app = [apps[a] EXCEPT !.pc = "ready"]
    OBVIOUS
  <2>3. apps' = [apps EXCEPT ![a] = app] /\ apps'[a] = app
    BY <1>2, <2>1, <2>2
  <2>4. app \in AppRecord /\ app.pc = "ready" /\ app.tcb = Null
    BY <1>2, <2>2 DEF AppRecord
  <2>5. app \in AppRecord'
    BY <1>1, <2>4 DEF AppRecord
  <2>6. AppOK(a)' /\ AppFound(a)'
    BY <2>3, <2>4, <2>5 DEF AppOK, AppFound
  <2>7. ListOK'
    BY <1>1, <1>2, <2>1 DEF ListOK
  <2> QED BY <1>1, <2>3, <2>6, <2>7, StableAppStep
<1>5. CASE empty # {}
  <2>1. PICK place : place = Min(empty)
    OBVIOUS
  <2>2. place \in Places /\ place < ListSize - 1
    <3>1. empty \subseteq Nat
      BY TableAssumption DEF Places
    <3>2. Min(empty) \in empty
      BY <1>5, <3>1, MinIsMember
    <3> QED BY <2>1, <3>2
  <2>3. /\ tcp_sockets' = [tcp_sockets EXCEPT ![place] = apps[a].socket]
        /\ apps' = [apps EXCEPT ![a].pc = "terminate", ![a].place = place]
    BY <1>5, <2>1 DEF AddSocket
  <2>4. PICK app : app = [apps[a] EXCEPT !.pc = "terminate", !.place = place]
    OBVIOUS
  <2>5. apps' = [apps EXCEPT ![a] = app] /\ apps'[a] = app
    BY <1>2, <2>3, <2>4
  <2>6. /\ app \in AppRecord /\ app.pc = "terminate" /\ app.tcb = Null /\ app.place = place
        /\ app.socket = apps[a].socket
    BY <1>2, <2>2, <2>4 DEF AppRecord
  <2>7. app \in AppRecord'
    BY <1>1, <2>6 DEF AppRecord
  <2>8. AppOK(a)' /\ AppFound(a)'
    BY <1>3, <2>2, <2>5, <2>6, <2>7 DEF AppOK, AppFound
  <2>9. ListOK'
    BY <1>1, <1>2, <2>2, <2>3 DEF ListOK
  <2> QED BY <1>1, <2>5, <2>8, <2>9, StableAppStep
<1> QED BY <1>4, <1>5

\* tcp_add_socket sets the end mark, which is inside the list.
LEMMA TerminateListKeeps ==
  ASSUME TInv, NEW a \in Apps, TerminateList(a)
  PROVE  TInv'
<1>1. ListOK'
  BY DEF TInv, ListOK, TerminateList
<1> QED BY <1>1, ReturnKeeps DEF TerminateList

\* The application turns to another connection.
LEMMA LeaveKeeps ==
  ASSUME TInv, NEW a \in Apps, Leave(a)
  PROVE  TInv'
<1>1. ListOK'
  BY DEF TInv, ListOK, Leave
<1> QED BY <1>1, ReturnKeeps DEF Leave

\* tcp_socket_connect adds an active block.
LEMMA ConnectKeeps ==
  ASSUME TInv, NEW a \in Apps, NEW host \in Hosts, NEW port \in Ports, Connect(a, host, port)
  PROVE  TInv'
<1>1. /\ TablesOK /\ PassiveUnique /\ DOMAIN apps = Apps /\ apps[a] \in AppRecord
      /\ apps[a].socket \in created
  BY DEF TInv, AppsOK, AppOK, AppRecord, Connect
<1>2. PICK socket \in created : socket = apps[a].socket
  BY <1>1
<1>3. PICK new : new = Len(tcbs) + 1
  OBVIOUS
<1>4. PICK id : id = ConnectionId(host, port, socket)
  OBVIOUS
<1>5. CreateTcb(socket, host, port, "SYN_SENT")
  BY <1>2 DEF Connect
<1>6. /\ NewBlock(socket, ConnectionId(host, port, socket), "SYN_SENT" = "SYN_SENT", new)
      /\ NewSlot(socket, new)
  BY <1>1, <1>3, <1>5, CreateFacts
<1>7. /\ UNCHANGED <<tcp_sockets, created, worker, reset>>
      /\ apps' = [apps EXCEPT ![a].pc = "write_syn", ![a].tcb = new, ![a].id = id]
  BY <1>2, <1>3, <1>4 DEF Connect
<1>8. /\ tcbs'[new].active /\ tcbs'[new].id = id /\ tcbs'[new].socket = socket
      /\ tcbs'[new].live /\ new \in DOMAIN tcbs'
  BY <1>4, <1>6 DEF NewBlock
<1>9. TablesOK'
  BY <1>1, <1>6, <1>7, CreateKeeps
<1>10. BlocksKept /\ MatchesKept
  BY <1>1, <1>6, <1>7, CreateBlocksKept
<1>11. PassiveUnique'
  BY <1>1, <1>6, <1>8, CreateUnique
<1>12. WorkerSafe
  BY <1>1, <1>6, <1>8, ConnectWorkerSafe
<1>13. /\ DOMAIN apps' = Apps /\ \A b \in Apps \ {a} : apps'[b] = apps[b]
       /\ apps'[a] = [apps[a] EXCEPT !.pc = "write_syn", !.tcb = new, !.id = id]
  BY <1>1, <1>7
<1>14. AppOK(a)' /\ AppFound(a)'
  <2>1. id \in Nat
    BY <1>1, <1>4, ConnectionIdType DEF TablesOK
  <2>2. apps'[a] \in AppRecord'
    BY <1>1, <1>7, <1>8, <1>13, <2>1 DEF AppRecord
  <2>3. /\ apps'[a].pc = "write_syn" /\ apps'[a].tcb = new /\ apps'[a].id = id
        /\ apps'[a].socket = socket
    BY <1>1, <1>2, <1>13 DEF AppRecord
  <2>4. new # Null /\ socket # Null
    BY <1>1, <1>6, TableAssumption DEF TablesOK, NewBlock
  <2> QED BY <1>8, <2>2, <2>3, <2>4 DEF AppOK, AppFound
<1>15. ListOK'
  BY <1>7 DEF TInv, ListOK
<1> QED BY <1>7, <1>9, <1>10, <1>11, <1>12, <1>13, <1>14, <1>15, AppStep

\* tcp_socket_connect finds its block again, or returns 0.
LEMMA WriteSynKeeps ==
  ASSUME TInv, NEW a \in Apps, WriteSyn(a)
  PROVE  TInv'
<1> DEFINE found == IF apps[a].id = 0 THEN Null ELSE GetTcb(apps[a].socket, apps[a].id)
<1>1. /\ apps[a].pc = "write_syn"
      /\ UNCHANGED <<tcp_sockets, created, trans_control_block, tcbs, worker, dropped, reset>>
  BY DEF WriteSyn, At
<1>2. ListOK'
  BY <1>1 DEF TInv, ListOK
<1>3. /\ DOMAIN apps = Apps /\ apps[a] \in AppRecord /\ AppOK(a) /\ created \subseteq Sockets
      /\ apps[a].socket \in created
  BY <1>1 DEF TInv, AppsOK, AppOK, AppRecord, TablesOK
<1>4. CASE found = Wild
  <2>1. UNCHANGED apps
    BY <1>4 DEF WriteSyn
  <2>2. TablesOK' /\ PassiveUnique' /\ BlocksKept /\ MatchesKept /\ WorkerSafe
    BY <1>1, StableKeeps
  <2>3. WorkerOK'
    BY <1>1, <2>2, WorkerKept
  <2> QED BY <1>1, <2>1, <2>2, <2>3, WorkerStep
<1>5. CASE found = Null
  <2>1. Null # Wild
    BY TableAssumption
  <2>2. apps' = [apps EXCEPT ![a] = [FreshApp EXCEPT !.socket = apps[a].socket]]
    BY <1>3, <1>5, <2>1 DEF WriteSyn
  <2> QED BY <1>1, <1>2, <2>2, ReturnKeeps
<1>6. CASE found # Wild /\ found # Null
  <2>1. PICK app : app = [apps[a] EXCEPT !.pc = "count_syn"]
    OBVIOUS
  <2>2. apps' = [apps EXCEPT ![a] = app] /\ apps'[a] = app
    BY <1>3, <1>6, <2>1 DEF WriteSyn
  <2>3. /\ app \in AppRecord /\ app.pc = "count_syn" /\ app.tcb = apps[a].tcb
        /\ app.id = apps[a].id /\ app.socket = apps[a].socket
    BY <1>3, <2>1 DEF AppRecord
  <2>4. app \in AppRecord'
    BY <1>1, <2>3 DEF AppRecord
  <2>5. AppOK(a)'
    BY <1>1, <1>3, <2>2, <2>3, <2>4 DEF AppOK
  <2>6. AppFound(a)'
    <3>1. PICK socket \in Sockets, id \in Nat : socket = apps[a].socket /\ id = apps[a].id
      BY <1>3 DEF AppRecord
    <3>2. GetTcb(socket, id) # Null
      BY <1>6, <3>1
    <3>3. Matches(socket, id) # {}
      BY <3>2 DEF GetTcb
    <3>4. Matches(socket, id)' # {}
      BY <1>1, <3>3 DEF Matches
    <3> QED BY <2>2, <2>3, <3>1, <3>4 DEF AppFound
  <2> QED BY <1>1, <1>2, <2>2, <2>5, <2>6, StableAppStep
<1> QED BY <1>4, <1>5, <1>6

\* connect and send are done with the block that they held.
LEMMA LetGo ==
  ASSUME TInv, NEW a \in Apps, apps[a].pc \in {"count_syn", "send"},
         apps' = [apps EXCEPT ![a].pc = "connected", ![a].tcb = Null],
         BlocksKept, MatchesKept, WorkerSafe, TablesOK', PassiveUnique',
         UNCHANGED <<tcp_sockets, created, worker>>
  PROVE  TInv'
<1>1. /\ DOMAIN apps = Apps /\ apps[a] \in AppRecord /\ AppOK(a) /\ AppFound(a)
  BY DEF TInv, AppsOK, AppOK, FoundUntilReset, AppFound
<1>2. /\ DOMAIN apps' = Apps /\ \A b \in Apps \ {a} : apps'[b] = apps[b]
      /\ apps'[a] = [apps[a] EXCEPT !.pc = "connected", !.tcb = Null]
  BY <1>1
<1>3. /\ apps'[a].pc = "connected" /\ apps'[a].tcb = Null
      /\ apps'[a].id = apps[a].id /\ apps'[a].socket = apps[a].socket
  BY <1>1, <1>2 DEF AppRecord
<1>4. apps'[a] \in AppRecord'
  BY <1>1, <1>2 DEF AppRecord
<1>5. apps[a].socket # Null /\ apps[a].socket \in created /\ apps[a].id \in Nat
  BY <1>1 DEF AppOK, AppRecord
<1>6. AppOK(a)'
  BY <1>3, <1>4, <1>5 DEF AppOK
<1>7. AppFound(a)'
  <2>1. PICK socket \in created, id \in Nat : socket = apps[a].socket /\ id = apps[a].id
    BY <1>5
  <2>2. Matches(socket, id) # {} \/ <<socket, id>> \in reset
    BY <1>1, <2>1 DEF AppFound
  <2>3. Matches(socket, id)' # {} \/ <<socket, id>> \in reset'
    BY <2>2 DEF MatchesKept, BlocksKept
  <2> QED BY <1>3, <2>1, <2>3 DEF AppFound
<1>8. ListOK'
  BY DEF TInv, ListOK
<1> QED BY <1>2, <1>6, <1>7, <1>8, AppStep

\* tcp_socket_connect counts its SYN.
LEMMA CountSynKeeps ==
  ASSUME TInv, NEW a \in Apps, CountSyn(a)
  PROVE  TInv'
<1>1. /\ apps[a].pc \in {"count_syn", "send"}
      /\ apps' = [apps EXCEPT ![a].pc = "connected", ![a].tcb = Null]
      /\ UNCHANGED <<tcp_sockets, created, trans_control_block, worker, dropped, reset>>
  BY DEF CountSyn, At
<1>2. TablesOK' /\ PassiveUnique' /\ BlocksKept /\ MatchesKept /\ WorkerSafe
  <2>1. CASE UNCHANGED tcbs
    BY <1>1, <2>1, StableKeeps
  <2>2. CASE tcbs' = [tcbs EXCEPT ![apps[a].tcb].syn_counted = TRUE]
    <3>1. tcbs \in Seq(TcbRecord) /\ apps[a].tcb \in DOMAIN tcbs
      BY DEF TInv, TablesOK, AppsOK, AppOK, AppRecord, CountSyn, At
    <3>2. tcbs[apps[a].tcb] \in TcbRecord
      BY <3>1
    <3>3. [tcbs[apps[a].tcb] EXCEPT !.syn_counted = TRUE] \in TcbRecord
      BY <3>2 DEF TcbRecord
    <3>4. tcbs' \in Seq(TcbRecord) /\ DOMAIN tcbs' = DOMAIN tcbs
      BY <2>2, <3>1, <3>3
    <3>5. FieldWritten
      BY <2>2, <3>1, <3>2, <3>4 DEF FieldWritten, TcbRecord
    <3> QED BY <1>1, <3>5, FieldKeeps
  <2> QED BY <2>1, <2>2 DEF CountSyn
<1> QED BY <1>1, <1>2, LetGo

\* tcp_socket_send writes.
LEMMA SendWriteKeeps ==
  ASSUME TInv, NEW a \in Apps, SendWrite(a)
  PROVE  TInv'
<1>1. /\ apps[a].pc \in {"count_syn", "send"}
      /\ apps' = [apps EXCEPT ![a].pc = "connected", ![a].tcb = Null]
      /\ UNCHANGED <<tcp_sockets, created, trans_control_block, tcbs, worker, dropped, reset>>
  BY DEF SendWrite, At
<1>2. TablesOK' /\ PassiveUnique' /\ BlocksKept /\ MatchesKept /\ WorkerSafe
  BY <1>1, StableKeeps
<1> QED BY <1>1, <1>2, LetGo

\* tcp_socket_send finds a block of its connection.
LEMMA SendLookupKeeps ==
  ASSUME TInv, NEW a \in Apps, SendLookup(a)
  PROVE  TInv'
<1>1. /\ apps[a].pc = "connected"
      /\ UNCHANGED <<tcp_sockets, created, trans_control_block, tcbs, worker, dropped, reset>>
  BY DEF SendLookup, At
<1>2. /\ TablesOK /\ DOMAIN apps = Apps /\ apps[a] \in AppRecord /\ AppOK(a) /\ AppFound(a)
      /\ apps[a].socket \in created /\ created \subseteq Sockets
  BY <1>1 DEF TInv, AppsOK, AppOK, AppRecord, TablesOK, FoundUntilReset, AppFound
<1>3. PICK socket \in Sockets, id \in Nat : socket = apps[a].socket /\ id = apps[a].id
  BY <1>2 DEF AppRecord
<1>4. CASE UNCHANGED apps
  <2>1. TablesOK' /\ PassiveUnique' /\ BlocksKept /\ MatchesKept /\ WorkerSafe
    BY <1>1, StableKeeps
  <2>2. WorkerOK'
    BY <1>1, <2>1, WorkerKept
  <2> QED BY <1>1, <1>4, <2>1, <2>2, WorkerStep
<1>5. ASSUME NEW found, found = GetTcb(socket, id), found \notin {Null, Wild},
             apps' = [apps EXCEPT ![a].pc = "send", ![a].tcb = found]
      PROVE  TInv'
  <2>1. PICK i \in Matches(socket, id) : found = trans_control_block[socket][i]
    BY <1>5, GetTcbFinds
  <2>2. /\ found \in DOMAIN tcbs /\ tcbs[found].id = id /\ tcbs[found].socket = socket
        /\ tcbs[found].live
    BY <1>2, <1>5, <2>1 DEF Matches, TablesOK, StoredOnce
  <2>3. PICK app : app = [apps[a] EXCEPT !.pc = "send", !.tcb = found]
    OBVIOUS
  <2>4. apps' = [apps EXCEPT ![a] = app] /\ apps'[a] = app
    BY <1>2, <1>5, <2>3
  <2>5. /\ app \in AppRecord /\ app.pc = "send" /\ app.tcb = found
        /\ app.id = id /\ app.socket = socket
    BY <1>2, <1>3, <2>2, <2>3 DEF AppRecord
  <2>6. app \in AppRecord'
    BY <1>1, <2>5 DEF AppRecord
  <2>7. socket # Null
    BY TableAssumption
  <2>8. AppOK(a)'
    BY <1>1, <1>5, <2>2, <2>4, <2>5, <2>6, <2>7 DEF AppOK
  <2>9. AppFound(a)'
    <3>1. Matches(socket, id)' # {}
      BY <1>1, <2>1 DEF Matches
    <3> QED BY <2>4, <2>5, <3>1 DEF AppFound
  <2>10. ListOK'
    BY <1>1 DEF TInv, ListOK
  <2> QED BY <1>1, <2>4, <2>8, <2>9, <2>10, StableAppStep
<1>6. \/ UNCHANGED apps
      \/ /\ GetTcb(socket, id) \notin {Null, Wild}
         /\ apps' = [apps EXCEPT ![a].pc = "send", ![a].tcb = GetTcb(socket, id)]
  BY <1>3 DEF SendLookup
<1> QED BY <1>4, <1>5, <1>6

-----------------------------------------------------------------------------

\* The tables start in order.
LEMMA InitTInv == Init => TInv
<1> SUFFICES ASSUME Init PROVE TInv
  OBVIOUS
<1> USE DEF Init
<1>1. TablesOK
  BY TableAssumption DEF TablesOK, StoredOnce, LostOnlyWhenFull
<1>2. ListOK
  BY TableAssumption DEF ListOK
<1>3. PassiveUnique
  BY TableAssumption DEF PassiveUnique
<1>4. WorkerOK
  BY DEF WorkerOK, WorkerRecord, IdleWorker
<1>5. AppsOK /\ FoundUntilReset
  <2>1. 0 \in Places
    BY TableAssumption DEF Places
  <2> QED BY <2>1 DEF AppsOK, AppOK, AppRecord, FoundUntilReset, FreshApp
<1> QED BY <1>1, <1>2, <1>3, <1>4, <1>5 DEF TInv

\* Every step keeps them so.
LEMMA StepTInv == TInv /\ [Next]_vars => TInv'
<1> SUFFICES ASSUME TInv, [Next]_vars PROVE TInv'
  OBVIOUS
<1>1. CASE Worker
  <2>1. ASSUME NEW segment \in Segment,
               ReadWild(segment) \/ ReadExisting(segment) \/ ReadMissing(segment)
        PROVE  TInv'
    BY <2>1, ReadKeeps
  <2> QED BY <1>1, <2>1, ReadCreateKeeps, StateDeleteKeeps, StateSynKeeps, StateOtherKeeps
             DEF Worker
<1>2. ASSUME NEW a \in Apps, Application(a) PROVE TInv'
  <2>1. ASSUME NEW port \in Sockets, CreateSocket(a, port) PROVE TInv'
    BY <2>1, CreateSocketKeeps
  <2>2. ASSUME NEW host \in Hosts, NEW port \in Ports, Connect(a, host, port) PROVE TInv'
    BY <2>2, ConnectKeeps
  <2>3. CASE AddSocket(a) \/ TerminateList(a) \/ Leave(a)
    BY <2>3, AddSocketKeeps, TerminateListKeeps, LeaveKeeps
  <2>4. CASE WriteSyn(a) \/ CountSyn(a) \/ SendLookup(a) \/ SendWrite(a)
    BY <2>4, WriteSynKeeps, CountSynKeeps, SendLookupKeeps, SendWriteKeeps
  <2> QED BY <1>2, <2>1, <2>2, <2>3, <2>4 DEF Application
<1>3. CASE UNCHANGED vars
  <2>1. /\ UNCHANGED <<created, trans_control_block, tcbs, dropped, reset>>
        /\ UNCHANGED <<tcp_sockets, worker, apps>>
    BY <1>3 DEF vars
  <2>2. TablesOK' /\ PassiveUnique' /\ BlocksKept /\ MatchesKept /\ WorkerSafe
    BY <2>1, StableKeeps
  <2>3. WorkerOK'
    BY <2>1, <2>2, WorkerKept
  <2> QED BY <2>1, <2>2, <2>3, WorkerStep
<1> QED BY <1>1, <1>2, <1>3 DEF Next

\* The inductive invariant holds throughout.
LEMMA TablesInvariant == Spec => []TInv
  BY InitTInv, StepTInv, PTL DEF Spec

(***************************************************************************)
(* The tables stay consistent whatever tcp_read, its state functions,      *)
(* connect and send do to them: a slot holds a block that was not freed,   *)
(* of its own socket and in no other slot, and a second block for a        *)
(* connection is never one of tcp_read's, although tcp_read looks up and   *)
(* adds under two separate locks.                                          *)
(***************************************************************************)
THEOREM TablesStayConsistent == Spec => []TablesConsistent
<1>1. TInv => TablesConsistent
  <2> SUFFICES ASSUME TInv PROVE TypeOK
    BY DEF TInv, TablesOK, TablesConsistent
  <2>1. tcbs \in Seq(TcbRecord)
    BY DEF TInv, TablesOK
  <2>2. \A t \in DOMAIN tcbs : tcbs[t] \in TcbRecord
    BY <2>1
  <2>3. \A t \in DOMAIN tcbs : tcbs[t].id \in 0 .. PortSpace * PortSpace - 1
    BY <2>2 DEF TcbRecord
  <2>4. tcp_sockets \in [Places -> Sockets \union {Null, Wild}]
    BY DEF TInv, ListOK, TablesOK
  <2>5. \A a \in Apps :
          /\ apps[a].pc \in {"ready", "add_socket", "terminate", "write_syn", "count_syn",
                             "connected", "send"}
          /\ apps[a].tcb \in DOMAIN tcbs \union {Null} /\ apps[a].place \in Places
    BY DEF TInv, AppsOK, AppOK, AppRecord
  <2>6. worker.pc \in {"idle", "create", "state"} /\ worker.tcb \in DOMAIN tcbs \union {Null}
    BY DEF TInv, WorkerOK, WorkerRecord
  <2> QED BY <2>3, <2>4, <2>5, <2>6 DEF TInv, TablesOK, TypeOK
<1> QED BY <1>1, TablesInvariant, PTL

(***************************************************************************)
(* No connection is lost but by tcp_add_transmission_control_block on a    *)
(* full table: every other block that is in no table has been freed.       *)
(***************************************************************************)
THEOREM ConnectionsKept == Spec => []LostOnlyWhenFull
<1>1. TInv => LostOnlyWhenFull
  BY DEF TInv, TablesOK
<1> QED BY <1>1, TablesInvariant, PTL

(***************************************************************************)
(* The id that connect returned finds a block in tcp_socket_send until a   *)
(* reset of that very connection.                                          *)
(***************************************************************************)
THEOREM IdStaysValid == Spec => []FoundUntilReset
<1>1. TInv => FoundUntilReset
  BY DEF TInv
<1> QED BY <1>1, TablesInvariant, PTL

(***************************************************************************)
(* The worker's block outlives its use; connect's and send's outlives it   *)
(* but for a reset of that connection.                                     *)
(***************************************************************************)
THEOREM HeldBlocksLive == Spec => []HeldBlockLive
<1>1. TInv => HeldBlockLive
  BY DEF TInv, WorkerOK, WorkerRecord, AppsOK, AppOK, HeldBlockLive
<1> QED BY <1>1, TablesInvariant, PTL

-----------------------------------------------------------------------------
(* Ids and ports *)

ConnectionOf(t) ==
  ConnectionId(tcbs[t].remote_ipv4, tcbs[t].remote_port, tcbs[t].socket)

(***************************************************************************)
(* A block's id is the one of its own addresses, and the block that the    *)
(* worker handles has the id of the segment.                               *)
(***************************************************************************)
PortsOK ==
  /\ \A t \in DOMAIN tcbs : tcbs[t].id = ConnectionOf(t)
  /\ worker.tcb # Null =>
       /\ tcbs[worker.tcb].id = IdOf(worker.segment)
       /\ tcbs[worker.tcb].socket = worker.segment.to

\* The truncation to 32 bits keeps what is below the host's bits.
LEMMA TruncationKeeps ==
  ASSUME NEW q \in Nat, NEW h \in Nat, NEW r \in Nat, r < q
  PROVE  (h * q + r) % q = r
<1> DEFINE n == h * q + r
           d == n \div q
           m == n % q
<1>1. n \in Nat /\ q > 0 /\ h * q \in Nat
  OBVIOUS
<1>2. d \in Nat /\ m \in Nat /\ m < q /\ n = q * d + m
  <2> HIDE DEF n
  <2> QED BY <1>1
<1>3. h * q + r = d * q + m
  BY <1>2
<1> HIDE DEF d, m, n
<1>4. ~ (d > h)
  <2> SUFFICES ASSUME d > h PROVE FALSE
    OBVIOUS
  <2>1. PICK k \in Nat : d = h + 1 + k
    <3>1. d - h - 1 \in Nat /\ d = h + 1 + (d - h - 1)
      BY <1>2
    <3> QED BY <3>1
  <2>2. d * q = h * q + q + k * q /\ k * q \in Nat
    BY <2>1
  <2> QED BY <1>1, <1>2, <1>3, <2>2
<1>5. ~ (h > d)
  <2> SUFFICES ASSUME h > d PROVE FALSE
    OBVIOUS
  <2>1. PICK k \in Nat : h = d + 1 + k
    <3>1. h - d - 1 \in Nat /\ h = d + 1 + (h - d - 1)
      BY <1>2
    <3> QED BY <3>1
  <2>2. h * q = d * q + q + k * q /\ k * q \in Nat /\ d * q \in Nat
    BY <1>2, <2>1
  <2> QED BY <1>1, <1>2, <1>3, <2>2
<1>6. h = d
  BY <1>2, <1>4, <1>5
<1>7. m = r
  BY <1>1, <1>2, <1>3, <1>6
<1> QED BY <1>7 DEF m, n

\* What is left of an id: the remote port and the socket.
LEMMA IdIsPorts ==
  ASSUME NEW host \in Hosts, NEW port \in Ports, NEW socket \in Sockets
  PROVE  ConnectionId(host, port, socket) = port * PortSpace + socket
<1> DEFINE P == PortSpace
           r == port * P + socket
           q == P * P
<1>1. /\ P \in Nat /\ P > 0 /\ host \in Nat /\ port \in Nat /\ socket \in Nat
      /\ port <= P - 1 /\ socket <= P - 1
  BY TableAssumption
<1> HIDE DEF P
<1>2. q \in Nat /\ port * P \in Nat /\ r \in Nat
  BY <1>1
<1>3. port * P <= (P - 1) * P
  <2>1. PICK k \in Nat : P - 1 = port + k
    <3>1. P - 1 - port \in Nat /\ P - 1 = port + (P - 1 - port)
      BY <1>1
    <3> QED BY <3>1
  <2>2. (port + k) * P = port * P + k * P /\ k * P \in Nat
    BY <1>1, <2>1
  <2> QED BY <1>2, <2>1, <2>2
<1>4. (P - 1) * P = P * P - P
  BY <1>1
<1>5. r < q
  BY <1>1, <1>2, <1>3, <1>4
<1>6. (host * P + port) * P + socket = host * q + r
  BY <1>1
<1> HIDE DEF q, r
<1>7. (host * q + r) % q = r
  BY <1>1, <1>2, <1>5, TruncationKeeps
<1> QED BY <1>6, <1>7 DEF ConnectionId, P, q, r

\* Two connections of a socket with the same id have the same remote port.
LEMMA IdTellsPorts ==
  ASSUME NEW host \in Hosts, NEW port \in Ports, NEW other \in Hosts, NEW second \in Ports,
         NEW socket \in Sockets,
         ConnectionId(host, port, socket) = ConnectionId(other, second, socket)
  PROVE  port = second
<1> DEFINE P == PortSpace
<1>1. P \in Nat /\ P > 0 /\ port \in Nat /\ second \in Nat /\ socket \in Nat
  BY TableAssumption
<1>2. port * P + socket = second * P + socket
  BY IdIsPorts
<1> HIDE DEF P
<1>3. port * P \in Nat /\ second * P \in Nat
  BY <1>1
<1>4. port * P = second * P
  BY <1>1, <1>2, <1>3
<1> QED BY <1>1, <1>4

\* A step changes no block's addresses, and a new one has the id of its own.
LEMMA AddressesKept ==
  ASSUME TInv, [Next]_vars
  PROVE  /\ DOMAIN tcbs \subseteq DOMAIN tcbs'
         /\ \A t \in DOMAIN tcbs :
              /\ tcbs'[t].id = tcbs[t].id /\ tcbs'[t].socket = tcbs[t].socket
              /\ tcbs'[t].remote_ipv4 = tcbs[t].remote_ipv4
              /\ tcbs'[t].remote_port = tcbs[t].remote_port
         /\ \A t \in DOMAIN tcbs' \ DOMAIN tcbs : tcbs'[t].id = ConnectionOf(t)'
<1> DEFINE Goal ==
      /\ DOMAIN tcbs \subseteq DOMAIN tcbs'
      /\ \A t \in DOMAIN tcbs :
           /\ tcbs'[t].id = tcbs[t].id /\ tcbs'[t].socket = tcbs[t].socket
           /\ tcbs'[t].remote_ipv4 = tcbs[t].remote_ipv4
           /\ tcbs'[t].remote_port = tcbs[t].remote_port
      /\ \A t \in DOMAIN tcbs' \ DOMAIN tcbs : tcbs'[t].id = ConnectionOf(t)'
<1> SUFFICES Goal
  OBVIOUS
<1>0. tcbs \in Seq(TcbRecord) /\ \A t \in DOMAIN tcbs : tcbs[t] \in TcbRecord
  <2>1. tcbs \in Seq(TcbRecord)
    BY DEF TInv, TablesOK
  <2> QED BY <2>1
<1>1. CASE UNCHANGED tcbs
  BY <1>1
<1>2. ASSUME NEW socket, NEW host, NEW port, NEW state, CreateTcb(socket, host, port, state)
      PROVE  Goal
  <2> PICK tcb : tcb = [id |-> ConnectionId(host, port, socket), socket |-> socket,
                        remote_ipv4 |-> host, remote_port |-> port, state |-> state,
                        active |-> state = "SYN_SENT", syn_counted |-> FALSE, live |-> TRUE]
    OBVIOUS
  <2>1. tcbs' = Append(tcbs, tcb)
    BY <1>2 DEF CreateTcb
  <2>2. tcb.id = ConnectionId(tcb.remote_ipv4, tcb.remote_port, tcb.socket)
    OBVIOUS
  <2>3. /\ DOMAIN tcbs' = DOMAIN tcbs \union {Len(tcbs) + 1}
        /\ \A t \in DOMAIN tcbs : tcbs'[t] = tcbs[t]
        /\ \A t \in DOMAIN tcbs' \ DOMAIN tcbs : tcbs'[t] = tcb
    BY <1>0, <2>1
  <2> QED BY <2>2, <2>3 DEF ConnectionOf, ConnectionId
<1>3. ASSUME NEW socket, NEW id, DeleteTcb(socket, id)
      PROVE  Goal
  <2>1. CASE tcbs' = [t \in DOMAIN tcbs |->
                        IF \E i \in Matches(socket, id) : trans_control_block[socket][i] = t
                        THEN [tcbs[t] EXCEPT !.live = FALSE] ELSE tcbs[t]]
    BY <1>0, <2>1 DEF TcbRecord
  <2> QED BY <1>1, <1>3, <2>1 DEF DeleteTcb
<1>4. CASE StateSyn
  <2>1. tcbs' = [tcbs EXCEPT ![worker.tcb].state = "OTHERS"]
    BY <1>4 DEF StateSyn
  <2> QED BY <1>0, <2>1 DEF TcbRecord
<1>5. ASSUME NEW a \in Apps, CountSyn(a)
      PROVE  Goal
  <2>1. CASE tcbs' = [tcbs EXCEPT ![apps[a].tcb].syn_counted = TRUE]
    BY <1>0, <2>1 DEF TcbRecord
  <2> QED BY <1>1, <1>5, <2>1 DEF CountSyn
<1> HIDE DEF Goal
<1>6. CASE Worker
  <2>1. CASE ReadCreate
    BY <1>2, <2>1 DEF ReadCreate
  <2>2. CASE StateDelete
    BY <1>3, <2>2 DEF StateDelete
  <2>3. CASE \E segment \in Segment :
               ReadWild(segment) \/ ReadExisting(segment) \/ ReadMissing(segment)
    BY <1>1, <2>3 DEF ReadWild, Dies, ReadExisting, ReadMissing
  <2>4. CASE StateOther
    BY <1>1, <2>4 DEF StateOther
  <2> QED BY <1>4, <1>6, <2>1, <2>2, <2>3, <2>4 DEF Worker
<1>7. ASSUME NEW a \in Apps, Application(a)
      PROVE  Goal
  <2>1. CASE \E host \in Hosts, port \in Ports : Connect(a, host, port)
    BY <1>2, <2>1 DEF Connect
  <2>2. CASE \E port \in Sockets : CreateSocket(a, port)
    BY <1>1, <2>2 DEF CreateSocket
  <2>3. CASE AddSocket(a) \/ TerminateList(a) \/ Leave(a)
    BY <1>1, <2>3 DEF AddSocket, TerminateList, Leave
  <2>4. CASE WriteSyn(a) \/ SendLookup(a) \/ SendWrite(a)
    BY <1>1, <2>4 DEF WriteSyn, SendLookup, SendWrite
  <2> QED BY <1>5, <1>7, <2>1, <2>2, <2>3, <2>4 DEF Application
<1>8. CASE UNCHANGED vars
  BY <1>1, <1>8 DEF vars
<1> QED BY <1>6, <1>7, <1>8 DEF Next

\* The worker gets its block by the segment's id, or makes it with that id.
LEMMA PortsStep ==
  ASSUME TInv, PortsOK, [Next]_vars
  PROVE  PortsOK'
<1>1. \A t \in DOMAIN tcbs' : tcbs'[t].id = ConnectionOf(t)'
  BY AddressesKept DEF PortsOK, ConnectionOf, ConnectionId
<1>2. CASE UNCHANGED worker
  <2>1. worker.tcb # Null => worker.tcb \in DOMAIN tcbs
    BY DEF TInv, WorkerOK, WorkerRecord
  <2>2. IdOf(worker.segment)' = IdOf(worker.segment)
    BY <1>2 DEF IdOf, ConnectionId
  <2> QED BY <1>1, <1>2, <2>1, <2>2, AddressesKept DEF PortsOK
<1>3. CASE worker' = IdleWorker
  BY <1>1, <1>3 DEF PortsOK, IdleWorker
<1>4. ASSUME NEW segment \in Segment, ReadMissing(segment) PROVE PortsOK'
  BY <1>1, <1>4 DEF PortsOK, ReadMissing
<1>5. ASSUME NEW segment \in Segment, ReadExisting(segment) PROVE PortsOK'
  <2> PICK socket \in Sockets : socket = segment.to
    BY DEF Segment
  <2> PICK id : id = IdOf(segment)
    OBVIOUS
  <2>1. socket = segment.to /\ id = IdOf(segment)
    OBVIOUS
  <2>2. PICK t : t = GetTcb(socket, id)
    OBVIOUS
  <2>3. /\ t \in DOMAIN tcbs /\ tcbs' = tcbs
        /\ worker' = [pc |-> "state", segment |-> segment, tcb |-> t]
    BY <1>5, <2>1, <2>2 DEF ReadExisting
  <2>4. t # Null /\ t # Wild
    <3>1. DOMAIN tcbs \subseteq Nat
      BY DEF TInv, TablesOK
    <3> QED BY <2>3, <3>1, TableAssumption
  <2>5. PICK i \in Matches(socket, id) : t = trans_control_block[socket][i]
    BY <2>2, <2>4, GetTcbFinds
  <2>6. tcbs[t].id = id /\ tcbs[t].socket = socket
    BY <2>3, <2>4, <2>5 DEF Matches, TInv, TablesOK, StoredOnce
  <2>7. worker'.tcb = t /\ worker'.segment = segment
    BY <2>3
  <2>8. IdOf(worker.segment)' = id
    BY <2>1, <2>7 DEF IdOf, ConnectionId
  <2> QED BY <1>1, <2>1, <2>3, <2>6, <2>7, <2>8 DEF PortsOK
<1>6. CASE ReadCreate
  <2>1. PICK segment \in Segment : segment = worker.segment
    BY <1>6 DEF TInv, WorkerOK, ReadCreate
  <2>2. segment.to \in created /\ segment.from \in Hosts /\ segment.port \in Ports
    BY <1>6, <2>1 DEF TInv, WorkerOK, ReadCreate, Segment
  <2>3. PICK new : new = Len(tcbs) + 1
    OBVIOUS
  <2>4. NewBlock(segment.to, ConnectionId(segment.from, segment.port, segment.to),
                 "LISTEN" = "SYN_SENT", new)
    <3>1. CreateTcb(segment.to, segment.from, segment.port, "LISTEN")
      BY <1>6, <2>1 DEF ReadCreate
    <3> QED BY <2>2, <2>3, <3>1, CreateFacts DEF TInv
  <2>5. tcbs'[new].id = IdOf(segment) /\ tcbs'[new].socket = segment.to
    BY <2>4 DEF NewBlock, IdOf
  <2>6. worker'.tcb = new /\ worker'.segment = segment
    BY <1>6, <2>1, <2>3 DEF ReadCreate, TInv, WorkerOK, WorkerRecord
  <2>7. IdOf(worker.segment)' = IdOf(segment)
    BY <2>6 DEF IdOf, ConnectionId
  <2> QED BY <1>1, <2>5, <2>6, <2>7 DEF PortsOK
<1>7. CASE Worker
  BY <1>2, <1>3, <1>4, <1>5, <1>6, <1>7
     DEF Worker, ReadWild, Dies, StateDelete, StateSyn, StateOther
<1>8. ASSUME NEW a \in Apps, Application(a) PROVE UNCHANGED worker
  BY <1>8 DEF Application, CreateSocket, AddSocket, TerminateList, Connect, WriteSyn,
              CountSyn, SendLookup, SendWrite, Leave
<1> QED BY <1>2, <1>7, <1>8 DEF Next, vars

(***************************************************************************)
(* The id is truncated to 32 bits and loses the host, but not the ports:   *)
(* whatever the hosts, the block that handles a segment is one of the      *)
(* segment's own pair of ports.                                            *)
(***************************************************************************)
THEOREM PortsToldApart == Spec => []SamePorts
<1>1. Init => PortsOK
  BY DEF Init, PortsOK, IdleWorker
<1>2. TInv /\ PortsOK => SamePorts
  <2> SUFFICES ASSUME TInv, PortsOK, worker.tcb # Null
               PROVE  tcbs[worker.tcb].remote_port = worker.segment.port
    BY DEF SamePorts, PortsOK
  <2>1. worker.tcb \in DOMAIN tcbs /\ worker.segment \in Segment /\ tcbs \in Seq(TcbRecord)
    BY DEF TInv, WorkerOK, WorkerRecord, TablesOK
  <2>2. PICK tcb \in TcbRecord, segment \in Segment :
          tcb = tcbs[worker.tcb] /\ segment = worker.segment
    BY <2>1
  <2>3. tcb.socket = segment.to /\ tcb.id = IdOf(segment)
    BY <2>2 DEF PortsOK
  <2>4. tcb.id = ConnectionId(tcb.remote_ipv4, tcb.remote_port, tcb.socket)
    BY <2>1, <2>2 DEF PortsOK, ConnectionOf
  <2>5. /\ tcb.remote_ipv4 \in Hosts /\ tcb.remote_port \in Ports /\ tcb.socket \in Sockets
        /\ segment.from \in Hosts /\ segment.port \in Ports
    BY DEF TcbRecord, Segment
  <2>6. ConnectionId(tcb.remote_ipv4, tcb.remote_port, tcb.socket)
          = ConnectionId(segment.from, segment.port, tcb.socket)
    BY <2>3, <2>4 DEF IdOf
  <2>7. tcb.remote_port = segment.port
    BY <2>5, <2>6, IdTellsPorts
  <2> QED BY <2>2, <2>7
<1> QED BY <1>1, <1>2, TablesInvariant, PortsStep, PTL DEF Spec

-----------------------------------------------------------------------------
(* The list of sockets *)

(***************************************************************************)
(* If the first element was 0 to begin with, then the sockets are the      *)
(* elements before an end; the end is 0, or the element that the thread    *)
(* which holds the lock is about to set to 0.                              *)
(***************************************************************************)
IsEnd(end) ==
  /\ end \in Places
  /\ \A place \in Places : place < end => tcp_sockets[place] \in Sockets
  /\ \A place \in Places : place >= end => tcp_sockets[place] \notin Sockets
  /\ ~ ListLocked => tcp_sockets[end] = Null
  /\ \A a \in Apps : apps[a].pc = "terminate" => end = apps[a].place + 1

ListShape ==
  /\ \A a, b \in Apps : apps[a].pc = "terminate" /\ apps[b].pc = "terminate" => a = b
  /\ tcp_sockets[0] # Wild => \E end : IsEnd(end)

\* The first of a set of slots or places is not above any other.
LEMMA MinIsLeast ==
  ASSUME NEW S, S \subseteq Nat, NEW x \in S
  PROVE  Min(S) \in S /\ Min(S) <= x
<1>1. PICK m \in S : \A y \in S : <<y, m>> \notin OpToRel(<, Nat)
  BY NatLessThanWellFounded, WFMin
<1>2. \A y \in S : ~ (y < m)
  BY <1>1 DEF OpToRel
<1>3. \A y \in S : m <= y
  BY <1>2
<1>4. \E z \in S : \A y \in S : z <= y
  BY <1>3
<1> QED BY <1>4 DEF Min

\* A step that leaves the list alone and takes no part in tcp_add_socket's writes.
ListKept ==
  /\ UNCHANGED tcp_sockets
  /\ \A a \in Apps : /\ apps'[a].pc = "terminate" <=> apps[a].pc = "terminate"
                     /\ apps[a].pc = "terminate" => apps'[a].place = apps[a].place

\* Such a step keeps the shape of the list.
LEMMA ListKeptShape ==
  ASSUME ListShape, ListKept
  PROVE  ListShape'
<1>1. ListLocked' <=> ListLocked
  BY DEF ListLocked, ListKept
<1>2. ASSUME NEW end, IsEnd(end) PROVE IsEnd(end)'
  BY <1>1, <1>2 DEF IsEnd, ListKept
<1>3. tcp_sockets'[0] # Wild => \E end : IsEnd(end)'
  BY <1>2 DEF ListShape, ListKept
<1> QED BY <1>3 DEF ListShape, ListKept

\* A thread that goes from one place outside the lock to another.
LEMMA OutsideLock ==
  ASSUME TInv, NEW a \in Apps, UNCHANGED tcp_sockets, DOMAIN apps' = Apps,
         \A b \in Apps \ {a} : apps'[b] = apps[b],
         apps[a].pc # "terminate", apps'[a].pc # "terminate"
  PROVE  ListKept
BY DEF ListKept

\* tcp_add_socket puts the socket at the end, and nothing is behind it.
LEMMA AddSocketShape ==
  ASSUME TInv, ListShape, NEW a \in Apps, AddSocket(a)
  PROVE  ListShape'
<1> DEFINE empty == {i \in Places : i < ListSize - 1 /\ tcp_sockets[i] = Null}
<1>0. /\ apps[a].pc = "add_socket" /\ ~ ListLocked /\ ListSize \in Nat /\ ListSize > 0
      /\ DOMAIN apps = Apps /\ apps[a] \in AppRecord /\ empty \subseteq Nat
  <2>1. apps[a].pc = "add_socket" /\ ~ ListLocked
    BY DEF AddSocket, At
  <2>2. ListSize \in Nat /\ ListSize > 0
    BY TableAssumption
  <2>3. DOMAIN apps = Apps /\ apps[a] \in AppRecord
    BY DEF TInv, AppsOK, AppOK
  <2>4. empty \subseteq Nat
    BY <2>2 DEF Places
  <2> QED BY <2>1, <2>2, <2>3, <2>4
<1>1. CASE empty = {}
  <2>1. apps' = [apps EXCEPT ![a].pc = "ready"] /\ UNCHANGED tcp_sockets
    BY <1>1 DEF AddSocket
  <2>2. ListKept
    BY <1>0, <2>1 DEF ListKept, AppRecord
  <2> QED BY <2>2, ListKeptShape
<1>2. CASE empty # {}
  <2>1. PICK n : n = Min(empty)
    OBVIOUS
  <2>2. /\ n \in Places /\ n \in Nat /\ n < ListSize - 1 /\ tcp_sockets[n] = Null
        /\ \A i \in empty : n <= i
    BY <1>0, <1>2, <2>1, MinIsLeast
  <2>3. /\ tcp_sockets' = [tcp_sockets EXCEPT ![n] = apps[a].socket]
        /\ apps' = [apps EXCEPT ![a].pc = "terminate", ![a].place = n]
    BY <1>2, <2>1 DEF AddSocket
  <2>4. tcp_sockets \in [Places -> Sockets \union {Null, Wild}]
    BY DEF TInv, ListOK, TablesOK
  <2>5. apps[a].socket \in Sockets
    BY <1>0 DEF TInv, TablesOK, AppsOK, AppOK, AppRecord
  <2>6. /\ \A b \in Apps : b # a => apps'[b] = apps[b] /\ apps[b].pc # "terminate"
        /\ apps'[a].pc = "terminate" /\ apps'[a].place = n
    BY <1>0, <2>3 DEF ListLocked, AppRecord
  <2>7. /\ tcp_sockets'[n] = apps[a].socket
        /\ \A place \in Places : place # n => tcp_sockets'[place] = tcp_sockets[place]
    BY <2>2, <2>3, <2>4
  <2>8. 0 \in Places /\ \A place \in Places : place \in Nat /\ place <= ListSize - 1
    BY <1>0 DEF Places
  <2>9. ASSUME tcp_sockets'[0] # Wild PROVE \E end : IsEnd(end)'
    <3>1. tcp_sockets[0] # Wild
      <4>1. CASE n = 0
        BY <2>2, <4>1, TableAssumption
      <4>2. CASE n # 0
        BY <2>7, <2>8, <2>9, <4>2
      <4> QED BY <4>1, <4>2
    <3>2. PICK end : IsEnd(end)
      BY <3>1 DEF ListShape
    <3>3. end \in Places /\ end \in Nat /\ tcp_sockets[end] = Null
      BY <1>0, <2>8, <3>2 DEF IsEnd
    <3>4. ~ (n < end)
      BY <2>2, <3>2, TableAssumption DEF IsEnd
    <3>5. end < ListSize - 1
      BY <1>0, <2>2, <3>3, <3>4
    <3>6. n = end
      BY <2>2, <3>3, <3>4, <3>5
    <3>7. n + 1 \in Places
      BY <1>0, <2>2 DEF Places
    <3>8. \A place \in Places : place < n + 1 => tcp_sockets'[place] \in Sockets
      BY <2>2, <2>5, <2>7, <2>8, <3>2, <3>6 DEF IsEnd
    <3>9. \A place \in Places : place >= n + 1 => tcp_sockets'[place] \notin Sockets
      BY <2>2, <2>7, <2>8, <3>2, <3>6 DEF IsEnd
    <3>10. ListLocked' /\ \A b \in Apps : apps'[b].pc = "terminate" => n + 1 = apps'[b].place + 1
      BY <2>6 DEF ListLocked
    <3>11. IsEnd(n + 1)'
      BY <3>7, <3>8, <3>9, <3>10 DEF IsEnd, Places
    <3> QED BY <3>11
  <2> QED BY <2>6, <2>9 DEF ListShape
<1> QED BY <1>1, <1>2

\* The element behind the new socket becomes 0, and the lock is released.
LEMMA TerminateShape ==
  ASSUME TInv, ListShape, NEW a \in Apps, TerminateList(a)
  PROVE  ListShape'
<1>1. /\ apps[a].pc = "terminate" /\ DOMAIN apps = Apps /\ apps[a].place \in Places
      /\ apps[a].place < ListSize - 1 /\ ListSize \in Nat
  BY TableAssumption DEF TerminateList, At, TInv, AppsOK, AppOK, AppRecord
<1>2. PICK n : n = apps[a].place + 1
  OBVIOUS
<1>3. n \in Places /\ n \in Nat /\ n > 0
  BY <1>1, <1>2 DEF Places
<1>4. /\ tcp_sockets' = [tcp_sockets EXCEPT ![n] = Null]
      /\ apps' = [apps EXCEPT ![a] = [FreshApp EXCEPT !.socket = apps[a].socket]]
  BY <1>2 DEF TerminateList
<1>5. /\ tcp_sockets'[n] = Null
      /\ \A place \in Places : place # n => tcp_sockets'[place] = tcp_sockets[place]
  BY <1>3, <1>4 DEF TInv, ListOK
<1>6. \A b \in Apps : apps'[b].pc # "terminate"
  BY <1>1, <1>4 DEF ListShape, FreshApp
<1>7. 0 \in Places /\ \A place \in Places : place \in Nat
  BY <1>1 DEF Places
<1>8. ASSUME tcp_sockets'[0] # Wild PROVE \E end : IsEnd(end)'
  <2>1. tcp_sockets[0] # Wild
    BY <1>3, <1>5, <1>7, <1>8
  <2>2. PICK end : IsEnd(end)
    BY <2>1 DEF ListShape
  <2>3. end = n
    BY <1>1, <1>2, <2>2 DEF IsEnd
  <2>4. Null \notin Sockets
    BY TableAssumption
  <2>5. IsEnd(n)'
    BY <1>3, <1>5, <1>6, <1>7, <2>2, <2>3, <2>4 DEF IsEnd, Places
  <2> QED BY <2>5
<1> QED BY <1>6, <1>8 DEF ListShape

\* Every step keeps the shape of the list.
LEMMA ListShapeStep ==
  ASSUME TInv, ListShape, [Next]_vars
  PROVE  ListShape'
<1>1. CASE UNCHANGED <<tcp_sockets, apps>>
  BY <1>1, ListKeptShape DEF ListKept
<1>2. CASE Worker
  BY <1>1, <1>2 DEF Worker, ReadWild, Dies, ReadExisting, ReadMissing, ReadCreate, StateDelete,
                    StateSyn, StateOther
<1>3. ASSUME NEW a \in Apps, Application(a) PROVE ListShape'
  <2>1. DOMAIN apps = Apps /\ apps[a] \in AppRecord
    BY DEF TInv, AppsOK, AppOK
  <2>2. ASSUME NEW app, apps' = [apps EXCEPT ![a] = app], app.pc # "terminate",
               apps[a].pc # "terminate", UNCHANGED tcp_sockets
        PROVE  ListShape'
    BY <2>1, <2>2, OutsideLock, ListKeptShape
  <2>3. FreshApp.pc # "terminate"
        /\ [FreshApp EXCEPT !.socket = apps[a].socket].pc # "terminate"
    BY DEF FreshApp
  <2>4. ASSUME NEW port \in Sockets, CreateSocket(a, port) PROVE ListShape'
    <3>1. apps' = [apps EXCEPT ![a] = [apps[a] EXCEPT !.pc = "add_socket", !.socket = port]]
          /\ [apps[a] EXCEPT !.pc = "add_socket", !.socket = port].pc = "add_socket"
      BY <2>1, <2>4 DEF CreateSocket, AppRecord
    <3> QED BY <2>2, <2>4, <3>1 DEF CreateSocket, At
  <2>5. ASSUME NEW host \in Hosts, NEW port \in Ports, Connect(a, host, port) PROVE ListShape'
    <3> PICK app : app = [apps[a] EXCEPT !.pc = "write_syn", !.tcb = Len(tcbs) + 1,
                                         !.id = ConnectionId(host, port, apps[a].socket)]
      OBVIOUS
    <3>1. apps' = [apps EXCEPT ![a] = app] /\ app.pc = "write_syn"
      BY <2>1, <2>5 DEF Connect, AppRecord
    <3> QED BY <2>2, <2>5, <3>1 DEF Connect, At
  <2>6. CASE WriteSyn(a)
    <3>1. [apps[a] EXCEPT !.pc = "count_syn"].pc = "count_syn"
      BY <2>1 DEF AppRecord
    <3>2. \/ UNCHANGED apps
          \/ apps' = [apps EXCEPT ![a] = [FreshApp EXCEPT !.socket = apps[a].socket]]
          \/ apps' = [apps EXCEPT ![a] = [apps[a] EXCEPT !.pc = "count_syn"]]
      BY <2>1, <2>6 DEF WriteSyn
    <3> QED BY <1>1, <2>2, <2>3, <2>6, <3>1, <3>2 DEF WriteSyn, At
  <2>7. CASE CountSyn(a) \/ SendWrite(a)
    <3> PICK app : app = [apps[a] EXCEPT !.pc = "connected", !.tcb = Null]
      OBVIOUS
    <3>1. apps' = [apps EXCEPT ![a] = app] /\ app.pc = "connected"
      BY <2>1, <2>7 DEF CountSyn, SendWrite, AppRecord
    <3> QED BY <2>2, <2>7, <3>1 DEF CountSyn, SendWrite, At
  <2>8. CASE SendLookup(a)
    <3> PICK app : app = [apps[a] EXCEPT !.pc = "send",
                                         !.tcb = GetTcb(apps[a].socket, apps[a].id)]
      OBVIOUS
    <3>1. UNCHANGED apps \/ apps' = [apps EXCEPT ![a] = app]
      BY <2>1, <2>8 DEF SendLookup
    <3>2. app.pc = "send"
      BY <2>1 DEF AppRecord
    <3> QED BY <1>1, <2>2, <2>8, <3>1, <3>2 DEF SendLookup, At
  <2>9. CASE Leave(a)
    BY <2>2, <2>3, <2>9 DEF Leave, At
  <2> QED BY <1>3, <2>4, <2>5, <2>6, <2>7, <2>8, <2>9, AddSocketShape, TerminateShape
          DEF Application
<1> QED BY <1>1, <1>2, <1>3 DEF Next, vars

(***************************************************************************)
(* tcp_get_socket takes no lock and stops at the first 0: if the list's    *)
(* first element was 0 to begin with, then outside tcp_add_socket it finds *)
(* every listed socket and meets no memory that was never set, for every   *)
(* list size, also when the list is full.                                  *)
(***************************************************************************)
THEOREM SocketListStaysUsable == Spec => []SocketListUsable
<1>1. Init => ListShape
  <2> SUFFICES ASSUME Init PROVE ListShape
    OBVIOUS
  <2>1. \A a \in Apps : apps[a].pc = "ready"
    BY DEF Init, FreshApp
  <2>2. tcp_sockets \in [Places -> {Null, Wild}] /\ Null \notin Sockets /\ Wild \notin Sockets
    BY TableAssumption DEF Init
  <2>3. 0 \in Places /\ \A place \in Places : place \in Nat /\ ~ (place < 0)
    BY TableAssumption DEF Places
  <2>4. tcp_sockets[0] # Wild => IsEnd(0)
    BY <2>1, <2>2, <2>3 DEF IsEnd
  <2> QED BY <2>1, <2>4 DEF ListShape
<1>2. TInv /\ ListShape => SocketListUsable
  <2> SUFFICES ASSUME TInv, ListShape, tcp_sockets[0] # Wild, ~ ListLocked, NEW port \in Sockets
               PROVE  GetSocket(port) =
                        IF \E i \in Places : tcp_sockets[i] = port THEN port ELSE Null
    BY DEF SocketListUsable
  <2> DEFINE stops == {i \in Places : tcp_sockets[i] \in {Null, Wild, port}}
  <2>1. PICK end : IsEnd(end)
    BY DEF ListShape
  <2>2. /\ end \in stops /\ stops \subseteq Nat /\ Null \notin Sockets /\ Wild \notin Sockets
        /\ tcp_sockets[end] = Null
    BY <2>1, TableAssumption DEF IsEnd, Places
  <2>3. PICK first : first = Min(stops)
    OBVIOUS
  <2>4. first \in stops /\ first \in Nat /\ \A i \in stops : first <= i
    BY <2>2, <2>3, MinIsLeast
  <2>5. GetSocket(port) = tcp_sockets[first]
    BY <2>2, <2>3 DEF GetSocket
  <2>6. CASE \E i \in Places : tcp_sockets[i] = port
    <3>1. PICK i \in Places : tcp_sockets[i] = port
      BY <2>6
    <3>2. i \in stops /\ i \in Nat /\ end \in Nat /\ i < end
      <4>1. i \in Nat /\ end \in Nat
        BY <2>1 DEF IsEnd, Places
      <4> QED BY <2>1, <3>1, <4>1 DEF IsEnd
    <3>3. first < end
      BY <2>4, <3>2
    <3>4. tcp_sockets[first] \in Sockets
      BY <2>1, <2>4, <3>3 DEF IsEnd
    <3> QED BY <2>2, <2>4, <2>5, <2>6, <3>4
  <2>7. CASE ~ \E i \in Places : tcp_sockets[i] = port
    <3>1. tcp_sockets[first] \in {Null, Wild}
      BY <2>4, <2>7
    <3>2. first <= end /\ end \in Nat
      BY <2>2, <2>4
    <3>3. first = end
      BY <2>1, <2>2, <2>4, <3>1, <3>2 DEF IsEnd
    <3> QED BY <2>2, <2>5, <2>7, <3>3
  <2> QED BY <2>6, <2>7
<1> QED BY <1>1, <1>2, TablesInvariant, ListShapeStep, PTL DEF Spec
=============================================================================
