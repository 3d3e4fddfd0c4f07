-------------------------------- MODULE Arp --------------------------------
(***************************************************************************)
(* The ARP handler (handlers/arp/arp.c) and its resolution list, shared by *)
(* the worker, which runs arp_read, and the thread of programs/arp/arp.c,  *)
(* which asks the socket for its status (handlers/arp/socket.c).           *)
(*                                                                         *)
(* The list is a ring of pointers to entries.  Lookups copy and compare    *)
(* under the lock's read side, arp_insert_mapping runs under its write     *)
(* side, but arp_read updates the entry it found after the unlock.  A MAC  *)
(* address has two parts, which a memcpy moves one after the other.        *)
(*                                                                         *)
(* arp_init_handler never assigns insert_idx: it starts at whatever malloc *)
(* left there, inside the list or not.                                     *)
(***************************************************************************)
EXTENDS Naturals, FiniteSets

CONSTANTS
  Size,             \* ARP_RESOLUTION_LIST_SIZE
  Entries,          \* the addresses malloc may return for an entry
  Ips,              \* addresses of the senders
  Macs,             \* their hardware addresses, functions on Parts
  InitialIndex,     \* what malloc may leave in insert_idx
  Garbage,          \* what malloc may leave in num_arp_entries
  Null

Parts == 1 .. 2
Slots == 0 .. Size - 1

Content(ipv4, mac) == [ipv4 |-> ipv4, mac |-> mac]

\* what an address under way may be: each part is one of some address
Halves == {mac[p] : mac \in Macs, p \in Parts}
HalfWritten == [Parts -> Halves]

ASSUME ArpAssumption ==
  /\ Size \in Nat \ {0}
  /\ IsFiniteSet(Entries) /\ Cardinality(Entries) > Size /\ Null \notin Entries
  /\ Macs \subseteq HalfWritten
  /\ \A ipv4 \in Ips, mac \in HalfWritten : Content(ipv4, mac) # Null
  /\ InitialIndex \subseteq Nat /\ Garbage \subseteq Nat

VARIABLES
  list, insert_idx,     \* resolution_list
  start,                \* history: where insert_idx started
  heap,                 \* what an entry holds, Null when it is not allocated
  worker, header,       \* where arp_read is, and the packet it reads
  mapping,              \* the entry arp_get_ip_mapping returned
  program, i, part,     \* where status is: the slot and the part it copies
  arp_status,           \* what it has copied, and num_arp_entries
  latest                \* history: the MAC last announced by each sender

listVars == <<list, insert_idx, start>>
workerVars == <<worker, header, mapping>>
programVars == <<program, i, part, arp_status>>
vars == <<listVars, heap, workerVars, programVars, latest>>

\* ours: the target address is the interface's; supported: IPv4 over Ethernet
Header == [ip : Ips, mac : Macs, ours : BOOLEAN, request : BOOLEAN, supported : BOOLEAN]

-----------------------------------------------------------------------------
(* arp_read, in the worker *)

\* the search gets as far as this slot: it stops at the first empty one
Reaches(slot) == \A before \in 0 .. slot : list[before] # Null

Matches(slot, ip) == Reaches(slot) /\ heap[list[slot]].ipv4 = ip

\* arp_get_ip_mapping: the first entry with that address
GetIpMapping(ip) ==
  IF \E slot \in Slots : Matches(slot, ip)
  THEN list[CHOOSE slot \in Slots :
              Matches(slot, ip) /\ \A before \in 0 .. slot - 1 : ~ Matches(before, ip)]
  ELSE Null

\* the locals go with the call
Return == worker' = "idle" /\ header' = Null /\ mapping' = Null

\* a response if there is one to send, the return otherwise
ProceedIf(responds) ==
  IF responds THEN worker' = "respond" /\ UNCHANGED <<header, mapping>> ELSE Return

\* another hardware or protocol type
ArpReadUnsupported(packet) ==
  /\ worker = "idle" /\ ~ packet.supported
  /\ UNCHANGED vars

\* Mutation of ArpRead: only packets for this interface are looked at.
ArpReadOnlyOurs(packet) ==
  /\ worker = "idle" /\ packet.supported
  /\ IF packet.ours
     THEN /\ header' = packet /\ mapping' = GetIpMapping(packet.ip)
          /\ worker' = IF mapping' # Null THEN "update" ELSE "target"
     ELSE Return
  /\ latest' = [latest EXCEPT ![packet.ip] = packet.mac]
  /\ UNCHANGED <<listVars, heap, programVars>>

\* everything up to the search; the socket the program sets has no next_handler
ArpRead(packet) ==
  /\ worker = "idle" /\ packet.supported /\ header' = packet
  /\ mapping' = GetIpMapping(packet.ip)
  /\ worker' = IF mapping' # Null THEN "update" ELSE "target"
  /\ latest' = [latest EXCEPT ![packet.ip] = packet.mac]
  /\ UNCHANGED <<listVars, heap, programVars>>

\* the memcpy to mapping->mac, without the lock
UpdateMac ==
  \/ /\ worker = "update" /\ worker' = "update_rest"
     /\ heap' = [heap EXCEPT ![mapping].mac[1] = header.mac[1]]
     /\ UNCHANGED <<listVars, header, mapping, programVars, latest>>
  \/ /\ worker = "update_rest" /\ worker' = "target"
     /\ heap' = [heap EXCEPT ![mapping] = Content(header.ip, [@.mac EXCEPT ![2] = header.mac[2]])]
     /\ UNCHANGED <<listVars, header, mapping, programVars, latest>>

\* Mutation of InsertMapping: the write lock is not taken.
InsertMappingUnlocked ==
  /\ worker = "target" /\ header.ours /\ mapping = Null /\ insert_idx \in Slots
  /\ \E entry \in {e \in Entries : heap[e] = Null} :
       LET old == list[insert_idx]
       IN  /\ heap' = [e \in Entries |->
                         IF e = entry THEN Content(header.ip, header.mac)
                         ELSE IF e = old THEN Null ELSE heap[e]]
           /\ list' = [list EXCEPT ![insert_idx] = entry]
  /\ insert_idx' = (insert_idx + 1) % Size
  /\ ProceedIf(header.request)
  /\ UNCHANGED <<start, programVars, latest>>

\* Mutation of InsertMapping: the index moves before the entry is stored.
InsertMappingMovesFirst ==
  /\ worker = "target" /\ header.ours /\ mapping = Null /\ insert_idx \in Slots
  /\ program # "copying"
  /\ insert_idx' = (insert_idx + 1) % Size
  /\ \E entry \in {e \in Entries : heap[e] = Null} :
       LET old == list[insert_idx']
       IN  /\ heap' = [e \in Entries |->
                         IF e = entry THEN Content(header.ip, header.mac)
                         ELSE IF e = old THEN Null ELSE heap[e]]
           /\ list' = [list EXCEPT ![insert_idx'] = entry]
  /\ ProceedIf(header.request)
  /\ UNCHANGED <<start, programVars, latest>>

\* a new entry takes the place of the oldest, which is freed
InsertMapping ==
  /\ worker = "target" /\ header.ours /\ mapping = Null /\ insert_idx \in Slots
  /\ program # "copying"
  /\ \E entry \in {e \in Entries : heap[e] = Null} :
       LET old == list[insert_idx]
       IN  /\ heap' = [e \in Entries |->
                         IF e = entry THEN Content(header.ip, header.mac)
                         ELSE IF e = old THEN Null ELSE heap[e]]
           /\ list' = [list EXCEPT ![insert_idx] = entry]
  /\ insert_idx' = (insert_idx + 1) % Size
  /\ ProceedIf(header.request)
  /\ UNCHANGED <<start, programVars, latest>>

\* the first insertion, when insert_idx was left outside the list: whatever is
\* there is freed (undefined), or the entry is stored there, where no search
\* finds it (uint16_t wraps at 65536, which ARP_RESOLUTION_LIST_SIZE divides)
InsertOutside ==
  /\ worker = "target" /\ header.ours /\ mapping = Null /\ insert_idx \notin Slots
  /\ program # "copying"
  /\ \/ worker' = "fault" /\ UNCHANGED <<insert_idx, header, mapping>>
     \/ insert_idx' = (insert_idx + 1) % Size /\ ProceedIf(header.request)
  /\ UNCHANGED <<list, start, heap, programVars, latest>>

\* the packet was not for us, or the sender was known
NoInsert ==
  /\ worker = "target" /\ (header.ours => mapping # Null)
  /\ ProceedIf(header.ours /\ header.request)
  /\ UNCHANGED <<listVars, heap, programVars, latest>>

\* arp_write hands the response to ethernet_write; arp_read returns
Respond ==
  /\ worker = "respond" /\ Return
  /\ UNCHANGED <<listVars, heap, programVars, latest>>

-----------------------------------------------------------------------------
(* status, in the program's thread *)

NoStatus == [entries |-> [slot \in Slots |-> Null], num_arp_entries |-> 0]

\* NET_STACK_MALLOC does not clear the count, and the read lock is taken
StatusStart ==
  /\ program = "sleeping" /\ program' = "copying" /\ i' = 0 /\ part' = 1
  /\ \E garbage \in Garbage :
       arp_status' = [NoStatus EXCEPT !.num_arp_entries = garbage]
  /\ UNCHANGED <<listVars, heap, workerVars, latest>>

\* one part of list[i]; the address comes with the first
StatusCopy ==
  /\ program = "copying" /\ i < Size /\ list[i] # Null
  /\ LET entry == heap[list[i]]
     IN  arp_status' = IF part = 1
                       THEN [arp_status EXCEPT !.entries[i] = entry]
                       ELSE [arp_status EXCEPT !.entries[i].mac[2] = entry.mac[2]]
  /\ part' = 3 - part
  /\ i' = IF part = 2 THEN i + 1 ELSE i
  /\ UNCHANGED <<listVars, heap, workerVars, program, latest>>

\* the first empty slot ends the copy and gives the count; the lock is released
StatusEmptySlot ==
  /\ program = "copying" /\ i < Size /\ list[i] = Null
  /\ arp_status' = [arp_status EXCEPT !.num_arp_entries = i]
  /\ program' = "printing"
  /\ UNCHANGED <<listVars, heap, workerVars, i, part, latest>>

\* the loop ran to its end without an empty slot
StatusFull ==
  /\ program = "copying" /\ i = Size /\ list[Size - 1] # Null
  /\ program' = "printing"
  /\ UNCHANGED <<listVars, heap, workerVars, i, part, arp_status, latest>>

\* arp_status prints and frees what it got; net_stack->state is never set,
\* so the thread may sleep and come back or end
StatusPrinted ==
  /\ program = "printing" /\ program' \in {"sleeping", "ended"}
  /\ i' = 0 /\ part' = 1 /\ arp_status' = NoStatus
  /\ UNCHANGED <<listVars, heap, workerVars, latest>>

-----------------------------------------------------------------------------

\* arp_init_handler empties the slots and leaves insert_idx as it is
Init ==
  /\ list = [slot \in Slots |-> Null] /\ insert_idx \in InitialIndex
  /\ start = insert_idx
  /\ heap = [e \in Entries |-> Null]
  /\ worker = "idle" /\ header = Null /\ mapping = Null
  /\ program = "sleeping" /\ i = 0 /\ part = 1 /\ arp_status = NoStatus
  /\ latest = [ip \in Ips |-> Null]

Worker == UpdateMac \/ InsertMapping \/ InsertOutside \/ NoInsert \/ Respond
Status == StatusCopy \/ StatusEmptySlot \/ StatusFull \/ StatusPrinted

\* what follows a free of something that is no entry is undefined
Undefined == worker = "fault" /\ UNCHANGED vars

Next ==
  \/ /\ worker # "fault"
     /\ \/ \E packet \in Header : ArpReadUnsupported(packet) \/ ArpRead(packet)
        \/ Worker \/ StatusStart \/ Status
  \/ Undefined

\* a blocked writer gets the lock when the only reader lets go of it
Fairness ==
  /\ WF_vars(UpdateMac) /\ WF_vars(NoInsert) /\ WF_vars(Respond) /\ SF_vars(InsertMapping)
  /\ SF_vars(InsertOutside) /\ WF_vars(worker # "fault" /\ Status)

Spec == Init /\ [][Next]_vars /\ Fairness

-----------------------------------------------------------------------------

Allocated == {e \in Entries : heap[e] # Null}
Listed == {list[slot] : slot \in Slots} \ {Null}

(***************************************************************************)
(* Every variable has its type, and the list refers to allocated entries   *)
(* only: what arp_insert_mapping frees is what it takes from the list.     *)
(* An insert_idx outside the list is the one malloc left: the list is      *)
(* empty then, and the first insertion takes it inside.                    *)
(***************************************************************************)
TypeOK ==
  /\ list \in [Slots -> Entries \union {Null}] /\ {insert_idx, start} \subseteq Nat
  /\ insert_idx \notin Slots => insert_idx = start /\ Listed = {}
  /\ Listed = Allocated
  /\ \A e \in Allocated : heap[e].ipv4 \in Ips
  /\ header \in Header \union {Null} /\ mapping \in Entries \union {Null}
  /\ worker \in {"idle", "update", "update_rest", "target", "respond", "fault"}
  /\ program \in {"sleeping", "copying", "printing", "ended"}
  /\ i \in 0 .. Size /\ part \in Parts

(***************************************************************************)
(* An address is listed once: arp_read inserts only after a search that    *)
(* found nothing.                                                          *)
(***************************************************************************)
NoDuplicates ==
  \A one, other \in Slots :
    /\ list[one] # Null /\ list[other] # Null
    /\ heap[list[one]].ipv4 = heap[list[other]].ipv4
    => one = other

(***************************************************************************)
(* The search stops at the first empty slot and still finds every listed   *)
(* address.  test/arp/test.c:85 looks up the sender arp_read has inserted  *)
(* and uses the entry it gets.                                             *)
(***************************************************************************)
LookupFindsEvery ==
  \A slot \in Slots : list[slot] # Null => GetIpMapping(heap[list[slot]].ipv4) = list[slot]

(***************************************************************************)
(* The list is consistent under both threads and through its wrap-around:  *)
(* its slots and the allocated entries agree wherever insert_idx started;  *)
(* if it started at 0, which arp_init_handler (arp.c:57-73) leaves to      *)
(* malloc, it is also without duplicates and without a gap that hides an   *)
(* entry.  Arp_index.cfg shows both from another start.                    *)
(***************************************************************************)
ListConsistent == TypeOK /\ (start = 0 => NoDuplicates /\ LookupFindsEvery)

(***************************************************************************)
(* Between two packets an entry holds the hardware address its sender      *)
(* announced last, whomever that packet was for, provided that insert_idx  *)
(* started at 0: from another start an entry behind the gap is not found,  *)
(* inserted again and left with its old address.                           *)
(***************************************************************************)
MappingIsLatest ==
  worker = "idle" /\ start = 0 => \A e \in Allocated : heap[e].mac = latest[heap[e].ipv4]

(***************************************************************************)
(* Neither thread touches a freed entry: not the worker, which writes to   *)
(* the entry it found after the unlock, nor status, which copies list[i].  *)
(* Wherever insert_idx started, up to a first insertion outside the list.  *)
(***************************************************************************)
NoUseAfterFree ==
  /\ worker \in {"update", "update_rest"} => mapping \in Allocated
  /\ program = "copying" /\ part = 2 =>
       /\ list[i] \in Allocated
       /\ heap[list[i]].ipv4 = arp_status.entries[i].ipv4

(***************************************************************************)
(* arp_read returns: status, which holds the lock while it copies, does    *)
(* not keep an insertion waiting for ever.  A first insertion outside the  *)
(* list may end it otherwise.                                              *)
(***************************************************************************)
ReadReturns == (worker # "idle") ~> (worker \in {"idle", "fault"})

(***************************************************************************)
(* The lock is the "lock for arp mapping table" (arp.c:65): what status    *)
(* copied under it are addresses that senders announced, never a mixture.  *)
(***************************************************************************)
StatusNotTorn ==
  program = "printing" =>
    \A slot \in Slots : arp_status.entries[slot] # Null => arp_status.entries[slot].mac \in Macs

(***************************************************************************)
(* "ARP Status: %d entries" (programs/arp/arp.c:51): the count is the      *)
(* number of entries that were copied.                                     *)
(***************************************************************************)
StatusCountsEntries ==
  program = "printing" =>
    arp_status.num_arp_entries
      = Cardinality({slot \in Slots : arp_status.entries[slot] # Null})
=============================================================================
