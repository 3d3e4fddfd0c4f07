----------------------------- MODULE Arp_proofs -----------------------------
(***************************************************************************)
(* The ARP list for every size, every number of entries, senders and       *)
(* hardware addresses, with the worker and the program's thread            *)
(* interleaved at will.                                                    *)
(***************************************************************************)
EXTENDS Arp, WellFoundedInduction, TLAPS

Stored == [ipv4 : Ips, mac : HalfWritten]

(***************************************************************************)
(* The inductive invariant, first the part that holds whatever malloc left *)
(* in insert_idx.  The list refers to what is allocated, once, and what is *)
(* allocated is listed.                                                    *)
(***************************************************************************)
HeapOK ==
  /\ list \in [Slots -> Entries \union {Null}]
  /\ heap \in [Entries -> Stored \union {Null}]
  /\ \A slot \in Slots : list[slot] # Null => heap[list[slot]] # Null
  /\ \A e \in Entries : heap[e] # Null => \E slot \in Slots : list[slot] = e
  /\ \A one, other \in Slots : list[one] # Null /\ list[one] = list[other] => one = other

\* an insert_idx outside the list is the first one, and nothing is listed yet
IndexOK ==
  /\ insert_idx \in Nat /\ start \in Nat
  /\ insert_idx \notin Slots => insert_idx = start /\ \A slot \in Slots : list[slot] = Null

\* the entry that arp_read writes to after the unlock is still the sender's
WorkerOK ==
  /\ worker \in {"idle", "update", "update_rest", "target", "respond", "fault"}
  /\ header \in Header \union {Null} /\ mapping \in Entries \union {Null}
  /\ worker # "idle" => header \in Header
  /\ worker \in {"update", "update_rest"} =>
       mapping \in Entries /\ heap[mapping] # Null /\ heap[mapping].ipv4 = header.ip

\* halfway through an entry, status has the address of the entry it reads
ProgramOK ==
  /\ program \in {"sleeping", "copying", "printing", "ended"}
  /\ i \in 0 .. Size /\ part \in Parts
  /\ arp_status \in [entries : [Slots -> Stored \union {Null}], num_arp_entries : Nat]
  /\ program = "copying" /\ part = 2 =>
       /\ i \in Slots /\ list[i] # Null
       /\ arp_status.entries[i] # Null /\ arp_status.entries[i].ipv4 = heap[list[i]].ipv4

SInv == HeapOK /\ IndexOK /\ WorkerOK /\ ProgramOK

(***************************************************************************)
(* The part that needs insert_idx to start at 0: until the list is full    *)
(* the entries are the slots below insert_idx, so that the search meets    *)
(* all of them; a search that failed stays true until the insertion; and   *)
(* only the entry being written differs from the last announcement.        *)
(***************************************************************************)
NoGap ==
  /\ insert_idx \in Slots
  /\ \/ \A slot \in Slots : list[slot] # Null
     \/ \A slot \in Slots : list[slot] # Null <=> slot < insert_idx

MissOK ==
  worker = "target" /\ mapping = Null =>
    \A e \in Entries : heap[e] # Null => heap[e].ipv4 # header.ip

LatestOK ==
  /\ latest \in [Ips -> Macs \union {Null}]
  /\ worker # "idle" => latest[header.ip] = header.mac
  /\ \A e \in Entries : heap[e] # Null =>
       \/ heap[e].mac = latest[heap[e].ipv4]
       \/ worker \in {"update", "update_rest"} /\ e = mapping
  /\ worker = "update_rest" => heap[mapping].mac[1] = header.mac[1]

RInv == SInv /\ NoGap /\ NoDuplicates /\ MissOK /\ LatestOK

\* both parts, for every start
IInv == SInv /\ (start = 0 => RInv)

-----------------------------------------------------------------------------
(* The helpers *)

\* The search returns the first of the slots that match, if there is one.
LEMMA GetIpMappingFinds ==
  ASSUME NEW ip
  PROVE  \/ GetIpMapping(ip) = Null /\ \A slot \in Slots : ~ Matches(slot, ip)
         \/ \E slot \in Slots : Matches(slot, ip) /\ GetIpMapping(ip) = list[slot]
<1> DEFINE S == {slot \in Slots : Matches(slot, ip)}
           IsFirst(slot) == Matches(slot, ip)
                            /\ \A before \in 0 .. slot - 1 : ~ Matches(before, ip)
<1>1. CASE \E slot \in Slots : Matches(slot, ip)
  <2>1. S \subseteq Nat /\ S # {}
    BY <1>1 DEF Slots
  <2>2. PICK x \in S : \A y \in S : <<y, x>> \notin OpToRel(<, Nat)
    BY <2>1, NatLessThanWellFounded, WFMin
  <2>3. \A y \in S : ~ (y < x)
    BY <2>1, <2>2 DEF OpToRel
  <2>4. x \in Slots /\ Matches(x, ip)
    BY <2>2
  <2>5. \A before \in 0 .. x - 1 : before \in Slots /\ before < x
    <3>1. Size \in Nat
      BY ArpAssumption
    <3>2. x \in Slots
      BY <2>4
    <3> QED BY <3>1, <3>2 DEF Slots
  <2>6. x \in Slots /\ IsFirst(x)
    <3>1. ASSUME NEW before \in 0 .. x - 1 PROVE ~ Matches(before, ip)
      BY <2>3, <2>5
    <3> QED BY <2>4, <3>1
  <2>7. GetIpMapping(ip) = list[CHOOSE slot \in Slots : IsFirst(slot)]
    BY <1>1 DEF GetIpMapping
  <2> HIDE DEF IsFirst
  <2>8. (CHOOSE slot \in Slots : IsFirst(slot)) \in Slots
        /\ IsFirst(CHOOSE slot \in Slots : IsFirst(slot))
    BY <2>6
  <2>9. \A slot : IsFirst(slot) => Matches(slot, ip)
    BY DEF IsFirst
  <2> QED BY <2>7, <2>8, <2>9
<1>2. CASE ~ \E slot \in Slots : Matches(slot, ip)
  BY <1>2 DEF GetIpMapping
<1> QED BY <1>1, <1>2

\* The entry that the search returns is allocated and is the sender's.
LEMMA FoundIsAllocated ==
  ASSUME HeapOK, NEW ip, GetIpMapping(ip) # Null
  PROVE  /\ GetIpMapping(ip) \in Entries
         /\ heap[GetIpMapping(ip)] # Null /\ heap[GetIpMapping(ip)].ipv4 = ip
<1>1. PICK slot \in Slots : Matches(slot, ip) /\ GetIpMapping(ip) = list[slot]
  BY GetIpMappingFinds
<1> QED BY <1>1 DEF HeapOK, Matches

\* The ring: the next index is a slot again, the next one or the first.
LEMMA NextIndex ==
  ASSUME NEW n \in Nat
  PROVE  /\ (n + 1) % Size \in Slots
         /\ n + 1 < Size => (n + 1) % Size = n + 1
<1> n \in Nat /\ Size \in Nat /\ Size > 0
  BY ArpAssumption
<1> QED BY DEF Slots

\* What is stored is not Null.
LEMMA StoredNotNull ==
  ASSUME NEW ip \in Ips, NEW mac \in HalfWritten
  PROVE  Content(ip, mac) \in Stored /\ Content(ip, mac) # Null
<1>1. Content(ip, mac) # Null
  BY ArpAssumption
<1> QED BY <1>1 DEF Content, Stored

-----------------------------------------------------------------------------
(* The initial states *)

\* The list is empty and nobody is in the middle of anything.
LEMMA SInvInit == Init => SInv
<1> SUFFICES ASSUME Init PROVE SInv
  OBVIOUS
<1> Size \in Nat /\ Size > 0 /\ InitialIndex \subseteq Nat
  BY ArpAssumption
<1>1. HeapOK /\ IndexOK
  BY DEF Init, HeapOK, IndexOK
<1>2. WorkerOK
  BY DEF Init, WorkerOK
<1>3. ProgramOK
  BY DEF Init, ProgramOK, NoStatus, Parts, Slots
<1> QED BY <1>1, <1>2, <1>3 DEF SInv

\* An empty list has no gap when the first insertion goes to slot 0.
LEMMA IInvInit == Init => IInv
<1> SUFFICES ASSUME Init PROVE SInv /\ (start = 0 => RInv)
  BY DEF IInv
<1>1. SInv
  BY SInvInit
<1>2. ASSUME start = 0 PROVE NoGap
  <2>1. Size \in Nat /\ Size > 0 /\ insert_idx = 0
    BY <1>2, ArpAssumption DEF Init
  <2> QED BY <2>1 DEF Init, NoGap, Slots
<1>3. NoDuplicates /\ MissOK /\ LatestOK
  BY DEF Init, NoDuplicates, MissOK, LatestOK
<1> QED BY <1>1, <1>2, <1>3 DEF RInv

-----------------------------------------------------------------------------
(* The steps of the worker *)

\* The insertion, apart from where arp_read goes next.
Inserted(entry) ==
  /\ entry \in Entries /\ heap[entry] = Null /\ insert_idx \in Slots
  /\ heap' = [e \in Entries |->
                IF e = entry THEN Content(header.ip, header.mac)
                ELSE IF e = list[insert_idx] THEN Null ELSE heap[e]]
  /\ list' = [list EXCEPT ![insert_idx] = entry]
  /\ insert_idx' = (insert_idx + 1) % Size

\* An insertion is one of a free entry.
LEMMA InsertionInserts ==
  ASSUME InsertMapping
  PROVE  \E entry \in Entries : Inserted(entry)
BY DEF InsertMapping, Inserted

\* What the slots and the entries hold after an insertion.
LEMMA InsertedContent ==
  ASSUME HeapOK, header \in Header, NEW entry, Inserted(entry)
  PROVE  /\ heap'[entry] = Content(header.ip, header.mac)
         /\ heap'[entry] \in Stored /\ heap'[entry] # Null /\ heap'[entry].ipv4 = header.ip
         /\ heap'[entry].mac = header.mac
         /\ list'[insert_idx] = entry
         /\ \A slot \in Slots : slot # insert_idx =>
              /\ list'[slot] = list[slot]
              /\ list[slot] # entry
              /\ list[slot] # Null => heap'[list[slot]] = heap[list[slot]]
         /\ \A e \in Entries : e # entry =>
              \/ heap'[e] = Null
              \/ heap'[e] = heap[e] /\ e # list[insert_idx]
<1>1. header.ip \in Ips /\ header.mac \in HalfWritten
  BY ArpAssumption DEF Header
<1>2. Content(header.ip, header.mac) \in Stored /\ Content(header.ip, header.mac) # Null
  BY <1>1, StoredNotNull
<1>3. entry \in Entries /\ heap'[entry] = Content(header.ip, header.mac)
  BY DEF Inserted
<1>4. \A slot \in Slots : list[slot] # entry
  BY ArpAssumption DEF HeapOK, Inserted
<1>5. /\ list'[insert_idx] = entry
      /\ \A slot \in Slots : slot # insert_idx => list'[slot] = list[slot]
  BY DEF HeapOK, Inserted
<1>6. ASSUME NEW slot \in Slots, slot # insert_idx, list[slot] # Null
      PROVE  heap'[list[slot]] = heap[list[slot]]
  BY <1>4, <1>6 DEF HeapOK, Inserted
<1>7. \A e \in Entries : e # entry =>
        \/ heap'[e] = Null
        \/ heap'[e] = heap[e] /\ e # list[insert_idx]
  BY DEF Inserted
<1>8. Content(header.ip, header.mac).ipv4 = header.ip
      /\ Content(header.ip, header.mac).mac = header.mac
  BY DEF Content
<1> QED BY <1>2, <1>3, <1>4, <1>5, <1>6, <1>7, <1>8

\* An insertion keeps the list and the entries in step.
LEMMA InsertedKeepsHeap ==
  ASSUME HeapOK, header \in Header, NEW entry, Inserted(entry)
  PROVE  HeapOK'
<1>1. list' \in [Slots -> Entries \union {Null}]
  BY DEF HeapOK, Inserted
<1>2. heap' \in [Entries -> Stored \union {Null}]
  <2>1. Content(header.ip, header.mac) \in Stored
    BY InsertedContent
  <2> QED BY <2>1 DEF HeapOK, Inserted
<1>3. \A slot \in Slots : list'[slot] # Null => heap'[list'[slot]] # Null
  BY InsertedContent DEF HeapOK
<1>4. ASSUME NEW e \in Entries, heap'[e] # Null
      PROVE  \E slot \in Slots : list'[slot] = e
  <2>1. CASE e = entry
    <3>1. insert_idx \in Slots
      BY DEF Inserted
    <3>2. list'[insert_idx] = entry
      BY InsertedContent
    <3> QED BY <2>1, <3>1, <3>2
  <2>2. CASE e # entry
    <3>1. heap[e] # Null /\ e # list[insert_idx]
      BY <1>4, <2>2, InsertedContent
    <3>2. PICK slot \in Slots : list[slot] = e
      BY <3>1 DEF HeapOK
    <3> QED BY <3>1, <3>2, InsertedContent
  <2> QED BY <2>1, <2>2
<1>5. \A one, other \in Slots : list'[one] # Null /\ list'[one] = list'[other] => one = other
  BY InsertedContent DEF HeapOK
<1> QED BY <1>1, <1>2, <1>3, <1>4, <1>5 DEF HeapOK

\* The memcpy changes a part of one entry's hardware address.
LEMMA UpdateChangesMac ==
  ASSUME SInv, UpdateMac
  PROVE  /\ mapping \in Entries /\ heap[mapping] # Null
         /\ \A e \in Entries : e # mapping => heap'[e] = heap[e]
         /\ heap' \in [Entries -> Stored \union {Null}] /\ heap'[mapping] # Null
         /\ heap'[mapping].ipv4 = heap[mapping].ipv4 /\ heap'[mapping].ipv4 = header.ip
         /\ worker = "update" => heap'[mapping].mac[1] = header.mac[1]
         /\ worker = "update_rest" => /\ heap'[mapping].mac[2] = header.mac[2]
                                      /\ heap'[mapping].mac[1] = heap[mapping].mac[1]
<1>1. worker \in {"update", "update_rest"}
  BY DEF UpdateMac
<1>2. /\ header \in Header /\ mapping \in Entries /\ heap[mapping] # Null
      /\ heap[mapping].ipv4 = header.ip
  BY <1>1 DEF SInv, WorkerOK
<1>3. heap \in [Entries -> Stored \union {Null}] /\ heap[mapping] \in Stored
  BY <1>2 DEF SInv, HeapOK
<1>4. header.ip \in Ips /\ header.mac \in HalfWritten /\ heap[mapping].mac \in HalfWritten
  BY <1>2, <1>3, ArpAssumption DEF Header, Stored
<1>5. header.mac \in [Parts -> Halves] /\ heap[mapping].mac \in [Parts -> Halves]
  BY <1>4 DEF HalfWritten
<1>6. 1 \in Parts /\ 2 \in Parts
  BY DEF Parts
<1> DEFINE new(p) == [heap[mapping].mac EXCEPT ![p] = header.mac[p]]
<1>7. \A p \in Parts : /\ new(p) \in [Parts -> Halves] /\ new(p)[p] = header.mac[p]
                       /\ \A q \in Parts : q # p => new(p)[q] = heap[mapping].mac[q]
  BY <1>5
<1>8. \A p \in Parts : new(p) \in HalfWritten
  BY <1>7 DEF HalfWritten
<1>9. \A p \in Parts : Content(header.ip, new(p)) \in Stored /\ Content(header.ip, new(p)) # Null
                       /\ Content(header.ip, new(p)).ipv4 = header.ip
                       /\ Content(header.ip, new(p)).mac = new(p)
  <2> HIDE DEF new
  <2> TAKE p \in Parts
  <2>1. Content(header.ip, new(p)) \in Stored /\ Content(header.ip, new(p)) # Null
    BY <1>4, <1>8, StoredNotNull
  <2> QED BY <2>1 DEF Content
<1>10. CASE worker = "update"
  <2>1. heap' = [heap EXCEPT ![mapping] = [heap[mapping] EXCEPT !.mac = new(1)]]
    BY <1>10 DEF UpdateMac
  <2>2. [heap[mapping] EXCEPT !.mac = new(1)] = Content(header.ip, new(1))
    <3> HIDE DEF new
    <3> QED BY <1>2, <1>3 DEF Stored, Content
  <2> HIDE DEF new
  <2>3. heap' = [heap EXCEPT ![mapping] = Content(header.ip, new(1))]
    BY <2>1, <2>2
  <2>4. /\ heap'[mapping] = Content(header.ip, new(1))
        /\ \A e \in Entries : e # mapping => heap'[e] = heap[e]
        /\ heap' \in [Entries -> Stored \union {Null}]
    BY <1>2, <1>3, <1>6, <1>9, <2>3
  <2> QED BY <1>2, <1>6, <1>7, <1>9, <1>10, <2>4
<1>11. CASE worker = "update_rest"
  <2>1. heap' = [heap EXCEPT ![mapping] = Content(header.ip, new(2))]
    BY <1>11 DEF UpdateMac
  <2> HIDE DEF new
  <2>2. /\ heap'[mapping] = Content(header.ip, new(2))
        /\ \A e \in Entries : e # mapping => heap'[e] = heap[e]
        /\ heap' \in [Entries -> Stored \union {Null}]
    BY <1>2, <1>3, <1>6, <1>9, <2>1
  <2>3. new(2)[2] = header.mac[2] /\ new(2)[1] = heap[mapping].mac[1]
    BY <1>6, <1>7
  <2> QED BY <1>2, <1>6, <1>9, <1>11, <2>2, <2>3
<1> QED BY <1>1, <1>10, <1>11

\* Leaving arp_read, or going on to the response.
LEMMA ProceedKeepsWorker ==
  ASSUME WorkerOK, worker # "idle", NEW responds, ProceedIf(responds)
  PROVE  WorkerOK' /\ worker' \in {"idle", "respond"}
         /\ (worker' # "idle" => header' = header /\ mapping' = mapping)
BY DEF WorkerOK, ProceedIf, Return

\* What the worker leaves alone of the program's thread, and the other way.
LEMMA ProgramUnchanged ==
  ASSUME ProgramOK, UNCHANGED programVars, list' = list,
         \A slot \in Slots : list[slot] # Null => heap'[list[slot]].ipv4 = heap[list[slot]].ipv4
  PROVE  ProgramOK'
BY DEF ProgramOK, programVars

\* arp_read up to the search.
LEMMA ReadKeepsSInv ==
  ASSUME SInv, NEW packet \in Header, ArpRead(packet)
  PROVE  SInv'
<1> USE DEF ArpRead, listVars
<1>1. HeapOK' /\ IndexOK'
  BY DEF SInv, HeapOK, IndexOK
<1>2. ProgramOK'
  BY ProgramUnchanged DEF SInv
<1>3. WorkerOK'
  <2> PICK found : found = GetIpMapping(packet.ip)
    OBVIOUS
  <2>1. found # Null => found \in Entries /\ heap[found] # Null /\ heap[found].ipv4 = packet.ip
    BY FoundIsAllocated DEF SInv
  <2>2. /\ mapping' = found /\ header' = packet /\ heap' = heap
        /\ worker' = IF found # Null THEN "update" ELSE "target"
    OBVIOUS
  <2> QED BY <2>1, <2>2 DEF WorkerOK
<1> QED BY <1>1, <1>2, <1>3 DEF SInv

\* The memcpy frees nothing and moves no entry.
LEMMA UpdateKeepsSInv ==
  ASSUME SInv, UpdateMac
  PROVE  SInv'
<1>1. list' = list /\ insert_idx' = insert_idx /\ header' = header /\ mapping' = mapping
      /\ start' = start /\ UNCHANGED programVars /\ worker' \in {"update_rest", "target"}
  BY DEF UpdateMac, listVars
<1>2. \A e \in Entries : /\ heap'[e] = Null <=> heap[e] = Null
                         /\ heap[e] # Null => heap'[e].ipv4 = heap[e].ipv4
  BY UpdateChangesMac
<1>3. HeapOK' /\ IndexOK'
  BY <1>1, <1>2, UpdateChangesMac DEF SInv, HeapOK, IndexOK
<1>4. ProgramOK'
  BY <1>1, <1>2, ProgramUnchanged DEF SInv, HeapOK
<1>5. WorkerOK'
  <2>1. header \in Header
    BY DEF SInv, WorkerOK, UpdateMac
  <2> QED BY <1>1, <2>1, UpdateChangesMac DEF SInv, WorkerOK
<1> QED BY <1>3, <1>4, <1>5 DEF SInv

\* The insertion has the lock, so status is not in the middle of an entry.
LEMMA InsertKeepsSInv ==
  ASSUME SInv, InsertMapping
  PROVE  SInv'
<1>1. header \in Header
  BY DEF SInv, WorkerOK, InsertMapping
<1>2. PICK entry \in Entries : Inserted(entry)
  BY InsertionInserts
<1>3. HeapOK' /\ IndexOK'
  <2>1. HeapOK'
    BY <1>1, <1>2, InsertedKeepsHeap DEF SInv
  <2>2. insert_idx' \in Slots /\ insert_idx' \in Nat /\ start' = start
    <3>1. insert_idx \in Nat /\ insert_idx' = (insert_idx + 1) % Size
      BY <1>2 DEF SInv, IndexOK, Inserted
    <3>2. insert_idx' \in Slots
      BY <3>1, NextIndex
    <3> QED BY <3>2 DEF InsertMapping, Slots
  <2> QED BY <2>1, <2>2 DEF SInv, IndexOK
<1>4. WorkerOK'
  <2>1. worker # "idle" /\ ProceedIf(header.request)
    BY DEF InsertMapping
  <2> QED BY <2>1, ProceedKeepsWorker DEF SInv
<1>5. ProgramOK'
  BY DEF SInv, ProgramOK, InsertMapping, programVars
<1> QED BY <1>3, <1>4, <1>5 DEF SInv

\* An insertion outside the list leaves it empty and takes the index inside.
LEMMA OutsideKeepsSInv ==
  ASSUME SInv, InsertOutside
  PROVE  SInv'
<1>1. list' = list /\ heap' = heap /\ UNCHANGED programVars /\ start' = start
      /\ worker = "target"
  BY DEF InsertOutside
<1>2. HeapOK'
  BY <1>1 DEF SInv, HeapOK
<1>3. ProgramOK'
  BY <1>1, ProgramUnchanged DEF SInv
<1>4. CASE worker' = "fault" /\ UNCHANGED <<insert_idx, header, mapping>>
  <2>1. IndexOK'
    BY <1>1, <1>4 DEF SInv, IndexOK
  <2>2. WorkerOK'
    BY <1>1, <1>4 DEF SInv, WorkerOK
  <2> QED BY <1>2, <1>3, <2>1, <2>2 DEF SInv
<1>5. CASE insert_idx' = (insert_idx + 1) % Size /\ ProceedIf(header.request)
  <2>1. insert_idx' \in Slots
    BY <1>5, NextIndex DEF SInv, IndexOK
  <2>2. IndexOK'
    BY <1>1, <2>1 DEF SInv, IndexOK, Slots
  <2>3. WorkerOK'
    <3>1. worker # "idle"
      BY <1>1
    <3> QED BY <1>5, <3>1, ProceedKeepsWorker DEF SInv
  <2> QED BY <1>2, <1>3, <2>2, <2>3 DEF SInv
<1> QED BY <1>4, <1>5 DEF InsertOutside

\* The end of arp_read touches neither the list nor the entries.
LEMMA ReturnKeepsSInv ==
  ASSUME SInv, NoInsert \/ Respond
  PROVE  SInv'
<1>1. list' = list /\ insert_idx' = insert_idx /\ heap' = heap /\ UNCHANGED programVars
      /\ start' = start
  BY DEF NoInsert, Respond, listVars
<1>2. HeapOK' /\ IndexOK'
  BY <1>1 DEF SInv, HeapOK, IndexOK
<1>3. ProgramOK'
  BY <1>1, ProgramUnchanged DEF SInv
<1>4. WorkerOK'
  <2>1. CASE NoInsert
    <3>1. worker # "idle" /\ ProceedIf(header.ours /\ header.request)
      BY <2>1 DEF NoInsert
    <3> QED BY <3>1, ProceedKeepsWorker DEF SInv
  <2>2. CASE Respond
    BY <2>2 DEF Respond, Return, WorkerOK
  <2> QED BY <2>1, <2>2
<1> QED BY <1>2, <1>3, <1>4 DEF SInv

-----------------------------------------------------------------------------
(* The steps of status *)

\* status reads the list and the entries and changes neither.
LEMMA StatusKeepsSInv ==
  ASSUME SInv, StatusStart \/ Status
  PROVE  SInv'
<1> USE DEF SInv
<1>0. Size \in Nat /\ Size > 0 /\ Garbage \subseteq Nat
  BY ArpAssumption
<1>1. UNCHANGED <<list, insert_idx, start, heap, worker, header, mapping>>
  BY DEF StatusStart, Status, StatusCopy, StatusEmptySlot, StatusFull, StatusPrinted,
         listVars, workerVars
<1>2. HeapOK' /\ IndexOK' /\ WorkerOK'
  BY <1>1 DEF HeapOK, IndexOK, WorkerOK
<1>3. NoStatus \in [entries : [Slots -> Stored \union {Null}], num_arp_entries : Nat]
  BY DEF NoStatus
<1>4. CASE StatusStart
  <2>1. PICK garbage \in Garbage : arp_status' = [NoStatus EXCEPT !.num_arp_entries = garbage]
    BY <1>4 DEF StatusStart
  <2>2. arp_status' \in [entries : [Slots -> Stored \union {Null}], num_arp_entries : Nat]
    BY <1>0, <1>3, <2>1
  <2>3. ProgramOK'
    BY <1>0, <1>4, <2>2 DEF StatusStart, ProgramOK, Parts
  <2> QED BY <1>2, <2>3
<1>5. CASE StatusCopy
  <2>1. /\ program = "copying" /\ program' = "copying" /\ i \in Slots /\ list[i] # Null
        /\ part' = 3 - part /\ i' = IF part = 2 THEN i + 1 ELSE i
    BY <1>0, <1>5 DEF StatusCopy, ProgramOK, Slots
  <2>2. heap[list[i]] \in Stored
    BY <2>1 DEF HeapOK
  <2>3. CASE part = 1
    <3>1. arp_status' = [arp_status EXCEPT !.entries[i] = heap[list[i]]]
      BY <1>5, <2>3 DEF StatusCopy
    <3>2. /\ arp_status' \in [entries : [Slots -> Stored \union {Null}], num_arp_entries : Nat]
          /\ arp_status'.entries[i] = heap[list[i]]
      BY <2>1, <2>2, <3>1 DEF ProgramOK
    <3>3. heap[list[i]] # Null
      BY <2>1 DEF HeapOK
    <3>4. ProgramOK'
      BY <1>1, <2>1, <2>3, <3>2, <3>3 DEF ProgramOK, Parts
    <3> QED BY <1>2, <3>4
  <2>4. CASE part = 2
    <3> DEFINE old == arp_status.entries[i]
               mac == [old.mac EXCEPT ![2] = heap[list[i]].mac[2]]
               new == [old EXCEPT !.mac = mac]
    <3>1. arp_status' = [arp_status EXCEPT !.entries[i] = new]
      BY <1>5, <2>4 DEF StatusCopy
    <3>2. old \in Stored
      BY <2>1, <2>4 DEF ProgramOK
    <3>3. mac \in HalfWritten
      <4>1. 2 \in Parts /\ old.mac \in HalfWritten /\ heap[list[i]].mac \in HalfWritten
        BY <2>2, <3>2 DEF Stored, Parts
      <4> HIDE DEF old
      <4>2. old.mac \in [Parts -> Halves] /\ heap[list[i]].mac \in [Parts -> Halves]
        BY <4>1 DEF HalfWritten
      <4>3. mac \in [Parts -> Halves]
        BY <4>1, <4>2
      <4> QED BY <4>3 DEF HalfWritten
    <3> HIDE DEF mac, old
    <3>4. new \in Stored
      BY <3>2, <3>3 DEF Stored
    <3> HIDE DEF new
    <3>5. arp_status' \in [entries : [Slots -> Stored \union {Null}], num_arp_entries : Nat]
      BY <2>1, <3>1, <3>4 DEF ProgramOK
    <3>6. i' \in 0 .. Size /\ part' = 1 /\ 1 \in Parts
      BY <1>0, <2>1, <2>4 DEF Slots, Parts
    <3>7. ProgramOK'
      BY <2>1, <3>5, <3>6 DEF ProgramOK
    <3> QED BY <1>2, <3>7
  <2> QED BY <2>3, <2>4 DEF ProgramOK, Parts
<1>6. CASE StatusEmptySlot
  <2>1. ProgramOK'
    BY <1>0, <1>6 DEF StatusEmptySlot, ProgramOK
  <2> QED BY <1>2, <2>1
<1>7. CASE StatusFull
  <2>1. ProgramOK'
    BY <1>7 DEF StatusFull, ProgramOK
  <2> QED BY <1>2, <2>1
<1>8. CASE StatusPrinted
  <2>1. ProgramOK'
    BY <1>0, <1>3, <1>8 DEF StatusPrinted, ProgramOK, Parts
  <2> QED BY <1>2, <2>1
<1> QED BY <1>4, <1>5, <1>6, <1>7, <1>8 DEF Status

\* Every step keeps the part that does not depend on where insert_idx starts.
LEMMA SInvStep == SInv /\ [Next]_vars => SInv'
<1> SUFFICES ASSUME SInv, [Next]_vars PROVE SInv'
  OBVIOUS
<1>1. CASE UNCHANGED vars
  BY <1>1 DEF vars, listVars, workerVars, programVars, SInv, HeapOK, IndexOK,
                  WorkerOK, ProgramOK
<1>2. ASSUME NEW packet \in Header, ArpReadUnsupported(packet) \/ ArpRead(packet)
      PROVE  SInv'
  BY <1>1, <1>2, ReadKeepsSInv DEF ArpReadUnsupported
<1>3. CASE Worker
  BY <1>3, UpdateKeepsSInv, InsertKeepsSInv, OutsideKeepsSInv, ReturnKeepsSInv DEF Worker
<1>4. CASE StatusStart \/ Status
  BY <1>4, StatusKeepsSInv
<1>5. CASE Undefined
  BY <1>1, <1>5 DEF Undefined
<1> QED BY <1>1, <1>2, <1>3, <1>4, <1>5 DEF Next

-----------------------------------------------------------------------------
(* The steps when insert_idx starts at 0 *)

\* While there is no gap, the search for an address finds its entry.
LEMMA NothingHidden ==
  ASSUME HeapOK, NoGap, NEW slot \in Slots, list[slot] # Null
  PROVE  Reaches(slot)
<1>1. Size \in Nat /\ slot \in Nat /\ insert_idx \in Nat
  BY ArpAssumption DEF NoGap, Slots
<1>2. ASSUME NEW before \in 0 .. slot PROVE list[before] # Null
  <2>1. before \in Slots /\ before <= slot /\ before \in Nat
    BY <1>1 DEF Slots
  <2>2. CASE \A s \in Slots : list[s] # Null <=> s < insert_idx
    <3>1. slot < insert_idx
      BY <2>2
    <3>2. before < insert_idx
      BY <1>1, <2>1, <3>1
    <3> QED BY <2>1, <2>2, <3>2
  <2> QED BY <2>1, <2>2 DEF NoGap
<1> QED BY <1>2 DEF Reaches

\* A search that fails means that no entry has the address.
LEMMA MissMeansAbsent ==
  ASSUME HeapOK, NoGap, NEW ip, GetIpMapping(ip) = Null
  PROVE  \A e \in Entries : heap[e] # Null => heap[e].ipv4 # ip
<1> SUFFICES ASSUME NEW e \in Entries, heap[e] # Null, heap[e].ipv4 = ip PROVE FALSE
  OBVIOUS
<1>1. PICK slot \in Slots : list[slot] = e
  BY DEF HeapOK
<1>2. list[slot] # Null
  BY <1>1, ArpAssumption
<1>3. Matches(slot, ip)
  BY <1>1, <1>2, NothingHidden DEF Matches
<1>4. PICK s \in Slots : Matches(s, ip) /\ GetIpMapping(ip) = list[s]
  BY <1>3, GetIpMappingFinds
<1>5. list[s] # Null
  <2>1. s \in 0 .. s
    BY DEF Slots
  <2> QED BY <1>4, <2>1 DEF Matches, Reaches
<1> QED BY <1>4, <1>5

\* Two entries with one address are the same entry.
LEMMA SameAddressSameEntry ==
  ASSUME HeapOK, NoDuplicates, NEW e \in Entries, NEW f \in Entries,
         heap[e] # Null, heap[f] # Null, heap[e].ipv4 = heap[f].ipv4
  PROVE  e = f
<1>1. PICK s \in Slots : list[s] = e
  BY DEF HeapOK
<1>2. PICK t \in Slots : list[t] = f
  BY DEF HeapOK
<1>3. e # Null /\ f # Null
  BY ArpAssumption
<1>4. s = t
  BY <1>1, <1>2, <1>3 DEF NoDuplicates
<1> QED BY <1>1, <1>2, <1>4

\* A search that fails is right, and one that succeeds finds the only entry.
LEMMA ReadKeepsRInv ==
  ASSUME RInv, NEW packet \in Header, ArpRead(packet)
  PROVE  RInv'
<1> USE DEF RInv
<1>0. SInv'
  BY ReadKeepsSInv
<1> PICK found : found = GetIpMapping(packet.ip)
  OBVIOUS
<1>1. /\ mapping' = found /\ header' = packet /\ heap' = heap /\ worker = "idle"
      /\ list' = list /\ insert_idx' = insert_idx
      /\ worker' = IF found # Null THEN "update" ELSE "target"
      /\ latest' = [latest EXCEPT ![packet.ip] = packet.mac]
  BY DEF ArpRead, listVars
<1>2. found # Null => found \in Entries /\ heap[found] # Null /\ heap[found].ipv4 = packet.ip
  BY FoundIsAllocated DEF SInv
<1>3. found = Null => \A e \in Entries : heap[e] # Null => heap[e].ipv4 # packet.ip
  BY MissMeansAbsent DEF SInv
<1>4. NoGap' /\ NoDuplicates' /\ MissOK'
  BY <1>1, <1>3 DEF NoGap, NoDuplicates, MissOK
<1>5. packet.ip \in Ips /\ packet.mac \in Macs
  BY DEF Header
<1>6. latest' \in [Ips -> Macs \union {Null}] /\ latest'[packet.ip] = packet.mac
      /\ \A ip \in Ips : ip # packet.ip => latest'[ip] = latest[ip]
  BY <1>1, <1>5 DEF LatestOK
<1>7. ASSUME NEW e \in Entries, heap[e] # Null
      PROVE  heap[e].mac = latest'[heap[e].ipv4] \/ (found # Null /\ e = found)
  <2>1. heap[e].ipv4 \in Ips
    BY <1>7 DEF SInv, HeapOK, Stored
  <2>2. CASE heap[e].ipv4 = packet.ip
    <3>1. found # Null
      BY <1>3, <1>7, <2>2
    <3> QED BY <1>2, <1>7, <2>2, <3>1, SameAddressSameEntry DEF SInv
  <2>3. CASE heap[e].ipv4 # packet.ip
    BY <1>1, <1>6, <1>7, <2>1, <2>3 DEF LatestOK
  <2> QED BY <2>2, <2>3
<1>8. LatestOK'
  BY <1>1, <1>6, <1>7 DEF LatestOK
<1> QED BY <1>0, <1>4, <1>8

\* The second part completes the address that was announced.
LEMMA UpdateKeepsRInv ==
  ASSUME RInv, UpdateMac
  PROVE  RInv'
<1> USE DEF RInv
<1>0. SInv'
  BY UpdateKeepsSInv
<1>1. /\ list' = list /\ insert_idx' = insert_idx /\ header' = header /\ mapping' = mapping
      /\ latest' = latest /\ worker \in {"update", "update_rest"}
      /\ worker' = IF worker = "update" THEN "update_rest" ELSE "target"
  BY DEF UpdateMac, listVars
<1>2. \A e \in Entries : /\ heap'[e] = Null <=> heap[e] = Null
                         /\ heap[e] # Null => heap'[e].ipv4 = heap[e].ipv4
  BY UpdateChangesMac
<1>3. NoGap'
  BY <1>1 DEF NoGap
<1>4. NoDuplicates'
  BY <1>1, <1>2 DEF NoDuplicates, SInv, HeapOK
<1>5. mapping \in Entries /\ mapping # Null
  BY UpdateChangesMac, ArpAssumption
<1>6. MissOK'
  BY <1>1, <1>5 DEF MissOK
<1>7. \A e \in Entries : heap[e] # Null /\ e # mapping =>
        heap'[e] = heap[e] /\ heap'[e].mac = latest[heap'[e].ipv4]
  BY UpdateChangesMac DEF LatestOK
<1>8. CASE worker = "update"
  <2>1. heap'[mapping].mac[1] = header.mac[1]
    BY <1>8, UpdateChangesMac
  <2> QED BY <1>0, <1>1, <1>2, <1>3, <1>4, <1>6, <1>7, <1>8, <2>1 DEF LatestOK
<1>9. CASE worker = "update_rest"
  <2>1. heap'[mapping].mac[1] = header.mac[1] /\ heap'[mapping].mac[2] = header.mac[2]
    BY <1>9, UpdateChangesMac DEF LatestOK
  <2>2. heap'[mapping].mac \in HalfWritten /\ header.mac \in HalfWritten
    <3>1. header \in Header
      BY <1>1 DEF SInv, WorkerOK
    <3>2. heap'[mapping] \in Stored
      BY <1>5, UpdateChangesMac
    <3> QED BY <3>1, <3>2, ArpAssumption DEF Header, Stored
  <2>3. heap'[mapping].mac = header.mac
    <3> PICK a : a = heap'[mapping].mac
      OBVIOUS
    <3> PICK b : b = header.mac
      OBVIOUS
    <3>1. a \in [Parts -> Halves] /\ b \in [Parts -> Halves]
      BY <2>2 DEF HalfWritten
    <3>2. \A p \in Parts : a[p] = b[p]
      BY <2>1 DEF Parts
    <3>3. a = b
      BY <3>1, <3>2
    <3> QED BY <3>3
  <2>4. heap'[mapping].mac = latest[heap'[mapping].ipv4]
    <3>1. heap'[mapping].ipv4 = header.ip
      BY UpdateChangesMac
    <3>2. latest[header.ip] = header.mac
      BY <1>1 DEF LatestOK
    <3> QED BY <2>3, <3>1, <3>2
  <2>5. LatestOK'
    BY <1>1, <1>2, <1>7, <1>9, <2>4 DEF LatestOK
  <2> QED BY <1>0, <1>3, <1>4, <1>6, <2>5
<1> QED BY <1>1, <1>8, <1>9

\* The entry goes to the first free slot, or takes the place of the oldest.
LEMMA InsertKeepsRInv ==
  ASSUME RInv, InsertMapping
  PROVE  RInv'
<1> USE DEF RInv
<1>0. SInv'
  BY InsertKeepsSInv
<1>1. header \in Header /\ worker = "target" /\ mapping = Null /\ latest' = latest
      /\ HeapOK /\ WorkerOK
  BY DEF SInv, WorkerOK, InsertMapping
<1>2. PICK entry \in Entries : Inserted(entry)
  BY InsertionInserts
<1>3. worker' \in {"idle", "respond"} /\ (worker' # "idle" => header' = header)
  <2>1. worker # "idle" /\ ProceedIf(header.request)
    BY DEF InsertMapping
  <2> QED BY <2>1, ProceedKeepsWorker DEF SInv
<1>4. NoGap'
  <2> PICK n : n = insert_idx
    OBVIOUS
  <2>1. /\ n \in Slots /\ n \in Nat /\ Size \in Nat /\ insert_idx' = (n + 1) % Size
        /\ \A slot \in Slots : slot \in Nat /\ slot < Size
    BY <1>1, <1>2, ArpAssumption DEF Inserted, Slots
  <2>2. /\ list'[n] # Null
        /\ \A slot \in Slots : slot # n => list'[slot] = list[slot]
    BY <1>1, <1>2, InsertedContent, ArpAssumption
  <2>0. insert_idx' \in Slots
    BY <2>1, NextIndex
  <2>3. CASE \A slot \in Slots : list[slot] # Null
    BY <2>0, <2>1, <2>2, <2>3 DEF NoGap
  <2>4. CASE \A slot \in Slots : list[slot] # Null <=> slot < n
    <3>1. \A slot \in Slots : list'[slot] # Null <=> slot < n + 1
      BY <2>1, <2>2, <2>4
    <3>2. CASE n + 1 < Size
      <4>1. insert_idx' = n + 1
        BY <2>1, <3>2, NextIndex
      <4> QED BY <2>0, <3>1, <4>1 DEF NoGap
    <3>3. CASE ~ (n + 1 < Size)
      <4>1. \A slot \in Slots : slot < n + 1
        BY <2>1, <3>3
      <4> QED BY <2>0, <3>1, <4>1 DEF NoGap
    <3> QED BY <3>2, <3>3
  <2> QED BY <2>3, <2>4 DEF NoGap
<1>5. \A slot \in Slots : slot # insert_idx /\ list[slot] # Null =>
        heap[list[slot]] # Null /\ heap[list[slot]].ipv4 # header.ip
  BY <1>1 DEF HeapOK, MissOK
<1>6. NoDuplicates'
  <2>1. /\ list'[insert_idx] = entry /\ heap'[entry].ipv4 = header.ip
        /\ \A slot \in Slots : slot # insert_idx =>
             /\ list'[slot] = list[slot]
             /\ list[slot] # Null => heap'[list[slot]] = heap[list[slot]]
    BY <1>1, <1>2, InsertedContent
  <2> QED BY <1>5, <2>1 DEF NoDuplicates
<1>7. MissOK'
  BY <1>3 DEF MissOK
<1>8. LatestOK'
  <2>1. ASSUME NEW e \in Entries, heap'[e] # Null
        PROVE  heap'[e].mac = latest[heap'[e].ipv4]
    <3>1. CASE e = entry
      BY <1>1, <1>2, <3>1, InsertedContent DEF LatestOK
    <3>2. CASE e # entry
      <4>1. heap'[e] = heap[e]
        BY <1>1, <1>2, <2>1, <3>2, InsertedContent
      <4> QED BY <1>1, <2>1, <4>1 DEF LatestOK
    <3> QED BY <3>1, <3>2
  <2> QED BY <1>1, <1>3, <2>1 DEF LatestOK
<1> QED BY <1>0, <1>4, <1>6, <1>7, <1>8

\* The end of arp_read leaves what it stored.
LEMMA ReturnKeepsRInv ==
  ASSUME RInv, NoInsert \/ Respond
  PROVE  RInv'
<1> USE DEF RInv
<1>0. SInv'
  BY ReturnKeepsSInv
<1>1. list' = list /\ insert_idx' = insert_idx /\ heap' = heap /\ latest' = latest
      /\ worker \in {"target", "respond"}
  BY DEF NoInsert, Respond, listVars
<1>2. worker' \in {"idle", "respond"} /\ (worker' # "idle" => header' = header)
  BY DEF NoInsert, Respond, ProceedIf, Return
<1>3. NoGap' /\ NoDuplicates' /\ MissOK'
  BY <1>1, <1>2 DEF NoGap, NoDuplicates, MissOK
<1>4. LatestOK'
  BY <1>1, <1>2 DEF LatestOK
<1> QED BY <1>0, <1>3, <1>4

\* Every step keeps the list without a gap and its entries up to date.
LEMMA RInvStep == RInv /\ [Next]_vars => RInv'
<1> SUFFICES ASSUME RInv, [Next]_vars PROVE RInv'
  OBVIOUS
<1>0. SInv'
  BY SInvStep DEF RInv
<1>1. ASSUME UNCHANGED <<list, insert_idx, heap, worker, header, mapping, latest>>
      PROVE  RInv'
  <2>1. NoGap' /\ NoDuplicates'
    BY <1>1 DEF RInv, NoGap, NoDuplicates
  <2>2. MissOK' /\ LatestOK'
    BY <1>1 DEF RInv, MissOK, LatestOK
  <2> QED BY <1>0, <2>1, <2>2 DEF RInv
<1>2. CASE UNCHANGED vars
  BY <1>1, <1>2 DEF vars, listVars, workerVars
<1>3. ASSUME NEW packet \in Header, ArpReadUnsupported(packet) \/ ArpRead(packet)
      PROVE  RInv'
  BY <1>2, <1>3, ReadKeepsRInv DEF ArpReadUnsupported
<1>4. CASE Worker
  <2>1. ~ InsertOutside
    BY DEF InsertOutside, RInv, NoGap
  <2> QED BY <1>4, <2>1, UpdateKeepsRInv, InsertKeepsRInv, ReturnKeepsRInv DEF Worker
<1>5. CASE StatusStart \/ Status
  BY <1>1, <1>5 DEF StatusStart, Status, StatusCopy, StatusEmptySlot, StatusFull,
                    StatusPrinted, listVars, workerVars
<1>6. CASE Undefined
  BY <1>2, <1>6 DEF Undefined
<1> QED BY <1>2, <1>3, <1>4, <1>5, <1>6 DEF Next

\* insert_idx started where it started.
LEMMA StartStays == [Next]_vars => start' = start
BY DEF Next, vars, listVars, ArpReadUnsupported, ArpRead, Worker, UpdateMac, InsertMapping,
       InsertOutside, NoInsert, Respond, StatusStart, Status, StatusCopy, StatusEmptySlot,
       StatusFull, StatusPrinted, Undefined

\* Every step keeps both parts.
LEMMA IInvStep == IInv /\ [Next]_vars => IInv'
BY SInvStep, RInvStep, StartStays DEF IInv

\* The list refers to the allocated entries, and to all of them.
LEMMA ListedIsAllocated ==
  ASSUME HeapOK
  PROVE  Listed = Allocated
<1>1. \A e : e \in Listed <=> e # Null /\ \E slot \in Slots : list[slot] = e
  BY DEF Listed
<1>2. \A e : e \in Allocated <=> e \in Entries /\ heap[e] # Null
  BY DEF Allocated
<1>3. \A e \in Entries : e # Null
  BY ArpAssumption
<1>4. \A e : e \in Listed <=> e \in Allocated
  BY <1>1, <1>2, <1>3 DEF HeapOK
<1> QED BY <1>4

\* The types, for every start.
LEMMA SInvTyped == SInv => TypeOK
<1> SUFFICES ASSUME SInv PROVE TypeOK
  OBVIOUS
<1> USE DEF SInv
<1>1. Listed = Allocated
  BY ListedIsAllocated
<1>2. \A e \in Allocated : heap[e].ipv4 \in Ips
  BY DEF HeapOK, Allocated, Stored
<1>3. insert_idx \notin Slots => insert_idx = start /\ Listed = {}
  BY DEF IndexOK, Listed
<1>4. {insert_idx, start} \subseteq Nat
  BY DEF IndexOK
<1> QED BY <1>1, <1>2, <1>3, <1>4 DEF TypeOK, HeapOK, WorkerOK, ProgramOK

-----------------------------------------------------------------------------

(***************************************************************************)
(* Neither arp_read, which writes to the entry it found after it released  *)
(* the lock, nor status, which copies an entry in parts, touches an entry  *)
(* that arp_insert_mapping freed, for every list size and interleaving and *)
(* whatever malloc left in insert_idx, up to the undefined outcome of a    *)
(* first insertion outside the list.                                       *)
(***************************************************************************)
THEOREM NeverUsedAfterFree == Spec => []NoUseAfterFree
<1>1. SInv => NoUseAfterFree
  <2> SUFFICES ASSUME SInv PROVE NoUseAfterFree
    OBVIOUS
  <2>1. worker \in {"update", "update_rest"} => mapping \in Allocated
    BY DEF SInv, WorkerOK, Allocated
  <2>2. program = "copying" /\ part = 2 =>
          list[i] \in Allocated /\ heap[list[i]].ipv4 = arp_status.entries[i].ipv4
    BY DEF SInv, HeapOK, ProgramOK, Allocated
  <2> QED BY <2>1, <2>2 DEF NoUseAfterFree
<1> QED BY <1>1, SInvInit, SInvStep, PTL DEF Spec

(***************************************************************************)
(* The list is consistent through its wrap-around: wherever malloc left    *)
(* insert_idx, its slots and the allocated entries are the same and an     *)
(* index outside the list is gone after the first insertion; when it was   *)
(* left at 0, no address is listed twice and the search of                 *)
(* arp_get_ip_mapping finds every entry.  Another start hides entries:     *)
(* Arp_index.cfg shows it.                                                 *)
(***************************************************************************)
THEOREM ListStaysConsistent == Spec => []ListConsistent
<1>1. IInv => ListConsistent
  <2> SUFFICES ASSUME SInv, start = 0 => RInv PROVE ListConsistent
    BY DEF IInv
  <2>1. TypeOK
    BY SInvTyped
  <2>2. ASSUME start = 0 PROVE NoDuplicates /\ LookupFindsEvery
    <3>1. HeapOK /\ NoGap /\ NoDuplicates
      BY <2>2 DEF RInv, SInv
    <3>2. ASSUME NEW slot \in Slots, list[slot] # Null
          PROVE  GetIpMapping(heap[list[slot]].ipv4) = list[slot]
      <4> PICK ip : ip = heap[list[slot]].ipv4
        OBVIOUS
      <4>1. Matches(slot, ip)
        BY <3>1, <3>2, NothingHidden DEF Matches
      <4>2. PICK s \in Slots : Matches(s, ip) /\ GetIpMapping(ip) = list[s]
        BY <4>1, GetIpMappingFinds
      <4>3. list[s] # Null /\ heap[list[s]].ipv4 = ip
        <5>1. s \in 0 .. s
          BY DEF Slots
        <5> QED BY <4>2, <5>1 DEF Matches, Reaches
      <4>4. s = slot
        BY <3>1, <3>2, <4>3 DEF NoDuplicates
      <4> QED BY <4>2, <4>4
    <3> QED BY <3>1, <3>2 DEF LookupFindsEvery
  <2> QED BY <2>1, <2>2 DEF ListConsistent
<1> QED BY <1>1, IInvInit, IInvStep, PTL DEF Spec

(***************************************************************************)
(* Between two packets every entry holds the hardware address that its     *)
(* sender announced last, when malloc left insert_idx at 0: an update      *)
(* reaches the only entry with the address, and both its parts.            *)
(***************************************************************************)
THEOREM MappingStaysLatest == Spec => []MappingIsLatest
<1>1. IInv => MappingIsLatest
  BY DEF IInv, RInv, LatestOK, MappingIsLatest, Allocated
<1> QED BY <1>1, IInvInit, IInvStep, PTL DEF Spec
=============================================================================
