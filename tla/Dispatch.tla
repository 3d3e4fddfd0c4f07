------------------------------ MODULE Dispatch ------------------------------
(***************************************************************************)
(* How a received frame finds its protocol: net_stack_init registers the   *)
(* handlers in two priority maps (handlers/protocol_map.c), and            *)
(* ethernet_read and ipv4_read look the next handler up in them.  A map is *)
(* the sequence of its entries in use; a lookup counts, and moves an entry *)
(* one place to the front when its count overtakes the entry before it.    *)
(*                                                                         *)
(* One worker reads one frame at a time: a read is one step.  A frame is   *)
(* what the read functions test of it: the type in the Ethernet header,    *)
(* and of the bytes behind it whether arp_read would take them for an ARP  *)
(* packet and what ipv4_read would make of them.                           *)
(***************************************************************************)
EXTENDS Naturals, Sequences, SequencesExt

CONSTANTS
  Frames,           \* the frames that may arrive
  ArpType, Ipv4Type,            \* ETHERNET_TYPE_ARP, ETHERNET_TYPE_IPV4
  MinType,                      \* 0x0600
  TcpProtocol,
  MaxSize,          \* ETHERNET_NUM_ETH_TYPE_ENTRIES, IP_NUM_PROTOCOL_TYPE_ENTRIES
  PriorityBound     \* bound: frames of one type that are read

TypeField == {type \in Nat : type < 65536}

Frame == [type : TypeField, arp_body : BOOLEAN, checksum_ok : BOOLEAN, ihl : Nat,
          time_to_live : Nat, ours : BOOLEAN, protocol : Nat]

\* what arp_read takes starts with the hardware type 1, whose first byte is 0:
\* as an IPv4 header it has no words and the checksum function returns 0xFFFF
ASSUME FramesAssumption ==
  /\ Frames \subseteq Frame
  /\ \A frame \in Frames : frame.arp_body => ~ frame.checksum_ok
ASSUME TypesAssumption ==
  /\ ArpType \in TypeField /\ Ipv4Type \in TypeField /\ MinType \in TypeField
  /\ ArpType # Ipv4Type /\ ArpType # 0 /\ Ipv4Type # 0
ASSUME BoundsAssumption ==
  TcpProtocol \in 1 .. 255 /\ MaxSize \in Nat \ {0} /\ PriorityBound \in Nat

VARIABLES
  ethernet_type_to_handler, ip_type_to_handler,  \* the two maps
  created,       \* handlers net_stack_init has created
  last_frame,    \* the frame last read, NoFrame before the first
  taken          \* the protocol that processed it, "none" if it was dropped

vars == <<ethernet_type_to_handler, ip_type_to_handler, created, last_frame, taken>>

NoFrame == [type |-> 0, arp_body |-> FALSE, checksum_ok |-> FALSE, ihl |-> 0,
            time_to_live |-> 0, ours |-> FALSE, protocol |-> 0]

\* htons on a little-endian machine
htons(type) == (type % 256) * 256 + type \div 256

\* 0x0608 and 0x0008 are more than 0x0006
ASSUME EtherTypesAssumption ==
  htons(ArpType) > htons(MinType) /\ htons(Ipv4Type) > htons(MinType)

-----------------------------------------------------------------------------
(* protocol_map.c *)

Entry(key, value) == [key |-> key, priority |-> 0, value |-> value]

\* add_value: a full map takes nothing
AddValue(map, key, value) ==
  IF Len(map) < MaxSize THEN Append(map, Entry(key, value)) ELSE map

\* 0 when the key is not there
IndexOf(map, key) == SelectInSeq(map, LAMBDA entry : entry.key = key)

Counted(map, i) == [map EXCEPT ![i].priority = @ + 1]

Overtakes(map, i) == i > 1 /\ map[i].priority > map[i - 1].priority

\* Mutation of Swapped: the previous entry is overwritten before it was saved.
SwappedUnsaved(map, i) == [map EXCEPT ![i - 1] = map[i]]

Swapped(map, i) == [map EXCEPT ![i - 1] = map[i], ![i] = map[i - 1]]

\* the map get_value leaves, having found the key at index i
AfterGet(map, i) ==
  LET counted == Counted(map, i)
  IN  IF Overtakes(counted, i) THEN Swapped(counted, i) ELSE counted

\* Mutation of GetValue: the entry before the one at i is returned.
GetValuePrevious(map, i) == IF i > 1 THEN map[i - 1].value ELSE map[i].value

\* what get_value returns: the entry that is at index i after the swap
GetValue(map, i) == AfterGet(map, i)[i].value

-----------------------------------------------------------------------------
(* net_stack_init *)

CreateArp ==
  /\ created = 0 /\ created' = 1
  /\ ethernet_type_to_handler' = AddValue(ethernet_type_to_handler, htons(ArpType), "arp")
  /\ UNCHANGED <<ip_type_to_handler, last_frame, taken>>

CreateIpv4 ==
  /\ created = 1 /\ created' = 2
  /\ ethernet_type_to_handler' = AddValue(ethernet_type_to_handler, htons(Ipv4Type), "ipv4")
  /\ UNCHANGED <<ip_type_to_handler, last_frame, taken>>

CreateTcp ==
  /\ created = 2 /\ created' = 3
  /\ ip_type_to_handler' = AddValue(ip_type_to_handler, TcpProtocol, "tcp")
  /\ UNCHANGED <<ethernet_type_to_handler, last_frame, taken>>

-----------------------------------------------------------------------------
(* The reads *)

Reads(frame) == created = 3 /\ last_frame' = frame /\ UNCHANGED created

\* the comparison is made on the fields as they lie in memory
IsEtherType(frame) == htons(frame.type) > htons(MinType)

EtherIndex(frame) == IndexOf(ethernet_type_to_handler, htons(frame.type))

\* an 802.3 frame, or a type nobody registered
EthernetDrops(frame) ==
  /\ Reads(frame)
  /\ IsEtherType(frame) => EtherIndex(frame) = 0
  /\ taken' = "none"
  /\ UNCHANGED <<ethernet_type_to_handler, ip_type_to_handler>>

EthernetReads(frame, handler) ==
  LET i == EtherIndex(frame)
  IN  /\ Reads(frame) /\ IsEtherType(frame) /\ i # 0
      /\ ethernet_type_to_handler[i].priority < PriorityBound
      /\ GetValue(ethernet_type_to_handler, i) = handler
      /\ ethernet_type_to_handler' = AfterGet(ethernet_type_to_handler, i)

\* arp_read looks at the hardware and the protocol type in the body, not at the
\* Ethernet header: what does not have those of IPv4 over Ethernet is ignored
ArpReads(frame) ==
  /\ EthernetReads(frame, "arp")
  /\ taken' = IF frame.arp_body THEN "arp" ELSE "none"
  /\ UNCHANGED ip_type_to_handler

Ipv4Accepts(frame) ==
  frame.checksum_ok /\ frame.ihl = 5 /\ frame.time_to_live > 0 /\ frame.ours

\* a wrong checksum, options, an expired time to live, another host's
\* address, or a protocol nobody registered
Ipv4Drops(frame) ==
  /\ EthernetReads(frame, "ipv4")
  /\ Ipv4Accepts(frame) => IndexOf(ip_type_to_handler, frame.protocol) = 0
  /\ taken' = "none"
  /\ UNCHANGED ip_type_to_handler

Ipv4Reads(frame) ==
  LET i == IndexOf(ip_type_to_handler, frame.protocol)
  IN  /\ EthernetReads(frame, "ipv4")
      /\ Ipv4Accepts(frame) /\ i # 0
      /\ ip_type_to_handler' = AfterGet(ip_type_to_handler, i)
      /\ taken' = GetValue(ip_type_to_handler, i)

-----------------------------------------------------------------------------

Init ==
  /\ ethernet_type_to_handler = <<>> /\ ip_type_to_handler = <<>>
  /\ created = 0 /\ last_frame = NoFrame /\ taken = "none"

Next ==
  \/ CreateArp \/ CreateIpv4 \/ CreateTcp
  \/ \E frame \in Frames :
       EthernetDrops(frame) \/ ArpReads(frame) \/ Ipv4Drops(frame) \/ Ipv4Reads(frame)

Spec == Init /\ [][Next]_vars

-----------------------------------------------------------------------------

EntryType(values) == [key : TypeField, priority : Nat, value : values]

\* The maps hold entries of the registered kinds under 16-bit keys: htons and
\* the swaps of get_value keep them so.
TypeOK ==
  /\ ethernet_type_to_handler \in Seq(EntryType({"arp", "ipv4"}))
  /\ ip_type_to_handler \in Seq(EntryType({"tcp"}))
  /\ created \in 0 .. 3 /\ last_frame \in Frame \union {NoFrame}
  /\ taken \in {"none", "arp", "tcp"}

(***************************************************************************)
(* However often the lookups swap entries, each type stays registered      *)
(* exactly once and with the handler it was registered for.                *)
(***************************************************************************)
RegistrationsKept ==
  created = 3 /\ MaxSize >= 2 =>
    /\ Len(ethernet_type_to_handler) = 2
    /\ {<<entry.key, entry.value>> : entry \in ToSet(ethernet_type_to_handler)}
         = {<<htons(ArpType), "arp">>, <<htons(Ipv4Type), "ipv4">>}

(***************************************************************************)
(* Lookups leave both maps as registration made them, but for the order.   *)
(***************************************************************************)
MapsConsistent == TypeOK /\ RegistrationsKept

\* what the stack supports and has to hand to the protocol it is for
Supported(frame) ==
  \/ frame.type = ArpType /\ frame.arp_body
  \/ /\ frame.type = Ipv4Type /\ frame.checksum_ok /\ frame.ihl = 5
     /\ frame.time_to_live > 0 /\ frame.ours /\ frame.protocol = TcpProtocol

\* who processes the frames of a registered type
OwnProtocol(frame) == IF frame.type = ArpType THEN "arp" ELSE "tcp"

Lost == Supported(last_frame) /\ taken # OwnProtocol(last_frame)

(***************************************************************************)
(* A supported frame is lost only in the lookup that moves its entry, and  *)
(* never twice in a row: the next frame of the same type gets through.     *)
(***************************************************************************)
NotLostTwice ==
  [][ Lost /\ last_frame'.type = last_frame.type => ~ Lost' ]_vars

\* the bytes were processed by another protocol than the Ethernet header says
Misrouted == taken \notin {"none", OwnProtocol(last_frame)}

(***************************************************************************)
(* Processing by the wrong protocol, which goes by the body alone (arp.c   *)
(* lines 123-124, ipv4_read's tests), comes from one lookup: the one that  *)
(* moves the type's entry to the front.  A type that is in front goes to   *)
(* its own handler.                                                        *)
(***************************************************************************)
MisroutedOnlyOnMove ==
  [][ Misrouted' => /\ ethernet_type_to_handler[1].key # htons(last_frame'.type)
                    /\ ethernet_type_to_handler'[1].key = htons(last_frame'.type) ]_vars

-----------------------------------------------------------------------------

(***************************************************************************)
(* test/ipv4/test.c:125 registers a handler under 0x06 for packets of      *)
(* "TCP": a supported frame reaches the handler of its type.               *)
(***************************************************************************)
ReachesItsHandler == ~ Lost
=============================================================================
