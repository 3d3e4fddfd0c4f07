--------------------------- MODULE Packet_proofs ---------------------------
(***************************************************************************)
(* What is proved of reading a packet: the protocol maps in which          *)
(* ethernet_read and ipv4_read look up the next handler (Dispatch), and    *)
(* the checksums that ipv4_read verifies and the writes compute            *)
(* (Checksum), for every set of frames, word size and length of header.    *)
(***************************************************************************)
EXTENDS Dispatch, Checksum, WellFoundedInduction, TLAPS

-----------------------------------------------------------------------------
(* The protocol maps *)

EtherEntry == EntryType({"arp", "ipv4"})
IpEntry == EntryType({"tcp"})

\* an entry as net_stack_init registered it, but for its count
Genuine(entry) ==
  \/ entry.key = htons(ArpType) /\ entry.value = "arp"
  \/ entry.key = htons(Ipv4Type) /\ entry.value = "ipv4"

Registered(map) ==
  /\ map \in Seq(EtherEntry) /\ Len(map) \in {1, 2}
  /\ \A i \in 1 .. Len(map) : Genuine(map[i])
  /\ Len(map) = 1 => map[1].key = htons(ArpType)
  /\ Len(map) = 2 => map[1].key # map[2].key

\* TCP is alone in its map
OnlyTcp(map) ==
  /\ map \in Seq(IpEntry) /\ Len(map) = 1
  /\ map[1].key = TcpProtocol /\ map[1].value = "tcp"

(***************************************************************************)
(* The inductive invariant.  A supported frame that was lost leaves its    *)
(* type at the front of the map: the lookup that lost it moved it there,   *)
(* and what is at the front is never moved by its own lookup.              *)
(***************************************************************************)
MapsOK ==
  /\ created \in 0 .. 3
  /\ created = 0 => ethernet_type_to_handler = <<>>
  /\ created # 0 => Registered(ethernet_type_to_handler)
  /\ created = 1 => Len(ethernet_type_to_handler) = 1
  /\ created \in {2, 3} /\ MaxSize >= 2 => Len(ethernet_type_to_handler) = 2
  /\ created # 3 => ip_type_to_handler = <<>>
  /\ created = 3 => OnlyTcp(ip_type_to_handler)

FrameOK ==
  /\ last_frame \in Frame /\ taken \in {"none", "arp", "tcp"}
  /\ created # 3 => last_frame = NoFrame /\ taken = "none"

LostOK ==
  MaxSize >= 2 /\ Lost =>
    created = 3 /\ ethernet_type_to_handler[1].key = htons(last_frame.type)

DInv == MapsOK /\ FrameOK /\ LostOK

-----------------------------------------------------------------------------
(* htons and IndexOf *)

\* Division, as the provers need it.
LEMMA Division ==
  ASSUME NEW t \in Nat, NEW d \in Nat, d > 0
  PROVE  /\ t \div d \in Nat /\ t % d \in 0 .. d - 1
         /\ t = (t \div d) * d + (t % d)
<1>1. t % d \in 0 .. d - 1
  OBVIOUS
<1>2. t \div d \in Int /\ t = d * (t \div d) + (t % d)
  OBVIOUS
<1>3. t \div d \in Nat
  OBVIOUS
<1> QED BY <1>1, <1>2, <1>3

\* A 16-bit number and its bytes.
Byte == 0 .. 255
Number(high, low) == high * 256 + low

\* Two bytes make a 16-bit number.
LEMMA NumberIsType ==
  ASSUME NEW a \in Byte, NEW b \in Byte
  PROVE  Number(a, b) \in TypeField
BY SMT DEF Byte, Number, TypeField

\* htons writes the bytes in the other order.
LEMMA HtonsSwaps ==
  ASSUME NEW x \in TypeField
  PROVE  \E a, b \in Byte : x = Number(b, a) /\ htons(x) = Number(a, b)
<1>1. PICK base : base = 256
  OBVIOUS
<1>2. base \in Nat /\ base > 0
  BY <1>1
<1>3. x \in Nat /\ x < base * base
  BY <1>1, SMT DEF TypeField
<1>4. PICK a, b : a = x % base /\ b = x \div base
  OBVIOUS
<1>5. b \in Nat /\ a \in 0 .. base - 1 /\ x = b * base + a
  BY <1>2, <1>3, <1>4, Division
<1>6. a \in Byte /\ b \in Byte
  BY <1>1, <1>3, <1>5, SMT DEF Byte
<1>7. x = Number(b, a)
  BY <1>1, <1>5 DEF Number
<1>8. htons(x) = Number(a, b)
  BY <1>1, <1>4 DEF htons, Number
<1> QED BY <1>6, <1>7, <1>8

\* Swapping the bytes of a 16-bit number gives one, and loses nothing.
LEMMA HtonsTypes ==
  /\ \A x \in TypeField : htons(x) \in TypeField
  /\ \A x, y \in TypeField : htons(x) = htons(y) => x = y
<1>1. ASSUME NEW x \in TypeField PROVE htons(x) \in TypeField
  <2>1. PICK a \in Byte, b \in Byte : htons(x) = Number(a, b)
    BY HtonsSwaps
  <2> QED BY <2>1, NumberIsType
<1>2. ASSUME NEW x \in TypeField, NEW y \in TypeField, htons(x) = htons(y) PROVE x = y
  <2>1. PICK a \in Byte, b \in Byte : x = Number(b, a) /\ htons(x) = Number(a, b)
    BY HtonsSwaps
  <2>2. PICK c \in Byte, d \in Byte : y = Number(d, c) /\ htons(y) = Number(c, d)
    BY HtonsSwaps
  <2>3. Number(a, b) = Number(c, d)
    BY <1>2, <2>1, <2>2, Zenon
  <2>4. a = c /\ b = d
    BY <2>3, SMT DEF Byte, Number
  <2> QED BY <2>1, <2>2, <2>4, Zenon
<1> QED BY <1>1, <1>2

\* The loop of get_value finds an entry with the key, if there is one.
LEMMA IndexFinds ==
  ASSUME NEW S, NEW map \in Seq(S), NEW key, NEW i, i = IndexOf(map, key)
  PROVE  /\ i \in 0 .. Len(map)
         /\ i # 0 => i \in 1 .. Len(map) /\ map[i].key = key
         /\ i = 0 => \A j \in 1 .. Len(map) : map[j].key # key
<1>1. PICK I : I = {j \in 1 .. Len(map) : map[j].key = key}
  OBVIOUS
<1>2. i = IF I # {} THEN Min(I) ELSE 0
  BY <1>1 DEF IndexOf, SelectInSeq
<1>3. CASE I = {}
  BY <1>1, <1>2, <1>3
<1>4. CASE I # {}
  <2>1. I \subseteq Nat
    BY <1>1
  <2>2. PICK x \in I : \A y \in I : <<y, x>> \notin OpToRel(<, Nat)
    BY <1>4, <2>1, NatLessThanWellFounded, WFMin
  <2>3. \A y \in I : ~ (y < x)
    BY <2>1, <2>2 DEF OpToRel
  <2>4. \A y \in I : x <= y
    BY <2>1, <2>3
  <2>5. Min(I) \in I
    BY <2>4 DEF Min
  <2>6. i \in I
    BY <1>2, <1>4, <2>5
  <2>7. i \in 1 .. Len(map) /\ map[i].key = key
    BY <1>1, <2>6
  <2> QED BY <2>7
<1> QED BY <1>3, <1>4

-----------------------------------------------------------------------------
(* What get_value does to a map *)

\* The count of one entry is incremented.
LEMMA CountedKeeps ==
  ASSUME NEW values, NEW map \in Seq(EntryType(values)), NEW i \in 1 .. Len(map),
         NEW c, c = Counted(map, i)
  PROVE  /\ c \in Seq(EntryType(values)) /\ Len(c) = Len(map)
         /\ \A j \in 1 .. Len(map) : c[j].key = map[j].key /\ c[j].value = map[j].value
<1>1. \A j \in 1 .. Len(map) : map[j] \in EntryType(values)
  OBVIOUS
<1>2. PICK e : e = [map[i] EXCEPT !.priority = @ + 1]
  OBVIOUS
<1>3. e \in EntryType(values) /\ e.key = map[i].key /\ e.value = map[i].value
  BY <1>1, <1>2 DEF EntryType
<1>4. c = [map EXCEPT ![i] = e]
  BY <1>2 DEF Counted
<1>5. c \in Seq(EntryType(values)) /\ Len(c) = Len(map)
  BY <1>3, <1>4
<1>6. \A j \in 1 .. Len(map) : c[j] = IF j = i THEN e ELSE map[j]
  BY <1>4
<1> QED BY <1>3, <1>5, <1>6

\* An entry and the one before it change places.
LEMMA SwappedKeeps ==
  ASSUME NEW S, NEW map \in Seq(S), NEW i \in 1 .. Len(map), i > 1, NEW s, s = Swapped(map, i)
  PROVE  /\ s \in Seq(S) /\ Len(s) = Len(map) /\ i - 1 \in 1 .. Len(map)
         /\ s[i - 1] = map[i] /\ s[i] = map[i - 1]
         /\ \A j \in 1 .. Len(map) : j # i /\ j # i - 1 => s[j] = map[j]
<1>1. i - 1 \in 1 .. Len(map) /\ i - 1 # i
  OBVIOUS
<1>2. PICK h : h = i - 1
  OBVIOUS
<1>3. h \in 1 .. Len(map) /\ h # i /\ map[h] \in S /\ map[i] \in S
  BY <1>1, <1>2
<1>4. s = [[map EXCEPT ![h] = map[i]] EXCEPT ![i] = map[h]]
  BY <1>2 DEF Swapped
<1>5. PICK m : m = [map EXCEPT ![h] = map[i]]
  OBVIOUS
<1>6. /\ m \in Seq(S) /\ Len(m) = Len(map) /\ m[h] = map[i]
      /\ \A j \in 1 .. Len(map) : j # h => m[j] = map[j]
  BY <1>3, <1>5
<1>7. /\ s \in Seq(S) /\ Len(s) = Len(map) /\ s[i] = map[h]
      /\ \A j \in 1 .. Len(map) : j # i => s[j] = m[j]
  BY <1>3, <1>4, <1>5, <1>6
<1> QED BY <1>1, <1>2, <1>3, <1>6, <1>7

(***************************************************************************)
(* A lookup in the map of Ethernet types: the registrations stay, and the  *)
(* caller gets the entry it asked for unless that one was moved to the     *)
(* front.                                                                  *)
(***************************************************************************)
LEMMA Lookup ==
  ASSUME NEW map, Registered(map), NEW i \in 1 .. Len(map), NEW n, n = AfterGet(map, i)
  PROVE  /\ Registered(n) /\ Len(n) = Len(map)
         /\ GetValue(map, i) = n[i].value /\ Genuine(n[i])
         /\ n[i].key = map[i].key \/ n[1].key = map[i].key
         /\ i = 1 => n[i].key = map[i].key
<1>1. PICK c : c = Counted(map, i)
  OBVIOUS
<1>2. map \in Seq(EtherEntry) /\ Len(map) \in {1, 2} /\ i \in {1, 2}
  BY DEF Registered
<1>3. /\ c \in Seq(EtherEntry) /\ Len(c) = Len(map)
      /\ \A j \in 1 .. Len(map) : c[j].key = map[j].key /\ c[j].value = map[j].value
  BY <1>1, <1>2, CountedKeeps DEF EtherEntry
<1>4. Registered(c)
  BY <1>2, <1>3 DEF Registered, Genuine
<1>5. GetValue(map, i) = n[i].value
  BY DEF GetValue
<1>6. CASE ~ Overtakes(c, i)
  <2>1. n = c
    BY <1>1, <1>6 DEF AfterGet
  <2> QED BY <1>2, <1>3, <1>4, <1>5, <2>1 DEF Registered
<1>7. CASE Overtakes(c, i)
  <2>1. n = Swapped(c, i) /\ i > 1
    BY <1>1, <1>7 DEF AfterGet, Overtakes
  <2>2. i = 2 /\ Len(map) = 2
    <3>1. PICK l \in {1, 2} : l = Len(map)
      BY <1>2
    <3>2. i \in 1 .. l /\ i > 1
      BY <2>1, <3>1
    <3>3. i = 2 /\ l = 2
      BY <3>2
    <3> QED BY <3>1, <3>3
  <2>3. n \in Seq(EtherEntry) /\ Len(n) = 2 /\ n[1] = c[2] /\ n[2] = c[1]
    <3>1. i \in 1 .. Len(c)
      BY <1>3
    <3>2. n \in Seq(EtherEntry) /\ Len(n) = Len(c) /\ n[i - 1] = c[i] /\ n[i] = c[i - 1]
      BY <1>3, <2>1, <3>1, SwappedKeeps
    <3>3. i - 1 = 1 /\ Len(c) = 2
      BY <1>3, <2>2
    <3> QED BY <2>2, <3>2, <3>3
  <2>4. Registered(n)
    <3>1. Genuine(c[1]) /\ Genuine(c[2]) /\ c[1].key # c[2].key
      BY <1>3, <1>4, <2>2 DEF Registered
    <3>2. \A j \in 1 .. Len(n) : j = 1 \/ j = 2
      BY <2>3
    <3>3. \A j \in 1 .. Len(n) : Genuine(n[j])
      BY <2>3, <3>1, <3>2
    <3> QED BY <2>3, <3>1, <3>3 DEF Registered
  <2>5. n[1].key = map[i].key
    BY <1>3, <2>2, <2>3
  <2> QED BY <1>5, <2>2, <2>3, <2>4, <2>5 DEF Registered
<1> QED BY <1>6, <1>7

\* A lookup in the map of IPv4 protocols.
LEMMA LookupTcp ==
  ASSUME NEW map, OnlyTcp(map), NEW i \in 1 .. Len(map), NEW n, n = AfterGet(map, i)
  PROVE  OnlyTcp(n) /\ GetValue(map, i) = "tcp"
<1>1. map \in Seq(IpEntry) /\ Len(map) = 1 /\ i = 1
  BY DEF OnlyTcp
<1>2. PICK c : c = Counted(map, i)
  OBVIOUS
<1>3. /\ c \in Seq(IpEntry) /\ Len(c) = 1
      /\ c[1].key = map[1].key /\ c[1].value = map[1].value
  BY <1>1, <1>2, CountedKeeps DEF IpEntry
<1>4. n = c
  BY <1>1, <1>2 DEF AfterGet, Overtakes
<1>5. GetValue(map, i) = c[1].value
  BY <1>1, <1>4 DEF GetValue
<1> QED BY <1>3, <1>4, <1>5 DEF OnlyTcp

-----------------------------------------------------------------------------
(* The steps *)

\* An entry as it is registered.
LEMMA NewEntry ==
  ASSUME NEW values, NEW map \in Seq(EntryType(values)), Len(map) < MaxSize,
         NEW key \in TypeField, NEW value \in values, NEW n, n = AddValue(map, key, value)
  PROVE  /\ n \in Seq(EntryType(values)) /\ Len(n) = Len(map) + 1
         /\ n[Len(map) + 1].key = key /\ n[Len(map) + 1].value = value
         /\ \A j \in 1 .. Len(map) : n[j] = map[j]
<1>1. PICK e : e = Entry(key, value)
  OBVIOUS
<1>2. e \in EntryType(values) /\ e.key = key /\ e.value = value
  BY <1>1 DEF Entry, EntryType
<1>3. n = Append(map, e)
  BY <1>1 DEF AddValue
<1>4. /\ n \in Seq(EntryType(values)) /\ Len(n) = Len(map) + 1 /\ n[Len(map) + 1] = e
      /\ \A j \in 1 .. Len(map) : n[j] = map[j]
  BY <1>2, <1>3
<1> QED BY <1>2, <1>4

\* The registration of ARP.
LEMMA CreateArpKeeps == DInv /\ CreateArp => MapsOK'
<1> SUFFICES ASSUME DInv, CreateArp PROVE MapsOK'
  OBVIOUS
<1>1. /\ created = 0 /\ created' = 1 /\ ip_type_to_handler' = <<>>
      /\ ethernet_type_to_handler = <<>>
      /\ ethernet_type_to_handler' = AddValue(<<>>, htons(ArpType), "arp")
  BY DEF DInv, MapsOK, CreateArp
<1>2. <<>> \in Seq(EtherEntry) /\ Len(<<>>) = 0 /\ Len(<<>>) < MaxSize
  BY BoundsAssumption
<1>3. htons(ArpType) \in TypeField
  BY TypesAssumption, HtonsTypes
<1>4. PICK n : n = ethernet_type_to_handler'
  OBVIOUS
<1>5. /\ n \in Seq(EtherEntry) /\ Len(n) = 1 /\ n[1].key = htons(ArpType)
      /\ n[1].value = "arp"
  <2>1. n = AddValue(<<>>, htons(ArpType), "arp")
    BY <1>1, <1>4
  <2>2. PICK values, m : values = {"arp", "ipv4"} /\ m = <<>>
    OBVIOUS
  <2>3. /\ "arp" \in values /\ EtherEntry = EntryType(values)
        /\ m \in Seq(EtherEntry) /\ Len(m) < MaxSize
        /\ n = AddValue(m, htons(ArpType), "arp")
    BY <1>2, <2>1, <2>2 DEF EtherEntry
  <2>4. /\ n \in Seq(EtherEntry) /\ Len(n) = Len(m) + 1
        /\ n[Len(m) + 1].key = htons(ArpType) /\ n[Len(m) + 1].value = "arp"
    <3>1. PICK key \in TypeField : key = htons(ArpType)
      BY <1>3
    <3>2. n = AddValue(m, key, "arp")
      BY <2>3, <3>1
    <3>3. /\ n \in Seq(EtherEntry) /\ Len(n) = Len(m) + 1
          /\ n[Len(m) + 1].key = key /\ n[Len(m) + 1].value = "arp"
      BY <2>3, <3>2, NewEntry
    <3> QED BY <3>1, <3>3
  <2>5. Len(m) + 1 = 1
    BY <1>2, <2>2
  <2> QED BY <2>4, <2>5
<1>6. Registered(n)
  <2>1. \A i \in 1 .. Len(n) : i = 1
    BY <1>5
  <2> QED BY <1>5, <2>1 DEF Registered, Genuine
<1> QED BY <1>1, <1>4, <1>5, <1>6 DEF MapsOK

\* The registration of IPv4, for which a map of one entry has no room.
LEMMA CreateIpv4Keeps == DInv /\ CreateIpv4 => MapsOK'
<1> SUFFICES ASSUME DInv, CreateIpv4 PROVE MapsOK'
  OBVIOUS
<1>1. PICK m : m = ethernet_type_to_handler
  OBVIOUS
<1>2. PICK n : n = ethernet_type_to_handler'
  OBVIOUS
<1>3. /\ created' = 2 /\ ip_type_to_handler' = <<>> /\ Registered(m) /\ Len(m) = 1
      /\ n = AddValue(m, htons(Ipv4Type), "ipv4")
  BY <1>1, <1>2 DEF DInv, MapsOK, CreateIpv4
<1>4. m \in Seq(EtherEntry) /\ Genuine(m[1]) /\ m[1].key = htons(ArpType)
  BY <1>3 DEF Registered
<1>5. CASE Len(m) < MaxSize
  <2>1. htons(Ipv4Type) \in TypeField /\ htons(Ipv4Type) # htons(ArpType)
    BY TypesAssumption, HtonsTypes
  <2>2. /\ n \in Seq(EtherEntry) /\ Len(n) = Len(m) + 1
        /\ n[Len(m) + 1].key = htons(Ipv4Type) /\ n[Len(m) + 1].value = "ipv4"
        /\ \A j \in 1 .. Len(m) : n[j] = m[j]
    <3>1. PICK values : values = {"arp", "ipv4"}
      OBVIOUS
    <3>2. "ipv4" \in values /\ EtherEntry = EntryType(values)
      BY <3>1 DEF EtherEntry
    <3>3. PICK key \in TypeField : key = htons(Ipv4Type)
      BY <2>1
    <3>4. n = AddValue(m, key, "ipv4")
      BY <1>3, <3>3
    <3>5. /\ n \in Seq(EtherEntry) /\ Len(n) = Len(m) + 1
          /\ n[Len(m) + 1].key = key /\ n[Len(m) + 1].value = "ipv4"
          /\ \A j \in 1 .. Len(m) : n[j] = m[j]
      BY <1>4, <1>5, <3>2, <3>4, NewEntry
    <3> QED BY <3>3, <3>5
  <2>3. Len(m) + 1 = 2 /\ 1 \in 1 .. Len(m)
    BY <1>3
  <2>4. /\ n \in Seq(EtherEntry) /\ Len(n) = 2 /\ n[2].key = htons(Ipv4Type)
        /\ n[2].value = "ipv4" /\ n[1] = m[1]
    BY <2>2, <2>3
  <2>5. \A j \in 1 .. Len(n) : j = 1 \/ j = 2
    BY <2>4
  <2>6. Genuine(n[1]) /\ Genuine(n[2]) /\ n[1].key # n[2].key
    BY <1>4, <2>1, <2>4 DEF Genuine
  <2>7. Registered(n)
    BY <2>4, <2>5, <2>6 DEF Registered
  <2> QED BY <1>2, <1>3, <2>4, <2>7 DEF MapsOK
<1>6. CASE ~ (Len(m) < MaxSize)
  <2>1. n = m
    BY <1>3, <1>6 DEF AddValue
  <2>2. ~ (MaxSize >= 2)
    BY <1>3, <1>6, BoundsAssumption
  <2> QED BY <1>2, <1>3, <2>1, <2>2 DEF MapsOK
<1> QED BY <1>5, <1>6

\* The registration of TCP.
LEMMA CreateTcpKeeps == DInv /\ CreateTcp => MapsOK'
<1> SUFFICES ASSUME DInv, CreateTcp PROVE MapsOK'
  OBVIOUS
<1>1. PICK n : n = ip_type_to_handler'
  OBVIOUS
<1>2. /\ created = 2 /\ created' = 3 /\ ethernet_type_to_handler' = ethernet_type_to_handler
      /\ n = AddValue(<<>>, TcpProtocol, "tcp")
  BY <1>1 DEF DInv, MapsOK, CreateTcp
<1>3. /\ <<>> \in Seq(IpEntry) /\ Len(<<>>) = 0 /\ Len(<<>>) < MaxSize
      /\ TcpProtocol \in TypeField
  BY BoundsAssumption DEF TypeField
<1>4. OnlyTcp(n)
  <2>1. PICK values, m : values = {"tcp"} /\ m = <<>>
    OBVIOUS
  <2>2. "tcp" \in values /\ IpEntry = EntryType(values)
    BY <2>1 DEF IpEntry
  <2>3. m \in Seq(IpEntry) /\ Len(m) < MaxSize /\ n = AddValue(m, TcpProtocol, "tcp")
    BY <1>2, <1>3, <2>1
  <2>4. /\ n \in Seq(IpEntry) /\ Len(n) = Len(m) + 1
        /\ n[Len(m) + 1].key = TcpProtocol /\ n[Len(m) + 1].value = "tcp"
    BY <1>3, <2>2, <2>3, NewEntry
  <2>5. Len(m) + 1 = 1
    BY <1>3, <2>1
  <2> QED BY <2>4, <2>5 DEF OnlyTcp
<1> QED BY <1>1, <1>2, <1>4 DEF DInv, MapsOK

\* Before the first frame there is nothing that could have been lost.
LEMMA NothingYet ==
  ASSUME FrameOK, created # 3
  PROVE  ~ Lost
BY TypesAssumption DEF FrameOK, Lost, Supported, NoFrame

\* The steps of net_stack_init.
LEMMA CreateKeeps == DInv /\ (CreateArp \/ CreateIpv4 \/ CreateTcp) => DInv'
<1> SUFFICES ASSUME DInv, CreateArp \/ CreateIpv4 \/ CreateTcp PROVE DInv'
  OBVIOUS
<1>1. MapsOK'
  BY CreateArpKeeps, CreateIpv4Keeps, CreateTcpKeeps
<1>2. created # 3 /\ UNCHANGED <<last_frame, taken>>
  BY DEF CreateArp, CreateIpv4, CreateTcp
<1>3. FrameOK'
  BY <1>2 DEF DInv, FrameOK
<1>4. ~ Lost'
  BY <1>2, NothingYet DEF DInv, Lost, Supported, OwnProtocol
<1> QED BY <1>1, <1>3, <1>4 DEF DInv, LostOK

-----------------------------------------------------------------------------
(* The reads *)

\* the handler that the type of a frame is registered for
Own(frame, handler) ==
  /\ frame.type = ArpType => handler = "arp"
  /\ frame.type = Ipv4Type => handler = "ipv4"

\* With room for both types, both are found.
LEMMA BothRegistered ==
  ASSUME DInv, created = 3, MaxSize >= 2, NEW frame \in Frames, Supported(frame)
  PROVE  IsEtherType(frame) /\ EtherIndex(frame) # 0
<1>1. frame.type = ArpType \/ frame.type = Ipv4Type
  BY DEF Supported
<1>2. IsEtherType(frame)
  BY <1>1, EtherTypesAssumption DEF IsEtherType
<1>3. PICK m : m = ethernet_type_to_handler
  OBVIOUS
<1>4. Registered(m) /\ Len(m) = 2
  BY <1>3 DEF DInv, MapsOK
<1>5. /\ m \in Seq(EtherEntry) /\ Genuine(m[1]) /\ Genuine(m[2]) /\ m[1].key # m[2].key
      /\ 1 \in 1 .. Len(m) /\ 2 \in 1 .. Len(m)
  BY <1>4 DEF Registered
<1>6. m[1].key = htons(frame.type) \/ m[2].key = htons(frame.type)
  BY <1>1, <1>5 DEF Genuine
<1>7. PICK key : key = htons(frame.type)
  OBVIOUS
<1>8. IndexOf(m, key) # 0
  BY <1>5, <1>6, <1>7, IndexFinds
<1> QED BY <1>2, <1>3, <1>7, <1>8 DEF EtherIndex

\* TCP is found.
LEMMA TcpFound ==
  ASSUME DInv, created = 3, NEW type, NEW i, i = IndexOf(ip_type_to_handler, type)
  PROVE  /\ i # 0 => i \in 1 .. Len(ip_type_to_handler) /\ type = TcpProtocol
         /\ i = 0 => type # TcpProtocol
<1>1. PICK m : m = ip_type_to_handler
  OBVIOUS
<1>2. m \in Seq(IpEntry) /\ Len(m) = 1 /\ m[1].key = TcpProtocol
  BY <1>1 DEF DInv, MapsOK, OnlyTcp
<1>3. /\ i # 0 => i \in 1 .. Len(m) /\ m[i].key = type
      /\ i = 0 => \A j \in 1 .. Len(m) : m[j].key # type
  <2>1. i = IndexOf(m, type) /\ m \in Seq(IpEntry)
    BY <1>1, <1>2
  <2> QED BY <2>1, IndexFinds, Zenon
<1>4. 1 \in 1 .. Len(m) /\ \A j \in 1 .. Len(m) : j = 1
  BY <1>2
<1>5. i # 0 => i \in 1 .. Len(m) /\ type = TcpProtocol
  <2> HAVE i # 0
  <2>1. i \in 1 .. Len(m) /\ m[i].key = type
    BY <1>3
  <2>2. i = 1
    BY <1>4, <2>1
  <2> QED BY <1>2, <2>1, <2>2
<1>6. i = 0 => type # TcpProtocol
  <2> HAVE i = 0
  <2>1. m[1].key # type
    BY <1>3, <1>4
  <2> QED BY <1>2, <2>1
<1> QED BY <1>1, <1>5, <1>6

(***************************************************************************)
(* ethernet_read's lookup: the frame goes to the handler of its type,      *)
(* unless the lookup has just moved that type to the front; a type that    *)
(* was at the front before goes to its handler.                            *)
(***************************************************************************)
LEMMA EtherLookup ==
  ASSUME DInv, NEW frame \in Frames, NEW handler, EthernetReads(frame, handler)
  PROVE  /\ created = 3 /\ created' = 3 /\ last_frame' = frame
         /\ Registered(ethernet_type_to_handler')
         /\ Len(ethernet_type_to_handler') = Len(ethernet_type_to_handler)
         /\ frame.type = ArpType \/ frame.type = Ipv4Type
         /\ Own(frame, handler) \/ ethernet_type_to_handler'[1].key = htons(frame.type)
         /\ ethernet_type_to_handler[1].key = htons(frame.type) => Own(frame, handler)
<1>1. PICK m : m = ethernet_type_to_handler
  OBVIOUS
<1>2. PICK n : n = ethernet_type_to_handler'
  OBVIOUS
<1>3. PICK key : key = htons(frame.type)
  OBVIOUS
<1>4. PICK i : i = IndexOf(m, key)
  OBVIOUS
<1>5. /\ created = 3 /\ created' = 3 /\ last_frame' = frame
      /\ i # 0 /\ GetValue(m, i) = handler /\ n = AfterGet(m, i)
  BY <1>1, <1>2, <1>3, <1>4 DEF EthernetReads, Reads, EtherIndex
<1>6. Registered(m)
  BY <1>1, <1>5 DEF DInv, MapsOK
<1>7. m \in Seq(EtherEntry) /\ Len(m) \in {1, 2} /\ \A j \in 1 .. Len(m) : Genuine(m[j])
  BY <1>6 DEF Registered
<1>8. i \in 1 .. Len(m) /\ m[i].key = key
  BY <1>4, <1>5, <1>7, IndexFinds
<1>9. /\ Registered(n) /\ Len(n) = Len(m) /\ handler = n[i].value /\ Genuine(n[i])
      /\ n[i].key = key \/ n[1].key = key
      /\ i = 1 => n[i].key = key
  BY <1>5, <1>6, <1>8, Lookup
<1>10. frame.type \in TypeField /\ ArpType \in TypeField /\ Ipv4Type \in TypeField
  BY FramesAssumption, TypesAssumption DEF Frame
<1>11. frame.type = ArpType \/ frame.type = Ipv4Type
  <2>1. Genuine(m[i])
    BY <1>7, <1>8
  <2>2. key = htons(ArpType) \/ key = htons(Ipv4Type)
    BY <1>8, <2>1 DEF Genuine
  <2> QED BY <1>3, <1>10, <2>2, HtonsTypes
<1>12. n[i].key = key => Own(frame, handler)
  <2>1. htons(ArpType) # htons(Ipv4Type)
    BY <1>10, HtonsTypes, TypesAssumption
  <2> QED BY <1>3, <1>9, <2>1 DEF Genuine, Own
<1>13. m[1].key = key => i = 1
  <2>1. CASE Len(m) = 1
    BY <1>8, <2>1
  <2>2. CASE Len(m) = 2
    <3>1. i = 1 \/ i = 2
      BY <1>8, <2>2
    <3>2. m[1].key # m[2].key
      BY <1>6, <2>2 DEF Registered
    <3> QED BY <1>8, <3>1, <3>2
  <2> QED BY <1>7, <2>1, <2>2
<1> QED BY <1>1, <1>2, <1>3, <1>5, <1>9, <1>11, <1>12, <1>13

\* No handler takes the frame.
LEMMA DropsKeep ==
  ASSUME DInv, NEW frame \in Frames, EthernetDrops(frame)
  PROVE  DInv' /\ (MaxSize >= 2 => ~ Lost')
<1>1. /\ created = 3 /\ last_frame' = frame /\ taken' = "none"
      /\ UNCHANGED <<created, ethernet_type_to_handler, ip_type_to_handler>>
      /\ IsEtherType(frame) => EtherIndex(frame) = 0
  BY DEF EthernetDrops, Reads
<1>2. MaxSize >= 2 => ~ Lost'
  BY <1>1, BothRegistered DEF Lost, Supported
<1>3. MapsOK'
  BY <1>1 DEF DInv, MapsOK
<1>4. FrameOK'
  BY <1>1, FramesAssumption DEF FrameOK
<1> QED BY <1>2, <1>3, <1>4 DEF DInv, LostOK

\* The maps after a lookup.
LEMMA MapsAfter ==
  ASSUME DInv, NEW frame \in Frames, NEW handler, EthernetReads(frame, handler),
         OnlyTcp(ip_type_to_handler')
  PROVE  MapsOK'
BY EtherLookup DEF DInv, MapsOK

\* arp_read gets the frame.
LEMMA ArpKeeps ==
  ASSUME DInv, NEW frame \in Frames, ArpReads(frame)
  PROVE  /\ DInv'
         /\ Lost' => ~ Own(frame, "arp")
<1>1. /\ EthernetReads(frame, "arp") /\ UNCHANGED ip_type_to_handler
      /\ taken' = IF frame.arp_body THEN "arp" ELSE "none"
  BY DEF ArpReads
<1>2. /\ created = 3 /\ created' = 3 /\ last_frame' = frame
      /\ frame.type = ArpType \/ frame.type = Ipv4Type
      /\ Own(frame, "arp") \/ ethernet_type_to_handler'[1].key = htons(frame.type)
  BY <1>1, EtherLookup
<1>3. MapsOK'
  <2>1. OnlyTcp(ip_type_to_handler')
    BY <1>1, <1>2 DEF DInv, MapsOK
  <2> QED BY <1>1, <2>1, MapsAfter
<1>4. FrameOK'
  BY <1>1, <1>2, FramesAssumption DEF FrameOK
<1>5. Lost' => ~ Own(frame, "arp")
  <2>1. Lost' => frame.type # ArpType
    BY <1>1, <1>2, TypesAssumption DEF Lost, Supported, OwnProtocol
  <2> QED BY <1>2, <2>1 DEF Own
<1> QED BY <1>2, <1>3, <1>4, <1>5 DEF DInv, LostOK

\* ipv4_read drops the packet.
LEMMA Ipv4DropsKeep ==
  ASSUME DInv, NEW frame \in Frames, Ipv4Drops(frame)
  PROVE  /\ DInv'
         /\ Lost' => ~ Own(frame, "ipv4")
<1>1. /\ EthernetReads(frame, "ipv4") /\ UNCHANGED ip_type_to_handler /\ taken' = "none"
      /\ Ipv4Accepts(frame) => IndexOf(ip_type_to_handler, frame.protocol) = 0
  BY DEF Ipv4Drops
<1>2. /\ created = 3 /\ created' = 3 /\ last_frame' = frame
      /\ frame.type = ArpType \/ frame.type = Ipv4Type
      /\ Own(frame, "ipv4") \/ ethernet_type_to_handler'[1].key = htons(frame.type)
  BY <1>1, EtherLookup
<1>3. MapsOK'
  <2>1. OnlyTcp(ip_type_to_handler')
    BY <1>1, <1>2 DEF DInv, MapsOK
  <2> QED BY <1>1, <2>1, MapsAfter
<1>4. FrameOK'
  BY <1>1, <1>2, FramesAssumption DEF FrameOK
<1>5. Lost' => ~ Own(frame, "ipv4")
  <2> SUFFICES ASSUME Supported(frame) PROVE frame.type = ArpType
    BY <1>2 DEF Lost, Supported, Own
  <2> SUFFICES ASSUME frame.type # ArpType PROVE FALSE
    OBVIOUS
  <2>1. Ipv4Accepts(frame) /\ frame.protocol = TcpProtocol
    BY DEF Supported, Ipv4Accepts
  <2> QED BY <1>1, <1>2, <2>1, TcpFound
<1> QED BY <1>2, <1>3, <1>4, <1>5 DEF DInv, LostOK

\* ipv4_read hands the packet to TCP.
LEMMA Ipv4Keeps ==
  ASSUME DInv, NEW frame \in Frames, Ipv4Reads(frame)
  PROVE  DInv' /\ ~ Lost'
<1>1. PICK i : i = IndexOf(ip_type_to_handler, frame.protocol)
  OBVIOUS
<1>2. /\ EthernetReads(frame, "ipv4") /\ Ipv4Accepts(frame) /\ i # 0
      /\ ip_type_to_handler' = AfterGet(ip_type_to_handler, i)
      /\ taken' = GetValue(ip_type_to_handler, i)
  BY <1>1 DEF Ipv4Reads
<1>3. /\ created = 3 /\ created' = 3 /\ last_frame' = frame
      /\ frame.type = ArpType \/ frame.type = Ipv4Type
  BY <1>2, EtherLookup
<1>4. i \in 1 .. Len(ip_type_to_handler) /\ frame.protocol = TcpProtocol
  BY <1>1, <1>2, <1>3, TcpFound
<1>5. OnlyTcp(ip_type_to_handler)
  BY <1>3 DEF DInv, MapsOK
<1>6. OnlyTcp(ip_type_to_handler') /\ taken' = "tcp"
  BY <1>2, <1>4, <1>5, LookupTcp
<1>7. ~ frame.arp_body
  BY <1>2, FramesAssumption DEF Ipv4Accepts
<1>8. Supported(frame) => frame.type # ArpType
  BY <1>7, TypesAssumption DEF Supported
<1>9. MapsOK'
  BY <1>2, <1>6, MapsAfter
<1>10. FrameOK'
  BY <1>3, <1>6, FramesAssumption DEF FrameOK
<1>11. ~ Lost'
  BY <1>3, <1>6, <1>8 DEF Lost, OwnProtocol
<1> QED BY <1>9, <1>10, <1>11 DEF DInv, LostOK

-----------------------------------------------------------------------------
(* The theorems *)

\* The invariant holds when net_stack_init starts.
LEMMA DispatchInit == Init => DInv
<1> SUFFICES ASSUME Init PROVE DInv
  OBVIOUS
<1>1. MapsOK
  BY DEF Init, MapsOK
<1>2. FrameOK
  <2>1. NoFrame \in Frame
    BY DEF NoFrame, Frame, TypeField
  <2> QED BY <2>1 DEF Init, FrameOK
<1>3. ~ Lost
  BY <1>2, NothingYet DEF Init
<1> QED BY <1>1, <1>2, <1>3 DEF DInv, LostOK

\* Every registration and every read keeps it.
LEMMA DispatchNext == DInv /\ [Next]_vars => DInv'
<1> SUFFICES ASSUME DInv, [Next]_vars PROVE DInv'
  OBVIOUS
<1>1. CASE UNCHANGED vars
  BY <1>1 DEF vars, DInv, MapsOK, FrameOK, LostOK, Lost, Supported, OwnProtocol
<1> QED BY <1>1, CreateKeeps, DropsKeep, ArpKeeps, Ipv4DropsKeep, Ipv4Keeps DEF Next

(***************************************************************************)
(* However often and in whichever order the lookups count and swap, each   *)
(* type stays registered once and with its own handler.                    *)
(***************************************************************************)
THEOREM RegistrationsStay == Spec => []MapsConsistent
<1>1. DInv => TypeOK
  <2> SUFFICES ASSUME DInv PROVE TypeOK
    OBVIOUS
  <2>1. ethernet_type_to_handler \in Seq(EtherEntry)
    <3>1. \A m : Registered(m) => m \in Seq(EtherEntry)
      BY DEF Registered
    <3>2. <<>> \in Seq(EtherEntry)
      OBVIOUS
    <3> QED BY <3>1, <3>2, Zenon DEF DInv, MapsOK
  <2>2. ip_type_to_handler \in Seq(IpEntry)
    <3>1. \A m : OnlyTcp(m) => m \in Seq(IpEntry)
      BY DEF OnlyTcp
    <3>2. <<>> \in Seq(IpEntry)
      OBVIOUS
    <3> QED BY <3>1, <3>2, Zenon DEF DInv, MapsOK
  <2> QED BY <2>1, <2>2 DEF DInv, MapsOK, FrameOK, TypeOK, EtherEntry, IpEntry
<1>2. DInv => RegistrationsKept
  <2> SUFFICES ASSUME DInv, created = 3, MaxSize >= 2
               PROVE  /\ Len(ethernet_type_to_handler) = 2
                      /\ {<<entry.key, entry.value>> : entry \in ToSet(ethernet_type_to_handler)}
                           = {<<htons(ArpType), "arp">>, <<htons(Ipv4Type), "ipv4">>}
    BY DEF RegistrationsKept
  <2>1. PICK m : m = ethernet_type_to_handler
    OBVIOUS
  <2>2. Registered(m) /\ Len(m) = 2
    BY <2>1 DEF DInv, MapsOK
  <2>3. Genuine(m[1]) /\ Genuine(m[2]) /\ m[1].key # m[2].key
    BY <2>2 DEF Registered
  <2>4. ToSet(m) = {m[1], m[2]}
    <3>1. m \in Seq(EtherEntry) /\ DOMAIN m = 1 .. 2
      BY <2>2 DEF Registered
    <3> QED BY <3>1 DEF ToSet
  <2>5. {<<entry.key, entry.value>> : entry \in ToSet(m)}
          = {<<m[1].key, m[1].value>>, <<m[2].key, m[2].value>>}
    BY <2>4
  <2>6. {<<m[1].key, m[1].value>>, <<m[2].key, m[2].value>>}
          = {<<htons(ArpType), "arp">>, <<htons(Ipv4Type), "ipv4">>}
    BY <2>3 DEF Genuine
  <2> QED BY <2>1, <2>2, <2>5, <2>6
<1>3. DInv => MapsConsistent
  BY <1>1, <1>2 DEF MapsConsistent
<1> QED BY <1>3, DispatchInit, DispatchNext, PTL DEF Spec

(***************************************************************************)
(* A frame is processed by the other protocol's handler, whatever its body *)
(* looks like, only in the lookup that moves its type to the front of the  *)
(* map; while its type is in front it reaches its own.                     *)
(***************************************************************************)
THEOREM MisroutedByMoveOnly == Spec => MisroutedOnlyOnMove
<1> DEFINE Moved == /\ ethernet_type_to_handler[1].key # htons(last_frame'.type)
                    /\ ethernet_type_to_handler'[1].key = htons(last_frame'.type)
<1>1. DInv /\ [Next]_vars => [Misrouted' => Moved]_vars
  <2> SUFFICES ASSUME DInv, Next, Misrouted' PROVE Moved
    OBVIOUS
  <2>1. ~ (CreateArp \/ CreateIpv4 \/ CreateTcp)
    <3> SUFFICES ASSUME CreateArp \/ CreateIpv4 \/ CreateTcp PROVE FALSE
      OBVIOUS
    <3>1. created # 3 /\ taken' = taken
      BY DEF CreateArp, CreateIpv4, CreateTcp
    <3> QED BY <3>1 DEF Misrouted, DInv, FrameOK
  <2>2. PICK frame \in Frames :
          EthernetDrops(frame) \/ ArpReads(frame) \/ Ipv4Drops(frame) \/ Ipv4Reads(frame)
    BY <2>1 DEF Next
  <2>3. last_frame' = frame
    BY <2>2 DEF EthernetDrops, ArpReads, Ipv4Drops, Ipv4Reads, EthernetReads, Reads
  <2>4. \A handler : EthernetReads(frame, handler) => Own(frame, handler) \/ Moved
    <3> SUFFICES ASSUME NEW handler, EthernetReads(frame, handler), ~ Own(frame, handler)
                 PROVE  Moved
      OBVIOUS
    <3> QED BY <2>3, EtherLookup
  <2> HIDE DEF Moved
  <2>5. taken' # "none" /\ taken' # OwnProtocol(frame)
    BY <2>3 DEF Misrouted, OwnProtocol
  <2>6. CASE ArpReads(frame)
    <3>1. EthernetReads(frame, "arp") /\ taken' \in {"arp", "none"}
      BY <2>6 DEF ArpReads
    <3>2. frame.type # ArpType
      BY <2>5, <3>1 DEF OwnProtocol
    <3>3. frame.type = Ipv4Type
      BY <3>1, <3>2, EtherLookup
    <3> QED BY <2>4, <3>1, <3>3 DEF Own
  <2>7. CASE Ipv4Reads(frame)
    <3>1. PICK i : i = IndexOf(ip_type_to_handler, frame.protocol)
      OBVIOUS
    <3>2. EthernetReads(frame, "ipv4") /\ i # 0 /\ taken' = GetValue(ip_type_to_handler, i)
      BY <2>7, <3>1 DEF Ipv4Reads
    <3>3. created = 3
      BY <3>2, EtherLookup
    <3>4. OnlyTcp(ip_type_to_handler) /\ i \in 1 .. Len(ip_type_to_handler)
      BY <3>1, <3>2, <3>3, TcpFound DEF DInv, MapsOK
    <3>5. taken' = "tcp"
      BY <3>2, <3>4, LookupTcp
    <3>6. frame.type = ArpType
      BY <2>5, <3>5 DEF OwnProtocol
    <3> QED BY <2>4, <3>2, <3>6 DEF Own
  <2>8. ~ EthernetDrops(frame) /\ ~ Ipv4Drops(frame)
    BY <2>5 DEF EthernetDrops, Ipv4Drops
  <2> QED BY <2>2, <2>6, <2>7, <2>8
<1> QED BY <1>1, DispatchInit, DispatchNext, PTL DEF Spec, MisroutedOnlyOnMove

(***************************************************************************)
(* With room for both types a supported frame is never lost twice in a     *)
(* row: the lookup that lost the first one put its type at the front.      *)
(***************************************************************************)
THEOREM NeverLostTwice ==
  ASSUME MaxSize >= 2
  PROVE  Spec => NotLostTwice
<1>1. DInv /\ [Next]_vars => [Lost /\ last_frame'.type = last_frame.type => ~ Lost']_vars
  <2> SUFFICES ASSUME DInv, Next, Lost, last_frame'.type = last_frame.type PROVE ~ Lost'
    OBVIOUS
  <2>1. created = 3 /\ ethernet_type_to_handler[1].key = htons(last_frame.type)
    BY DEF DInv, LostOK
  <2>2. PICK frame \in Frames :
          EthernetDrops(frame) \/ ArpReads(frame) \/ Ipv4Drops(frame) \/ Ipv4Reads(frame)
    BY <2>1 DEF Next, CreateArp, CreateIpv4, CreateTcp
  <2>3. last_frame' = frame
    BY <2>2 DEF EthernetDrops, ArpReads, Ipv4Drops, Ipv4Reads, EthernetReads, Reads
  <2>4. \A handler : EthernetReads(frame, handler) => Own(frame, handler)
    BY <2>1, <2>3, EtherLookup
  <2>5. CASE EthernetDrops(frame)
    BY <2>5, DropsKeep
  <2>6. CASE ArpReads(frame)
    <3>1. EthernetReads(frame, "arp")
      BY <2>6 DEF ArpReads
    <3> QED BY <2>4, <2>6, <3>1, ArpKeeps
  <2>7. CASE Ipv4Drops(frame)
    <3>1. EthernetReads(frame, "ipv4")
      BY <2>7 DEF Ipv4Drops
    <3> QED BY <2>4, <2>7, <3>1, Ipv4DropsKeep
  <2>8. CASE Ipv4Reads(frame)
    BY <2>8, Ipv4Keeps
  <2> QED BY <2>2, <2>5, <2>6, <2>7, <2>8
<1> QED BY <1>1, DispatchInit, DispatchNext, PTL DEF Spec, NotLostTwice

-----------------------------------------------------------------------------
(* One's complement sums *)

Ones == WordBase - 1

\* r is the one's complement sum of words whose total is t
Represents(t, r) ==
  /\ t \in Nat /\ r \in 0 .. Ones
  /\ r = 0 <=> t = 0
  /\ \E q \in Nat : t = r + q * Ones

\* what OnesComplementSum makes of a total
Residue(t) == IF t = 0 THEN 0 ELSE IF t % Ones = 0 THEN Ones ELSE t % Ones

LEMMA OnesType == WordBase \in Nat /\ Ones \in Nat /\ Ones > 1 /\ WordBase = Ones + 1 /\ Word = 0 .. Ones
BY WordBaseAssumption DEF Ones, Word

\* A set of natural numbers that is not empty has a least member.
LEMMA LeastNumber ==
  ASSUME NEW T, T \subseteq Nat, T # {}
  PROVE  \E m \in T : \A y \in T : m <= y
<1>1. PICK m \in T : \A y \in T : ~ (<<y, m>> \in OpToRel(<, Nat))
  BY NatLessThanWellFounded, WFMin
<1>2. \A y \in T : ~ (y < m)
  BY <1>1 DEF OpToRel
<1> QED BY <1>2

\* Multiples of d are d apart.
LEMMA MultiplesApart ==
  ASSUME NEW d \in Nat, NEW x \in Int, x * d < d, 0 - d < x * d
  PROVE  x = 0
<1>1. d > 0
  OBVIOUS
<1>2. x >= 1 => x * d >= d
  <2> SUFFICES ASSUME x >= 1 PROVE x * d >= d
    OBVIOUS
  <2>1. PICK y \in Nat : x = y + 1
    <3>1. x - 1 \in Nat /\ x = (x - 1) + 1
      OBVIOUS
    <3> QED BY <3>1
  <2>2. x * d = y * d + d /\ y * d >= 0
    BY <2>1
  <2> QED BY <2>2
<1>3. x <= 0 - 1 => x * d <= 0 - d
  <2> SUFFICES ASSUME x <= 0 - 1 PROVE x * d <= 0 - d
    OBVIOUS
  <2>1. PICK y \in Nat : x = 0 - 1 - y
    <3>1. 0 - 1 - x \in Nat /\ x = 0 - 1 - (0 - 1 - x)
      OBVIOUS
    <3> QED BY <3>1
  <2>2. x * d = 0 - d - y * d /\ y * d >= 0
    BY <2>1
  <2> QED BY <2>2
<1> QED BY <1>2, <1>3

LEMMA OneRepresentative ==
  ASSUME NEW t, NEW r, NEW s, Represents(t, r), Represents(t, s)
  PROVE  r = s
<1>1. t \in Nat /\ r \in 0 .. Ones /\ s \in 0 .. Ones /\ (r = 0 <=> t = 0) /\ (s = 0 <=> t = 0)
  BY DEF Represents
<1>2. PICK p \in Nat, q \in Nat : t = r + p * Ones /\ t = s + q * Ones
  BY DEF Represents
<1>3. CASE t = 0
  BY <1>1, <1>3
<1>4. CASE t # 0
  <2>1. r \in 1 .. Ones /\ s \in 1 .. Ones
    BY <1>1, <1>4, OnesType
  <2>2. p - q \in Int /\ (p - q) * Ones = s - r
    BY <1>2, <2>1, OnesType
  <2>3. s - r < Ones /\ 0 - Ones < s - r
    BY <2>1, OnesType
  <2>4. p - q = 0
    BY <2>2, <2>3, OnesType, MultiplesApart
  <2>5. p = q
    BY <2>4
  <2>6. p * Ones \in Nat
    BY OnesType
  <2> QED BY <1>2, <2>1, <2>5, <2>6, OnesType
<1> QED BY <1>3, <1>4

LEMMA ResidueRepresents ==
  ASSUME NEW t \in Nat
  PROVE  Represents(t, Residue(t))
<1>1. Ones \in Nat /\ Ones > 1
  BY OnesType
<1>2. CASE t = 0
  <2>1. Residue(t) = 0 /\ 0 \in 0 .. Ones /\ 0 \in Nat /\ t = 0 + 0 * Ones
    BY <1>1, <1>2 DEF Residue
  <2> QED BY <1>2, <2>1 DEF Represents
<1>3. CASE t # 0
  <2>1. PICK q \in Nat, r \in 0 .. Ones - 1 : t = q * Ones + r /\ r = t % Ones
    <3>1. t \div Ones \in Nat /\ t % Ones \in 0 .. Ones - 1 /\ t = (t \div Ones) * Ones + (t % Ones)
      BY <1>1, Division
    <3> QED BY <3>1
  <2>2. CASE r = 0
    <3>1. Residue(t) = Ones
      BY <1>3, <2>1, <2>2 DEF Residue
    <3>2. q # 0
      BY <1>1, <1>3, <2>1, <2>2
    <3>3. PICK p \in Nat : q = p + 1
      <4>1. q - 1 \in Nat /\ q = (q - 1) + 1
        BY <3>2
      <4> QED BY <4>1
    <3>4. t = Ones + p * Ones
      BY <1>1, <2>1, <2>2, <3>3
    <3>5. Ones \in 0 .. Ones /\ Ones # 0
      BY <1>1
    <3> QED BY <1>3, <3>1, <3>4, <3>5 DEF Represents
  <2>3. CASE r # 0
    <3>1. Residue(t) = r
      BY <1>3, <2>1, <2>3 DEF Residue
    <3>2. t = r + q * Ones /\ r \in 0 .. Ones
      BY <1>1, <2>1
    <3> QED BY <1>3, <2>3, <3>1, <3>2 DEF Represents
  <2> QED BY <2>2, <2>3
<1> QED BY <1>2, <1>3

\* A quotient and a remainder are the quotient and the remainder.
LEMMA DivisionIs ==
  ASSUME NEW t \in Nat, NEW d \in Nat, d > 0, NEW q \in Nat, NEW r \in 0 .. d - 1, t = q * d + r
  PROVE  t \div d = q /\ t % d = r
<1>1. PICK a \in Nat, b \in 0 .. d - 1 : t = a * d + b /\ a = t \div d /\ b = t % d
  <2>1. t \div d \in Nat /\ t % d \in 0 .. d - 1 /\ t = (t \div d) * d + (t % d)
    BY Division
  <2> QED BY <2>1
<1>2. a - q \in Int /\ (a - q) * d = r - b
  BY <1>1
<1>3. r - b < d /\ 0 - d < r - b
  OBVIOUS
<1>4. a - q = 0
  BY <1>2, <1>3, MultiplesApart
<1>5. a = q
  BY <1>4
<1>6. q * d \in Nat
  OBVIOUS
<1>7. b = r
  BY <1>1, <1>5, <1>6
<1> QED BY <1>1, <1>5, <1>7

\* ipv4_calculate_checksum: the end-around carry keeps the representative.
LEMMA AddWordRepresents ==
  ASSUME NEW t, NEW r, Represents(t, r), NEW w \in Word
  PROVE  Represents(t + w, Ipv4AddWord(r, w))
<1>1. /\ WordBase \in Nat /\ Ones \in Nat /\ Ones > 1 /\ WordBase = Ones + 1
      /\ w \in 0 .. Ones /\ t \in Nat /\ r \in 0 .. Ones /\ (r = 0 <=> t = 0)
  BY OnesType DEF Represents
<1>2. PICK q \in Nat : t = r + q * Ones
  BY DEF Represents
<1>3. q * Ones \in Nat
  BY <1>1
<1>4. r + w \in Nat /\ WordBase > 0
  BY <1>1
<1>5. CASE r + w < WordBase
  <2>1. (r + w) % WordBase = r + w
    <3>1. r + w \in 0 .. WordBase - 1 /\ r + w = 0 * WordBase + (r + w)
      BY <1>1, <1>5
    <3> QED BY <1>1, <1>4, <3>1, DivisionIs
  <2>2. ~ (r + w < w)
    BY <1>1
  <2>3. Ipv4AddWord(r, w) = r + w
    BY <2>1, <2>2 DEF Ipv4AddWord
  <2>4. t + w = (r + w) + q * Ones /\ r + w \in 0 .. Ones /\ (r + w = 0 <=> t + w = 0) /\ t + w \in Nat
    BY <1>1, <1>2, <1>3, <1>5
  <2> QED BY <2>3, <2>4 DEF Represents
<1>6. CASE ~ (r + w < WordBase)
  <2>1. PICK n : n = r + w - WordBase
    OBVIOUS
  <2>2. n \in 0 .. WordBase - 1 /\ r + w = 1 * WordBase + n /\ n < w
    BY <1>1, <1>6, <2>1
  <2>3. (r + w) % WordBase = n
    BY <1>1, <1>4, <2>2, DivisionIs
  <2>4. Ipv4AddWord(r, w) = n + 1
    BY <2>2, <2>3 DEF Ipv4AddWord
  <2>5. (q + 1) * Ones = q * Ones + Ones /\ q + 1 \in Nat
    BY <1>1
  <2>6. t + w = (n + 1) + (q + 1) * Ones
    BY <1>1, <1>2, <1>3, <2>1, <2>5
  <2>7. n + 1 \in 0 .. Ones /\ n + 1 # 0 /\ t + w # 0 /\ t + w \in Nat
    BY <1>1, <1>6, <2>1, <2>2
  <2> QED BY <2>4, <2>5, <2>6, <2>7 DEF Represents
<1> QED BY <1>5, <1>6

Sums == 0 .. WordBase * WordBase - 1

\* One pass of the loop of tcp_calculate_checksum: smaller, and the same sum.
LEMMA FoldOnce ==
  ASSUME NEW x \in Sums, x \div WordBase # 0
  PROVE  /\ (x % WordBase) + x \div WordBase \in Sums
         /\ (x % WordBase) + x \div WordBase < x
         /\ \A r : Represents((x % WordBase) + x \div WordBase, r) => Represents(x, r)
<1>1. WordBase \in Nat /\ WordBase > 0 /\ Ones \in Nat /\ Ones > 1 /\ WordBase = Ones + 1
      /\ WordBase * WordBase \in Nat
  BY OnesType
<1>2. x \in Nat /\ x < WordBase * WordBase
  BY <1>1 DEF Sums
<1>3. PICK a \in Nat, b \in 0 .. WordBase - 1 :
        x = a * WordBase + b /\ a = x \div WordBase /\ b = x % WordBase
  <2>1. /\ x \div WordBase \in Nat /\ x % WordBase \in 0 .. WordBase - 1
        /\ x = (x \div WordBase) * WordBase + (x % WordBase)
    BY <1>1, <1>2, Division
  <2> QED BY <2>1
<1>4. a # 0 /\ b \in Nat
  BY <1>1, <1>3
<1>5. a * WordBase = a * Ones + a /\ a * Ones \in Nat
  BY <1>1
<1>6. a * Ones >= 1
  <2>1. PICK c \in Nat : a = c + 1
    <3>1. a - 1 \in Nat /\ a = (a - 1) + 1
      BY <1>4
    <3> QED BY <3>1
  <2>2. a * Ones = c * Ones + Ones /\ c * Ones \in Nat
    BY <1>1, <2>1
  <2> QED BY <1>1, <2>2
<1>7. b + a < x /\ b + a \in Nat
  BY <1>3, <1>4, <1>5, <1>6
<1>8. b + a \in Sums
  BY <1>1, <1>2, <1>7 DEF Sums
<1>9. ASSUME NEW r, Represents(b + a, r) PROVE Represents(x, r)
  <2>1. PICK q \in Nat : b + a = r + q * Ones
    BY <1>9 DEF Represents
  <2>2. r \in 0 .. Ones /\ r # 0
    BY <1>4, <1>9 DEF Represents
  <2>3. (q + a) * Ones = q * Ones + a * Ones /\ q + a \in Nat /\ q * Ones \in Nat
    BY <1>1
  <2>4. x = r + (q + a) * Ones
    BY <1>1, <1>3, <1>4, <1>5, <2>1, <2>2, <2>3
  <2>5. x # 0
    BY <1>7, <1>2
  <2> QED BY <1>2, <2>2, <2>3, <2>4, <2>5 DEF Represents
<1> QED BY <1>3, <1>7, <1>8, <1>9

\* A sum without carries represents itself.
LEMMA FoldNone ==
  ASSUME NEW x \in Sums, x \div WordBase = 0
  PROVE  Represents(x, x)
<1>1. WordBase \in Nat /\ WordBase > 0 /\ Ones \in Nat /\ WordBase = Ones + 1 /\ WordBase * WordBase \in Nat
  BY OnesType
<1>2. x \in Nat
  BY <1>1 DEF Sums
<1>3. x = 0 * WordBase + (x % WordBase) /\ x % WordBase \in 0 .. WordBase - 1
  BY <1>1, <1>2, Division
<1>4. x \in 0 .. Ones /\ x = x + 0 * Ones
  BY <1>1, <1>3
<1> QED BY <1>2, <1>4 DEF Represents

\* The loop of tcp_calculate_checksum ends with the one's complement sum.
LEMMA FoldedRepresents ==
  ASSUME NEW x \in Sums
  PROVE  Represents(x, Folded[x])
<1> DEFINE Fold(f) == [sum \in Sums |->
                         IF sum \div WordBase = 0 THEN sum
                         ELSE f[(sum % WordBase) + sum \div WordBase]]
<1>1. Sums \subseteq Nat
  BY OnesType DEF Sums
<1>2. PICK g : g = [sum \in Sums |-> Residue(sum)]
  OBVIOUS
<1>3. \A y \in Sums : Represents(y, g[y])
  BY <1>1, <1>2, ResidueRepresents
<1>4. g = Fold(g)
  <2>1. ASSUME NEW y \in Sums PROVE g[y] = Fold(g)[y]
    <3>1. CASE y \div WordBase = 0
      <4>1. g[y] = y
        BY <1>3, <3>1, FoldNone, OneRepresentative
      <4> QED BY <3>1, <4>1
    <3>2. CASE y \div WordBase # 0
      <4>1. PICK z : z = (y % WordBase) + y \div WordBase
        OBVIOUS
      <4>2. z \in Sums /\ \A r : Represents(z, r) => Represents(y, r)
        BY <3>2, <4>1, FoldOnce
      <4>3. g[y] = g[z]
        BY <1>3, <4>2, OneRepresentative
      <4> QED BY <3>2, <4>1, <4>3
    <3> QED BY <3>1, <3>2
  <2>2. g = [sum \in Sums |-> g[sum]] /\ Fold(g) = [sum \in Sums |-> Fold(g)[sum]]
    BY <1>2
  <2> QED BY <2>1, <2>2
<1>5. Folded = Fold(Folded)
  <2>1. Folded = CHOOSE f : f = Fold(f)
    BY DEF Folded, Sums
  <2> HIDE DEF Fold
  <2> QED BY <1>4, <2>1
<1>6. \A y \in Sums : Folded[y] = IF y \div WordBase = 0 THEN y
                                  ELSE Folded[(y % WordBase) + y \div WordBase]
  BY <1>5
<1> HIDE DEF Fold
<1> DEFINE T == {y \in Sums : ~ Represents(y, Folded[y])}
<1>7. T = {}
  <2> SUFFICES ASSUME T # {} PROVE FALSE
    OBVIOUS
  <2>1. T \subseteq Nat
    BY <1>1
  <2>2. PICK y \in T : \A z \in T : y <= z
    BY <2>1, LeastNumber
  <2>3. y \in Sums /\ ~ Represents(y, Folded[y])
    OBVIOUS
  <2>4. y \div WordBase # 0
    BY <1>6, <2>3, FoldNone
  <2>5. PICK z : z = (y % WordBase) + y \div WordBase
    OBVIOUS
  <2>6. z \in Sums /\ z < y /\ (\A r : Represents(z, r) => Represents(y, r)) /\ Folded[y] = Folded[z]
    BY <1>6, <2>3, <2>4, <2>5, FoldOnce
  <2>7. z \in T
    BY <2>3, <2>6
  <2> QED BY <1>1, <2>2, <2>6, <2>7
<1> QED BY <1>7

-----------------------------------------------------------------------------
(* Totals *)

\* f has the totals of the first words
Running(words, f) ==
  /\ words \in Seq(Word) /\ f \in [0 .. Len(words) -> Nat]
  /\ f[0] = 0
  /\ \A i \in 1 .. Len(words) : f[i] = f[i - 1] + words[i]

Summing(words, n, f) == [i \in 0 .. n |-> IF i = 0 THEN 0 ELSE f[i - 1] + words[i]]

LEMMA WordsAreNumbers ==
  ASSUME NEW words \in Seq(Word)
  PROVE  Len(words) \in Nat /\ \A i \in 1 .. Len(words) : words[i] \in Word /\ words[i] \in Nat
<1>1. \A i \in 1 .. Len(words) : words[i] \in Word
  OBVIOUS
<1> QED BY <1>1, OnesType

\* There are such totals, by induction over how many words are added.
LEMMA SummingExists ==
  ASSUME NEW words \in Seq(Word)
  PROVE  \E f : f = Summing(words, Len(words), f)
<1>1. PICK m \in Nat : m = Len(words)
  OBVIOUS
<1> DEFINE T == {n \in Nat : ~ \E f : f = Summing(words, n, f)}
<1>2. T = {}
  <2> SUFFICES ASSUME T # {} PROVE FALSE
    OBVIOUS
  <2>1. T \subseteq Nat
    OBVIOUS
  <2> HIDE DEF T
  <2>2. PICK n \in T : \A k \in T : n <= k
    BY <2>1, LeastNumber
  <2>3. n \in Nat /\ ~ \E f : f = Summing(words, n, f)
    BY DEF T
  <2>4. CASE n = 0
    <3>1. PICK f : f = [i \in 0 .. 0 |-> 0]
      OBVIOUS
    <3>2. f = Summing(words, 0, f)
      BY <3>1 DEF Summing
    <3> QED BY <2>3, <2>4, <3>2
  <2>5. CASE n # 0
    <3>1. PICK k \in Nat : n = k + 1
      <4>1. n - 1 \in Nat /\ n = (n - 1) + 1
        BY <2>3, <2>5
      <4> QED BY <4>1
    <3>2. k \notin T
      BY <2>2, <2>3, <3>1
    <3>3. PICK f : f = Summing(words, k, f)
      BY <3>2 DEF T
    <3>4. PICK g : g = [i \in 0 .. n |-> IF i <= k THEN f[i] ELSE f[k] + words[n]]
      OBVIOUS
    <3>5. ASSUME NEW i \in 0 .. n PROVE g[i] = IF i = 0 THEN 0 ELSE g[i - 1] + words[i]
      <4>1. CASE i = 0
        <5>1. g[0] = f[0] /\ f[0] = 0
          BY <2>3, <3>1, <3>3, <3>4 DEF Summing
        <5> QED BY <4>1, <5>1
      <4>2. CASE i # 0 /\ i <= k
        <5>1. i \in 0 .. k /\ i - 1 \in 0 .. k /\ i - 1 \in 0 .. n /\ i - 1 <= k
          BY <3>1, <4>2
        <5>2. g[i] = f[i] /\ g[i - 1] = f[i - 1]
          BY <3>4, <4>2, <5>1
        <5>3. f[i] = f[i - 1] + words[i]
          BY <3>3, <4>2, <5>1 DEF Summing
        <5> QED BY <4>2, <5>2, <5>3
      <4>3. CASE i = n
        <5>1. ~ (n <= k) /\ n - 1 = k /\ k \in 0 .. n /\ k <= k /\ n \in 0 .. n /\ n # 0
          BY <3>1
        <5>2. g[n] = f[k] + words[n] /\ g[k] = f[k]
          BY <3>4, <5>1
        <5> QED BY <4>3, <5>1, <5>2
      <4> QED BY <3>1, <4>1, <4>2, <4>3
    <3>6. g = Summing(words, n, g)
      <4>1. g = [i \in 0 .. n |-> g[i]]
        BY <3>4
      <4> QED BY <3>5, <4>1 DEF Summing
    <3> QED BY <2>3, <3>6
  <2> QED BY <2>4, <2>5
<1> QED BY <1>1, <1>2

LEMMA SummingRuns ==
  ASSUME NEW words \in Seq(Word), NEW f, f = Summing(words, Len(words), f)
  PROVE  Running(words, f)
<1>1. PICK m \in Nat : m = Len(words)
  OBVIOUS
<1>2. \A i \in 0 .. m : f[i] = IF i = 0 THEN 0 ELSE f[i - 1] + words[i]
  BY <1>1 DEF Summing
<1>3. \A i \in 1 .. m : words[i] \in Nat
  BY <1>1, WordsAreNumbers
<1> DEFINE T == {i \in 0 .. m : f[i] \notin Nat}
<1>4. T = {}
  <2> SUFFICES ASSUME T # {} PROVE FALSE
    OBVIOUS
  <2>1. T \subseteq Nat
    OBVIOUS
  <2> HIDE DEF T
  <2>2. PICK i \in T : \A k \in T : i <= k
    BY <2>1, LeastNumber
  <2>3. i \in 0 .. m /\ f[i] \notin Nat
    BY DEF T
  <2>4. i # 0
    BY <1>2, <2>3
  <2>5. i - 1 \in 0 .. m /\ i - 1 < i /\ i \in 1 .. m
    BY <2>3, <2>4
  <2>6. i - 1 \notin T
    BY <2>2, <2>3, <2>5
  <2>7. f[i - 1] \in Nat
    BY <2>5, <2>6 DEF T
  <2>8. f[i] = f[i - 1] + words[i]
    BY <1>2, <2>3, <2>4
  <2> QED BY <1>3, <2>3, <2>5, <2>7, <2>8
<1>5. f \in [0 .. m -> Nat]
  <2>1. f = [i \in 0 .. m |-> f[i]]
    <3>1. f = [i \in 0 .. m |-> IF i = 0 THEN 0 ELSE f[i - 1] + words[i]]
      BY <1>1 DEF Summing
    <3> QED BY <3>1
  <2> QED BY <1>4, <2>1
<1>6. f[0] = 0 /\ \A i \in 1 .. m : f[i] = f[i - 1] + words[i]
  BY <1>2
<1> QED BY <1>1, <1>5, <1>6 DEF Running

\* Total is the last of them.
LEMMA TotalRuns ==
  ASSUME NEW words \in Seq(Word)
  PROVE  \E f : Running(words, f) /\ Total(words) = f[Len(words)]
<1>1. PICK f : f = CHOOSE g : g = Summing(words, Len(words), g)
  OBVIOUS
<1>2. Total(words) = f[Len(words)]
  BY <1>1 DEF Total, Summing
<1>3. f = Summing(words, Len(words), f)
  BY <1>1, SummingExists
<1> QED BY <1>2, <1>3, SummingRuns

\* Where words are the same, totals stay as far apart as they were.
SameBetween(a, b, k, n) ==
  /\ k \in Nat /\ n \in Nat /\ k <= n /\ n <= Len(a) /\ n <= Len(b)
  /\ \A i \in k + 1 .. n : a[i] = b[i]

LEMMA RunningShift ==
  ASSUME NEW a, NEW f, Running(a, f), NEW b, NEW g, Running(b, g),
         NEW k, NEW n, SameBetween(a, b, k, n), NEW d \in Int, g[k] = f[k] + d
  PROVE  g[n] = f[n] + d
<1> USE DEF SameBetween
<1>1. /\ f \in [0 .. Len(a) -> Nat] /\ \A i \in 1 .. Len(a) : f[i] = f[i - 1] + a[i]
      /\ g \in [0 .. Len(b) -> Nat] /\ \A i \in 1 .. Len(b) : g[i] = g[i - 1] + b[i]
      /\ a \in Seq(Word) /\ b \in Seq(Word)
  BY DEF Running
<1>2. Len(a) \in Nat /\ Len(b) \in Nat
  BY <1>1
<1> DEFINE T == {i \in k .. n : g[i] # f[i] + d}
<1>3. T = {}
  <2> SUFFICES ASSUME T # {} PROVE FALSE
    OBVIOUS
  <2>1. T \subseteq Nat
    OBVIOUS
  <2> HIDE DEF T
  <2>2. PICK i \in T : \A j \in T : i <= j
    BY <2>1, LeastNumber
  <2>3. i \in k .. n /\ g[i] # f[i] + d
    BY DEF T
  <2>4. i # k
    BY <2>3
  <2>5. i \in k + 1 .. n /\ i - 1 \in k .. n /\ i - 1 < i /\ i \in 1 .. Len(a) /\ i \in 1 .. Len(b)
        /\ i - 1 \in 0 .. Len(a) /\ i - 1 \in 0 .. Len(b)
    BY <1>2, <2>3, <2>4
  <2>6. i - 1 \notin T
    BY <2>2, <2>3, <2>5
  <2>7. g[i - 1] = f[i - 1] + d
    BY <2>5, <2>6 DEF T
  <2>8. g[i] = g[i - 1] + a[i] /\ f[i] = f[i - 1] + a[i]
    BY <1>1, <2>5
  <2>9. a[i] \in Nat /\ f[i - 1] \in Nat /\ g[i - 1] \in Nat
    BY <1>1, <2>5, WordsAreNumbers
  <2> QED BY <2>3, <2>7, <2>8, <2>9
<1>4. n \in k .. n
  OBVIOUS
<1> QED BY <1>3, <1>4

LEMMA TotalIsNat ==
  ASSUME NEW words \in Seq(Word)
  PROVE  Total(words) \in Nat
<1>1. PICK f : Running(words, f) /\ Total(words) = f[Len(words)]
  BY TotalRuns
<1>2. Len(words) \in 0 .. Len(words)
  BY WordsAreNumbers
<1> QED BY <1>1, <1>2 DEF Running

\* A word at the end is added, and a changed word changes the total by as much.
LEMMA TotalAppend ==
  ASSUME NEW words \in Seq(Word), NEW w \in Word
  PROVE  Append(words, w) \in Seq(Word) /\ Total(Append(words, w)) = Total(words) + w
<1>1. PICK b : b = Append(words, w)
  OBVIOUS
<1>2. PICK m \in Nat : m = Len(words)
  OBVIOUS
<1>3. b \in Seq(Word) /\ Len(b) = m + 1 /\ b[m + 1] = w /\ \A i \in 1 .. m : b[i] = words[i]
  BY <1>1, <1>2
<1>4. PICK f : Running(words, f) /\ Total(words) = f[m]
  BY <1>2, TotalRuns
<1>5. PICK g : Running(b, g) /\ Total(b) = g[m + 1]
  BY <1>3, TotalRuns
<1>6. f[0] = 0 /\ g[0] = f[0] + 0 /\ m + 1 \in 1 .. Len(b)
  BY <1>3, <1>4, <1>5 DEF Running
<1>7. g[m] = f[m] + 0
  <2>1. \A i \in 0 + 1 .. m : words[i] = b[i]
    BY <1>3
  <2>2. SameBetween(words, b, 0, m)
    BY <1>2, <1>3, <2>1 DEF SameBetween
  <2>3. 0 \in Int /\ g[0] = f[0] + 0 /\ Running(words, f) /\ Running(b, g)
    BY <1>4, <1>5, <1>6
  <2> QED BY <2>2, <2>3, RunningShift
<1>8. g[m + 1] = g[(m + 1) - 1] + b[m + 1]
  BY <1>5, <1>6 DEF Running
<1>9. f[m] \in Nat /\ (m + 1) - 1 = m
  BY <1>2, <1>4 DEF Running
<1> QED BY <1>1, <1>3, <1>4, <1>5, <1>7, <1>8, <1>9

LEMMA TotalExcept ==
  ASSUME NEW words \in Seq(Word), NEW i \in 1 .. Len(words), NEW w \in Word
  PROVE  /\ [words EXCEPT ![i] = w] \in Seq(Word)
         /\ Len([words EXCEPT ![i] = w]) = Len(words)
         /\ Total([words EXCEPT ![i] = w]) = Total(words) + (w - words[i])
<1>1. PICK b : b = [words EXCEPT ![i] = w]
  OBVIOUS
<1>2. PICK m \in Nat : m = Len(words)
  OBVIOUS
<1>3. b \in Seq(Word) /\ Len(b) = m /\ b[i] = w /\ i \in 1 .. m /\ \A j \in 1 .. m : j # i => b[j] = words[j]
  BY <1>1, <1>2
<1>4. PICK f : Running(words, f) /\ Total(words) = f[m]
  BY <1>2, TotalRuns
<1>5. PICK g : Running(b, g) /\ Total(b) = g[m]
  BY <1>3, TotalRuns
<1>6. /\ f \in [0 .. m -> Nat] /\ f[0] = 0 /\ f[i] = f[i - 1] + words[i]
      /\ g \in [0 .. m -> Nat] /\ g[0] = 0 /\ g[i] = g[i - 1] + b[i]
  BY <1>2, <1>3, <1>4, <1>5 DEF Running
<1>7. i - 1 \in 0 .. m /\ i - 1 \in Nat /\ i \in Nat /\ i \in 0 .. m /\ i <= m /\ i - 1 <= m
  BY <1>3
<1>8. g[i - 1] = f[i - 1] + 0
  <2>1. \A j \in 0 + 1 .. i - 1 : words[j] = b[j]
    BY <1>3
  <2>2. SameBetween(words, b, 0, i - 1)
    BY <1>2, <1>3, <1>7, <2>1 DEF SameBetween
  <2>3. 0 \in Int /\ g[0] = f[0] + 0 /\ Running(words, f) /\ Running(b, g)
    BY <1>4, <1>5, <1>6
  <2> QED BY <2>2, <2>3, RunningShift
<1>9. words[i] \in Nat /\ w \in Nat /\ f[i - 1] \in Nat
  BY <1>2, <1>3, <1>6, <1>7, WordsAreNumbers, OnesType
<1>10. g[i] = f[i] + (w - words[i]) /\ w - words[i] \in Int
  <2>1. f[i] = f[i - 1] + words[i] /\ g[i] = f[i - 1] + w
    BY <1>3, <1>6, <1>8, <1>9
  <2>2. PICK x \in Nat, y \in Nat, z \in Nat : x = f[i - 1] /\ y = words[i] /\ z = w
    BY <1>9
  <2>3. x + z = (x + y) + (z - y) /\ z - y \in Int
    OBVIOUS
  <2> QED BY <2>1, <2>2, <2>3
<1>11. g[m] = f[m] + (w - words[i])
  <2>1. \A j \in i + 1 .. m : words[j] = b[j]
    BY <1>3
  <2>2. SameBetween(words, b, i, m)
    BY <1>2, <1>3, <1>7, <2>1 DEF SameBetween
  <2>3. Running(words, f) /\ Running(b, g)
    BY <1>4, <1>5
  <2> QED BY <1>10, <2>2, <2>3, RunningShift
<1> QED BY <1>1, <1>2, <1>3, <1>4, <1>5, <1>11

\* So many words have a total of at most that many times the greatest word.
LEMMA TotalBound ==
  ASSUME NEW words \in Seq(Word)
  PROVE  Total(words) <= Len(words) * Ones
<1>1. PICK m \in Nat : m = Len(words)
  OBVIOUS
<1>2. PICK f : Running(words, f) /\ Total(words) = f[m]
  BY <1>1, TotalRuns
<1>3. /\ f \in [0 .. m -> Nat] /\ f[0] = 0 /\ \A i \in 1 .. m : f[i] = f[i - 1] + words[i]
      /\ \A i \in 1 .. m : words[i] \in 0 .. Ones
  BY <1>1, <1>2, OnesType DEF Running
<1>4. Ones \in Nat
  BY OnesType
<1> DEFINE T == {i \in 0 .. m : ~ (f[i] <= i * Ones)}
<1>5. T = {}
  <2> SUFFICES ASSUME T # {} PROVE FALSE
    OBVIOUS
  <2>1. T \subseteq Nat
    OBVIOUS
  <2> HIDE DEF T
  <2>2. PICK i \in T : \A j \in T : i <= j
    BY <2>1, LeastNumber
  <2>3. i \in 0 .. m /\ ~ (f[i] <= i * Ones)
    BY DEF T
  <2>4. i # 0
    BY <1>3, <1>4, <2>3
  <2>5. PICK k \in Nat : i = k + 1
    <3>1. i - 1 \in Nat /\ i = (i - 1) + 1
      BY <2>3, <2>4
    <3> QED BY <3>1
  <2>6. k \in 0 .. m /\ k < i /\ i - 1 = k /\ i \in 1 .. m
    BY <2>3, <2>5
  <2>7. k \notin T
    BY <2>2, <2>6
  <2>8. f[k] <= k * Ones /\ f[k] \in Nat /\ k * Ones \in Nat
    BY <1>3, <1>4, <2>6, <2>7 DEF T
  <2>9. i * Ones = k * Ones + Ones
    BY <1>4, <2>5
  <2>10. f[i] = f[k] + words[i] /\ words[i] \in 0 .. Ones
    BY <1>3, <2>6
  <2> QED BY <1>4, <2>3, <2>8, <2>9, <2>10
<1>6. m \in 0 .. m
  OBVIOUS
<1> QED BY <1>1, <1>2, <1>5, <1>6

-----------------------------------------------------------------------------
(* The two checksums *)

Carrying(words, n, f) == [i \in 0 .. n |-> IF i = 0 THEN 0 ELSE Ipv4AddWord(f[i - 1], words[i])]

\* ipv4_calculate_checksum sums to the representative of the total.
LEMMA Ipv4SumRepresents ==
  ASSUME NEW words \in Seq(Word)
  PROVE  Represents(Total(words), Ipv4Sum(words))
<1>1. PICK m \in Nat : m = Len(words)
  OBVIOUS
<1>2. PICK f : Running(words, f) /\ Total(words) = f[m]
  BY <1>1, TotalRuns
<1>3. /\ f \in [0 .. m -> Nat] /\ f[0] = 0 /\ \A i \in 1 .. m : f[i] = f[i - 1] + words[i]
      /\ \A i \in 1 .. m : words[i] \in Word
  BY <1>1, <1>2 DEF Running
<1>4. PICK h : h = [i \in 0 .. m |-> Residue(f[i])]
  OBVIOUS
<1>5. \A i \in 0 .. m : Represents(f[i], h[i])
  BY <1>3, <1>4, ResidueRepresents
<1>6. h = Carrying(words, m, h)
  <2>1. ASSUME NEW i \in 0 .. m PROVE h[i] = IF i = 0 THEN 0 ELSE Ipv4AddWord(h[i - 1], words[i])
    <3>1. CASE i = 0
      BY <1>3, <1>4, <3>1 DEF Residue
    <3>2. CASE i # 0
      <4>1. i \in 1 .. m /\ i - 1 \in 0 .. m
        BY <3>2
      <4>2. Represents(f[i - 1] + words[i], Ipv4AddWord(h[i - 1], words[i]))
        BY <1>3, <1>5, <4>1, AddWordRepresents
      <4>3. Represents(f[i], Ipv4AddWord(h[i - 1], words[i]))
        BY <1>3, <4>1, <4>2
      <4> QED BY <1>5, <3>2, <4>3, OneRepresentative
    <3> QED BY <3>1, <3>2
  <2>2. h = [i \in 0 .. m |-> h[i]]
    BY <1>4
  <2> QED BY <2>1, <2>2 DEF Carrying
<1>7. PICK g : g = CHOOSE e : e = Carrying(words, m, e)
  OBVIOUS
<1>8. Ipv4Sum(words) = g[m]
  BY <1>1, <1>7 DEF Ipv4Sum, Carrying
<1>9. g = Carrying(words, m, g)
  BY <1>6, <1>7
<1>10. \A i \in 0 .. m : g[i] = IF i = 0 THEN 0 ELSE Ipv4AddWord(g[i - 1], words[i])
  BY <1>9 DEF Carrying
<1> DEFINE T == {i \in 0 .. m : ~ Represents(f[i], g[i])}
<1>11. T = {}
  <2> SUFFICES ASSUME T # {} PROVE FALSE
    OBVIOUS
  <2>1. T \subseteq Nat
    OBVIOUS
  <2> HIDE DEF T
  <2>2. PICK i \in T : \A j \in T : i <= j
    BY <2>1, LeastNumber
  <2>3. i \in 0 .. m /\ ~ Represents(f[i], g[i])
    BY DEF T
  <2>4. i # 0
    <3> SUFFICES ASSUME i = 0 PROVE FALSE
      OBVIOUS
    <3>1. h[0] = 0 /\ g[0] = 0 /\ 0 \in 0 .. m
      BY <1>3, <1>4, <1>10 DEF Residue
    <3> QED BY <1>5, <2>3, <3>1
  <2>5. i \in 1 .. m /\ i - 1 \in 0 .. m /\ i - 1 < i
    BY <2>3, <2>4
  <2>6. i - 1 \notin T
    BY <2>2, <2>3, <2>5
  <2>7. Represents(f[i - 1], g[i - 1])
    BY <2>5, <2>6 DEF T
  <2>8. Represents(f[i - 1] + words[i], Ipv4AddWord(g[i - 1], words[i]))
    BY <1>3, <2>5, <2>7, AddWordRepresents
  <2>9. f[i] = f[i - 1] + words[i] /\ g[i] = Ipv4AddWord(g[i - 1], words[i])
    BY <1>3, <1>10, <2>3, <2>4, <2>5
  <2> QED BY <2>3, <2>8, <2>9
<1>12. m \in 0 .. m
  OBVIOUS
<1> QED BY <1>2, <1>8, <1>11, <1>12

LEMMA SumIsResidue ==
  ASSUME NEW words \in Seq(Word)
  PROVE  /\ OnesComplementSum(words) = Residue(Total(words))
         /\ Ipv4Sum(words) = OnesComplementSum(words)
<1>1. OnesComplementSum(words) = Residue(Total(words))
  BY DEF OnesComplementSum, Residue, Ones
<1>2. Represents(Total(words), Ipv4Sum(words)) /\ Represents(Total(words), Residue(Total(words)))
  BY Ipv4SumRepresents, TotalIsNat, ResidueRepresents
<1> QED BY <1>1, <1>2, OneRepresentative

\* Words that are few enough for 32 bits
Fits(words) == Len(words) * Ones < WordBase * WordBase

LEMMA ChecksumsOf ==
  ASSUME NEW words \in Seq(Word), Fits(words)
  PROVE  /\ ipv4_calculate_checksum(words) = Complement(OnesComplementSum(words))
         /\ tcp_calculate_checksum(words) = Complement(OnesComplementSum(words))
<1>1. ipv4_calculate_checksum(words) = Complement(OnesComplementSum(words))
  BY SumIsResidue DEF ipv4_calculate_checksum
<1>2. PICK t \in Nat : t = Total(words)
  BY TotalIsNat
<1>3. PICK b \in Nat : b = WordBase * WordBase
  BY OnesType
<1>4. t < b /\ b > 0
  <2>1. t <= Len(words) * Ones /\ Len(words) * Ones < b /\ Len(words) * Ones \in Nat
    BY <1>2, <1>3, TotalBound, WordsAreNumbers, OnesType DEF Fits
  <2> QED BY <2>1
<1>5. t % b = t
  <2>1. t \in 0 .. b - 1 /\ t = 0 * b + t
    BY <1>4
  <2> QED BY <1>4, <2>1, DivisionIs
<1>6. t \in Sums
  BY <1>3, <1>4 DEF Sums
<1>7. Folded[t] = Residue(t)
  BY <1>6, FoldedRepresents, ResidueRepresents, OneRepresentative
<1>8. tcp_calculate_checksum(words) = Complement(Residue(t))
  BY <1>2, <1>3, <1>5, <1>7 DEF tcp_calculate_checksum
<1> QED BY <1>1, <1>2, <1>8, SumIsResidue

\* Both checksums are words, whatever is summed.
LEMMA ComplementType ==
  ASSUME NEW r \in 0 .. Ones
  PROVE  Complement(r) \in Word /\ Complement(r) = Ones - r /\ (Complement(r) = 0 <=> r = Ones)
BY OnesType DEF Complement, Ones

LEMMA TcpChecksumType ==
  ASSUME NEW words \in Seq(Word)
  PROVE  tcp_calculate_checksum(words) \in Word
<1>1. PICK b \in Nat : b = WordBase * WordBase /\ b > 0
  <2>1. WordBase * WordBase = WordBase * Ones + WordBase /\ WordBase * Ones \in Nat /\ WordBase > 0
        /\ WordBase * WordBase \in Nat /\ WordBase \in Nat
    BY OnesType
  <2> QED BY <2>1
<1>2. Total(words) % b \in Sums
  <2>1. Total(words) % b \in 0 .. b - 1
    BY <1>1, TotalIsNat, Division
  <2> QED BY <1>1, <2>1 DEF Sums
<1>3. Folded[Total(words) % b] \in 0 .. Ones
  BY <1>2, FoldedRepresents DEF Represents
<1>4. Complement(Folded[Total(words) % b]) \in Word
  BY <1>3, ComplementType
<1> QED BY <1>1, <1>4 DEF tcp_calculate_checksum

\* A header with the checksum that ipv4_write puts in sums to all ones.
LEMMA ProtectedHeader ==
  ASSUME NEW fields \in Seq(Word), NEW c, c = ipv4_calculate_checksum(Append(fields, 0))
  PROVE  /\ c \in Word /\ Append(fields, c) \in Seq(Word)
         /\ Represents(Total(Append(fields, c)), Ones)
<1>1. WordBase \in Nat /\ Ones \in Nat /\ Ones > 1 /\ 0 \in Word
  BY OnesType
<1>2. PICK t \in Nat : t = Total(fields)
  BY TotalIsNat
<1>3. PICK r : r = Ipv4Sum(Append(fields, 0))
  OBVIOUS
<1>4. Append(fields, 0) \in Seq(Word) /\ Total(Append(fields, 0)) = t
  BY <1>1, <1>2, TotalAppend
<1>5. Represents(t, r)
  BY <1>3, <1>4, Ipv4SumRepresents
<1>6. r \in 0 .. Ones
  BY <1>5 DEF Represents
<1>7. c = Ones - r /\ c \in Word
  BY <1>3, <1>6, ComplementType DEF ipv4_calculate_checksum
<1>8. Append(fields, c) \in Seq(Word) /\ Total(Append(fields, c)) = t + c
  BY <1>2, <1>7, TotalAppend
<1>9. PICK q \in Nat : t = r + q * Ones
  BY <1>5 DEF Represents
<1>10. q * Ones \in Nat
  BY <1>1
<1>11. t + c = Ones + q * Ones /\ t + c \in Nat /\ t + c # 0
  BY <1>1, <1>6, <1>7, <1>9, <1>10
<1>12. Represents(t + c, Ones)
  <2>1. Ones \in 0 .. Ones /\ Ones # 0
    BY <1>1
  <2> QED BY <1>11, <2>1 DEF Represents
<1> QED BY <1>7, <1>8, <1>12

\* A word changed in such a header, other than between the zeros, shows.
LEMMA AlteredShows ==
  ASSUME NEW words \in Seq(Word), Represents(Total(words), Ones),
         NEW i \in 1 .. Len(words), NEW w \in Word,
         Represents(Total([words EXCEPT ![i] = w]), Ones)
  PROVE  SameWord(w, words[i])
<1>1. WordBase \in Nat /\ Ones \in Nat /\ Ones > 1 /\ WordBase - 1 = Ones
  BY OnesType DEF Ones
<1>2. PICK v \in 0 .. Ones : v = words[i]
  BY WordsAreNumbers, OnesType
<1>3. w \in 0 .. Ones
  BY OnesType
<1>4. PICK t \in Nat, u \in Nat : t = Total(words) /\ u = Total([words EXCEPT ![i] = w])
  BY DEF Represents
<1>5. u = t + (w - v)
  BY <1>2, <1>4, TotalExcept
<1>6. PICK p \in Nat, q \in Nat : t = Ones + p * Ones /\ u = Ones + q * Ones
  BY <1>4 DEF Represents
<1>7. q - p \in Int /\ (q - p) * Ones = w - v
  BY <1>1, <1>2, <1>3, <1>5, <1>6
<1>8. CASE w - v = Ones
  <2>1. w = Ones /\ v = 0
    BY <1>1, <1>2, <1>3, <1>8
  <2> QED BY <1>1, <1>2, <2>1 DEF SameWord
<1>9. CASE v - w = Ones
  <2>1. v = Ones /\ w = 0
    BY <1>1, <1>2, <1>3, <1>9
  <2> QED BY <1>1, <1>2, <2>1 DEF SameWord
<1>10. CASE w - v # Ones /\ v - w # Ones
  <2>1. w - v < Ones /\ 0 - Ones < w - v
    BY <1>1, <1>2, <1>3, <1>10
  <2>2. q - p = 0
    BY <1>1, <1>7, <2>1, MultiplesApart
  <2>3. p = q
    BY <2>2
  <2>4. w = v
    BY <1>2, <1>3, <1>4, <1>5, <1>6, <2>3
  <2> QED BY <1>2, <2>4 DEF SameWord
<1> QED BY <1>8, <1>9, <1>10

-----------------------------------------------------------------------------
(* The invariant *)

Altered(words, was) ==
  words = was \/ \E i \in 1 .. Len(was), w \in Word : words = [was EXCEPT ![i] = w]

ChecksumInv ==
  /\ WordsOK /\ Fits(sent) /\ Fits(original) /\ Altered(sent, original)
  /\ protocol = "ipv4" => Represents(Total(original), Ones)

LEMMA Joined ==
  ASSUME NEW a \in Seq(Word), NEW b \in Seq(Word)
  PROVE  a \o b \in Seq(Word) /\ Len(a \o b) = Len(a) + Len(b)
OBVIOUS

LEMMA FitsShorter ==
  ASSUME NEW fields \in Fields, NEW payload \in Payloads, NEW words, Len(words) \in Nat,
         Len(words) <= Len(fields) + Len(payload) + 2
  PROVE  Fits(words)
<1>1. PICK n \in Nat : n = Len(fields) + Len(payload) + 2
  BY DataAssumption
<1>2. PICK m \in Nat : m = Len(words)
  OBVIOUS
<1>3. n * Ones < WordBase * WordBase
  BY <1>1, LengthAssumption DEF Ones
<1>4. PICK k \in Nat : n = m + k
  <2>1. n - m \in Nat /\ n = m + (n - m)
    BY <1>1, <1>2
  <2> QED BY <2>1
<1>5. n * Ones = m * Ones + k * Ones /\ m * Ones \in Nat /\ k * Ones \in Nat
  BY <1>4, OnesType
<1>6. WordBase * WordBase \in Nat
  BY OnesType
<1> QED BY <1>2, <1>3, <1>5, <1>6 DEF Fits

LEMMA ChecksumInitInv == ChecksumInit => ChecksumInv
<1> SUFFICES ASSUME ChecksumInit PROVE ChecksumInv
  OBVIOUS
<1>1. WordsOK
  BY DataAssumption DEF WordsOK, ChecksumInit
<1>2. Len(<<>>) = 0 /\ 0 * Ones = 0 /\ 0 < WordBase * WordBase
  <2>1. WordBase * WordBase = WordBase * Ones + WordBase /\ WordBase * Ones \in Nat /\ WordBase > 0
    BY OnesType
  <2>2. WordBase \in Nat /\ Ones \in Nat
    BY OnesType
  <2> QED BY <2>1, <2>2
<1>3. Fits(sent) /\ Fits(original)
  BY <1>2 DEF Fits, ChecksumInit
<1> QED BY <1>1, <1>3 DEF ChecksumInv, Altered, ChecksumInit

LEMMA Ipv4WriteInv ==
  ASSUME ChecksumInv, NEW fields \in Fields, Ipv4Write(fields)
  PROVE  ChecksumInv'
<1>1. fields \in Seq(Word)
  BY DataAssumption
<1>2. PICK c : c = ipv4_calculate_checksum(Append(fields, 0))
  OBVIOUS
<1>3. sent' = Append(fields, c) /\ original' = sent' /\ protocol' = "ipv4" /\ UNCHANGED <<out_checksum, tail>>
  BY <1>2 DEF Ipv4Write
<1>4. c \in Word /\ Append(fields, c) \in Seq(Word) /\ Represents(Total(Append(fields, c)), Ones)
  BY <1>1, <1>2, ProtectedHeader
<1>5. WordsOK'
  BY <1>3, <1>4 DEF ChecksumInv, WordsOK
<1>6. Fits(Append(fields, c))
  <2>1. PICK payload \in Payloads : TRUE
    BY LengthAssumption
  <2>2. Len(payload) \in Nat /\ Len(fields) \in Nat
    BY <1>1, <2>1, DataAssumption
  <2>3. Len(Append(fields, c)) = Len(fields) + 1
    BY <1>1, <1>4
  <2>4. Len(Append(fields, c)) \in Nat
        /\ Len(Append(fields, c)) <= Len(fields) + Len(payload) + 2
    BY <2>2, <2>3
  <2> QED BY <2>1, <2>4, FitsShorter
<1>7. Altered(sent, original)'
  BY <1>3 DEF Altered
<1> QED BY <1>3, <1>4, <1>5, <1>6, <1>7 DEF ChecksumInv

LEMMA TcpWriteInv ==
  ASSUME ChecksumInv, NEW fields \in Fields, NEW payload \in Payloads, TcpWrite(fields, payload)
  PROVE  ChecksumInv'
<1>1. fields \in Seq(Word) /\ payload \in Seq(Word) /\ Len(payload) <= TailWords /\ TailWords \in Nat
  BY DataAssumption, LengthAssumption
<1>2. PICK pseudo : pseudo = PseudoHeader(fields, payload)
  OBVIOUS
<1>3. PICK behind : behind = SubSeq(tail, 1, Len(payload))
  OBVIOUS
<1>4. PICK c : c = tcp_calculate_checksum(pseudo \o fields \o <<out_checksum>> \o behind)
  OBVIOUS
<1>5. PICK words : words = pseudo \o fields \o <<c>> \o payload
  OBVIOUS
<1>6. out_checksum' = c /\ sent' = words /\ original' = words /\ protocol' = "tcp" /\ tail' = tail
  BY <1>2, <1>3, <1>4, <1>5 DEF TcpWrite
<1>7. pseudo \in Seq(Word) /\ Len(pseudo) = 1
  <2>1. 2 * (Len(fields) + 1 + Len(payload)) \in Nat
    BY <1>1
  <2>2. (2 * (Len(fields) + 1 + Len(payload))) % WordBase \in Word
    <3>1. (2 * (Len(fields) + 1 + Len(payload))) % WordBase \in 0 .. WordBase - 1
      BY <2>1, OnesType, Division
    <3> QED BY <3>1 DEF Word
  <2> QED BY <1>2, <2>2 DEF PseudoHeader
<1>8. out_checksum \in Word /\ tail \in [1 .. TailWords -> Word]
  BY DEF ChecksumInv, WordsOK
<1>9. behind \in Seq(Word)
  <2>1. PICK n \in Nat : n = Len(payload)
    BY <1>1
  <2>2. tail \in Seq(Word) /\ Len(tail) = TailWords
    BY <1>1, <1>8
  <2>3. \A i \in 1 .. n : tail[i] \in Word
    BY <1>1, <1>8, <2>1
  <2> QED BY <1>1, <1>3, <2>1, <2>2, <2>3
<1>10. c \in Word
  <2>1. pseudo \o fields \o <<out_checksum>> \o behind \in Seq(Word)
    BY <1>1, <1>7, <1>8, <1>9
  <2> QED BY <1>4, <2>1, TcpChecksumType
<1>11. words \in Seq(Word) /\ Len(words) = Len(fields) + Len(payload) + 2
  <2>1. <<c>> \in Seq(Word) /\ Len(<<c>>) = 1
    BY <1>10
  <2>2. pseudo \o fields \in Seq(Word) /\ Len(pseudo \o fields) = 1 + Len(fields)
    BY <1>1, <1>7, Joined
  <2>3. pseudo \o fields \o <<c>> \in Seq(Word) /\ Len(pseudo \o fields \o <<c>>) = Len(fields) + 2
    <3>1. Len(pseudo \o fields \o <<c>>) = (1 + Len(fields)) + 1 /\ Len(fields) \in Nat
      BY <1>1, <2>1, <2>2, Joined
    <3> QED BY <2>1, <2>2, <3>1, Joined
  <2>4. words \in Seq(Word) /\ Len(words) = (Len(fields) + 2) + Len(payload)
    BY <1>1, <1>5, <2>3, Joined
  <2>5. Len(fields) \in Nat /\ Len(payload) \in Nat
    BY <1>1
  <2> QED BY <2>4, <2>5
<1>12. Fits(words)
  BY <1>1, <1>11, FitsShorter
<1>13. WordsOK'
  BY <1>6, <1>8, <1>10, <1>11 DEF WordsOK
<1>14. Altered(sent, original)'
  BY <1>6 DEF Altered
<1> QED BY <1>6, <1>12, <1>13, <1>14 DEF ChecksumInv

LEMMA AlterInv ==
  ASSUME ChecksumInv, NEW i \in DOMAIN sent, NEW word \in Word, Alter(i, word)
  PROVE  ChecksumInv'
<1>1. sent \in Seq(Word) /\ original \in Seq(Word) /\ Fits(original)
  BY DEF ChecksumInv, WordsOK
<1>2. sent = original /\ sent' = [original EXCEPT ![i] = word]
      /\ UNCHANGED <<out_checksum, tail, original, protocol>>
  BY DEF Alter
<1>3. i \in 1 .. Len(original)
  BY <1>1, <1>2
<1>4. sent' \in Seq(Word) /\ Len(sent') = Len(original)
  BY <1>1, <1>2, <1>3, TotalExcept
<1>5. Fits(sent)' /\ Fits(original)'
  BY <1>1, <1>2, <1>4 DEF Fits
<1>6. Altered(sent, original)'
  BY <1>2, <1>3 DEF Altered
<1>7. WordsOK'
  BY <1>2, <1>4 DEF ChecksumInv, WordsOK
<1>8. (protocol = "ipv4" => Represents(Total(original), Ones))'
  BY <1>2 DEF ChecksumInv
<1> QED BY <1>5, <1>6, <1>7, <1>8 DEF ChecksumInv

(***************************************************************************)
(* The inductive invariant of the checksums: what is on its way differs in *)
(* one word at most from what was sent, fits 32 bits when summed, and an   *)
(* IPv4 header was sent with a checksum that completes its sum.            *)
(***************************************************************************)
THEOREM ChecksumInvariant == ChecksumSpec => []ChecksumInv
<1>1. ChecksumInv /\ [ChecksumNext]_checksumVars => ChecksumInv'
  <2> SUFFICES ASSUME ChecksumInv, [ChecksumNext]_checksumVars PROVE ChecksumInv'
    OBVIOUS
  <2>1. ASSUME NEW fields \in Fields, Ipv4Write(fields) PROVE ChecksumInv'
    BY <2>1, Ipv4WriteInv
  <2>2. ASSUME NEW fields \in Fields, NEW payload \in Payloads, TcpWrite(fields, payload)
        PROVE  ChecksumInv'
    BY <2>2, TcpWriteInv
  <2>3. ASSUME NEW i \in DOMAIN sent, NEW word \in Word, Alter(i, word) PROVE ChecksumInv'
    BY <2>3, AlterInv
  <2>4. CASE UNCHANGED checksumVars
    BY <2>4 DEF checksumVars, ChecksumInv, WordsOK, Fits, Altered
  <2> QED BY <2>1, <2>2, <2>3, <2>4 DEF ChecksumNext
<1> QED BY <1>1, ChecksumInitInv, PTL DEF ChecksumSpec

(***************************************************************************)
(* The loop of ipv4_calculate_checksum, which carries after every word,    *)
(* and that of tcp_calculate_checksum, which folds at the end, return the  *)
(* complement of the one's complement sum, for every word size and every   *)
(* header and payload whose sum fits the accumulator.                      *)
(***************************************************************************)
THEOREM SumsAlwaysAgree == ChecksumSpec => []SumsAgree
<1>1. ChecksumInv => SumsAgree
  BY ChecksumsOf DEF ChecksumInv, WordsOK, SumsAgree
<1> QED BY <1>1, ChecksumInvariant, PTL

(***************************************************************************)
(* ipv4_read accepts every header that ipv4_write sent and drops it when a *)
(* word of it was changed on the way, unless from one zero to the other.   *)
(***************************************************************************)
THEOREM HeaderStaysProtected == ChecksumSpec => []HeaderProtected
<1>1. ChecksumInv => HeaderProtected
  <2> SUFFICES ASSUME ChecksumInv, protocol = "ipv4"
               PROVE  /\ sent = original => ipv4_calculate_checksum(sent) = 0
                      /\ (\E i \in DOMAIN sent : ~ SameWord(sent[i], original[i]))
                           => ipv4_calculate_checksum(sent) # 0
    BY DEF ChecksumInv, HeaderProtected, Ipv4ChecksumProtects
  <2>1. sent \in Seq(Word) /\ original \in Seq(Word) /\ Represents(Total(original), Ones)
        /\ Altered(sent, original)
    BY DEF ChecksumInv, WordsOK
  <2>2. Represents(Total(sent), Ipv4Sum(sent)) /\ Ipv4Sum(sent) \in 0 .. Ones
    BY <2>1, Ipv4SumRepresents DEF Represents
  <2>3. ipv4_calculate_checksum(sent) = 0 <=> Ipv4Sum(sent) = Ones
    BY <2>2, ComplementType DEF ipv4_calculate_checksum
  <2>4. ASSUME sent = original PROVE ipv4_calculate_checksum(sent) = 0
    BY <2>1, <2>2, <2>3, <2>4, OneRepresentative
  <2>5. ASSUME NEW j \in DOMAIN sent, ~ SameWord(sent[j], original[j]), ipv4_calculate_checksum(sent) = 0
        PROVE  FALSE
    <3>1. Represents(Total(sent), Ones)
      BY <2>2, <2>3, <2>5
    <3>2. sent # original
      BY <2>5 DEF SameWord
    <3>3. PICK i \in 1 .. Len(original), w \in Word : sent = [original EXCEPT ![i] = w]
      BY <2>1, <3>2 DEF Altered
    <3>4. SameWord(w, original[i])
      BY <2>1, <3>1, <3>3, AlteredShows
    <3>5. DOMAIN sent = 1 .. Len(original)
      BY <2>1, <3>3
    <3>6. \A k \in 1 .. Len(original) : sent[k] = IF k = i THEN w ELSE original[k]
      BY <2>1, <3>3
    <3>7. SameWord(sent[j], original[j])
      BY <3>4, <3>5, <3>6 DEF SameWord
    <3> QED BY <2>5, <3>7
  <2> QED BY <2>4, <2>5
<1> QED BY <1>1, ChecksumInvariant, PTL
=============================================================================
