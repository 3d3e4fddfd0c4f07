------------------------ MODULE TcpBlockList_proofs ------------------------
(***************************************************************************)
(* What the linked lists of tcp_block_buffer.c keep invariant, for every   *)
(* number of blocks and every sequence of calls, and that they implement   *)
(* the abstract buffer.                                                    *)
(***************************************************************************)
EXTENDS TcpBlockList, TcpBlockBuffer_proofs

-----------------------------------------------------------------------------
(* The invariant: used and free are the lists behind `blocks` and `free_list` *)

Injective(list) == \A i, j \in 1 .. Len(list) : list[i] = list[j] => i = j
Apart(used, free) == \A i \in 1 .. Len(used), j \in 1 .. Len(free) : used[i] # free[j]
In(n, list) == \E i \in 1 .. Len(list) : list[i] = n

\* the nodes of a list as blocks
Data(list) ==
  [i \in 1 .. Len(list) |-> [seq |-> sequence_num[list[i]], size |-> payload_size[list[i]]]]

Sorted(list) ==
  \A i, j \in 1 .. Len(list) : i < j => sequence_num[list[i]] <= sequence_num[list[j]]

Hand == IF pc = "add" THEN 1 ELSE 0

\* Every node is in one of the lists or in the hand of tcp_block_buffer_add, and
\* in one place only.
Parted(used, free) ==
  /\ Injective(used) /\ Injective(free) /\ Apart(used, free)
  /\ Len(used) + Len(free) + Hand = BlockCount
  /\ \A n \in Nodes : In(n, used) \/ In(n, free) \/ (pc = "add" /\ n = new_block)
  /\ pc = "add" => new_block \in Nodes /\ ~ In(new_block, used) /\ ~ In(new_block, free)

\* Where the loop of tcp_block_buffer_add is: it has passed k blocks.
Passed(used, k) ==
  /\ k \in 0 .. Len(used)
  /\ previous_block = (IF k = 0 THEN Null ELSE used[k]) /\ block = NodeAt(used, k + 1)
  /\ \A i \in 1 .. k : sequence_num[new_block] >= sequence_num[used[i]]

Adding(used) ==
  /\ used # <<>> /\ \E k \in Nat : Passed(used, k)
  /\ sequence_num[new_block] \in Seqs /\ payload_size[new_block] \in Sizes

\* Where the loop of tcp_block_buffer_num_ready is: the first num_ready blocks
\* follow each other.
Counting(used) ==
  /\ num_ready \in 0 .. Len(used) /\ block = NodeAt(used, num_ready + 1)
  /\ start = StartOf(Data(used), asked, num_ready + 1)
  /\ \A i \in 1 .. num_ready : Follows(Data(used), asked, i)

Shape(used, free) ==
  /\ used \in Seq(Nodes) /\ free \in Seq(Nodes)
  /\ Len(used) <= BlockCount /\ Len(free) <= BlockCount
  /\ IsList(used, blocks) /\ IsList(free, free_list)
  /\ Sorted(used)
  /\ \A i \in 1 .. Len(used) : sequence_num[used[i]] \in Seqs /\ payload_size[used[i]] \in Sizes
  /\ fault => pc = "idle"
  /\ ~ fault => Parted(used, free)
  /\ pc # "add" => previous_block = Null
  /\ pc = "add" => Adding(used)
  /\ pc = "remove" => block = blocks
  /\ pc = "count" => Counting(used)

ListInv == TypeOK /\ \E used, free : Shape(used, free)

-----------------------------------------------------------------------------
(* What a list is *)

\* IsList and ListFrom for any links
Following(links, list, p) ==
  /\ p = NodeAt(list, 1)
  /\ \A i \in 1 .. Len(list) : links[list[i]] = NodeAt(list, i + 1)

FoundFrom(links, p) ==
  CHOOSE list \in UNION {[1 .. n -> Nodes] : n \in 0 .. BlockCount} : Following(links, list, p)

\* A set of natural numbers that is not empty has a least member.
LEMMA LeastMember ==
  ASSUME NEW T, T \subseteq Nat, T # {}
  PROVE  \E m \in T : \A y \in T : m <= y
<1>1. PICK m \in T : \A y \in T : ~ (<<y, m>> \in OpToRel(<, Nat))
  BY NatLessThanWellFounded, WFMin
<1>2. \A y \in T : ~ (y < m)
  BY <1>1 DEF OpToRel
<1> QED BY <1>2

\* The links determine the list: two lists from one node are the same.
LEMMA OneList ==
  ASSUME NEW links, NEW p, NEW a \in Seq(Nodes), NEW b \in Seq(Nodes),
         Following(links, a, p), Following(links, b, p)
  PROVE  a = b
<1>1. PICK m \in Nat, n \in Nat : m = Len(a) /\ n = Len(b)
  OBVIOUS
<1>2. /\ \A i \in 1 .. m : a[i] \in Nodes /\ a[i] # Null
      /\ \A i \in 1 .. n : b[i] \in Nodes /\ b[i] # Null
  BY <1>1, ListAssumption
<1> DEFINE T == {i \in Nat : i > 0 /\ NodeAt(a, i) # NodeAt(b, i)}
<1>3. T = {}
  <2> SUFFICES ASSUME T # {} PROVE FALSE
    OBVIOUS
  <2>1. T \subseteq Nat
    OBVIOUS
  <2> HIDE DEF T
  <2>2. PICK k \in T : \A y \in T : k <= y
    BY <2>1, LeastMember
  <2>3. k \in Nat /\ k > 0 /\ NodeAt(a, k) # NodeAt(b, k)
    BY DEF T
  <2>4. k # 1
    BY <2>3 DEF Following
  <2>5. PICK j \in Nat : j + 1 = k /\ j > 0
    BY <2>3, <2>4
  <2>6. j \notin T
    BY <2>2, <2>3, <2>5
  <2>7. NodeAt(a, j) = NodeAt(b, j)
    BY <2>5, <2>6 DEF T
  <2>8. j <= m <=> j <= n
    BY <1>1, <1>2, <2>5, <2>7 DEF NodeAt
  <2>9. CASE j <= m
    <3>1. a[j] = b[j] /\ j \in 1 .. m /\ j \in 1 .. n
      BY <1>1, <2>5, <2>7, <2>8, <2>9 DEF NodeAt
    <3>2. links[a[j]] = NodeAt(a, j + 1) /\ links[b[j]] = NodeAt(b, j + 1)
      BY <1>1, <3>1 DEF Following
    <3> QED BY <2>3, <2>5, <3>1, <3>2
  <2>10. CASE ~ (j <= m)
    <3>1. ~ (k <= m) /\ ~ (k <= n)
      BY <2>5, <2>8, <2>10
    <3> QED BY <1>1, <2>3, <3>1 DEF NodeAt
  <2> QED BY <2>9, <2>10
<1>4. \A i \in Nat : i > 0 => NodeAt(a, i) = NodeAt(b, i)
  BY <1>3
<1> HIDE DEF T
<1>5. m = n
  <2>1. ~ (m < n)
    <3> SUFFICES ASSUME m < n PROVE FALSE
      OBVIOUS
    <3>1. NodeAt(a, m + 1) = Null /\ NodeAt(b, m + 1) = b[m + 1]
      BY <1>1 DEF NodeAt
    <3>2. m + 1 \in 1 .. n
      OBVIOUS
    <3> QED BY <1>2, <1>4, <3>1, <3>2
  <2>2. ~ (n < m)
    <3> SUFFICES ASSUME n < m PROVE FALSE
      OBVIOUS
    <3>1. NodeAt(b, n + 1) = Null /\ NodeAt(a, n + 1) = a[n + 1]
      BY <1>1 DEF NodeAt
    <3>2. n + 1 \in 1 .. m
      OBVIOUS
    <3> QED BY <1>2, <1>4, <3>1, <3>2
  <2> QED BY <2>1, <2>2
<1>6. \A i \in 1 .. m : a[i] = b[i]
  BY <1>1, <1>4, <1>5 DEF NodeAt
<1>7. a \in [1 .. m -> Nodes] /\ b \in [1 .. n -> Nodes]
  <2>1. a \in [1 .. Len(a) -> Nodes]
    OBVIOUS
  <2>2. b \in [1 .. Len(b) -> Nodes]
    OBVIOUS
  <2> QED BY <1>1, <2>1, <2>2
<1> QED BY <1>5, <1>6, <1>7

\* What is a list from p is the one that the reading of the links finds.
LEMMA Found ==
  ASSUME NEW links, NEW p, NEW list \in Seq(Nodes), Len(list) <= BlockCount,
         Following(links, list, p)
  PROVE  FoundFrom(links, p) = list
<1> DEFINE Lists == UNION {[1 .. n -> Nodes] : n \in 0 .. BlockCount}
<1>1. BlockCount \in Nat
  BY DefaultSizeAssumption DEF BlockCount
<1>2. list \in Lists
  <2>1. PICK n \in Nat : n = Len(list)
    OBVIOUS
  <2>2. n \in 0 .. BlockCount /\ list \in [1 .. n -> Nodes]
    BY <1>1, <2>1
  <2> QED BY <2>2
<1>3. \A l \in Lists : l \in Seq(Nodes)
  <2> TAKE l \in Lists
  <2>1. PICK n \in 0 .. BlockCount : l \in [1 .. n -> Nodes]
    OBVIOUS
  <2>2. n \in Nat
    BY <1>1
  <2> QED BY <2>1, <2>2
<1> HIDE DEF Lists
<1>4. \A l \in Lists : Following(links, l, p) => l = list
  BY <1>3, OneList
<1>5. (CHOOSE l \in Lists : Following(links, l, p)) = list
  BY <1>2, <1>4
<1> QED BY <1>5 DEF FoundFrom, Lists

\* `list` is `rest` with n in front of it
InFront(n, rest, list) ==
  /\ n \in Nodes /\ rest \in Seq(Nodes) /\ list \in Seq(Nodes)
  /\ Len(list) = Len(rest) + 1 /\ list[1] = n
  /\ \A i \in 1 .. Len(rest) : list[i + 1] = rest[i]

\* `new` is `old` with n behind its first k nodes
Inserted(n, old, k, new) ==
  /\ n \in Nodes /\ old \in Seq(Nodes) /\ new \in Seq(Nodes) /\ k \in 0 .. Len(old)
  /\ Len(new) = Len(old) + 1 /\ new[k + 1] = n
  /\ \A i \in 1 .. k : new[i] = old[i]
  /\ \A i \in k + 1 .. Len(old) : new[i + 1] = old[i]

\* A node can be put in front, and that of a list can be taken away.
LEMMA InFrontExists ==
  ASSUME NEW s \in Seq(Nodes)
  PROVE  /\ \A n \in Nodes : \E list : InFront(n, s, list)
         /\ s # <<>> => s[1] \in Nodes /\ \E rest : InFront(s[1], rest, s)
<1>1. PICK m \in Nat : m = Len(s)
  OBVIOUS
<1>2. ASSUME NEW n \in Nodes PROVE \E list : InFront(n, s, list)
  <2>1. PICK list : list = [i \in 1 .. m + 1 |-> IF i = 1 THEN n ELSE s[i - 1]]
    OBVIOUS
  <2>2. \A i \in 1 .. m + 1 : (IF i = 1 THEN n ELSE s[i - 1]) \in Nodes
    BY <1>1
  <2>3. list \in [1 .. m + 1 -> Nodes]
    BY <2>1, <2>2
  <2>4. list \in Seq(Nodes) /\ Len(list) = m + 1
    BY <2>3
  <2>5. list[1] = n /\ \A i \in 1 .. m : list[i + 1] = s[i]
    BY <2>1
  <2> QED BY <1>1, <1>2, <2>4, <2>5 DEF InFront
<1>3. ASSUME s # <<>> PROVE s[1] \in Nodes /\ \E rest : InFront(s[1], rest, s)
  <2>1. m >= 1 /\ s[1] \in Nodes
    BY <1>1, <1>3
  <2>2. PICK rest : rest = [i \in 1 .. m - 1 |-> s[i + 1]]
    OBVIOUS
  <2>3. \A i \in 1 .. m - 1 : s[i + 1] \in Nodes
    BY <1>1
  <2>4. rest \in [1 .. m - 1 -> Nodes]
    BY <2>2, <2>3
  <2>5. rest \in Seq(Nodes) /\ Len(rest) = m - 1
    BY <2>1, <2>4
  <2>6. \A i \in 1 .. m - 1 : s[i + 1] = rest[i]
    BY <2>2
  <2> QED BY <1>1, <2>1, <2>5, <2>6 DEF InFront
<1> QED BY <1>2, <1>3

\* The nodes of the longer list, and its links.
LEMMA InFrontProperties ==
  ASSUME NEW n, NEW rest, NEW list, InFront(n, rest, list)
  PROVE  /\ \A x : In(x, list) <=> x = n \/ In(x, rest)
         /\ Injective(list) <=> Injective(rest) /\ ~ In(n, rest)
         /\ list # <<>>
         /\ \A links, p : Following(links, list, p) <=> p = n /\ Following(links, rest, links[n])
<1>1. PICK m \in Nat : m = Len(rest)
  BY DEF InFront
<1>2. /\ Len(list) = m + 1 /\ list[1] = n
      /\ \A i \in 1 .. m : list[i + 1] = rest[i]
  BY <1>1 DEF InFront
<1>3. \A i \in 1 .. m + 1 : i = 1 \/ \E j \in 1 .. m : i = j + 1
  OBVIOUS
<1>4. \A x : In(x, list) <=> x = n \/ In(x, rest)
  BY <1>1, <1>2, <1>3 DEF In
<1>5. Injective(list) <=> Injective(rest) /\ ~ In(n, rest)
  <2>1. ASSUME Injective(list) PROVE Injective(rest) /\ ~ In(n, rest)
    <3>1. \A i, j \in 1 .. m + 1 : list[i] = list[j] => i = j
      BY <1>2, <2>1 DEF Injective
    <3>2. \A i \in 1 .. m : i + 1 \in 1 .. m + 1 /\ i + 1 # 1
      OBVIOUS
    <3>3. \A i, j \in 1 .. m : rest[i] = rest[j] => i + 1 = j + 1
      BY <1>2, <3>1, <3>2
    <3>4. \A i, j \in 1 .. m : rest[i] = rest[j] => i = j
      BY <3>3
    <3>5. \A i \in 1 .. m : rest[i] # n
      BY <1>2, <3>1, <3>2
    <3> QED BY <1>1, <3>4, <3>5 DEF Injective, In
  <2>2. ASSUME Injective(rest), ~ In(n, rest) PROVE Injective(list)
    <3> SUFFICES ASSUME NEW i \in 1 .. m + 1, NEW j \in 1 .. m + 1, list[i] = list[j]
                 PROVE  i = j
      BY <1>2 DEF Injective
    <3>1. \A k \in 1 .. m : rest[k] # n
      BY <1>1, <2>2 DEF In
    <3>2. CASE i = 1 \/ j = 1
      BY <1>2, <1>3, <3>1, <3>2
    <3>3. CASE i # 1 /\ j # 1
      <4>1. PICK a \in 1 .. m, b \in 1 .. m : i = a + 1 /\ j = b + 1
        BY <1>3, <3>3
      <4>2. rest[a] = rest[b]
        BY <1>2, <4>1
      <4> QED BY <1>1, <2>2, <4>1, <4>2 DEF Injective
    <3> QED BY <3>2, <3>3
  <2> QED BY <2>1, <2>2
<1>6. \A i \in 1 .. m + 1 : NodeAt(list, i + 1) = NodeAt(rest, i)
  <2> TAKE i \in 1 .. m + 1
  <2>1. CASE i <= m
    BY <1>1, <1>2, <2>1 DEF NodeAt
  <2>2. CASE ~ (i <= m)
    BY <1>1, <1>2, <2>2 DEF NodeAt
  <2> QED BY <2>1, <2>2
<1>7. NodeAt(list, 1) = n
  BY <1>2 DEF NodeAt
<1>8. ASSUME NEW links, NEW p
      PROVE  Following(links, list, p) <=> p = n /\ Following(links, rest, links[n])
  <2>1. ASSUME Following(links, list, p) PROVE p = n /\ Following(links, rest, links[n])
    <3>1. p = n /\ \A i \in 1 .. m + 1 : links[list[i]] = NodeAt(list, i + 1)
      BY <1>2, <1>7, <2>1 DEF Following
    <3>2. links[n] = NodeAt(rest, 1)
      BY <1>2, <1>6, <3>1
    <3>3. ASSUME NEW i \in 1 .. m PROVE links[rest[i]] = NodeAt(rest, i + 1)
      <4>1. i + 1 \in 1 .. m + 1 /\ list[i + 1] = rest[i]
        BY <1>2
      <4> QED BY <1>6, <3>1, <4>1
    <3> QED BY <1>1, <3>1, <3>2, <3>3 DEF Following
  <2>2. ASSUME p = n, Following(links, rest, links[n]) PROVE Following(links, list, p)
    <3>1. links[n] = NodeAt(rest, 1) /\ \A i \in 1 .. m : links[rest[i]] = NodeAt(rest, i + 1)
      BY <1>1, <2>2 DEF Following
    <3>2. ASSUME NEW i \in 1 .. m + 1 PROVE links[list[i]] = NodeAt(list, i + 1)
      <4>1. CASE i = 1
        BY <1>2, <1>6, <3>1, <4>1
      <4>2. CASE i # 1
        <5>1. PICK j \in 1 .. m : i = j + 1
          BY <1>3, <4>2
        <5>2. links[list[i]] = NodeAt(rest, i)
          BY <1>2, <3>1, <5>1
        <5> QED BY <1>6, <5>2
      <4> QED BY <4>1, <4>2
    <3> QED BY <1>2, <1>7, <2>2, <3>2 DEF Following
  <2> QED BY <2>1, <2>2
<1> QED BY <1>2, <1>4, <1>5, <1>8

\* Links that change elsewhere leave a list as it is.
LEMMA LinksKept ==
  ASSUME NEW links, NEW other, NEW list, NEW p, Following(links, list, p),
         \A i \in 1 .. Len(list) : other[list[i]] = links[list[i]]
  PROVE  Following(other, list, p)
BY DEF Following

\* A node can be put behind any number of nodes of a list.
LEMMA InsertedExists ==
  ASSUME NEW n \in Nodes, NEW old \in Seq(Nodes), NEW k \in 0 .. Len(old)
  PROVE  \E new : Inserted(n, old, k, new)
<1>1. PICK m \in Nat : m = Len(old)
  OBVIOUS
<1>2. PICK new : new = [i \in 1 .. m + 1 |-> IF i <= k THEN old[i] ELSE IF i = k + 1 THEN n ELSE old[i - 1]]
  OBVIOUS
<1>3. \A i \in 1 .. m + 1 :
        (IF i <= k THEN old[i] ELSE IF i = k + 1 THEN n ELSE old[i - 1]) \in Nodes
  BY <1>1
<1>4. new \in [1 .. m + 1 -> Nodes]
  BY <1>2, <1>3
<1>5. new \in Seq(Nodes) /\ Len(new) = m + 1
  BY <1>4
<1>6. new[k + 1] = n
  BY <1>1, <1>2
<1>7. \A i \in 1 .. k : new[i] = old[i]
  BY <1>1, <1>2
<1>8. ASSUME NEW i \in k + 1 .. m PROVE new[i + 1] = old[i]
  <2>1. i + 1 \in 1 .. m + 1 /\ ~ (i + 1 <= k) /\ i + 1 # k + 1 /\ (i + 1) - 1 = i
    BY <1>1
  <2> QED BY <1>2, <2>1
<1> QED BY <1>1, <1>5, <1>6, <1>7, <1>8 DEF Inserted

\* The nodes of the list with the new one, and its links.
LEMMA InsertedProperties ==
  ASSUME NEW n, NEW old, NEW k, NEW new, Inserted(n, old, k, new)
  PROVE  /\ \A x : In(x, new) <=> x = n \/ In(x, old)
         /\ Injective(old) /\ ~ In(n, old) => Injective(new)
         /\ \A links, other, p :
              /\ k > 0 /\ Injective(old) /\ Following(links, old, p)
              /\ other[n] = NodeAt(old, k + 1) /\ other[old[k]] = n
              /\ \A i \in 1 .. Len(old) : i # k => other[old[i]] = links[old[i]]
              => Following(other, new, p)
<1>1. PICK m \in Nat : m = Len(old)
  BY DEF Inserted
<1>2. /\ k \in 0 .. m /\ Len(new) = m + 1 /\ new[k + 1] = n
      /\ \A i \in 1 .. k : new[i] = old[i]
      /\ \A i \in k + 1 .. m : new[i + 1] = old[i]
  BY <1>1 DEF Inserted
<1>3. \A i \in 1 .. m + 1 : i \in 1 .. k \/ i = k + 1 \/ \E j \in k + 1 .. m : i = j + 1
  <2> TAKE i \in 1 .. m + 1
  <2>1. CASE i > k + 1
    <3>1. i - 1 \in k + 1 .. m /\ i = (i - 1) + 1
      BY <1>2, <2>1
    <3> QED BY <3>1
  <2>2. CASE ~ (i > k + 1)
    BY <1>2, <2>2
  <2> QED BY <2>1, <2>2
<1>4. \A x : In(x, new) <=> x = n \/ In(x, old)
  <2> TAKE x
  <2>1. ASSUME In(x, new) PROVE x = n \/ In(x, old)
    <3>1. PICK i \in 1 .. m + 1 : new[i] = x
      BY <1>2, <2>1 DEF In
    <3>2. CASE i \in 1 .. k
      BY <1>1, <1>2, <3>1, <3>2 DEF In
    <3>3. CASE i = k + 1
      BY <1>2, <3>1, <3>3
    <3>4. ASSUME NEW j \in k + 1 .. m, i = j + 1 PROVE x = n \/ In(x, old)
      BY <1>1, <1>2, <3>1, <3>4 DEF In
    <3> QED BY <1>3, <3>2, <3>3, <3>4
  <2>2. ASSUME In(x, old) PROVE In(x, new)
    <3>1. PICK i \in 1 .. m : old[i] = x
      BY <1>1, <2>2 DEF In
    <3>2. CASE i <= k
      <4>1. i \in 1 .. k /\ i \in 1 .. m + 1
        BY <3>2
      <4> QED BY <1>2, <3>1, <4>1 DEF In
    <3>3. CASE ~ (i <= k)
      <4>1. i \in k + 1 .. m /\ i + 1 \in 1 .. m + 1
        BY <1>2, <3>3
      <4> QED BY <1>2, <3>1, <4>1 DEF In
    <3> QED BY <3>2, <3>3
  <2>3. In(n, new)
    <3>1. k + 1 \in 1 .. m + 1
      BY <1>2
    <3> QED BY <1>2, <3>1 DEF In
  <2> QED BY <2>1, <2>2, <2>3
<1>5. ASSUME Injective(old), ~ In(n, old) PROVE Injective(new)
  <2> SUFFICES ASSUME NEW i \in 1 .. m + 1, NEW j \in 1 .. m + 1, new[i] = new[j]
               PROVE  i = j
    BY <1>2 DEF Injective
  <2>1. /\ \A a, b \in 1 .. m : old[a] = old[b] => a = b
        /\ \A a \in 1 .. m : old[a] # n
    BY <1>1, <1>5 DEF Injective, In
  <2>2. \A a \in 1 .. m + 1 : a # k + 1 =>
          \E b \in 1 .. m : new[a] = old[b] /\ a = IF b <= k THEN b ELSE b + 1
    <3> TAKE a \in 1 .. m + 1
    <3> HAVE a # k + 1
    <3>1. CASE a \in 1 .. k
      BY <1>2, <3>1
    <3>2. ASSUME NEW b \in k + 1 .. m, a = b + 1
          PROVE  \E c \in 1 .. m : new[a] = old[c] /\ a = IF c <= k THEN c ELSE c + 1
      <4>1. b \in 1 .. m /\ ~ (b <= k)
        BY <1>2
      <4> QED BY <1>2, <3>2, <4>1
    <3> QED BY <1>3, <3>1, <3>2
  <2>3. CASE i = k + 1 \/ j = k + 1
    BY <1>2, <2>1, <2>2, <2>3
  <2>4. CASE i # k + 1 /\ j # k + 1
    BY <2>1, <2>2, <2>4
  <2> QED BY <2>3, <2>4
<1>6. ASSUME NEW links, NEW other, NEW p, k > 0, Injective(old), Following(links, old, p),
             other[n] = NodeAt(old, k + 1), other[old[k]] = n,
             \A i \in 1 .. m : i # k => other[old[i]] = links[old[i]]
      PROVE  Following(other, new, p)
  <2>1. p = NodeAt(old, 1) /\ \A i \in 1 .. m : links[old[i]] = NodeAt(old, i + 1)
    BY <1>1, <1>6 DEF Following
  <2>2. p = NodeAt(new, 1)
    <3>1. 1 \in 1 .. k /\ 1 <= m /\ 1 <= m + 1
      BY <1>2, <1>6
    <3> QED BY <1>1, <1>2, <2>1, <3>1 DEF NodeAt
  <2>3. \A i \in k + 1 .. m + 1 : NodeAt(new, i + 1) = NodeAt(old, i)
    <3> TAKE i \in k + 1 .. m + 1
    <3>1. CASE i <= m
      BY <1>1, <1>2, <3>1 DEF NodeAt
    <3>2. CASE ~ (i <= m)
      BY <1>1, <1>2, <3>2 DEF NodeAt
    <3> QED BY <3>1, <3>2
  <2>4. ASSUME NEW i \in 1 .. m + 1 PROVE other[new[i]] = NodeAt(new, i + 1)
    <3>1. CASE i \in 1 .. k /\ i # k
      <4>1. i \in 1 .. m /\ i + 1 \in 1 .. k /\ i + 1 <= m /\ i + 1 <= m + 1
        BY <1>2, <3>1
      <4>2. other[new[i]] = old[i + 1]
        BY <1>1, <1>2, <1>6, <2>1, <3>1, <4>1 DEF NodeAt
      <4> QED BY <1>2, <4>1, <4>2 DEF NodeAt
    <3>2. CASE i = k
      <4>1. i \in 1 .. k /\ k + 1 <= m + 1
        BY <1>2, <1>6, <3>2
      <4> QED BY <1>2, <1>6, <3>2, <4>1 DEF NodeAt
    <3>3. CASE i = k + 1
      <4>1. k + 1 \in k + 1 .. m + 1
        BY <1>2
      <4> QED BY <1>2, <1>6, <2>3, <3>3, <4>1
    <3>4. ASSUME NEW j \in k + 1 .. m, i = j + 1 PROVE other[new[i]] = NodeAt(new, i + 1)
      <4>1. j \in 1 .. m /\ j # k /\ j + 1 \in k + 1 .. m + 1
        BY <1>2
      <4>2. other[new[i]] = NodeAt(old, j + 1)
        BY <1>2, <1>6, <2>1, <3>4, <4>1
      <4> QED BY <2>3, <3>4, <4>1, <4>2
    <3> QED BY <1>3, <3>1, <3>2, <3>3, <3>4
  <2> QED BY <1>2, <2>2, <2>4 DEF Following
<1> QED BY <1>1, <1>4, <1>5, <1>6

\* What the head of a list says of the list.
LEMMA HeadOf ==
  ASSUME NEW links, NEW p, NEW list \in Seq(Nodes), Following(links, list, p)
  PROVE  /\ p = Null <=> list = <<>>
         /\ p # Null => \E rest : InFront(p, rest, list) /\ Following(links, rest, links[p])
<1>1. list = <<>> <=> ~ (1 <= Len(list))
  OBVIOUS
<1>2. list # <<>> => list[1] \in Nodes
  OBVIOUS
<1>3. p = Null <=> list = <<>>
  BY <1>1, <1>2, ListAssumption DEF Following, NodeAt
<1>4. ASSUME p # Null
      PROVE  \E rest : InFront(p, rest, list) /\ Following(links, rest, links[p])
  <2>1. list # <<>> /\ p = list[1]
    BY <1>1, <1>3, <1>4 DEF Following, NodeAt
  <2>2. PICK rest : InFront(p, rest, list)
    BY <2>1, InFrontExists
  <2> QED BY <2>2, InFrontProperties
<1> QED BY <1>3, <1>4

\* The places of a list hold its nodes, and null is behind its end.
LEMMA NodeAtType ==
  ASSUME NEW list \in Seq(Nodes), NEW i \in Nat, i > 0
  PROVE  /\ NodeAt(list, i) \in Pointer
         /\ NodeAt(list, i) # Null <=> i <= Len(list)
         /\ NodeAt(list, i) # Null => NodeAt(list, i) = list[i] /\ In(list[i], list)
<1>1. PICK m \in Nat : m = Len(list)
  OBVIOUS
<1>2. \A j \in 1 .. m : list[j] \in Nodes /\ list[j] # Null
  BY <1>1, ListAssumption
<1>3. CASE i <= m
  <2>1. i \in 1 .. m
    BY <1>3
  <2> QED BY <1>1, <1>2, <1>3, <2>1 DEF NodeAt, Pointer, In
<1>4. CASE ~ (i <= m)
  BY <1>1, <1>4 DEF NodeAt, Pointer
<1> QED BY <1>3, <1>4

-----------------------------------------------------------------------------
(* The steps *)

\* What a step does to the list behind `blocks`: nothing, a node is put behind
\* those it passes, or the node in front is taken away.
Kept(used) ==
  \A i \in 1 .. Len(used) :
    /\ sequence_num'[used[i]] = sequence_num[used[i]]
    /\ payload_size'[used[i]] = payload_size[used[i]]

Changes(used, used2) ==
  /\ Kept(used)
  /\ \/ used2 = used
     \/ \E n \in Nodes, k \in 0 .. Len(used) :
          /\ Inserted(n, used, k, used2)
          /\ Len(used) < BlockCount /\ (used = <<>> \/ k > 0)
          /\ sequence_num'[n] \in Seqs /\ payload_size'[n] \in Sizes
          /\ \A i \in 1 .. k : sequence_num'[n] >= sequence_num[used[i]]
          /\ k < Len(used) => ~ (sequence_num'[n] >= sequence_num[used[k + 1]])
     \/ \E n \in Nodes : InFront(n, used2, used)

\* Steps that change no link, no list and no field of a block.
LEMMA StepsOfTheLoops ==
  ASSUME NEW used, NEW free, TypeOK, Shape(used, free), UNCHANGED <<nodeFields, lists, fault>>,
         pc' = "add" <=> pc = "add", pc' = "add" => UNCHANGED new_block /\ Adding(used)',
         pc' # "add" => previous_block' = Null,
         pc' = "remove" => block' = blocks', pc' = "count" => Counting(used)',
         fault => pc' = "idle"
  PROVE  Shape(used, free)' /\ Changes(used, used)
<1>1. Kept(used)
  BY DEF Kept, nodeFields
<1>2. /\ used \in Seq(Nodes) /\ free \in Seq(Nodes)
      /\ Len(used) <= BlockCount /\ Len(free) <= BlockCount
  BY DEF Shape
<1>3. IsList(used, blocks)' /\ IsList(free, free_list)'
  BY DEF Shape, IsList, nodeFields, lists
<1>4. Sorted(used)'
  BY DEF Shape, Sorted, nodeFields
<1>5. (\A i \in 1 .. Len(used) : sequence_num[used[i]] \in Seqs /\ payload_size[used[i]] \in Sizes)'
  BY DEF Shape, nodeFields
<1>6. (fault => pc = "idle")'
  OBVIOUS
<1>7. (~ fault => Parted(used, free))'
  <2>1. ~ fault' => Parted(used, free)
    BY DEF Shape
  <2> QED BY <2>1 DEF Parted, Hand
<1> QED BY <1>1, <1>2, <1>3, <1>4, <1>5, <1>6, <1>7 DEF Shape, Changes

LEMMA StutterStep ==
  ASSUME NEW used, NEW free, TypeOK, Shape(used, free), UNCHANGED vars
  PROVE  Shape(used, free)' /\ Changes(used, used)
<1>1. UNCHANGED <<next, sequence_num, payload_size, free_list, blocks, pc, new_block,
                  previous_block, block, num_to_remove, start, num_ready, asked, fault>>
  BY DEF vars, nodeFields, lists, addLocals, countLocals
<1>2. Shape(used, free)'
  BY <1>1 DEF Shape, IsList, Sorted, Parted, Hand, Adding, Passed, Counting, Data
<1>3. Kept(used)
  BY <1>1 DEF Kept
<1> QED BY <1>2, <1>3 DEF Changes

LEMMA RemoveStartStep ==
  ASSUME NEW used, NEW free, TypeOK, Shape(used, free), NEW count \in 0 .. BlockCount,
         RemoveStart(count)
  PROVE  Shape(used, free)' /\ Changes(used, used)
<1>1. pc = "idle" /\ ~ fault /\ pc' = "remove" /\ block' = blocks /\ UNCHANGED <<nodeFields, lists, fault>>
      /\ previous_block' = previous_block /\ previous_block = Null
  BY DEF RemoveStart, Idle, Shape, addLocals
<1>2. block' = blocks'
  BY <1>1 DEF lists
<1> QED BY <1>1, <1>2, StepsOfTheLoops

LEMMA RemoveEndStep ==
  ASSUME NEW used, NEW free, TypeOK, Shape(used, free), RemoveEnd
  PROVE  Shape(used, free)' /\ Changes(used, used)
<1>1. pc = "remove" /\ pc' = "idle" /\ UNCHANGED <<nodeFields, lists, fault>>
      /\ previous_block' = previous_block /\ previous_block = Null
  BY DEF RemoveEnd, Shape, addLocals
<1> QED BY <1>1, StepsOfTheLoops

LEMMA CountEndStep ==
  ASSUME NEW used, NEW free, TypeOK, Shape(used, free), CountEnd
  PROVE  Shape(used, free)' /\ Changes(used, used)
<1>1. pc = "count" /\ pc' = "idle" /\ UNCHANGED <<nodeFields, lists, fault>>
      /\ previous_block' = previous_block /\ previous_block = Null
  BY DEF CountEnd, Shape, addLocals
<1> QED BY <1>1, StepsOfTheLoops

LEMMA CountStartStep ==
  ASSUME NEW used, NEW free, TypeOK, Shape(used, free), NEW from \in Seqs, CountStart(from)
  PROVE  Shape(used, free)' /\ Changes(used, used)
<1>1. pc = "idle" /\ ~ fault /\ pc' = "count" /\ UNCHANGED <<nodeFields, lists, fault>>
      /\ previous_block' = previous_block /\ previous_block = Null
      /\ block' = blocks /\ start' = from /\ asked' = from /\ num_ready' = 0
  BY DEF CountStart, Idle, Shape, addLocals
<1>2. Counting(used)'
  <2>1. used \in Seq(Nodes) /\ blocks = NodeAt(used, 1)
    BY DEF Shape, IsList
  <2>2. 0 \in 0 .. Len(used) /\ 0 + 1 = 1
    BY <2>1
  <2>3. block' = NodeAt(used, num_ready' + 1)
    BY <1>1, <2>1, <2>2
  <2>4. num_ready' \in 0 .. Len(used) /\ start' = StartOf(Data(used)', asked', num_ready' + 1)
    BY <1>1, <2>2 DEF StartOf
  <2>5. 1 .. num_ready' = {}
    BY <1>1
  <2> QED BY <2>3, <2>4, <2>5 DEF Counting
<1> QED BY <1>1, <1>2, StepsOfTheLoops

\* The blocks counted and the block behind them: what CountStep finds.
LEMMA CountedBlock ==
  ASSUME NEW used, used \in Seq(Nodes), Counting(used), block # Null
  PROVE  /\ num_ready + 1 \in 1 .. Len(used) /\ block = used[num_ready + 1]
         /\ num_ready + 1 \in 0 .. Len(used) /\ num_ready \in Nat
<1>1. num_ready \in Nat /\ num_ready + 1 \in Nat /\ num_ready + 1 > 0
  BY DEF Counting
<1>2. block = NodeAt(used, num_ready + 1)
  BY DEF Counting
<1>3. num_ready + 1 <= Len(used) /\ block = used[num_ready + 1]
  BY <1>1, <1>2, NodeAtType
<1> QED BY <1>1, <1>3

LEMMA CountStepStep ==
  ASSUME NEW used, NEW free, TypeOK, Shape(used, free), CountStep
  PROVE  Shape(used, free)' /\ Changes(used, used)
<1>1. pc = "count" /\ pc' = "count" /\ UNCHANGED <<nodeFields, lists, fault>>
      /\ previous_block' = previous_block /\ previous_block = Null /\ ~ fault
      /\ block' = next[block] /\ num_ready' = num_ready + 1 /\ asked' = asked
      /\ start' = Plus(sequence_num[block], payload_size[block]) /\ BlockIsReady
  BY DEF CountStep, Shape, addLocals
<1>2. used \in Seq(Nodes) /\ Counting(used) /\ IsList(used, blocks)
  BY <1>1 DEF Shape
<1>3. PICK m \in Nat : m = Len(used)
  BY <1>2
<1>4. PICK k \in Nat : k = num_ready
  BY <1>2, <1>3 DEF Counting
<1>5. k + 1 \in 1 .. m /\ block = used[k + 1]
  BY <1>1, <1>2, <1>3, <1>4, CountedBlock DEF BlockIsReady
<1>6. PICK data : data = Data(used)
  OBVIOUS
<1>7. Data(used)' = data
  BY <1>1, <1>6 DEF Data, nodeFields
<1>8. data[k + 1].seq = sequence_num[block] /\ data[k + 1].size = payload_size[block]
  BY <1>3, <1>5, <1>6 DEF Data
<1>9. block' = NodeAt(used, k + 2)
  <2>1. (k + 1) + 1 = k + 2
    BY <1>4
  <2> QED BY <1>1, <1>2, <1>3, <1>5, <2>1 DEF IsList
<1>10. start' = StartOf(data, asked, k + 2)
  <2>1. k + 2 # 1 /\ (k + 2) - 1 = k + 1
    BY <1>4
  <2> QED BY <1>1, <1>8, <2>1 DEF StartOf
<1>11. Follows(data, asked, k + 1)
  <2>1. start = StartOf(data, asked, k + 1)
    BY <1>2, <1>4, <1>6 DEF Counting
  <2> QED BY <1>1, <1>8, <2>1 DEF BlockIsReady, Follows
<1>12. \A i \in 1 .. k + 1 : Follows(data, asked, i)
  <2>1. \A i \in 1 .. k : Follows(data, asked, i)
    BY <1>2, <1>4, <1>6 DEF Counting
  <2>2. \A i \in 1 .. k + 1 : i \in 1 .. k \/ i = k + 1
    BY <1>4
  <2> QED BY <1>11, <2>1, <2>2
<1>13. Counting(used)'
  <2>1. num_ready' = k + 1 /\ num_ready' + 1 = k + 2 /\ num_ready' \in 0 .. Len(used)
    BY <1>1, <1>3, <1>4, <1>5
  <2> QED BY <1>1, <1>7, <1>9, <1>10, <1>12, <2>1 DEF Counting
<1> QED BY <1>1, <1>13, StepsOfTheLoops

LEMMA AddWalkStep ==
  ASSUME NEW used, NEW free, TypeOK, Shape(used, free), AddWalk
  PROVE  Shape(used, free)' /\ Changes(used, used)
<1>1. pc = "add" /\ pc' = "add" /\ UNCHANGED <<nodeFields, lists, fault>>
      /\ previous_block' = block /\ block' = next[block] /\ new_block' = new_block /\ PassesBlock
  BY DEF AddWalk
<1>2. used \in Seq(Nodes) /\ Adding(used) /\ IsList(used, blocks) /\ ~ fault
  BY <1>1 DEF Shape
<1>3. PICK m \in Nat : m = Len(used)
  BY <1>2
<1>4. PICK k \in Nat : Passed(used, k)
  BY <1>2 DEF Adding
<1>5. k + 1 \in 1 .. m /\ block = used[k + 1]
  <2>1. block = NodeAt(used, k + 1) /\ block # Null /\ k + 1 \in Nat /\ k + 1 > 0
    BY <1>1, <1>4 DEF Passed, PassesBlock
  <2>2. k + 1 <= m /\ block = used[k + 1]
    BY <1>2, <1>3, <2>1, NodeAtType
  <2> QED BY <2>2
<1>6. block' = NodeAt(used, (k + 1) + 1)
  BY <1>1, <1>2, <1>3, <1>5 DEF IsList
<1>7. \A i \in 1 .. k + 1 : sequence_num[new_block] >= sequence_num[used[i]]
  <2>1. \A i \in 1 .. k + 1 : i \in 1 .. k \/ i = k + 1
    BY <1>4
  <2> QED BY <1>1, <1>4, <1>5, <2>1 DEF Passed, PassesBlock
<1>8. Passed(used, k + 1)'
  <2>1. k + 1 # 0 /\ k + 1 \in 0 .. Len(used)
    BY <1>3, <1>5
  <2>2. sequence_num' = sequence_num
    BY <1>1 DEF nodeFields
  <2> QED BY <1>1, <1>5, <1>6, <1>7, <2>1, <2>2 DEF Passed
<1>9. Adding(used)'
  <2>1. k + 1 \in Nat
    OBVIOUS
  <2>2. sequence_num' = sequence_num /\ payload_size' = payload_size
    BY <1>1 DEF nodeFields
  <2> QED BY <1>1, <1>2, <1>8, <2>1, <2>2 DEF Adding
<1> QED BY <1>1, <1>2, <1>9, StepsOfTheLoops

LEMMA ApartIn ==
  ASSUME NEW a, NEW b
  PROVE  Apart(a, b) <=> \A x : ~ (In(x, a) /\ In(x, b))
BY DEF Apart, In

\* Links that differ at n only
Elsewhere(links, other, n) == \A x \in Nodes : x # n => other[x] = links[x]

LEMMA ListElsewhere ==
  ASSUME NEW links, NEW other, NEW n, NEW p, NEW list \in Seq(Nodes),
         Elsewhere(links, other, n), ~ In(n, list), Following(links, list, p)
  PROVE  Following(other, list, p)
<1>1. \A i \in 1 .. Len(list) : list[i] \in Nodes /\ list[i] # n
  BY DEF In
<1> QED BY <1>1, LinksKept DEF Elsewhere

\* What tcp_block_buffer_add takes from the free list.
Taken(used, free, rest) ==
  /\ free_list \in Nodes /\ InFront(free_list, rest, free)
  /\ ~ In(free_list, used) /\ ~ In(free_list, rest)
  /\ Injective(used) /\ Injective(rest) /\ Apart(used, rest)
  /\ \A n \in Nodes : In(n, used) \/ In(n, rest) \/ n = free_list
  /\ Len(used) + Len(rest) + 1 = BlockCount
  /\ Following(next', used, blocks) /\ Following(next', rest, free_list')
  /\ next'[free_list] = Null

LEMMA AddTakes ==
  ASSUME NEW used, NEW free, TypeOK, Shape(used, free), NEW seq \in Seqs, NEW size \in Sizes,
         AddTake(seq, size)
  PROVE  \E rest : Taken(used, free, rest)
<1>1. pc = "idle" /\ ~ fault /\ free_list # Null /\ free_list' = next[free_list]
      /\ next' = [next EXCEPT ![free_list] = Null]
  BY DEF AddTake, Idle
<1>2. used \in Seq(Nodes) /\ free \in Seq(Nodes) /\ Parted(used, free)
      /\ Following(next, used, blocks) /\ Following(next, free, free_list)
  BY <1>1 DEF Shape, IsList, Following
<1>3. PICK rest : InFront(free_list, rest, free) /\ Following(next, rest, next[free_list])
  BY <1>1, <1>2, HeadOf
<1>4. free_list \in Nodes /\ rest \in Seq(Nodes) /\ Len(free) = Len(rest) + 1
  BY <1>3 DEF InFront
<1>5. /\ \A x : In(x, free) <=> x = free_list \/ In(x, rest)
      /\ Injective(rest) /\ ~ In(free_list, rest)
  BY <1>2, <1>3, InFrontProperties DEF Parted
<1>6. Injective(used) /\ ~ In(free_list, used) /\ Apart(used, rest)
  BY <1>2, <1>5, ApartIn DEF Parted
<1>7. Elsewhere(next, next', free_list) /\ next'[free_list] = Null
  BY <1>1, <1>4 DEF Elsewhere, TypeOK
<1>8. Following(next', used, blocks) /\ Following(next', rest, next[free_list])
  BY <1>2, <1>3, <1>4, <1>5, <1>6, <1>7, ListElsewhere
<1>9. \A n \in Nodes : In(n, used) \/ In(n, rest) \/ n = free_list
  BY <1>1, <1>2, <1>5 DEF Parted
<1>10. Len(used) + Len(rest) + 1 = BlockCount
  <2>1. Len(used) + Len(free) + 0 = BlockCount
    BY <1>1, <1>2 DEF Parted, Hand
  <2>2. Len(used) \in Nat /\ Len(rest) \in Nat
    BY <1>2, <1>4
  <2> QED BY <1>4, <2>1, <2>2
<1> QED BY <1>1, <1>3, <1>4, <1>5, <1>6, <1>7, <1>8, <1>9, <1>10 DEF Taken

LEMMA AddTakeStep ==
  ASSUME NEW used, NEW free, TypeOK, Shape(used, free), NEW seq \in Seqs, NEW size \in Sizes,
         AddTake(seq, size)
  PROVE  \E used2, free2 : Shape(used2, free2)' /\ Changes(used, used2)
<1>1. PICK rest : Taken(used, free, rest)
  BY AddTakes
<1>2. PICK n : n = free_list
  OBVIOUS
<1>3. /\ n \in Nodes /\ pc = "idle" /\ ~ fault /\ fault' = fault
      /\ sequence_num' = [sequence_num EXCEPT ![n] = seq]
      /\ payload_size' = [payload_size EXCEPT ![n] = size]
      /\ previous_block' = previous_block /\ previous_block = Null
  BY <1>1, <1>2 DEF AddTake, Idle, Shape, Taken
<1>4. /\ used \in Seq(Nodes) /\ free \in Seq(Nodes) /\ rest \in Seq(Nodes)
      /\ Len(used) <= BlockCount /\ Len(rest) <= BlockCount /\ Len(used) < BlockCount
      /\ Following(next, used, blocks)
  <2>1. used \in Seq(Nodes) /\ free \in Seq(Nodes) /\ rest \in Seq(Nodes)
        /\ Following(next, used, blocks)
    BY <1>1 DEF Shape, Taken, InFront, IsList, Following
  <2>2. Len(used) \in Nat /\ Len(rest) \in Nat
    BY <2>1
  <2> QED BY <1>1, <2>1, <2>2 DEF Taken
<1>5. sequence_num'[n] = seq /\ payload_size'[n] = size
      /\ \A x \in Nodes : x # n => sequence_num'[x] = sequence_num[x] /\ payload_size'[x] = payload_size[x]
  BY <1>3 DEF TypeOK
<1>6. \A i \in 1 .. Len(used) : used[i] \in Nodes /\ used[i] # n
  BY <1>1, <1>2, <1>4 DEF Taken, In
<1>7. Kept(used)
  BY <1>5, <1>6 DEF Kept
<1>8. CASE blocks = Null
  <2>1. used = <<>> /\ Len(used) = 0
    BY <1>4, <1>8, HeadOf
  <2>2. pc' = "idle" /\ blocks' = n
    BY <1>2, <1>3, <1>8 DEF AddTake
  <2>3. PICK used2 : InFront(n, <<>>, used2)
    <3>1. <<>> \in Seq(Nodes)
      OBVIOUS
    <3> QED BY <1>3, <3>1, InFrontExists
  <2>4. used2 \in Seq(Nodes) /\ Len(used2) = 1 /\ used2[1] = n
    BY <2>3 DEF InFront
  <2>5. Inserted(n, used, 0, used2)
    BY <1>3, <2>1, <2>4 DEF Inserted
  <2>6. /\ \A x : In(x, used2) <=> x = n
        /\ Injective(used2)
    BY <2>4 DEF In, Injective
  <2>7. Following(next', used2, blocks')
    <3>1. next'[n] = Null
      BY <1>1, <1>2 DEF Taken
    <3> QED BY <2>2, <2>4, <3>1 DEF Following, NodeAt
  <2>8. Following(next', rest, free_list')
    BY <1>1 DEF Taken
  <2>9. IsList(used2, blocks)' /\ IsList(rest, free_list)'
    BY <2>7, <2>8 DEF IsList, Following
  <2>10. Sorted(used2)'
    BY <2>4 DEF Sorted
  <2>11. (\A i \in 1 .. Len(used2) : sequence_num[used2[i]] \in Seqs /\ payload_size[used2[i]] \in Sizes)'
    BY <1>5, <2>4
  <2>12. Parted(used2, rest)'
    <3>1. Apart(used2, rest) /\ Injective(rest) /\ \A x \in Nodes : In(x, used2) \/ In(x, rest)
      <4>1. Injective(rest) /\ ~ In(n, rest) /\ \A x \in Nodes : In(x, used) \/ In(x, rest) \/ x = n
        BY <1>1, <1>2 DEF Taken
      <4>2. \A x : ~ In(x, used)
        BY <2>1 DEF In
      <4> QED BY <2>6, <4>1, <4>2, ApartIn
    <3>2. Len(used2) + Len(rest) + 0 = BlockCount
      <4>1. Len(rest) \in Nat
        BY <1>4
      <4> QED BY <1>1, <2>1, <2>4, <4>1 DEF Taken
    <3> QED BY <2>2, <2>6, <3>1, <3>2 DEF Parted, Hand
  <2>13. Len(used2) <= BlockCount
    BY <1>4, <2>1, <2>4, DefaultSizeAssumption DEF BlockCount
  <2>14. Shape(used2, rest)'
    BY <1>3, <1>4, <2>2, <2>4, <2>9, <2>10, <2>11, <2>12, <2>13 DEF Shape
  <2>15. Changes(used, used2)
    <3>1. 0 \in 0 .. Len(used) /\ ~ (0 < Len(used)) /\ 1 .. 0 = {}
      BY <2>1
    <3> QED BY <1>3, <1>4, <1>5, <1>7, <2>1, <2>5, <3>1 DEF Changes
  <2> QED BY <2>14, <2>15
<1>9. CASE blocks # Null
  <2>1. used # <<>>
    BY <1>4, <1>9, HeadOf
  <2>2. pc' = "add" /\ blocks' = blocks /\ new_block' = n /\ block' = blocks
    BY <1>2, <1>9 DEF AddTake
  <2>3. Following(next', used, blocks') /\ Following(next', rest, free_list')
    BY <1>1, <2>2 DEF Taken
  <2>4. IsList(used, blocks)' /\ IsList(rest, free_list)'
    BY <2>3 DEF IsList, Following
  <2>5. \A i \in 1 .. Len(used) : sequence_num'[used[i]] = sequence_num[used[i]]
                               /\ payload_size'[used[i]] = payload_size[used[i]]
    BY <1>5, <1>6
  <2>6. Sorted(used)'
    BY <2>5 DEF Shape, Sorted
  <2>7. (\A i \in 1 .. Len(used) : sequence_num[used[i]] \in Seqs /\ payload_size[used[i]] \in Sizes)'
    BY <2>5 DEF Shape
  <2>8. Parted(used, rest)'
    <3>1. Len(used) + Len(rest) + 1 = BlockCount /\ ~ In(n, used) /\ ~ In(n, rest)
      BY <1>1, <1>2 DEF Taken
    <3>2. Injective(used) /\ Injective(rest) /\ Apart(used, rest)
      BY <1>1 DEF Taken
    <3>3. \A x \in Nodes : In(x, used) \/ In(x, rest) \/ x = n
      BY <1>1, <1>2 DEF Taken
    <3> QED BY <1>3, <2>2, <3>1, <3>2, <3>3 DEF Parted, Hand
  <2>9. Adding(used)'
    <3>1. Passed(used, 0)'
      <4>1. 0 \in 0 .. Len(used) /\ 1 .. 0 = {} /\ 0 + 1 = 1
        BY <1>4
      <4>2. block' = NodeAt(used, 0 + 1)
        BY <1>4, <2>2, <4>1 DEF Following
      <4> QED BY <1>3, <4>1, <4>2 DEF Passed
    <3> QED BY <1>5, <2>1, <2>2, <3>1 DEF Adding
  <2>10. Shape(used, rest)'
    BY <1>3, <1>4, <2>2, <2>4, <2>6, <2>7, <2>8, <2>9 DEF Shape
  <2> QED BY <1>7, <2>10 DEF Changes
<1> QED BY <1>8, <1>9

\* A list stays sorted when a node is put behind those that it passes.
LEMMA SortedInsertion ==
  ASSUME NEW key \in [Nodes -> SeqNum], NEW n, NEW old, NEW k, NEW new, Inserted(n, old, k, new),
         \A i, j \in 1 .. Len(old) : i < j => key[old[i]] <= key[old[j]],
         \A i \in 1 .. k : key[n] >= key[old[i]],
         k < Len(old) => ~ (key[n] >= key[old[k + 1]])
  PROVE  \A i, j \in 1 .. Len(new) : i < j => key[new[i]] <= key[new[j]]
<1>1. PICK m \in Nat : m = Len(old)
  BY DEF Inserted
<1>2. /\ n \in Nodes /\ k \in 0 .. m /\ Len(new) = m + 1 /\ new[k + 1] = n
      /\ \A i \in 1 .. k : new[i] = old[i]
      /\ \A i \in k + 1 .. m : new[i + 1] = old[i]
      /\ \A i \in 1 .. m : old[i] \in Nodes
  BY <1>1 DEF Inserted
<1>3. \A x \in Nodes : key[x] \in Nat
  BY SeqSpaceAssumption DEF SeqNum
<1>4. \A i \in k + 1 .. m : key[n] <= key[old[i]]
  <2> TAKE i \in k + 1 .. m
  <2>1. k < m /\ k + 1 \in 1 .. m /\ i \in 1 .. m
    BY <1>2
  <2>2. ~ (key[n] >= key[old[k + 1]])
    BY <1>1, <2>1
  <2>3. key[n] \in Nat /\ key[old[k + 1]] \in Nat /\ key[old[i]] \in Nat
    BY <1>2, <1>3, <2>1
  <2>4. i = k + 1 \/ key[old[k + 1]] <= key[old[i]]
    BY <1>1, <2>1
  <2> QED BY <2>2, <2>3, <2>4
<1> SUFFICES ASSUME NEW i \in 1 .. m + 1, NEW j \in 1 .. m + 1, i < j
             PROVE  key[new[i]] <= key[new[j]]
  BY <1>2
<1>5. CASE j <= k
  <2>1. i \in 1 .. k /\ j \in 1 .. k /\ i \in 1 .. m /\ j \in 1 .. m
    BY <1>2, <1>5
  <2> QED BY <1>1, <1>2, <2>1
<1>6. CASE j = k + 1
  <2>1. i \in 1 .. k
    BY <1>2, <1>6
  <2>2. key[old[i]] \in Nat /\ key[n] \in Nat
    BY <1>2, <1>3, <2>1
  <2> QED BY <1>2, <1>6, <2>1, <2>2
<1>7. CASE j > k + 1
  <2>1. PICK b \in k + 1 .. m : j = b + 1
    <3>1. j - 1 \in k + 1 .. m /\ j = (j - 1) + 1
      BY <1>2, <1>7
    <3> QED BY <3>1
  <2>2. new[j] = old[b] /\ b \in 1 .. m
    BY <1>2, <2>1
  <2>3. CASE i <= k
    <3>1. i \in 1 .. k /\ i \in 1 .. m /\ i < b
      BY <1>2, <2>1, <2>3
    <3> QED BY <1>1, <1>2, <2>2, <3>1
  <2>4. CASE i = k + 1
    BY <1>2, <1>4, <2>1, <2>2, <2>4
  <2>5. CASE i > k + 1
    <3>1. PICK a \in k + 1 .. m : i = a + 1
      <4>1. i - 1 \in k + 1 .. m /\ i = (i - 1) + 1
        BY <1>2, <2>5
      <4> QED BY <4>1
    <3>2. new[i] = old[a] /\ a \in 1 .. m /\ a < b
      BY <1>2, <2>1, <3>1
    <3> QED BY <1>1, <2>2, <3>2
  <2> QED BY <1>2, <2>3, <2>4, <2>5
<1> QED BY <1>2, <1>5, <1>6, <1>7

\* Where the loop of tcp_block_buffer_add stands when it stops, after k blocks.
Stopped(used, k) ==
  /\ k \in 0 .. Len(used) /\ block = NodeAt(used, k + 1)
  /\ previous_block = Null <=> k = 0
  /\ k > 0 => previous_block = used[k] /\ used[k] \in Nodes
  /\ \A i \in 1 .. k : sequence_num[new_block] >= sequence_num[used[i]]
  /\ k < Len(used) => ~ (sequence_num[new_block] >= sequence_num[used[k + 1]])

LEMMA AddStops ==
  ASSUME NEW used, used \in Seq(Nodes), Adding(used), ~ PassesBlock
  PROVE  \E k : Stopped(used, k)
<1>1. PICK m \in Nat : m = Len(used)
  OBVIOUS
<1>2. PICK k \in Nat : Passed(used, k)
  BY DEF Adding
<1>3. k \in 0 .. m /\ block = NodeAt(used, k + 1)
      /\ previous_block = IF k = 0 THEN Null ELSE used[k]
  BY <1>1, <1>2 DEF Passed
<1>4. k > 0 => used[k] \in Nodes /\ used[k] # Null
  BY <1>1, <1>3, ListAssumption
<1>5. k < m => ~ (sequence_num[new_block] >= sequence_num[used[k + 1]])
  <2> SUFFICES ASSUME k < m PROVE ~ (sequence_num[new_block] >= sequence_num[used[k + 1]])
    OBVIOUS
  <2>1. k + 1 <= m /\ k + 1 \in 1 .. m
    BY <1>3
  <2>2. block = used[k + 1] /\ used[k + 1] # Null
    BY <1>1, <1>3, <2>1, ListAssumption DEF NodeAt
  <2> QED BY <2>2 DEF PassesBlock
<1>6. Stopped(used, k)
  BY <1>1, <1>2, <1>3, <1>4, <1>5 DEF Stopped, Passed
<1> QED BY <1>6

\* tcp_block_buffer_add links the new block, or dereferences null.
LEMMA AddLinkStep ==
  ASSUME NEW used, NEW free, TypeOK, Shape(used, free), AddLink
  PROVE  \E used2, free2 : Shape(used2, free2)' /\ Changes(used, used2)
<1>1. /\ pc = "add" /\ ~ fault /\ ~ PassesBlock /\ pc' = "idle" /\ previous_block' = Null
      /\ UNCHANGED <<sequence_num, payload_size, free_list, blocks>>
  BY DEF AddLink, Shape, lists
<1>2. PICK n : n = new_block
  OBVIOUS
<1>3. /\ used \in Seq(Nodes) /\ free \in Seq(Nodes)
      /\ Len(used) <= BlockCount /\ Len(free) <= BlockCount
      /\ Following(next, used, blocks) /\ Following(next, free, free_list)
      /\ Parted(used, free) /\ Adding(used)
  BY <1>1 DEF Shape, IsList, Following
<1>4. n \in Nodes /\ ~ In(n, used) /\ ~ In(n, free)
  BY <1>1, <1>2, <1>3 DEF Parted
<1>5. PICK k : Stopped(used, k)
  BY <1>1, <1>3, AddStops
<1>6. Kept(used)
  BY <1>1 DEF Kept
<1>7. PICK m \in Nat, r \in Nat : m = Len(used) /\ r = Len(free)
  BY <1>3
<1>8. m + r + 1 = BlockCount
  BY <1>1, <1>3, <1>7 DEF Parted, Hand
<1>9. CASE previous_block = Null
  <2>1. fault' = TRUE /\ next' = [next EXCEPT ![n] = block]
    BY <1>2, <1>9 DEF AddLink
  <2>2. Elsewhere(next, next', n)
    BY <1>4, <2>1 DEF Elsewhere, TypeOK
  <2>3. Following(next', used, blocks') /\ Following(next', free, free_list')
    BY <1>1, <1>3, <1>4, <2>2, ListElsewhere
  <2>4. IsList(used, blocks)' /\ IsList(free, free_list)'
    BY <2>3 DEF IsList, Following
  <2>5. Sorted(used)'
    BY <1>1 DEF Shape, Sorted
  <2>6. (\A i \in 1 .. Len(used) : sequence_num[used[i]] \in Seqs /\ payload_size[used[i]] \in Sizes)'
    BY <1>1 DEF Shape
  <2>7. Shape(used, free)'
    BY <1>1, <1>3, <2>1, <2>4, <2>5, <2>6 DEF Shape
  <2> QED BY <1>6, <2>7 DEF Changes
<1>10. CASE previous_block # Null
  <2>1. k \in 1 .. m /\ k \in 0 .. Len(used) /\ k > 0 /\ previous_block = used[k]
        /\ used[k] \in Nodes /\ block = NodeAt(used, k + 1)
    BY <1>5, <1>7, <1>10 DEF Stopped
  <2>2. fault' = fault
        /\ next' = [next EXCEPT ![n] = NodeAt(used, k + 1), ![used[k]] = n]
    BY <1>2, <1>10, <2>1 DEF AddLink
  <2>3. \A i \in 1 .. m : used[i] \in Nodes /\ used[i] # n /\ (used[i] = used[k] => i = k)
    BY <1>3, <1>4, <1>7, <2>1 DEF In, Parted, Injective
  <2>4. /\ next'[n] = NodeAt(used, k + 1) /\ next'[used[k]] = n
        /\ \A x \in Nodes : x # n /\ x # used[k] => next'[x] = next[x]
    BY <1>4, <2>1, <2>2, <2>3 DEF TypeOK
  <2>5. PICK used2 : Inserted(n, used, k, used2)
    BY <1>3, <1>4, <2>1, InsertedExists
  <2>6. used2 \in Seq(Nodes) /\ Len(used2) = m + 1
    BY <1>7, <2>5 DEF Inserted
  <2>7. Following(next', used2, blocks')
    <3>1. \A i \in 1 .. Len(used) : i # k => next'[used[i]] = next[used[i]]
      BY <1>7, <2>3, <2>4
    <3>2. Injective(used)
      BY <1>3 DEF Parted
    <3> QED BY <1>1, <1>3, <2>1, <2>4, <2>5, <3>1, <3>2, InsertedProperties
  <2>8. Following(next', free, free_list')
    <3>1. \A i \in 1 .. Len(free) : free[i] \in Nodes /\ free[i] # n /\ free[i] # used[k]
      BY <1>3, <1>4, <1>7, <2>1 DEF In, Parted, Apart
    <3> QED BY <1>1, <1>3, <2>4, <3>1, LinksKept
  <2>9. IsList(used2, blocks)' /\ IsList(free, free_list)'
    BY <2>7, <2>8 DEF IsList, Following
  <2>10. /\ \A i \in 1 .. k : sequence_num[n] >= sequence_num[used[i]]
         /\ k < Len(used) => ~ (sequence_num[n] >= sequence_num[used[k + 1]])
    BY <1>2, <1>5 DEF Stopped
  <2>11. Sorted(used2)'
    <3>1. sequence_num \in [Nodes -> SeqNum]
      BY DEF TypeOK
    <3>2. \A i, j \in 1 .. Len(used) : i < j => sequence_num[used[i]] <= sequence_num[used[j]]
      BY DEF Shape, Sorted
    <3>3. \A i, j \in 1 .. Len(used2) : i < j => sequence_num[used2[i]] <= sequence_num[used2[j]]
      BY <2>5, <2>10, <3>1, <3>2, SortedInsertion
    <3> QED BY <1>1, <3>3 DEF Sorted
  <2>12. \A x : In(x, used2) <=> x = n \/ In(x, used)
    BY <2>5, InsertedProperties
  <2>13. sequence_num[n] \in Seqs /\ payload_size[n] \in Sizes
    BY <1>2, <1>3 DEF Adding
  <2>14. (\A i \in 1 .. Len(used2) : sequence_num[used2[i]] \in Seqs /\ payload_size[used2[i]] \in Sizes)'
    <3>1. \A x : In(x, used) => sequence_num[x] \in Seqs /\ payload_size[x] \in Sizes
      BY DEF Shape, In
    <3>2. \A i \in 1 .. Len(used2) : In(used2[i], used2)
      BY DEF In
    <3>3. \A i \in 1 .. Len(used2) : sequence_num[used2[i]] \in Seqs /\ payload_size[used2[i]] \in Sizes
      BY <2>12, <2>13, <3>1, <3>2
    <3> QED BY <1>1, <3>3
  <2>15. Parted(used2, free)'
    <3>1. Injective(used2) /\ Injective(free)
      BY <1>3, <1>4, <2>5, InsertedProperties DEF Parted
    <3>2. Apart(used2, free)
      BY <1>3, <1>4, <2>12, ApartIn DEF Parted
    <3>3. \A x \in Nodes : In(x, used2) \/ In(x, free)
      BY <1>2, <1>3, <2>12 DEF Parted
    <3>4. Len(used2) + Len(free) + 0 = BlockCount
      BY <1>7, <1>8, <2>6
    <3> QED BY <1>1, <3>1, <3>2, <3>3, <3>4 DEF Parted, Hand
  <2>16. Len(used2) <= BlockCount /\ Len(used) < BlockCount
    BY <1>7, <1>8, <2>6
  <2>17. Shape(used2, free)'
    BY <1>1, <1>3, <2>2, <2>6, <2>9, <2>11, <2>14, <2>15, <2>16 DEF Shape
  <2>18. Changes(used, used2)
    BY <1>1, <1>4, <1>6, <2>1, <2>5, <2>10, <2>13, <2>16 DEF Changes
  <2> QED BY <2>17, <2>18
<1> QED BY <1>9, <1>10

\* tcp_block_buffer_remove_front moves a block from the list to the free list.
LEMMA RemoveStepStep ==
  ASSUME NEW used, NEW free, TypeOK, Shape(used, free), RemoveStep
  PROVE  \E used2, free2 : Shape(used2, free2)' /\ Changes(used, used2)
<1>1. PICK n : n = block
  OBVIOUS
<1>2. /\ pc = "remove" /\ ~ fault /\ n # Null /\ n = blocks /\ previous_block = Null
      /\ blocks' = next[n] /\ next' = [next EXCEPT ![n] = free_list]
      /\ free_list' = n /\ block' = blocks'
      /\ UNCHANGED <<sequence_num, payload_size, pc, previous_block, fault>>
  BY <1>1 DEF RemoveStep, Shape, addLocals
<1>3. /\ used \in Seq(Nodes) /\ free \in Seq(Nodes)
      /\ Len(used) <= BlockCount /\ Len(free) <= BlockCount
      /\ Following(next, used, blocks) /\ Following(next, free, free_list)
      /\ Parted(used, free)
  BY <1>2 DEF Shape, IsList, Following
<1>4. PICK used2 : InFront(n, used2, used) /\ Following(next, used2, next[n])
  BY <1>2, <1>3, HeadOf
<1>5. n \in Nodes /\ used2 \in Seq(Nodes)
  BY <1>4 DEF InFront
<1>6. PICK free2 : InFront(n, free, free2)
  BY <1>3, <1>5, InFrontExists
<1>7. free2 \in Seq(Nodes)
  BY <1>6 DEF InFront
<1>8. PICK m \in Nat, r \in Nat : m = Len(used2) /\ r = Len(free)
  BY <1>3, <1>5
<1>9. Len(used) = m + 1 /\ Len(free2) = r + 1
  BY <1>4, <1>6, <1>8 DEF InFront
<1>10. m + r + 1 = BlockCount
  <2>1. Len(used) + Len(free) + 0 = BlockCount
    BY <1>2, <1>3 DEF Parted, Hand
  <2> QED BY <1>8, <1>9, <2>1
<1>11. Len(used2) <= BlockCount /\ Len(free2) <= BlockCount
  BY <1>8, <1>9, <1>10
<1>12. /\ \A x : In(x, used) <=> x = n \/ In(x, used2)
       /\ Injective(used2) /\ ~ In(n, used2)
  BY <1>3, <1>4, InFrontProperties DEF Parted
<1>13. ~ In(n, free)
  BY <1>3, <1>12, ApartIn DEF Parted
<1>14. /\ \A x : In(x, free2) <=> x = n \/ In(x, free)
       /\ Injective(free2)
  BY <1>3, <1>6, <1>13, InFrontProperties DEF Parted
<1>15. Elsewhere(next, next', n) /\ next'[n] = free_list
  BY <1>2, <1>5 DEF Elsewhere, TypeOK
<1>16. Following(next', used2, blocks')
  BY <1>2, <1>4, <1>5, <1>12, <1>15, ListElsewhere
<1>17. Following(next', free2, free_list')
  <2>1. Following(next', free, next'[n])
    BY <1>3, <1>13, <1>15, ListElsewhere
  <2>2. PICK links : links = next'
    OBVIOUS
  <2>3. \A p : Following(links, free2, p) <=> p = n /\ Following(links, free, links[n])
    BY <1>6, InFrontProperties
  <2>4. Following(links, free2, n)
    BY <2>1, <2>2, <2>3
  <2> QED BY <1>2, <2>2, <2>4
<1>18. IsList(used2, blocks)' /\ IsList(free2, free_list)'
  BY <1>16, <1>17 DEF IsList, Following
<1>19. \A i \in 1 .. Len(used2) : i + 1 \in 1 .. Len(used) /\ used2[i] = used[i + 1]
  BY <1>4, <1>8, <1>9 DEF InFront
<1>20. Sorted(used2)'
  <2>1. \A i, j \in 1 .. Len(used) : i < j => sequence_num[used[i]] <= sequence_num[used[j]]
    BY DEF Shape, Sorted
  <2>2. \A i, j \in 1 .. Len(used2) : i < j => i + 1 < j + 1
    BY <1>8
  <2>3. \A i, j \in 1 .. Len(used2) : i < j => sequence_num[used2[i]] <= sequence_num[used2[j]]
    BY <1>19, <2>1, <2>2
  <2> QED BY <1>2, <2>3 DEF Sorted
<1>21. (\A i \in 1 .. Len(used2) : sequence_num[used2[i]] \in Seqs /\ payload_size[used2[i]] \in Sizes)'
  <2>1. \A i \in 1 .. Len(used) : sequence_num[used[i]] \in Seqs /\ payload_size[used[i]] \in Sizes
    BY DEF Shape
  <2>2. \A i \in 1 .. Len(used2) : sequence_num[used2[i]] \in Seqs /\ payload_size[used2[i]] \in Sizes
    BY <1>19, <2>1
  <2> QED BY <1>2, <2>2
<1>22. Parted(used2, free2)'
  <2>1. Apart(used2, free2)
    <3>1. \A x : ~ (In(x, used) /\ In(x, free))
      BY <1>3, ApartIn DEF Parted
    <3>2. \A x : ~ (In(x, used2) /\ In(x, free2))
      BY <1>12, <1>14, <3>1
    <3> QED BY <3>2, ApartIn
  <2>2. \A x \in Nodes : In(x, used2) \/ In(x, free2)
    BY <1>2, <1>3, <1>12, <1>14 DEF Parted
  <2>3. Len(used2) + Len(free2) + 0 = BlockCount
    BY <1>8, <1>9, <1>10
  <2> QED BY <1>2, <1>12, <1>14, <2>1, <2>2, <2>3 DEF Parted, Hand
<1>23. Shape(used2, free2)'
  BY <1>2, <1>5, <1>7, <1>11, <1>18, <1>20, <1>21, <1>22 DEF Shape
<1>24. Kept(used)
  BY <1>2 DEF Kept
<1> QED BY <1>4, <1>5, <1>23, <1>24 DEF Changes

\* Every step takes a pair of lists to a pair of lists.
LEMMA ListStep ==
  ASSUME NEW used, NEW free, TypeOK, Shape(used, free), [Next]_vars
  PROVE  \E used2, free2 : Shape(used2, free2)' /\ Changes(used, used2)
<1>1. CASE UNCHANGED vars \/ AddNoFree
  BY <1>1, StutterStep DEF AddNoFree
<1>2. ASSUME NEW seq \in Seqs, NEW size \in Sizes, AddTake(seq, size)
      PROVE  \E used2, free2 : Shape(used2, free2)' /\ Changes(used, used2)
  BY <1>2, AddTakeStep
<1>3. CASE AddWalk
  BY <1>3, AddWalkStep
<1>4. CASE AddLink
  BY <1>4, AddLinkStep
<1>5. ASSUME NEW count \in 0 .. BlockCount, RemoveStart(count)
      PROVE  \E used2, free2 : Shape(used2, free2)' /\ Changes(used, used2)
  BY <1>5, RemoveStartStep
<1>6. CASE RemoveStep
  BY <1>6, RemoveStepStep
<1>7. CASE RemoveEnd
  BY <1>7, RemoveEndStep
<1>8. ASSUME NEW from \in Seqs, CountStart(from)
      PROVE  \E used2, free2 : Shape(used2, free2)' /\ Changes(used, used2)
  BY <1>8, CountStartStep
<1>9. CASE CountStep
  BY <1>9, CountStepStep
<1>10. CASE CountEnd
  BY <1>10, CountEndStep
<1> QED BY <1>1, <1>2, <1>3, <1>4, <1>5, <1>6, <1>7, <1>8, <1>9, <1>10 DEF Next, Loop

\* The types are kept: the counters because the lists bound them.
LEMMA TypeStep ==
  ASSUME ListInv, [Next]_vars
  PROVE  TypeOK'
<1>1. PICK used, free : Shape(used, free)
  BY DEF ListInv
<1>2. TypeOK /\ BlockCount \in Nat /\ 0 \in 0 .. BlockCount /\ 0 \in SeqNum /\ Null \in Pointer
  BY DefaultSizeAssumption, SeqSpaceAssumption DEF ListInv, BlockCount, SeqNum, Pointer
<1>3. \A p \in Pointer : p # Null => p \in Nodes
  BY DEF Pointer
<1>4. \A n \in Nodes : n \in Pointer /\ next[n] \in Pointer
                       /\ sequence_num[n] \in SeqNum /\ payload_size[n] \in Sizes \union {0}
  BY <1>2 DEF TypeOK, Pointer
<1>5. CASE UNCHANGED vars \/ AddNoFree
  BY <1>2, <1>5 DEF AddNoFree, TypeOK, vars, nodeFields, lists, addLocals, countLocals
<1>6. ASSUME NEW seq \in Seqs, NEW size \in Sizes, AddTake(seq, size)
      PROVE  TypeOK'
  <2>1. free_list \in Nodes /\ seq \in SeqNum /\ size \in Sizes \union {0}
    BY <1>2, <1>3, <1>6, ListAssumption DEF AddTake, TypeOK
  <2>2. free_list' \in Pointer /\ blocks' \in Pointer /\ new_block' \in Pointer /\ block' \in Pointer
        /\ pc' \in {"idle", "add", "remove", "count"}
    <3>1. CASE blocks = Null
      BY <1>2, <1>4, <1>6, <2>1, <3>1 DEF AddTake, TypeOK
    <3>2. CASE blocks # Null
      BY <1>2, <1>4, <1>6, <2>1, <3>2 DEF AddTake, TypeOK
    <3> QED BY <3>1, <3>2
  <2>3. next' \in [Nodes -> Pointer] /\ sequence_num' \in [Nodes -> SeqNum]
        /\ payload_size' \in [Nodes -> Sizes \union {0}]
    BY <1>2, <1>6, <2>1 DEF AddTake, TypeOK
  <2>4. UNCHANGED <<previous_block, num_to_remove, start, num_ready, asked, fault>>
    BY <1>6 DEF AddTake, countLocals
  <2> QED BY <1>2, <2>2, <2>3, <2>4 DEF TypeOK
<1>7. CASE AddWalk
  BY <1>2, <1>3, <1>4, <1>7 DEF AddWalk, PassesBlock, TypeOK, nodeFields, lists, countLocals
<1>8. CASE AddLink
  <2>1. next' \in [Nodes -> Pointer]
    <3>1. pc = "add" /\ ~ fault
      BY <1>1, <1>8 DEF AddLink, Shape
    <3>2. new_block \in Nodes /\ new_block \in Pointer /\ block \in Pointer
      BY <1>1, <1>2, <1>4, <3>1 DEF Shape, Parted, TypeOK
    <3>3. CASE previous_block = Null
      BY <1>2, <1>8, <3>2, <3>3 DEF AddLink, TypeOK
    <3>4. CASE previous_block # Null
      BY <1>2, <1>3, <1>8, <3>2, <3>4 DEF AddLink, TypeOK
    <3> QED BY <3>3, <3>4
  <2>2. fault' \in BOOLEAN
    BY <1>2, <1>8 DEF AddLink, TypeOK
  <2> QED BY <1>2, <1>8, <2>1, <2>2 DEF AddLink, TypeOK, lists, countLocals
<1>9. ASSUME NEW count \in 0 .. BlockCount, RemoveStart(count)
      PROVE  TypeOK'
  BY <1>2, <1>9 DEF RemoveStart, TypeOK, nodeFields, lists, addLocals, countLocals
<1>10. CASE RemoveStep
  <2>1. block \in Nodes /\ free_list \in Pointer /\ next[block] \in Pointer
    BY <1>2, <1>3, <1>4, <1>10 DEF RemoveStep, TypeOK
  <2>2. next' \in [Nodes -> Pointer] /\ blocks' \in Pointer /\ free_list' \in Pointer
        /\ block' \in Pointer
    BY <1>2, <1>4, <1>10, <2>1 DEF RemoveStep, TypeOK
  <2>3. num_to_remove' \in 0 .. BlockCount
    BY <1>2, <1>10 DEF RemoveStep, TypeOK
  <2> QED BY <1>2, <1>10, <2>2, <2>3 DEF RemoveStep, TypeOK, addLocals, countLocals
<1>11. CASE RemoveEnd
  BY <1>2, <1>11 DEF RemoveEnd, TypeOK, nodeFields, lists, addLocals, countLocals
<1>12. ASSUME NEW from \in Seqs, CountStart(from)
      PROVE  TypeOK'
  <2>1. from \in SeqNum
    BY ListAssumption
  <2> QED BY <1>2, <1>12, <2>1 DEF CountStart, TypeOK, nodeFields, lists, addLocals
<1>13. CASE CountStep
  <2>1. used \in Seq(Nodes) /\ Counting(used) /\ Len(used) <= BlockCount /\ block # Null
    BY <1>1, <1>13 DEF Shape, CountStep, BlockIsReady
  <2>2. block \in Nodes
    BY <1>2, <1>3, <2>1 DEF TypeOK
  <2>3. num_ready' \in 0 .. BlockCount
    <3>1. num_ready + 1 \in 0 .. Len(used) /\ Len(used) \in Nat
      BY <2>1, CountedBlock
    <3>2. num_ready' = num_ready + 1
      BY <1>13 DEF CountStep
    <3> QED BY <1>2, <2>1, <3>1, <3>2
  <2>4. start' \in SeqNum
    <3>1. sequence_num[block] \in Nat /\ payload_size[block] \in Nat
      <4>1. sequence_num[block] \in SeqNum /\ payload_size[block] \in Sizes \union {0}
        BY <1>4, <2>2
      <4>2. \A x \in SeqNum : x \in Nat
        BY SeqSpaceAssumption DEF SeqNum
      <4>3. \A x \in Sizes \union {0} : x \in Nat
        BY ListAssumption
      <4> QED BY <4>1, <4>2, <4>3
    <3>2. Plus(sequence_num[block], payload_size[block]) \in SeqNum
      BY <3>1, PlusType
    <3> QED BY <1>13, <3>2 DEF CountStep
  <2>5. block' \in Pointer
    BY <1>4, <1>13, <2>2 DEF CountStep
  <2> QED BY <1>2, <1>13, <2>3, <2>4, <2>5 DEF CountStep, TypeOK, nodeFields, lists, addLocals
<1>14. CASE CountEnd
  BY <1>2, <1>14 DEF CountEnd, TypeOK, nodeFields, lists, addLocals
<1> QED BY <1>5, <1>6, <1>7, <1>8, <1>9, <1>10, <1>11, <1>12, <1>13, <1>14 DEF Next, Loop

-----------------------------------------------------------------------------
(* The invariant holds *)

LEMMA ListInit ==
  ASSUME Init
  PROVE  ListInv
<1>1. PICK free : free = [i \in 1 .. BlockCount |-> i - 1]
  OBVIOUS
<1>2. DefaultSize \in Nat /\ BlockCount = DefaultSize + 1 /\ Nodes = 0 .. DefaultSize
  BY DefaultSizeAssumption DEF BlockCount, Nodes
<1>3. free \in [1 .. BlockCount -> Nodes]
  BY <1>1, <1>2
<1>4. free \in Seq(Nodes) /\ Len(free) = BlockCount
  BY <1>2, <1>3
<1>5. \A i \in 1 .. BlockCount : free[i] = i - 1
  BY <1>1
<1>6. \A n \in Nodes : In(n, free)
  <2> TAKE n \in Nodes
  <2>1. n + 1 \in 1 .. BlockCount /\ (n + 1) - 1 = n
    BY <1>2
  <2> QED BY <1>4, <1>5, <2>1 DEF In
<1>7. IsList(free, free_list)
  <2>1. free_list = NodeAt(free, 1)
    BY <1>2, <1>4, <1>5 DEF NodeAt, Init
  <2>2. ASSUME NEW i \in 1 .. Len(free) PROVE next[free[i]] = NodeAt(free, i + 1)
    <3>1. free[i] = i - 1 /\ i - 1 \in Nodes /\ i \in 1 .. BlockCount
      BY <1>2, <1>4, <1>5
    <3>2. next[i - 1] = IF i - 1 = DefaultSize THEN Null ELSE (i - 1) + 1
      BY <3>1 DEF Init
    <3>3. CASE i = BlockCount
      BY <1>2, <1>4, <3>1, <3>2, <3>3 DEF NodeAt
    <3>4. CASE i # BlockCount
      <4>1. i + 1 \in 1 .. BlockCount /\ i + 1 <= Len(free) /\ (i + 1) - 1 = (i - 1) + 1 /\ i - 1 # DefaultSize
        BY <1>2, <1>4, <3>1, <3>4
      <4> QED BY <1>5, <3>1, <3>2, <4>1 DEF NodeAt
    <3> QED BY <3>3, <3>4
  <2> QED BY <2>1, <2>2 DEF IsList
<1>8. <<>> \in Seq(Nodes) /\ Len(<<>>) = 0 /\ 1 .. Len(<<>>) = {}
  OBVIOUS
<1>9. IsList(<<>>, blocks) /\ Sorted(<<>>)
  BY <1>8 DEF IsList, NodeAt, Sorted, Init
<1>10. Parted(<<>>, free)
  <2>1. Injective(<<>>) /\ Injective(free) /\ Apart(<<>>, free)
    BY <1>4, <1>5, <1>8 DEF Injective, Apart
  <2>2. Len(<<>>) + Len(free) + 0 = BlockCount
    BY <1>2, <1>4, <1>8
  <2> QED BY <1>6, <2>1, <2>2 DEF Parted, Hand, Init
<1>11. Shape(<<>>, free)
  BY <1>2, <1>4, <1>7, <1>8, <1>9, <1>10 DEF Shape, Init
<1>12. TypeOK
  <2>1. 0 \in SeqNum /\ 0 \in Nodes /\ 0 \in 0 .. BlockCount /\ 0 \in Sizes \union {0}
    BY <1>2, SeqSpaceAssumption DEF SeqNum
  <2>2. [n \in Nodes |-> IF n = DefaultSize THEN Null ELSE n + 1] \in [Nodes -> Pointer]
    BY <1>2 DEF Pointer
  <2> QED BY <2>1, <2>2 DEF TypeOK, Init, Pointer
<1> QED BY <1>11, <1>12 DEF ListInv

(***************************************************************************)
(* The inductive invariant: behind `blocks` and `free_list` there are two  *)
(* lists, the used one sorted, that share no node and miss none, and the   *)
(* loop under way stands where its locals say.                             *)
(***************************************************************************)
THEOREM ListInvariant == Spec => []ListInv
<1>1. Init => ListInv
  BY ListInit
<1>2. ListInv /\ [Next]_vars => ListInv'
  <2> SUFFICES ASSUME ListInv, [Next]_vars PROVE ListInv'
    OBVIOUS
  <2>1. PICK used, free : Shape(used, free)
    BY DEF ListInv
  <2>2. TypeOK /\ TypeOK'
    BY TypeStep DEF ListInv
  <2>3. PICK used2, free2 : Shape(used2, free2)'
    BY <2>1, <2>2, ListStep
  <2> QED BY <2>2, <2>3 DEF ListInv
<1> QED BY <1>1, <1>2, PTL DEF Spec

\* The contents read along any links
ReadFrom(links, key, size, p) ==
  [i \in 1 .. Len(FoundFrom(links, p)) |->
     [seq |-> key[FoundFrom(links, p)[i]], size |-> size[FoundFrom(links, p)[i]]]]

LEMMA ContentsRead ==
  /\ Contents(blocks) = ReadFrom(next, sequence_num, payload_size, blocks)
  /\ Contents(blocks)' = ReadFrom(next', sequence_num', payload_size', blocks')
BY DEF Contents, ReadFrom, FoundFrom, Following, ListFrom, IsList

\* The lists of the invariant are those that the links lead to.
LEMMA ShapeLists ==
  ASSUME NEW used, NEW free, Shape(used, free)
  PROVE  ListFrom(blocks) = used /\ ListFrom(free_list) = free /\ Contents(blocks) = Data(used)
<1>1. FoundFrom(next, blocks) = used /\ FoundFrom(next, free_list) = free
  <2>1. Following(next, used, blocks) /\ Following(next, free, free_list)
    BY DEF Shape, IsList, Following
  <2> QED BY <2>1, Found DEF Shape
<1>2. ListFrom(blocks) = FoundFrom(next, blocks) /\ ListFrom(free_list) = FoundFrom(next, free_list)
  BY DEF ListFrom, FoundFrom, IsList, Following
<1>3. Contents(blocks) = Data(used)
  BY <1>1, ContentsRead DEF ReadFrom, Data
<1> QED BY <1>1, <1>2, <1>3

LEMMA ShapeListsPrimed ==
  ASSUME NEW used, NEW free, Shape(used, free)'
  PROVE  Contents(blocks)' = Data(used)'
<1>1. FoundFrom(next', blocks') = used
  <2>1. Following(next', used, blocks')
    BY DEF Shape, IsList, Following
  <2>2. used \in Seq(Nodes) /\ Len(used) <= BlockCount
    BY DEF Shape
  <2> QED BY <2>1, <2>2, Found
<1> QED BY <1>1, ContentsRead DEF ReadFrom, Data

-----------------------------------------------------------------------------
(* What it says *)

\* Two lists and what is in hand, one behind the other.
LEMMA Together ==
  ASSUME NEW a \in Seq(Nodes), NEW b \in Seq(Nodes), NEW c \in Seq(Nodes)
  PROVE  /\ Len(a \o b \o c) = Len(a) + Len(b) + Len(c)
         /\ \A x : x \in Range(a \o b \o c) <=> In(x, a) \/ In(x, b) \/ In(x, c)
<1>1. PICK l \in Nat, m \in Nat, n \in Nat : l = Len(a) /\ m = Len(b) /\ n = Len(c)
  OBVIOUS
<1>2. PICK all : all = a \o b \o c
  OBVIOUS
<1>3. /\ all \in Seq(Nodes) /\ Len(all) = l + m + n
      /\ \A i \in 1 .. l : all[i] = a[i]
      /\ \A i \in 1 .. m : all[l + i] = b[i]
      /\ \A i \in 1 .. n : all[l + m + i] = c[i]
  <2>1. PICK ab : ab = a \o b
    OBVIOUS
  <2>2. /\ ab \in Seq(Nodes) /\ Len(ab) = l + m
        /\ \A i \in 1 .. l : ab[i] = a[i]
        /\ \A i \in 1 .. m : ab[l + i] = b[i]
    BY <1>1, <2>1
  <2>3. /\ all \in Seq(Nodes) /\ Len(all) = l + m + n
        /\ \A i \in 1 .. l + m : all[i] = ab[i]
        /\ \A i \in 1 .. n : all[l + m + i] = c[i]
    BY <1>1, <1>2, <2>1, <2>2
  <2>4. \A i \in 1 .. l : i \in 1 .. l + m
    OBVIOUS
  <2>5. \A i \in 1 .. m : l + i \in 1 .. l + m
    OBVIOUS
  <2> QED BY <2>2, <2>3, <2>4, <2>5
<1>4. DOMAIN all = 1 .. l + m + n
  BY <1>3
<1>5. \A x : x \in Range(all) <=> \E i \in 1 .. l + m + n : all[i] = x
  BY <1>4 DEF Range
<1>6. ASSUME NEW x, NEW i \in 1 .. l + m + n, all[i] = x
      PROVE  In(x, a) \/ In(x, b) \/ In(x, c)
  <2>1. CASE i <= l
    BY <1>1, <1>3, <1>6, <2>1 DEF In
  <2>2. CASE i > l /\ i <= l + m
    <3>1. i - l \in 1 .. m /\ l + (i - l) = i
      BY <2>2
    <3>2. all[l + (i - l)] = b[i - l]
      BY <1>3, <3>1
    <3> QED BY <1>1, <1>6, <3>1, <3>2 DEF In
  <2>3. CASE i > l + m
    <3>1. i - (l + m) \in 1 .. n /\ l + m + (i - (l + m)) = i
      BY <2>3
    <3>2. all[l + m + (i - (l + m))] = c[i - (l + m)]
      BY <1>3, <3>1
    <3> QED BY <1>1, <1>6, <3>1, <3>2 DEF In
  <2> QED BY <2>1, <2>2, <2>3
<1>7. ASSUME NEW x, In(x, a) \/ In(x, b) \/ In(x, c)
      PROVE  \E i \in 1 .. l + m + n : all[i] = x
  <2>1. CASE In(x, a)
    <3>1. PICK i \in 1 .. l : a[i] = x
      BY <1>1, <2>1 DEF In
    <3>2. i \in 1 .. l + m + n
      OBVIOUS
    <3> QED BY <1>3, <3>1, <3>2
  <2>2. CASE In(x, b)
    <3>1. PICK i \in 1 .. m : b[i] = x
      BY <1>1, <2>2 DEF In
    <3>2. l + i \in 1 .. l + m + n
      OBVIOUS
    <3> QED BY <1>3, <3>1, <3>2
  <2>3. CASE In(x, c)
    <3>1. PICK i \in 1 .. n : c[i] = x
      BY <1>1, <2>3 DEF In
    <3>2. l + m + i \in 1 .. l + m + n
      OBVIOUS
    <3> QED BY <1>3, <3>1, <3>2
  <2> QED BY <1>7, <2>1, <2>2, <2>3
<1> QED BY <1>1, <1>2, <1>3, <1>5, <1>6, <1>7

LEMMA InvPartitioned ==
  ASSUME NEW used, NEW free, Shape(used, free)
  PROVE  BlocksPartitioned
<1>1. ListFrom(blocks) = used /\ ListFrom(free_list) = free
  BY ShapeLists
<1> SUFFICES ASSUME ~ fault
             PROVE  LET inHand == IF pc = "add" THEN <<new_block>> ELSE <<>>
                        all == used \o free \o inHand
                    IN  Len(all) = BlockCount /\ Range(all) = Nodes
  BY <1>1 DEF BlocksPartitioned
<1>2. PICK hand : hand = IF pc = "add" THEN <<new_block>> ELSE <<>>
  OBVIOUS
<1>3. used \in Seq(Nodes) /\ free \in Seq(Nodes) /\ Parted(used, free)
  BY DEF Shape
<1>4. hand \in Seq(Nodes) /\ Len(hand) = Hand
      /\ \A x : In(x, hand) <=> pc = "add" /\ x = new_block
  <2>1. CASE pc = "add"
    <3>1. hand = <<new_block>> /\ new_block \in Nodes
      BY <1>2, <1>3, <2>1 DEF Parted
    <3>2. hand \in Seq(Nodes) /\ Len(hand) = 1 /\ hand[1] = new_block
      BY <3>1
    <3> QED BY <2>1, <3>2 DEF Hand, In
  <2>2. CASE pc # "add"
    <3>1. hand = <<>> /\ hand \in Seq(Nodes) /\ Len(hand) = 0
      BY <1>2, <2>2
    <3> QED BY <2>2, <3>1 DEF Hand, In
  <2> QED BY <2>1, <2>2
<1>5. /\ Len(used \o free \o hand) = Len(used) + Len(free) + Len(hand)
      /\ \A x : x \in Range(used \o free \o hand) <=> In(x, used) \/ In(x, free) \/ In(x, hand)
  BY <1>3, <1>4, Together
<1>6. Len(used \o free \o hand) = BlockCount
  BY <1>3, <1>4, <1>5 DEF Parted
<1>7. \A x : In(x, used) \/ In(x, free) \/ In(x, hand) => x \in Nodes
  BY <1>3, <1>4 DEF In
<1>8. \A x \in Nodes : In(x, used) \/ In(x, free) \/ In(x, hand)
  BY <1>3, <1>4 DEF Parted
<1>9. Range(used \o free \o hand) = Nodes
  BY <1>5, <1>7, <1>8
<1> QED BY <1>2, <1>6, <1>9

(***************************************************************************)
(* The lists of tcp_block_buffer.c are well-formed between any two steps   *)
(* of its functions: no block is lost, linked twice or in both lists, and  *)
(* the used ones are in sequence-number order.                             *)
(***************************************************************************)
THEOREM ListWellFormedAlways == Spec => []ListWellFormed
<1>1. ListInv => ListWellFormed
  <2> SUFFICES ASSUME ListInv PROVE ListWellFormed
    OBVIOUS
  <2>1. PICK used, free : Shape(used, free)
    BY DEF ListInv
  <2>2. BlocksPartitioned
    BY <2>1, InvPartitioned
  <2>3. Contents(blocks) = Data(used)
    BY <2>1, ShapeLists
  <2>4. InOrder(Data(used))
    <3>1. PICK m \in Nat : m = Len(used)
      BY <2>1 DEF Shape
    <3>2. PICK data : data = Data(used)
      OBVIOUS
    <3>3. data = [i \in 1 .. m |-> [seq |-> sequence_num[used[i]], size |-> payload_size[used[i]]]]
      BY <3>1, <3>2 DEF Data
    <3>4. Len(data) = m /\ \A i \in 1 .. m : data[i].seq = sequence_num[used[i]]
      BY <3>3
    <3>5. \A i, j \in 1 .. m : i < j => sequence_num[used[i]] <= sequence_num[used[j]]
      BY <2>1, <3>1 DEF Shape, Sorted
    <3> QED BY <3>2, <3>4, <3>5 DEF InOrder
  <2> QED BY <2>2, <2>3, <2>4 DEF ListWellFormed, ListSorted, ListInv
<1> QED BY <1>1, ListInvariant, PTL

-----------------------------------------------------------------------------
(* The count of ready blocks *)

LEMMA OnePrefixLength ==
  ASSUME NEW n \in Nat, NEW S, NEW k \in 0 .. n, 1 .. k \subseteq S, k < n => k + 1 \notin S
  PROVE  PrefixLength(n, S) = k
<1>1. PICK p \in 0 .. n : p = PrefixLength(n, S)
  BY PrefixLengthRun
<1>2. 1 .. p \subseteq S /\ (p < n => p + 1 \notin S)
  BY <1>1, PrefixLengthRun
<1>3. ~ (k < p)
  <2> SUFFICES ASSUME k < p PROVE FALSE
    OBVIOUS
  <2>1. k < n /\ k + 1 \in 1 .. p
    OBVIOUS
  <2> QED BY <1>2, <2>1
<1>4. ~ (p < k)
  <2> SUFFICES ASSUME p < k PROVE FALSE
    OBVIOUS
  <2>1. p < n /\ p + 1 \in 1 .. k
    OBVIOUS
  <2> QED BY <1>2, <2>1
<1> QED BY <1>1, <1>3, <1>4

\* The blocks of a list of nodes.
LEMMA DataOf ==
  ASSUME NEW used \in Seq(Nodes)
  PROVE  /\ Len(Data(used)) = Len(used)
         /\ \A i \in 1 .. Len(used) :
              /\ Data(used)[i] = [seq |-> sequence_num[used[i]], size |-> payload_size[used[i]]]
              /\ Data(used)[i].seq = sequence_num[used[i]]
              /\ Data(used)[i].size = payload_size[used[i]]
<1>1. PICK m \in Nat : m = Len(used)
  OBVIOUS
<1>2. PICK data : data = Data(used)
  OBVIOUS
<1>3. data = [i \in 1 .. m |-> [seq |-> sequence_num[used[i]], size |-> payload_size[used[i]]]]
  BY <1>1, <1>2 DEF Data
<1>4. Len(data) = m
  BY <1>3
<1> QED BY <1>1, <1>2, <1>3, <1>4

(***************************************************************************)
(* tcp_block_buffer_num_ready returns the number of blocks that follow     *)
(* each other from the start it was asked about, no fewer and no more.     *)
(***************************************************************************)
THEOREM CountsTheReadyRunAlways == Spec => CountsTheReadyRun
<1>1. ASSUME ListInv, CountEnd PROVE num_ready = NumReady(Contents(blocks), asked)
  <2>1. PICK used, free : Shape(used, free)
    BY <1>1 DEF ListInv
  <2>2. used \in Seq(Nodes) /\ Counting(used) /\ ~ BlockIsReady
    BY <1>1, <2>1 DEF Shape, CountEnd
  <2>3. PICK data : data = Data(used)
    OBVIOUS
  <2>4. PICK m \in Nat : m = Len(used)
    BY <2>2
  <2>5. Contents(blocks) = data /\ Len(data) = m
        /\ \A i \in 1 .. m : data[i].seq = sequence_num[used[i]]
    BY <2>1, <2>2, <2>3, <2>4, ShapeLists, DataOf
  <2>6. PICK k \in 0 .. m : k = num_ready
    BY <2>2, <2>4 DEF Counting
  <2>7. block = NodeAt(used, k + 1) /\ start = StartOf(data, asked, k + 1)
        /\ \A i \in 1 .. k : Follows(data, asked, i)
    BY <2>2, <2>3, <2>6 DEF Counting
  <2> DEFINE S == {i \in 1 .. m : Follows(data, asked, i)}
  <2>8. 1 .. k \subseteq S
    BY <2>7
  <2>9. k < m => k + 1 \notin S
    <3> SUFFICES ASSUME k < m PROVE ~ Follows(data, asked, k + 1)
      OBVIOUS
    <3>1. k + 1 \in 1 .. m /\ k + 1 <= Len(used)
      BY <2>4
    <3>2. block = used[k + 1] /\ block # Null
      BY <2>2, <2>4, <2>7, <3>1, ListAssumption DEF NodeAt
    <3>3. data[k + 1].seq = sequence_num[block]
      BY <2>5, <3>1, <3>2
    <3> QED BY <2>2, <2>7, <3>2, <3>3 DEF BlockIsReady, Follows
  <2> HIDE DEF S
  <2>10. PrefixLength(m, S) = k
    BY <2>8, <2>9, OnePrefixLength
  <2> QED BY <2>5, <2>6, <2>10 DEF NumReady, S
<1>2. ListInv => [CountEnd => num_ready = NumReady(Contents(blocks), asked)]_vars
  BY <1>1
<1> QED BY <1>2, ListInvariant, PTL DEF Spec, CountsTheReadyRun

-----------------------------------------------------------------------------
(* The list implements the buffer *)

\* The operators of the abstract specification are those of TcpBlockBuffer.
LEMMA AbstractOperators ==
  /\ Abstract!BlockSet = [seq : Seqs, size : Sizes]
  /\ \A buf : Abstract!HasFree(buf) <=> HasFree(buf)
  /\ \A buf, seq : Abstract!AddFaults(buf, seq) <=> AddFaults(buf, seq)
  /\ \A buf, b : Abstract!Add(buf, b) = Add(buf, b)
  /\ \A buf, n : Abstract!RemoveFront(buf, n) = RemoveFront(buf, n)
<1>1. Abstract!BlockSet = [seq : Seqs, size : Sizes]
  BY DEF Abstract!BlockSet
<1>2. Abstract!BlockCount = BlockCount
  BY DEF Abstract!BlockCount, BlockCount
<1>3. \A buf : Abstract!HasFree(buf) <=> HasFree(buf)
  BY <1>2 DEF Abstract!HasFree, HasFree
<1>4. \A n, S : Abstract!PrefixLength(n, S) = PrefixLength(n, S)
  BY DEF Abstract!PrefixLength, PrefixLength
<1>5. \A buf, seq : Abstract!WalkedPast(buf, seq) = WalkedPast(buf, seq)
  BY <1>4 DEF Abstract!WalkedPast, WalkedPast
<1>6. \A buf, seq : Abstract!AddFaults(buf, seq) <=> AddFaults(buf, seq)
  BY <1>3, <1>5 DEF Abstract!AddFaults, AddFaults
<1>7. \A buf, b : Abstract!Add(buf, b) = Add(buf, b)
  BY <1>3, <1>5 DEF Abstract!Add, Add, Abstract!InsertAt, InsertAt
<1>8. \A buf, n : Abstract!RemoveFront(buf, n) = RemoveFront(buf, n)
  BY DEF Abstract!RemoveFront, RemoveFront
<1> QED BY <1>1, <1>3, <1>6, <1>7, <1>8

LEMMA FunctionIsSeq ==
  ASSUME NEW B, NEW m \in Nat, NEW f \in [1 .. m -> B]
  PROVE  f \in Seq(B) /\ Len(f) = m
OBVIOUS

\* `new` is `old` with b put behind the k blocks the search walked past.
PutBehind(B, old, new, b, k) ==
  /\ old \in Seq(B) /\ new \in Seq(B) /\ b \in B /\ k \in 0 .. Len(old)
  /\ Len(old) < BlockCount /\ Len(new) = Len(old) + 1
  /\ \A i \in 1 .. k : b.seq >= old[i].seq
  /\ k < Len(old) => ~ (b.seq >= old[k + 1].seq)
  /\ new[k + 1] = b
  /\ \A i \in 1 .. k : new[i] = old[i]
  /\ \A i \in k + 1 .. Len(old) : new[i + 1] = old[i]

\* tcp_block_buffer_add makes `new` of `old`, and its search walks past k blocks.
AddMakes(old, new, b, k) ==
  HasFree(old) /\ WalkedPast(old, b.seq) = k /\ new = Add(old, b)

\* What tcp_block_buffer_add computes, element by element.
LEMMA AddIs ==
  ASSUME NEW B, NEW old, NEW new, NEW b, NEW k, PutBehind(B, old, new, b, k)
  PROVE  AddMakes(old, new, b, k)
<1>0. /\ old \in Seq(B) /\ new \in Seq(B) /\ b \in B /\ k \in 0 .. Len(old)
      /\ Len(old) < BlockCount /\ Len(new) = Len(old) + 1
      /\ \A i \in 1 .. k : b.seq >= old[i].seq
      /\ k < Len(old) => ~ (b.seq >= old[k + 1].seq)
      /\ new[k + 1] = b
      /\ \A i \in 1 .. k : new[i] = old[i]
      /\ \A i \in k + 1 .. Len(old) : new[i + 1] = old[i]
  BY Zenon DEF PutBehind
<1>1. PICK m \in Nat : m = Len(old)
  BY <1>0
<1>2. HasFree(old)
  BY <1>0 DEF HasFree
<1>3. WalkedPast(old, b.seq) = k
  <2> DEFINE S == {i \in 1 .. m : b.seq >= old[i].seq}
  <2>1. k \in 0 .. m /\ 1 .. k \subseteq S /\ (k < m => k + 1 \notin S)
    BY <1>0, <1>1
  <2> HIDE DEF S
  <2>2. PrefixLength(m, S) = k
    BY <2>1, OnePrefixLength
  <2> QED BY <1>1, <2>2 DEF WalkedPast, S
<1>4. PICK at : at = k + 1
  OBVIOUS
<1>5. at \in 1 .. m + 1 /\ at \in 1 .. Len(old) + 1 /\ k \in 0 .. m
  BY <1>0, <1>1, <1>4
<1>6. PICK ins : ins = InsertAt(old, at, b)
  OBVIOUS
<1>7. /\ ins \in Seq(B) /\ Len(ins) = m + 1
      /\ \A j \in 1 .. m + 1 : ins[j] = IF j < at THEN old[j] ELSE IF j = at THEN b ELSE old[j - 1]
  <2>1. /\ InsertAt(old, at, b) \in Seq(B) /\ Len(InsertAt(old, at, b)) = Len(old) + 1
        /\ \A j \in 1 .. Len(old) + 1 :
             InsertAt(old, at, b)[j] = IF j < at THEN old[j] ELSE IF j = at THEN b ELSE old[j - 1]
    BY <1>0, <1>5, InsertAtElements
  <2> QED BY <1>1, <1>6, <2>1
<1>8. ASSUME NEW j \in 1 .. m + 1 PROVE new[j] = ins[j]
  <2>1. CASE j < at
    <3>1. j \in 1 .. k
      BY <1>0, <1>4, <1>5, <2>1
    <3> QED BY <1>0, <1>7, <2>1, <3>1
  <2>2. CASE j = at
    BY <1>0, <1>4, <1>5, <1>7, <2>2
  <2>3. CASE j > at
    <3>1. j - 1 \in k + 1 .. m /\ (j - 1) + 1 = j /\ ~ (j < at) /\ j # at
      BY <1>4, <1>5, <2>3
    <3>2. new[(j - 1) + 1] = old[j - 1]
      BY <1>0, <1>1, <3>1
    <3> QED BY <1>7, <3>1, <3>2
  <2> QED BY <1>5, <2>1, <2>2, <2>3
<1>9. new \in [1 .. m + 1 -> B] /\ ins \in [1 .. m + 1 -> B]
  <2>1. new \in [1 .. Len(new) -> B] /\ ins \in [1 .. Len(ins) -> B]
    BY <1>0, <1>7
  <2> QED BY <1>0, <1>1, <1>7, <2>1
<1>10. new = ins
  BY <1>8, <1>9
<1>11. new = Add(old, b)
  BY <1>2, <1>3, <1>4, <1>6, <1>10 DEF Add
<1> QED BY <1>2, <1>3, <1>11 DEF AddMakes

\* `new` is `old` without the block in front.
TakenOff(B, old, new) ==
  /\ old \in Seq(B) /\ new \in Seq(B) /\ Len(old) = Len(new) + 1
  /\ \A i \in 1 .. Len(new) : old[i + 1] = new[i]

\* What removing one block at the front computes, element by element.
LEMMA RemoveFrontIs ==
  ASSUME NEW B, NEW old, NEW new, TakenOff(B, old, new)
  PROVE  old # <<>> /\ new = RemoveFront(old, 1)
<1> USE DEF TakenOff
<1>1. PICK m \in Nat : m = Len(new)
  OBVIOUS
<1>2. Len(old) = m + 1 /\ old # <<>>
  BY <1>1
<1>3. PICK rest : rest = SubSeq(old, 2, m + 1)
  OBVIOUS
<1>4. /\ rest \in Seq(B) /\ Len(rest) = m
      /\ \A i \in 1 .. m : rest[i] = old[i + 1]
  BY <1>2, <1>3
<1>5. \A i \in 1 .. m : rest[i] = new[i]
  BY <1>1, <1>4
<1>6. new \in [1 .. m -> B] /\ rest \in [1 .. m -> B]
  <2>1. new \in [1 .. Len(new) -> B] /\ rest \in [1 .. Len(rest) -> B]
    BY <1>4
  <2> QED BY <1>1, <1>4, <2>1
<1>7. new = rest
  BY <1>5, <1>6
<1>8. 1 + 1 = 2
  OBVIOUS
<1> QED BY <1>2, <1>3, <1>7, <1>8 DEF RemoveFront

\* A list of blocks, now and after the step.
LEMMA DataBlocks ==
  ASSUME NEW used, NEW free, Shape(used, free)
  PROVE  Data(used) \in Seq([seq : Seqs, size : Sizes])
<1>1. PICK m \in Nat : m = Len(used)
  BY DEF Shape
<1>2. \A i \in 1 .. m : [seq |-> sequence_num[used[i]], size |-> payload_size[used[i]]]
                          \in [seq : Seqs, size : Sizes]
  BY <1>1 DEF Shape
<1>3. Data(used) \in [1 .. m -> [seq : Seqs, size : Sizes]]
  BY <1>1, <1>2 DEF Data
<1> QED BY <1>3, FunctionIsSeq

LEMMA DataBlocksPrimed ==
  ASSUME NEW used, NEW free, Shape(used, free)'
  PROVE  /\ Data(used)' \in Seq([seq : Seqs, size : Sizes])
         /\ Len(Data(used)') = Len(used)
         /\ \A i \in 1 .. Len(used) :
              Data(used)'[i] = [seq |-> sequence_num'[used[i]], size |-> payload_size'[used[i]]]
<1>1. PICK m \in Nat : m = Len(used)
  BY DEF Shape
<1>2. \A i \in 1 .. m : [seq |-> sequence_num'[used[i]], size |-> payload_size'[used[i]]]
                          \in [seq : Seqs, size : Sizes]
  BY <1>1 DEF Shape
<1>3. PICK data : data = Data(used)'
  OBVIOUS
<1>4. data = [i \in 1 .. m |-> [seq |-> sequence_num'[used[i]], size |-> payload_size'[used[i]]]]
  BY <1>1, <1>3 DEF Data
<1>5. data \in [1 .. m -> [seq : Seqs, size : Sizes]]
  BY <1>2, <1>4
<1>6. data \in Seq([seq : Seqs, size : Sizes]) /\ Len(data) = m
  BY <1>5, FunctionIsSeq
<1> QED BY <1>1, <1>3, <1>4, <1>6

\* What a step does to the list it does to the buffer.
LEMMA BufferStep ==
  ASSUME NEW used, NEW free, NEW used2, NEW free2,
         Shape(used, free), Shape(used2, free2)', Changes(used, used2)
  PROVE  [Abstract!Next]_(Contents(blocks))
<1> DEFINE B == [seq : Seqs, size : Sizes]
<1>1. PICK old, new : old = Contents(blocks) /\ new = Contents(blocks)'
  OBVIOUS
<1>2. old = Data(used) /\ new = Data(used2)'
  BY <1>1, ShapeLists, ShapeListsPrimed
<1>3. used \in Seq(Nodes) /\ used2 \in Seq(Nodes)
  BY DEF Shape
<1>4. PICK m \in Nat, m2 \in Nat : m = Len(used) /\ m2 = Len(used2)
  BY <1>3
<1>5. /\ old \in Seq(B) /\ Len(old) = m
      /\ \A i \in 1 .. m : old[i] = [seq |-> sequence_num[used[i]], size |-> payload_size[used[i]]]
                        /\ old[i].seq = sequence_num[used[i]]
  BY <1>2, <1>3, <1>4, DataBlocks, DataOf
<1>6. /\ new \in Seq(B) /\ Len(new) = m2
      /\ \A i \in 1 .. m2 : new[i] = [seq |-> sequence_num'[used2[i]], size |-> payload_size'[used2[i]]]
  BY <1>2, <1>4, DataBlocksPrimed
<1>7. \A i \in 1 .. m : old[i] = [seq |-> sequence_num'[used[i]], size |-> payload_size'[used[i]]]
  BY <1>4, <1>5 DEF Changes, Kept
<1> HIDE DEF B
<1>8. CASE used2 = used
  <2>1. old \in [1 .. m -> B] /\ new \in [1 .. m -> B]
    <3>1. old \in [1 .. Len(old) -> B] /\ new \in [1 .. Len(new) -> B]
      BY <1>5, <1>6
    <3> QED BY <1>4, <1>5, <1>6, <1>8, <3>1
  <2>2. \A i \in 1 .. m : old[i] = new[i]
    BY <1>4, <1>6, <1>7, <1>8
  <2>3. new = old
    BY <2>1, <2>2
  <2> QED BY <1>1, <2>3
<1>9. ASSUME NEW n \in Nodes, NEW k \in 0 .. Len(used),
             Inserted(n, used, k, used2), Len(used) < BlockCount, used = <<>> \/ k > 0,
             sequence_num'[n] \in Seqs, payload_size'[n] \in Sizes,
             \A i \in 1 .. k : sequence_num'[n] >= sequence_num[used[i]],
             k < Len(used) => ~ (sequence_num'[n] >= sequence_num[used[k + 1]])
      PROVE  Abstract!Next
  <2>1. PICK b : b = [seq |-> sequence_num'[n], size |-> payload_size'[n]]
    OBVIOUS
  <2>2. b \in B /\ b.seq = sequence_num'[n]
    BY <1>9, <2>1 DEF B
  <2>3. /\ k \in 0 .. m /\ m2 = m + 1 /\ used2[k + 1] = n
        /\ \A i \in 1 .. k : used2[i] = used[i]
        /\ \A i \in k + 1 .. m : used2[i + 1] = used[i]
    BY <1>4, <1>9 DEF Inserted
  <2>4. new[k + 1] = b
    <3>1. k + 1 \in 1 .. m2
      BY <2>3
    <3> QED BY <1>6, <2>1, <2>3, <3>1
  <2>5. \A i \in 1 .. k : new[i] = old[i]
    <3>1. \A i \in 1 .. k : i \in 1 .. m /\ i \in 1 .. m2
      BY <2>3
    <3> QED BY <1>6, <1>7, <2>3, <3>1
  <2>6. \A i \in k + 1 .. m : new[i + 1] = old[i]
    <3>1. \A i \in k + 1 .. m : i \in 1 .. m /\ i + 1 \in 1 .. m2
      BY <2>3
    <3> QED BY <1>6, <1>7, <2>3, <3>1
  <2>7. /\ \A i \in 1 .. k : b.seq >= old[i].seq
        /\ k < m => ~ (b.seq >= old[k + 1].seq)
    <3>1. \A i \in 1 .. k : i \in 1 .. m
      BY <2>3
    <3>2. k < m => k + 1 \in 1 .. m
      BY <2>3
    <3> QED BY <1>4, <1>5, <1>9, <2>2, <3>1, <3>2
  <2>8. HasFree(old) /\ WalkedPast(old, b.seq) = k /\ new = Add(old, b)
    <3>1. old \in Seq(B) /\ new \in Seq(B) /\ b \in B /\ k \in 0 .. Len(old)
          /\ Len(old) < BlockCount /\ Len(new) = Len(old) + 1
      BY <1>4, <1>5, <1>6, <1>9, <2>2, <2>3
    <3>2. \A i \in k + 1 .. Len(old) : new[i + 1] = old[i]
      BY <1>5, <2>6
    <3>3. k < Len(old) => ~ (b.seq >= old[k + 1].seq)
      BY <1>5, <2>7
    <3>4. PutBehind(B, old, new, b, k)
      BY <2>4, <2>5, <2>7, <3>1, <3>2, <3>3, Zenon DEF PutBehind
    <3>5. AddMakes(old, new, b, k)
      BY <3>4, AddIs, Zenon
    <3> QED BY <3>5 DEF AddMakes
  <2>9. ~ AddFaults(old, b.seq)
    <3>1. used = <<>> => old = <<>>
      BY <1>4, <1>5
    <3> QED BY <1>9, <2>3, <2>8, <3>1 DEF AddFaults
  <2>10. Abstract!AddBlock(b)
    BY <1>1, <2>8, <2>9, AbstractOperators DEF Abstract!AddBlock
  <2>11. b \in Abstract!BlockSet
    BY <2>2, AbstractOperators DEF B
  <2> QED BY <2>10, <2>11 DEF Abstract!Next
<1>10. ASSUME NEW n \in Nodes, InFront(n, used2, used)
       PROVE  Abstract!Next
  <2>1. /\ m = m2 + 1
        /\ \A i \in 1 .. m2 : used[i + 1] = used2[i]
    BY <1>4, <1>10 DEF InFront
  <2>2. \A i \in 1 .. m2 : i + 1 \in 1 .. m
    BY <2>1
  <2>3. \A i \in 1 .. m2 : old[i + 1] = new[i]
    <3> TAKE i \in 1 .. m2
    <3>1. used[i + 1] = used2[i] /\ i + 1 \in 1 .. m
      BY <2>1, <2>2
    <3>2. new[i] = [seq |-> sequence_num'[used2[i]], size |-> payload_size'[used2[i]]]
      BY <1>6
    <3>3. old[i + 1] = [seq |-> sequence_num'[used[i + 1]], size |-> payload_size'[used[i + 1]]]
      BY <1>7, <3>1
    <3> QED BY <3>1, <3>2, <3>3
  <2>4. old # <<>> /\ new = RemoveFront(old, 1)
    <3>1. TakenOff(B, old, new)
      <4>1. old \in Seq(B) /\ new \in Seq(B) /\ Len(old) = m /\ Len(new) = m2
        BY <1>5, <1>6
      <4> QED BY <2>1, <2>3, <4>1, Zenon DEF TakenOff
    <3> QED BY <3>1, RemoveFrontIs
  <2>5. Abstract!RemoveBlock
    BY <1>1, <2>4, AbstractOperators DEF Abstract!RemoveBlock
  <2> QED BY <2>5 DEF Abstract!Next
<1> QED BY <1>8, <1>9, <1>10 DEF Changes

(***************************************************************************)
(* The linked lists implement the abstract buffer: what its user sees of   *)
(* `blocks` starts empty and only changes by a block put in its place or   *)
(* by the block in front being taken away.                                 *)
(***************************************************************************)
THEOREM ListImplementsBuffer == Spec => ImplementsBuffer
<1>1. Init => Abstract!Init
  <2> SUFFICES ASSUME Init PROVE Contents(blocks) = <<>>
    BY DEF Abstract!Init
  <2>1. PICK used, free : Shape(used, free)
    BY ListInit DEF ListInv
  <2>2. used = <<>>
    <3>1. used \in Seq(Nodes) /\ Following(next, used, blocks) /\ blocks = Null
      BY <2>1 DEF Shape, IsList, Following, Init
    <3> QED BY <3>1, HeadOf
  <2>3. Data(used) = <<>>
    BY <2>2 DEF Data
  <2> QED BY <2>1, <2>3, ShapeLists
<1>2. ListInv /\ [Next]_vars => [Abstract!Next]_(Contents(blocks))
  <2> SUFFICES ASSUME ListInv, [Next]_vars PROVE [Abstract!Next]_(Contents(blocks))
    OBVIOUS
  <2>1. PICK used, free : Shape(used, free)
    BY DEF ListInv
  <2>2. PICK used2, free2 : Shape(used2, free2)' /\ Changes(used, used2)
    BY <2>1, ListStep DEF ListInv
  <2> QED BY <2>1, <2>2, BufferStep
<1> QED BY <1>1, <1>2, ListInvariant, PTL DEF Spec, ImplementsBuffer, Abstract!Spec

(***************************************************************************)
(* What the user of the buffer sees: blocks with the sequence numbers and  *)
(* sizes that were added, never more than create_tcp_block_buffer links,   *)
(* always in sequence-number order.                                        *)
(***************************************************************************)
THEOREM BufferSorted == Spec => [](Abstract!TypeOK /\ Abstract!Sorted)
<1>1. ListInv /\ ListWellFormed => Abstract!TypeOK /\ Abstract!Sorted
  <2> SUFFICES ASSUME ListInv, ListWellFormed PROVE Abstract!TypeOK /\ Abstract!Sorted
    OBVIOUS
  <2>1. PICK used, free : Shape(used, free)
    BY DEF ListInv
  <2>2. Contents(blocks) \in Seq([seq : Seqs, size : Sizes]) /\ Len(Contents(blocks)) = Len(used)
    <3>1. used \in Seq(Nodes)
      BY <2>1 DEF Shape
    <3> QED BY <2>1, <3>1, ShapeLists, DataBlocks, DataOf
  <2>3. Abstract!TypeOK
    <3>1. Len(used) <= BlockCount
      BY <2>1 DEF Shape
    <3> QED BY <2>2, <3>1 DEF Abstract!TypeOK, Abstract!BlockSet, Abstract!BlockCount, BlockCount
  <2>4. Abstract!Sorted
    BY DEF ListWellFormed, ListSorted, InOrder, Abstract!Sorted, Abstract!InOrder
  <2> QED BY <2>3, <2>4
<1> QED BY <1>1, ListInvariant, ListWellFormedAlways, PTL
=============================================================================
