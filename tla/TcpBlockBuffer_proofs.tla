----------------------- MODULE TcpBlockBuffer_proofs -----------------------
(***************************************************************************)
(* What the operators of TcpBlockBuffer compute, for every sequence space  *)
(* and every buffer size.                                                  *)
(***************************************************************************)
EXTENDS TcpBlockBuffer, SequenceTheorems, WellFoundedInduction, TLAPS

(***************************************************************************)
(* A set of positions has a longest run 1 .. k below any bound: the loops  *)
(* of tcp_block_buffer.c and tcp_write stop at the first block that fails  *)
(* their condition.                                                        *)
(***************************************************************************)
LEMMA LongestPrefix ==
  ASSUME NEW n \in Nat, NEW S
  PROVE  \E k \in 0 .. n : 1 .. k \subseteq S /\ (k < n => k + 1 \notin S)
<1> DEFINE T == {m \in 1 .. n : m \notin S}
<1>1. CASE T = {}
  <2>1. n \in 0 .. n /\ 1 .. n \subseteq S
    BY <1>1
  <2> QED BY <2>1
<1>2. CASE T # {}
  <2>1. T \subseteq Nat
    OBVIOUS
  <2>2. PICK m \in T : \A y \in T : ~ (<<y, m>> \in OpToRel(<, Nat))
    BY <1>2, <2>1, NatLessThanWellFounded, WFMin
  <2>3. \A y \in T : ~ (y < m)
    BY <2>1, <2>2 DEF OpToRel
  <2>4. m - 1 \in 0 .. n /\ m - 1 < n /\ (m - 1) + 1 = m /\ m \notin S
    OBVIOUS
  <2>5. 1 .. m - 1 \subseteq S
    BY <2>3, <2>4
  <2> QED BY <2>4, <2>5
<1> QED BY <1>1, <1>2

(***************************************************************************)
(* PrefixLength is that run.                                               *)
(***************************************************************************)
LEMMA PrefixLengthRun ==
  ASSUME NEW n \in Nat, NEW S
  PROVE  /\ PrefixLength(n, S) \in 0 .. n
         /\ 1 .. PrefixLength(n, S) \subseteq S
         /\ PrefixLength(n, S) < n => PrefixLength(n, S) + 1 \notin S
BY LongestPrefix DEF PrefixLength

(***************************************************************************)
(* What a block buffer looks like after InsertAt.                          *)
(***************************************************************************)
LEMMA InsertAtElements ==
  ASSUME NEW B, NEW s \in Seq(B), NEW e \in B, NEW i \in 1 .. Len(s) + 1
  PROVE  /\ InsertAt(s, i, e) \in Seq(B)
         /\ Len(InsertAt(s, i, e)) = Len(s) + 1
         /\ \A j \in 1 .. Len(s) + 1 :
              InsertAt(s, i, e)[j] =
                IF j < i THEN s[j] ELSE IF j = i THEN e ELSE s[j - 1]
<1> DEFINE front == SubSeq(s, 1, i - 1)
           rear == SubSeq(s, i, Len(s))
<1>1. front \in Seq(B) /\ Len(front) = i - 1 /\ \A j \in 1 .. i - 1 : front[j] = s[j]
  BY SubSeqProperties
<1>2. rear \in Seq(B) /\ Len(rear) = Len(s) - i + 1
      /\ \A j \in 1 .. Len(s) - i + 1 : rear[j] = s[i + j - 1]
  BY SubSeqProperties
<1>3. <<e>> \in Seq(B) /\ Len(<<e>>) = 1 /\ <<e>>[1] = e
  OBVIOUS
<1> DEFINE middle == front \o <<e>>
<1>4. middle \in Seq(B) /\ Len(middle) = i
      /\ \A j \in 1 .. i : middle[j] = IF j < i THEN s[j] ELSE e
  BY <1>1, <1>3, ConcatProperties
<1>5. InsertAt(s, i, e) = middle \o rear
  BY DEF InsertAt
<1> HIDE DEF front, rear, middle
<1>6. middle \o rear \in Seq(B) /\ Len(middle \o rear) = Len(s) + 1
  BY <1>2, <1>4, ConcatProperties
<1>7. \A j \in 1 .. Len(s) + 1 :
        (middle \o rear)[j] = IF j <= i THEN middle[j] ELSE rear[j - i]
  BY <1>2, <1>4, ConcatProperties
<1> DEFINE whole == middle \o rear
<1>8. ASSUME NEW j \in 1 .. Len(s) + 1
      PROVE  whole[j] = IF j < i THEN s[j] ELSE IF j = i THEN e ELSE s[j - 1]
  <2>1. i \in Nat /\ j \in Nat /\ Len(s) \in Nat
    OBVIOUS
  <2>2. CASE j <= i
    <3>1. j \in 1 .. i
      BY <2>1, <2>2
    <3>2. whole[j] = middle[j]
      BY <1>7, <2>2
    <3> HIDE DEF whole
    <3> QED BY <1>4, <2>1, <2>2, <3>1, <3>2
  <2>3. CASE ~ (j <= i)
    <3>1. j - i \in 1 .. Len(s) - i + 1 /\ i + (j - i) - 1 = j - 1
      BY <2>1, <2>3
    <3>2. whole[j] = rear[j - i]
      BY <1>7, <2>3
    <3>3. rear[j - i] = s[i + (j - i) - 1]
      BY <1>2, <3>1
    <3> HIDE DEF whole
    <3> QED BY <2>1, <2>3, <3>1, <3>2, <3>3
  <2> QED BY <2>2, <2>3
<1> HIDE DEF whole
<1>9. InsertAt(s, i, e) = whole /\ whole \in Seq(B) /\ Len(whole) = Len(s) + 1
  BY <1>5, <1>6 DEF whole
<1> QED BY <1>8, <1>9

(***************************************************************************)
(* uint32_t addition stays in the sequence space.                          *)
(***************************************************************************)
LEMMA PlusType ==
  ASSUME NEW a \in Nat, NEW b \in Nat
  PROVE  Plus(a, b) \in SeqNum
BY SeqSpaceAssumption DEF Plus, SeqNum

(***************************************************************************)
(* tcp_block_buffer_add keeps a buffer of blocks a buffer of blocks, never *)
(* links more than there are, and keeps the sequence-number order.         *)
(***************************************************************************)
LEMMA AddProperties ==
  ASSUME NEW B, NEW buf \in Seq(B), NEW b \in B,
         \A c \in B : c.seq \in SeqNum
  PROVE  /\ Add(buf, b) \in Seq(B)
         /\ Len(buf) <= BlockCount => Len(Add(buf, b)) <= BlockCount
         /\ Len(Add(buf, b)) \in {Len(buf), Len(buf) + 1}
         /\ InOrder(buf) => InOrder(Add(buf, b))
<1> DEFINE w == WalkedPast(buf, b.seq)
           P == {i \in 1 .. Len(buf) : b.seq >= buf[i].seq}
<1>1. BlockCount \in Nat
  BY DefaultSizeAssumption DEF BlockCount
<1>2. CASE ~ HasFree(buf)
  BY <1>2 DEF Add
<1>3. CASE HasFree(buf)
  <2>1. /\ w \in 0 .. Len(buf)
        /\ 1 .. w \subseteq P
        /\ w < Len(buf) => w + 1 \notin P
    BY PrefixLengthRun DEF WalkedPast
  <2>2. Add(buf, b) = InsertAt(buf, w + 1, b)
    BY <1>3 DEF Add
  <2>3. w + 1 \in 1 .. Len(buf) + 1
    BY <2>1
  <2> HIDE DEF w
  <2>4. /\ Add(buf, b) \in Seq(B)
        /\ Len(Add(buf, b)) = Len(buf) + 1
        /\ \A j \in 1 .. Len(buf) + 1 :
             Add(buf, b)[j] =
               IF j < w + 1 THEN buf[j] ELSE IF j = w + 1 THEN b ELSE buf[j - 1]
    <3> DEFINE k == w + 1
    <3>1. k \in 1 .. Len(buf) + 1
      BY <2>3
    <3> HIDE DEF k
    <3>2. /\ InsertAt(buf, k, b) \in Seq(B)
          /\ Len(InsertAt(buf, k, b)) = Len(buf) + 1
          /\ \A j \in 1 .. Len(buf) + 1 :
               InsertAt(buf, k, b)[j] =
                 IF j < k THEN buf[j] ELSE IF j = k THEN b ELSE buf[j - 1]
      <4>1. InsertAt(buf, k, b) \in Seq(B)
        BY <3>1, InsertAtElements
      <4>2. Len(InsertAt(buf, k, b)) = Len(buf) + 1
        BY <3>1, InsertAtElements
      <4>3. ASSUME NEW j \in 1 .. Len(buf) + 1
            PROVE  InsertAt(buf, k, b)[j] =
                     IF j < k THEN buf[j] ELSE IF j = k THEN b ELSE buf[j - 1]
        BY <3>1, InsertAtElements
      <4> QED BY <4>1, <4>2, <4>3
    <3> QED BY <2>2, <3>2 DEF k
  <2>5. Len(Add(buf, b)) <= BlockCount
    BY <1>1, <1>3, <2>4 DEF HasFree
  <2>6. ASSUME InOrder(buf) PROVE InOrder(Add(buf, b))
    <3>1. \A i \in 1 .. Len(buf) : buf[i] \in B
      OBVIOUS
    <3>2. b.seq \in Nat /\ \A i \in 1 .. Len(buf) : buf[i].seq \in Nat
      BY <3>1, SeqSpaceAssumption DEF SeqNum
    <3>3. \A i \in 1 .. w : buf[i].seq <= b.seq
      BY <2>1, <3>2
    <3>4. \A i \in w + 1 .. Len(buf) : b.seq <= buf[i].seq
      <4>1. CASE w = Len(buf)
        BY <4>1
      <4>2. CASE w < Len(buf)
        <5>1. b.seq <= buf[w + 1].seq
          BY <2>1, <3>2, <4>2
        <5>2. \A i \in w + 1 .. Len(buf) : i = w + 1 \/ buf[w + 1].seq <= buf[i].seq
          BY <2>1, <2>6, <4>2 DEF InOrder
        <5> QED BY <2>1, <3>2, <4>2, <5>1, <5>2
      <4> QED BY <2>1, <4>1, <4>2
    <3>5. SUFFICES ASSUME NEW i \in 1 .. Len(buf) + 1, NEW j \in 1 .. Len(buf) + 1, i < j
                   PROVE  Add(buf, b)[i].seq <= Add(buf, b)[j].seq
      BY <2>4 DEF InOrder
    <3>a. j > w + 1 => Add(buf, b)[j] = buf[j - 1] /\ j - 1 \in w + 1 .. Len(buf)
      BY <2>1, <2>4
    <3>b. i > w + 1 => Add(buf, b)[i] = buf[i - 1] /\ i - 1 \in 1 .. Len(buf)
      BY <2>1, <2>4
    <3>c. i < w + 1 => Add(buf, b)[i] = buf[i] /\ i \in 1 .. Len(buf)
      BY <2>1, <2>4
    <3>d. i = w + 1 => Add(buf, b)[i] = b
      BY <2>1, <2>4
    <3>6. CASE j < w + 1
      BY <2>1, <2>4, <2>6, <3>5, <3>6 DEF InOrder
    <3>7. CASE j = w + 1
      <4>1. i \in 1 .. w /\ i < w + 1
        BY <2>1, <3>5, <3>7
      <4>2. Add(buf, b)[j] = b
        BY <2>1, <2>4, <3>7
      <4> QED BY <3>3, <3>c, <4>1, <4>2
    <3>8. CASE j > w + 1 /\ i < w + 1
      BY <2>1, <2>6, <3>5, <3>8, <3>a, <3>c DEF InOrder
    <3>9. CASE j > w + 1 /\ i = w + 1
      BY <2>1, <3>4, <3>5, <3>9, <3>a, <3>d
    <3>10. CASE j > w + 1 /\ i > w + 1
      BY <2>1, <2>6, <3>5, <3>10, <3>a, <3>b DEF InOrder
    <3> QED BY <2>1, <3>5, <3>6, <3>7, <3>8, <3>9, <3>10
  <2> QED BY <2>4, <2>5, <2>6
<1> QED BY <1>2, <1>3

(***************************************************************************)
(* tcp_block_buffer_remove_front drops exactly the blocks it is asked to   *)
(* drop (or all there are) and keeps the order of the rest.                *)
(***************************************************************************)
LEMMA RemoveFrontProperties ==
  ASSUME NEW B, NEW buf \in Seq(B), NEW n \in Nat
  PROVE  /\ RemoveFront(buf, n) \in Seq(B)
         /\ Len(RemoveFront(buf, n)) = IF n <= Len(buf) THEN Len(buf) - n ELSE 0
         /\ InOrder(buf) => InOrder(RemoveFront(buf, n))
<1>1. n + 1 \in 1 .. Len(buf) + 1 \/ n + 1 > Len(buf)
  OBVIOUS
<1>2. /\ RemoveFront(buf, n) \in Seq(B)
      /\ Len(RemoveFront(buf, n)) = IF n <= Len(buf) THEN Len(buf) - n ELSE 0
      /\ \A i \in 1 .. Len(buf) - n : RemoveFront(buf, n)[i] = buf[n + i]
  <2>1. CASE n < Len(buf)
    BY <2>1, SubSeqProperties DEF RemoveFront
  <2>2. CASE n >= Len(buf)
    BY <2>2, SubSeqProperties DEF RemoveFront
  <2> QED BY <2>1, <2>2
<1>3. ASSUME InOrder(buf) PROVE InOrder(RemoveFront(buf, n))
  <2> SUFFICES ASSUME NEW i \in 1 .. Len(RemoveFront(buf, n)),
                      NEW j \in 1 .. Len(RemoveFront(buf, n)), i < j
               PROVE  RemoveFront(buf, n)[i].seq <= RemoveFront(buf, n)[j].seq
    BY DEF InOrder
  <2>1. n <= Len(buf) /\ Len(RemoveFront(buf, n)) = Len(buf) - n
    BY <1>2
  <2>2. RemoveFront(buf, n)[i] = buf[n + i] /\ RemoveFront(buf, n)[j] = buf[n + j]
    BY <1>2, <2>1
  <2> QED BY <1>3, <2>1, <2>2 DEF InOrder
<1> QED BY <1>2, <1>3

(***************************************************************************)
(* tcp_block_buffer_num_ready never promises more blocks than there are.   *)
(***************************************************************************)
LEMMA NumReadyBound ==
  ASSUME NEW B, NEW buf \in Seq(B), NEW start
  PROVE  NumReady(buf, start) \in 0 .. Len(buf)
BY PrefixLengthRun DEF NumReady
=============================================================================
