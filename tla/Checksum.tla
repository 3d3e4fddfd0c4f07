------------------------------ MODULE Checksum ------------------------------
(***************************************************************************)
(* The checksums: ipv4_calculate_checksum adds 16-bit words with an        *)
(* end-around carry, tcp_calculate_checksum adds them in 32 bits and folds *)
(* the carries in at the end.  Both are one's complement sums, compared    *)
(* here with the arithmetic definition, on what ipv4_write and tcp_write   *)
(* send and ipv4_read verifies.                                            *)
(*                                                                         *)
(* tcp_write builds its header in tcb->out_header, which outlives the      *)
(* write; the words behind the header there are never written.             *)
(***************************************************************************)
EXTENDS Naturals, Sequences, SequencesExt

CONSTANTS
  WordBase,   \* 2^16
  Fields,     \* the words of a header but its checksum, as sequences
  Payloads,   \* payloads of TCP segments, as sequences of words
  Garbage,    \* what malloc may leave in tcb->out_header, as words
  TailWords   \* the words of memory behind the header there

Word == 0 .. WordBase - 1

ASSUME WordBaseAssumption == WordBase \in Nat /\ WordBase > 2
ASSUME DataAssumption ==
  Fields \subseteq Seq(Word) /\ Payloads \subseteq Seq(Word) /\ Garbage \subseteq Word
\* an IPv4 packet has at most 2^15 words: their sum fits 32 bits
ASSUME LengthAssumption ==
  /\ Payloads # {} /\ TailWords \in Nat
  /\ \A fields \in Fields, payload \in Payloads :
       /\ (Len(fields) + Len(payload) + 2) * (WordBase - 1) < WordBase * WordBase
       /\ Len(payload) <= TailWords

VARIABLES
  out_checksum,  \* the checksum field of tcb->out_header
  tail,          \* the words of tcb->out_header behind the header
  sent,          \* the words the last checksum has to cover, itself included
  original,      \* those words as they were sent
  protocol       \* whose packet it is

checksumVars == <<out_checksum, tail, sent, original, protocol>>

Complement(word) == WordBase - 1 - word

-----------------------------------------------------------------------------
(* ipv4_calculate_checksum *)

\* Mutation of Ipv4AddWord: the carry is dropped.
Ipv4AddWordNoCarry(sum, word) == (sum + word) % WordBase

Ipv4AddWord(sum, word) ==
  LET next == (sum + word) % WordBase
  IN  IF next < word THEN next + 1 ELSE next

\* sum[i] is the sum after the first i words
Ipv4Sum(words) ==
  LET sum[i \in 0 .. Len(words)] == IF i = 0 THEN 0 ELSE Ipv4AddWord(sum[i - 1], words[i])
  IN  sum[Len(words)]

ipv4_calculate_checksum(words) == Complement(Ipv4Sum(words))

-----------------------------------------------------------------------------
(* tcp_calculate_checksum *)

Total(words) ==
  LET total[i \in 0 .. Len(words)] == IF i = 0 THEN 0 ELSE total[i - 1] + words[i]
  IN  total[Len(words)]

\* the loop that folds the upper half into the lower one
Folded[sum \in 0 .. WordBase * WordBase - 1] ==
  IF sum \div WordBase = 0 THEN sum
  ELSE Folded[(sum % WordBase) + sum \div WordBase]

tcp_calculate_checksum(words) ==
  Complement(Folded[Total(words) % (WordBase * WordBase)])

\* the part of the pseudo header that varies, the TCP length in bytes
PseudoHeader(fields, payload) == <<(2 * (Len(fields) + 1 + Len(payload))) % WordBase>>

-----------------------------------------------------------------------------

\* Mutation of Ipv4Write: the old checksum is not cleared before it is computed.
Ipv4WriteDirty(fields) ==
  /\ sent' = Append(fields, ipv4_calculate_checksum(Append(fields, 1)))
  /\ original' = sent' /\ protocol' = "ipv4"
  /\ UNCHANGED <<out_checksum, tail>>

\* ipv4_write clears header_checksum first
Ipv4Write(fields) ==
  /\ sent' = Append(fields, ipv4_calculate_checksum(Append(fields, 0)))
  /\ original' = sent' /\ protocol' = "ipv4"
  /\ UNCHANGED <<out_checksum, tail>>

\* tcp_write sums tcb->out_header as the previous write left it, checksum
\* included, and as many words behind it as the payload has
TcpWrite(fields, payload) ==
  LET pseudo == PseudoHeader(fields, payload)
      summed == pseudo \o fields \o <<out_checksum>> \o SubSeq(tail, 1, Len(payload))
  IN  /\ out_checksum' = tcp_calculate_checksum(summed)
      /\ sent' = pseudo \o fields \o <<out_checksum'>> \o payload
      /\ original' = sent' /\ protocol' = "tcp"
      /\ UNCHANGED tail

\* the network changes one word
Alter(i, word) ==
  /\ sent = original /\ word # sent[i]
  /\ sent' = [sent EXCEPT ![i] = word]
  /\ UNCHANGED <<out_checksum, tail, original, protocol>>

ChecksumInit ==
  /\ out_checksum \in Garbage /\ tail \in [1 .. TailWords -> Garbage]
  /\ sent = <<>> /\ original = <<>> /\ protocol = "none"

ChecksumNext ==
  \/ \E fields \in Fields :
       Ipv4Write(fields) \/ \E payload \in Payloads : TcpWrite(fields, payload)
  \/ \E i \in DOMAIN sent, word \in Word : Alter(i, word)

ChecksumSpec == ChecksumInit /\ [][ChecksumNext]_checksumVars

-----------------------------------------------------------------------------

\* Every word of a header, and the checksum field tcp_write reuses, stays
\* within the width the code gives it.
WordsOK ==
  /\ out_checksum \in Word /\ tail \in [1 .. TailWords -> Word]
  /\ sent \in Seq(Word) /\ original \in Seq(Word)
  /\ protocol \in {"none", "ipv4", "tcp"}

\* zero has two representations in one's complement
SameWord(a, b) == a = b \/ {a, b} = {0, WordBase - 1}

(***************************************************************************)
(* ipv4_read accepts a header that arrives as ipv4_write sent it, and      *)
(* drops one of which a word was changed on the way, unless the change is  *)
(* between the two zeros.                                                  *)
(***************************************************************************)
Ipv4ChecksumProtects ==
  protocol = "ipv4" =>
    /\ sent = original => ipv4_calculate_checksum(sent) = 0
    /\ (\E i \in DOMAIN sent : ~ SameWord(sent[i], original[i]))
         => ipv4_calculate_checksum(sent) # 0

(***************************************************************************)
(* What ipv4_write builds is typed and protected by its checksum.          *)
(***************************************************************************)
HeaderProtected == WordsOK /\ Ipv4ChecksumProtects

(***************************************************************************)
(* The two implementations compute the same sum, the one's complement sum: *)
(* the total modulo 2^16 - 1, where zero stands for all-zero words only.   *)
(***************************************************************************)
OnesComplementSum(words) ==
  IF Total(words) = 0 THEN 0
  ELSE IF Total(words) % (WordBase - 1) = 0 THEN WordBase - 1
  ELSE Total(words) % (WordBase - 1)

SumsAgree ==
  /\ ipv4_calculate_checksum(sent) = Complement(OnesComplementSum(sent))
  /\ tcp_calculate_checksum(sent) = Complement(OnesComplementSum(sent))

-----------------------------------------------------------------------------

(***************************************************************************)
(* test/tcp/tests/unit/unit.c:12 sets "tcp_header->checksum = 0" before it *)
(* calls _tcp_calculate_checksum and expects the peer's checksum.  A       *)
(* segment that tcp_write sends passes its receiver's check.               *)
(***************************************************************************)
TcpSegmentVerifies ==
  protocol = "tcp" /\ sent = original => tcp_calculate_checksum(sent) = 0
=============================================================================
