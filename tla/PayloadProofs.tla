---------------------------- MODULE PayloadProofs ----------------------------
(***************************************************************************)
(* Proofs about Payload.tla and B64.tla, for every number and length of    *)
(* log lines, every block size and all lengths of the fields: no text is   *)
(* longer than the memory it is written to, but for a token that grows     *)
(* inside provision, and what is encoded decodes to the line.  The encoder *)
(* needs to know which characters it has written for the bytes it has      *)
(* read, logdump how far a line can move it on in the array, and the three *)
(* functions what they have measured.                                      *)
(***************************************************************************)
EXTENDS Payload, SequenceTheorems, FiniteSetTheorems, TLAPS

\* The characters that are written for the bytes that are read.
Progress ==
  /\ step = "idle" => enc = <<>>
  /\ step = "loop" => 3 * Len(enc) = 4 * (read - Len(tmp))
  /\ step = "pad" => /\ read = Len(src) /\ tmp # <<>>
                     /\ 3 * (Len(enc) - Len(tmp) - 1) = 4 * (read - Len(tmp))
  /\ step \in {"end", "done"} => Len(enc) = B64Len(Len(src))

\* What one line takes in the array at most: a comma, two quotes and its text.
Slot == B64Len(MaxLogLen) + 3

\* How far the loop of logdump has come, with the line that is being encoded.
ArrayInv ==
  /\ pc = "encode" <=> step # "idle"
  /\ pc = "encode" => Len(src) < MaxLogLen
  /\ pc = "array" => pos <= 1 + logs * Slot
  /\ pc = "encode" => logs > 0 /\ pos + B64Len(MaxLogLen) + 1 <= 1 + logs * Slot
  /\ pc = "measure" => pos <= 2 + NumLogs * Slot

\* What the sizes of malloc and snprintf are once they are known.
SizeInv ==
  /\ pc = "idle" => growth = 0
  /\ pc = "bound" => kind = "provision" /\ alloc + growth = 46 + token
  /\ pc \in {"array", "encode", "measure"} => kind = "logdump"
  /\ pc = "format" => kind # "none" /\ limit > 0 /\ limit <= alloc + Overrun

IInv == TypeOK /\ Progress /\ InBlocks /\ ArrayInv /\ SizeInv /\ InAllocation

(***************************************************************************)
(* The encoder                                                             *)
(***************************************************************************)
\* b64.c: the four digits of a group index b64_table.
LEMMA DigitsType ==
  ASSUME NEW t, t[1] \in 0..255, t[2] \in 0..255, t[3] \in 0..255
  PROVE  /\ Digits(t) \in Seq(0..63 \cup {Pad})
         /\ Len(Digits(t)) = 4
<1> DEFINE d1 == t[1] \div 4
           d2 == (t[1] % 4) * 16 + t[2] \div 16
           d3 == (t[2] % 16) * 4 + t[3] \div 64
           d4 == t[3] % 64
<1>1. d1 \in 0..63
  OBVIOUS
<1>2. d2 \in 0..63
  OBVIOUS
<1>3. d3 \in 0..63
  OBVIOUS
<1>4. d4 \in 0..63
  OBVIOUS
<1>5. Digits(t) = <<d1, d2, d3, d4>>
  BY DEF Digits
<1> HIDE DEF d1, d2, d3, d4
<1> QED BY <1>1, <1>2, <1>3, <1>4, <1>5

\* b64.c: the digits of a full group, and those written for one or two bytes.
LEMMA FullGroup ==
  ASSUME NEW t \in Seq(Bytes), Len(t) = 2, NEW c \in Bytes
  PROVE  /\ Digits(Append(t, c)) \in Seq(0..63 \cup {Pad})
         /\ Len(Digits(Append(t, c))) = 4
<1>1. 1 \in 1..Len(t) /\ 2 \in 1..Len(t) /\ Len(t) + 1 = 3
  OBVIOUS
<1>2. Append(t, c)[1] = t[1] /\ Append(t, c)[2] = t[2]
  <2>1. \A i \in 1..Len(t) : Append(t, c)[i] = t[i]
    BY AppendProperties
  <2> QED BY <1>1, <2>1, Zenon
<1>3. Append(t, c)[3] = c
  <2>1. Append(t, c)[Len(t) + 1] = c
    BY AppendProperties
  <2> QED BY <1>1, <2>1
<1>4. t[1] \in Bytes /\ t[2] \in Bytes
  BY <1>1, ElementOfSeq
<1>5. Bytes \subseteq 0..255
  BY B64Assumptions
<1> QED BY <1>1, <1>2, <1>3, <1>4, <1>5, DigitsType

LEMMA LastGroup ==
  ASSUME NEW t \in Seq(Bytes), NEW n \in 1..2, Len(t) = n
  PROVE  /\ SubSeq(Digits(t \o <<0, 0>>), 1, n + 1) \in Seq(0..63 \cup {Pad})
         /\ Len(SubSeq(Digits(t \o <<0, 0>>), 1, n + 1)) = n + 1
<1> DEFINE zeroes == <<0, 0>>
           group  == t \o zeroes
           quad == Digits(group)
<1>1. t \in Seq(0..255)
  <2> DEFINE B == 0..255
  <2>1. Bytes \subseteq B
    BY B64Assumptions
  <2> HIDE DEF B
  <2>2. t \in Seq(B)
    BY <2>1, SeqMonotonic
  <2> QED BY <2>2 DEF B
<1>2. /\ zeroes \in Seq(0..255) /\ Len(zeroes) = 2
      /\ zeroes[1] \in 0..255 /\ zeroes[2] \in 0..255
  OBVIOUS
<1> HIDE DEF zeroes
<1>3. group \in Seq(0..255) /\ Len(group) = n + 2
  <2>1. group \in Seq(0..255) /\ Len(group) = Len(t) + Len(zeroes)
    BY <1>1, <1>2, ConcatProperties
  <2>2. Len(t) + Len(zeroes) = n + 2
    BY <1>2
  <2> QED BY <2>1, <2>2
<1> HIDE DEF group
<1>4. \A i \in 1..n + 2 : group[i] \in 0..255
  BY <1>3, LenProperties
<1>5. group[1] \in 0..255 /\ group[2] \in 0..255 /\ group[3] \in 0..255
  BY <1>4
<1>6. quad \in Seq(0..63 \cup {Pad}) /\ Len(quad) = 4
  BY <1>5, DigitsType
<1> HIDE DEF quad
<1>7. \A i \in 1..4 : quad[i] \in 0..63 \cup {Pad}
  BY <1>6, LenProperties
<1>8. \A i \in 1..n + 1 : quad[i] \in 0..63 \cup {Pad}
  <2>1. 1..n + 1 \subseteq 1..4
    OBVIOUS
  <2> QED BY <1>7, <2>1, Zenon
<1>9. /\ SubSeq(quad, 1, n + 1) \in Seq(0..63 \cup {Pad})
      /\ Len(SubSeq(quad, 1, n + 1)) = n + 1
  BY <1>8, SubSeqProperties
<1> QED BY <1>9 DEF quad, group, zeroes

\* b64.c: the padding of a last group.
LEMMA Padding ==
  ASSUME NEW n \in 1..2
  PROVE  /\ [i \in 1..n |-> Pad] \in Seq(0..63 \cup {Pad})
         /\ Len([i \in 1..n |-> Pad]) = n
OBVIOUS

\* b64.c, b64_buf_realloc: there is room for the size asked for.
LEMMA Room ==
  ASSUME bufc \in Nat \ {0}, NEW size \in Nat
  PROVE  /\ b64_buf_realloc(size) \in Nat \ {0}
         /\ size <= b64_buf_realloc(size) * BufferSize
<1>1. BufferSize \in Nat \ {0}
  BY B64Assumptions
<1>2. CASE size > bufc * BufferSize
  <2> DEFINE blocks == (size + BufferSize - 1) \div BufferSize
  <2>1. size > 0
    BY <1>1, <1>2
  <2>2. /\ blocks \in Int
        /\ size + BufferSize - 1 = blocks * BufferSize + ((size + BufferSize - 1) % BufferSize)
        /\ (size + BufferSize - 1) % BufferSize \in 0..BufferSize - 1
    BY <1>1, Z3
  <2>3. size <= blocks * BufferSize
    BY <1>1, <2>2
  <2>4. blocks > 0
    BY <1>1, <2>1, <2>2, <2>3
  <2> QED BY <1>2, <2>2, <2>3, <2>4 DEF b64_buf_realloc
<1>3. CASE ~(size > bufc * BufferSize)
  BY <1>1, <1>3 DEF b64_buf_realloc
<1> QED BY <1>2, <1>3

LEMMA B64LenMonotone ==
  ASSUME NEW m \in Nat, NEW n \in Nat, m <= n
  PROVE  B64Len(m) \in Nat /\ B64Len(m) <= B64Len(n)
BY DEF B64Len

\* b64.c: whole groups take the length that logdump computes, and so does a last
\* group of one or two bytes with its padding.
LEMMA Lengths ==
  ASSUME NEW n \in Nat, NEW e \in Nat, NEW r \in 0..2,
         r = 0 => 3 * e = 4 * n,
         r # 0 => 3 * (e - 4) = 4 * (n - r)
  PROVE  e = B64Len(n)
BY DEF B64Len

\* b64.c: one byte more, in the group that is being read.
LEMMA ReadByteStep ==
  ASSUME B64TypeOK, Progress, InBlocks, ReadByte
  PROVE  B64TypeOK' /\ Progress' /\ InBlocks'
<1> USE DEF B64TypeOK, ReadByte
<1>1. read + 1 \in 1..Len(src)
  OBVIOUS
<1>2. src[read + 1] \in Bytes
  BY <1>1, ElementOfSeq
<1>3. tmp' \in Seq(Bytes) /\ Len(tmp') = Len(tmp) + 1
  BY <1>2, AppendProperties
<1>4. B64TypeOK'
  BY <1>1, <1>3
<1>5. Progress'
  BY <1>3 DEF Progress
<1>6. InBlocks'
  BY DEF InBlocks
<1> QED BY <1>4, <1>5, <1>6

\* b64.c: what is appended to the text is added to its length.
LEMMA Appended ==
  ASSUME B64TypeOK, NEW quad \in Seq(0..63 \cup {Pad}), enc' = enc \o quad
  PROVE  enc' \in Seq(0..63 \cup {Pad}) /\ Len(enc') = Len(enc) + Len(quad)
BY ConcatProperties DEF B64TypeOK

\* b64.c: the third byte completes a group, which is written.
LEMMA WriteGroupStep ==
  ASSUME B64TypeOK, Progress, InBlocks, WriteGroup
  PROVE  B64TypeOK' /\ Progress' /\ InBlocks'
<1> DEFINE c     == src[read + 1]
           group == Digits(Append(tmp, c))
<1>1. /\ src \in Seq(Bytes) /\ read + 1 \in 1..Len(src)
      /\ tmp \in Seq(Bytes) /\ Len(tmp) = 2
  BY DEF B64TypeOK, WriteGroup
<1>2. c \in Bytes
  BY <1>1, ElementOfSeq
<1>3. group \in Seq(0..63 \cup {Pad}) /\ Len(group) = 4
  <2> HIDE DEF c
  <2> QED BY <1>1, <1>2, FullGroup
<1>4. enc' = enc \o group
  BY DEF WriteGroup
<1> HIDE DEF group
<1>5. enc' \in Seq(0..63 \cup {Pad}) /\ Len(enc') = Len(enc) + 4
  BY <1>3, <1>4, Appended
<1>6. Len(enc) \in Nat /\ Len(enc) + 4 \in Nat /\ bufc \in Nat \ {0}
  BY DEF B64TypeOK
<1>7. bufc' \in Nat \ {0} /\ Len(enc') <= bufc' * BufferSize
  <2>1. bufc' = b64_buf_realloc(Len(enc) + 4)
    BY DEF WriteGroup
  <2> QED BY <1>5, <1>6, <2>1, Room
<1>8. /\ tmp' = <<>> /\ tmp' \in Seq(Bytes) /\ Len(tmp') = 0
      /\ read' = read + 1 /\ step = "loop" /\ step' = "loop" /\ src' = src
  BY DEF WriteGroup
<1>9. B64TypeOK'
  BY <1>1, <1>5, <1>7, <1>8 DEF B64TypeOK
<1>10. Progress'
  <2>1. 3 * Len(enc) = 4 * (read - 2) /\ read \in Nat
    BY <1>1, <1>8 DEF Progress, B64TypeOK
  <2>2. 3 * Len(enc') = 4 * (read' - Len(tmp'))
    BY <1>5, <1>6, <1>8, <2>1
  <2> QED BY <1>8, <2>2 DEF Progress
<1>11. InBlocks'
  BY <1>7, <1>8 DEF InBlocks
<1> QED BY <1>9, <1>10, <1>11

\* b64.c: a last group has one byte or two.
LEMMA Remainder ==
  ASSUME B64TypeOK, tmp # <<>>
  PROVE  \E n \in 1..2 : Len(tmp) = n
<1>1. tmp \in Seq(Bytes) /\ Len(tmp) \in Nat /\ Len(tmp) <= 2
  BY DEF B64TypeOK
<1>2. Len(tmp) # 0
  BY <1>1, EmptySeq
<1> DEFINE n == Len(tmp)
<1> HIDE DEF n
<1>3. n \in 1..2
  <2>1. n \in Nat /\ n <= 2 /\ n # 0
    BY <1>1, <1>2 DEF n
  <2> QED BY <2>1
<1>4. Len(tmp) = n
  BY DEF n
<1> QED BY <1>3, <1>4, Zenon

\* b64.c: the digits of the remainder are written.
LEMMA WriteRestStep ==
  ASSUME B64TypeOK, Progress, InBlocks, WriteRest
  PROVE  B64TypeOK' /\ Progress' /\ InBlocks'
<1>1. PICK n \in 1..2 : Len(tmp) = n
  BY Remainder DEF WriteRest
<1> DEFINE rest == SubSeq(Digits(tmp \o <<0, 0>>), 1, n + 1)
<1>2. rest \in Seq(0..63 \cup {Pad}) /\ Len(rest) = n + 1
  BY <1>1, LastGroup DEF B64TypeOK
<1>3. enc' = enc \o rest
  BY <1>1 DEF WriteRest
<1> HIDE DEF rest
<1>4. enc' \in Seq(0..63 \cup {Pad}) /\ Len(enc') = Len(enc) + n + 1
  <2>1. Len(enc) \in Nat
    BY DEF B64TypeOK
  <2>2. enc' \in Seq(0..63 \cup {Pad}) /\ Len(enc') = Len(enc) + Len(rest)
    BY <1>2, <1>3, Appended
  <2> QED BY <1>2, <2>1, <2>2
<1>5. Len(enc) \in Nat /\ Len(enc) + n + 1 \in Nat /\ bufc \in Nat \ {0}
  BY DEF B64TypeOK
<1>6. bufc' \in Nat \ {0} /\ Len(enc') <= bufc' * BufferSize
  <2>1. bufc' = b64_buf_realloc(Len(enc) + n + 1)
    BY <1>1 DEF WriteRest
  <2> QED BY <1>4, <1>5, <2>1, Room
<1>7. /\ tmp # <<>> /\ tmp' = tmp /\ read = Len(src) /\ read' = read /\ src' = src
      /\ step = "loop" /\ step' = "pad"
  BY DEF WriteRest
<1>8. B64TypeOK'
  BY <1>4, <1>6, <1>7 DEF B64TypeOK
<1>9. Progress'
  <2>1. 3 * Len(enc) = 4 * (read - n) /\ read \in Nat
    BY <1>1, <1>7 DEF Progress, B64TypeOK
  <2>2. 3 * (Len(enc') - n - 1) = 4 * (read - n)
    BY <1>4, <1>5, <2>1
  <2> QED BY <1>1, <1>7, <2>2 DEF Progress
<1>10. InBlocks'
  BY <1>6, <1>7 DEF InBlocks
<1> QED BY <1>8, <1>9, <1>10

\* b64.c: and its padding.
LEMMA WritePadStep ==
  ASSUME B64TypeOK, Progress, InBlocks, WritePad
  PROVE  B64TypeOK' /\ Progress' /\ InBlocks'
<1>1. tmp # <<>> /\ step = "pad"
  BY DEF WritePad, Progress
<1>2. PICK n \in 1..2 : Len(tmp) = n
  BY <1>1, Remainder
<1> DEFINE pads == [i \in 1..3 - n |-> Pad]
<1>3. pads \in Seq(0..63 \cup {Pad}) /\ Len(pads) = 3 - n
  <2>1. 3 - n \in 1..2
    OBVIOUS
  <2> QED BY <2>1, Padding
<1>4. enc' = enc \o pads
  BY <1>2 DEF WritePad
<1> HIDE DEF pads
<1>5. Len(enc) \in Nat /\ Len(src) \in Nat /\ bufc \in Nat \ {0}
  BY DEF B64TypeOK
<1>6. enc' \in Seq(0..63 \cup {Pad}) /\ Len(enc') = Len(enc) + 3 - n
  <2>1. enc' \in Seq(0..63 \cup {Pad}) /\ Len(enc') = Len(enc) + Len(pads)
    BY <1>3, <1>4, Appended
  <2> QED BY <1>3, <1>5, <2>1
<1>7. Len(enc') \in Nat
  BY <1>5, <1>6
<1>8. Len(enc') = B64Len(Len(src))
  <2>1. 3 * (Len(enc) - n - 1) = 4 * (Len(src) - n)
    BY <1>1, <1>2 DEF Progress
  <2>2. 3 * (Len(enc') - 4) = 4 * (Len(src) - n)
    BY <1>5, <1>6, <2>1
  <2>3. n \in 0..2 /\ n # 0
    OBVIOUS
  <2> QED BY <1>5, <1>7, <2>2, <2>3, Lengths
<1>9. bufc' \in Nat \ {0} /\ Len(enc') <= bufc' * BufferSize
  <2>1. bufc' = b64_buf_realloc(Len(enc'))
    BY DEF WritePad
  <2> QED BY <1>5, <1>7, <2>1, Room
<1>10. tmp' = tmp /\ read' = read /\ src' = src /\ step' = "end"
  BY DEF WritePad
<1>11. B64TypeOK'
  BY <1>6, <1>9, <1>10 DEF B64TypeOK
<1>12. Progress'
  BY <1>8, <1>10 DEF Progress
<1>13. InBlocks'
  BY <1>9, <1>10 DEF InBlocks
<1> QED BY <1>11, <1>12, <1>13

\* b64.c: a text of whole groups needs no padding.
LEMMA SkipRestStep ==
  ASSUME B64TypeOK, Progress, InBlocks, SkipRest
  PROVE  B64TypeOK' /\ Progress' /\ InBlocks'
<1>1. Len(src) \in Nat /\ Len(enc) \in Nat
  BY DEF B64TypeOK
<1>2. 3 * Len(enc) = 4 * Len(src)
  <2>1. step = "loop" /\ read = Len(src) /\ Len(tmp) = 0
    BY DEF SkipRest
  <2> QED BY <1>1, <2>1 DEF Progress
<1>3. Len(enc) = B64Len(Len(src))
  BY <1>1, <1>2, Lengths
<1>4. /\ src' = src /\ read' = read /\ tmp' = tmp /\ enc' = enc /\ bufc' = bufc
      /\ step' = "end"
  BY DEF SkipRest
<1>5. B64TypeOK'
  BY <1>4 DEF B64TypeOK
<1>6. Progress'
  BY <1>3, <1>4 DEF Progress
<1>7. InBlocks'
  BY <1>4 DEF InBlocks
<1> QED BY <1>5, <1>6, <1>7

\* b64.c: there is room for the terminator.
LEMMA TerminateStep ==
  ASSUME B64TypeOK, Progress, InBlocks, Terminate
  PROVE  B64TypeOK' /\ Progress' /\ InBlocks'
<1>1. Len(enc) \in Nat /\ Len(enc) + 1 \in Nat /\ bufc \in Nat \ {0}
  BY DEF B64TypeOK
<1>2. bufc' \in Nat \ {0} /\ Len(enc) + 1 <= bufc' * BufferSize
  <2>1. bufc' = b64_buf_realloc(Len(enc) + 1)
    BY DEF Terminate
  <2> QED BY <1>1, <2>1, Room
<1>3. /\ src' = src /\ read' = read /\ tmp' = tmp /\ enc' = enc
      /\ step = "end" /\ step' = "done"
  BY DEF Terminate
<1>4. B64TypeOK'
  BY <1>2, <1>3 DEF B64TypeOK
<1>5. Progress'
  BY <1>3 DEF Progress
<1>6. InBlocks'
  <2>1. bufc' * BufferSize \in Int
    <3>1. BufferSize \in Nat \ {0}
      BY B64Assumptions
    <3> QED BY <1>2, <3>1
  <2>2. Len(enc) <= bufc' * BufferSize
    BY <1>1, <1>2, <2>1
  <2> QED BY <1>2, <1>3, <2>2 DEF InBlocks
<1> QED BY <1>4, <1>5, <1>6

\* b64.c: a turn of the loops keeps the types, the count and the blocks.
LEMMA TurnEncoder ==
  ASSUME B64TypeOK, Progress, InBlocks, b64_turn
  PROVE  B64TypeOK' /\ Progress' /\ InBlocks'
BY ReadByteStep, WriteGroupStep, WriteRestStep, WritePadStep, SkipRestStep, TerminateStep
   DEF b64_turn

(***************************************************************************)
(* What the encoder writes                                                 *)
(***************************************************************************)
\* A byte of the source, and the zero that stands for a missing one.
ByteOf(i) == IF i <= Len(src) THEN src[i] ELSE 0

\* The four digits that belong to group g.
GroupOf(g) == Digits(<<ByteOf(3 * g + 1), ByteOf(3 * g + 2), ByteOf(3 * g + 3)>>)

\* Character k of group g: its digit, if there is a bit of the source in it.
CharOf(g, k) == IF 3 * g + k - 1 > Len(src) THEN Pad ELSE GroupOf(g)[k]

\* Every character that is written is the one that belongs there.
TextInv ==
  \A g \in Nat, k \in 1..4 : 4 * g + k <= Len(enc) => enc[4 * g + k] = CharOf(g, k)

\* The group that is being read is the last of what is read.
GroupInv ==
  /\ Len(tmp) <= read
  /\ \A i \in 1..Len(tmp) : tmp[i] = src[read - Len(tmp) + i]

\* b64.c: the bytes of a group as numbers.
LEMMA ByteType ==
  ASSUME B64TypeOK, NEW i \in Nat \ {0}
  PROVE  ByteOf(i) \in 0..255
<1>1. CASE i <= Len(src)
  <2>1. i \in 1..Len(src)
    BY <1>1 DEF B64TypeOK
  <2>2. src[i] \in Bytes
    BY <2>1, ElementOfSeq DEF B64TypeOK
  <2> QED BY <1>1, <2>2, B64Assumptions DEF ByteOf
<1>2. CASE ~(i <= Len(src))
  BY <1>2 DEF ByteOf
<1> QED BY <1>1, <1>2

\* b64.c: the digits of a group, one by one.
LEMMA DigitsAre ==
  ASSUME NEW a, NEW b, NEW c
  PROVE  /\ Digits(<<a, b, c>>)[1] = a \div 4
         /\ Digits(<<a, b, c>>)[2] = (a % 4) * 16 + b \div 16
         /\ Digits(<<a, b, c>>)[3] = (b % 16) * 4 + c \div 64
         /\ Digits(<<a, b, c>>)[4] = c % 64
BY DEF Digits

\* b64.c: only the first three bytes of what Digits gets matter.
LEMMA DigitsOf ==
  ASSUME NEW t, NEW a, NEW b, NEW c, t[1] = a, t[2] = b, t[3] = c
  PROVE  Digits(t) = Digits(<<a, b, c>>)
<1>1. <<a, b, c>>[1] = a /\ <<a, b, c>>[2] = b /\ <<a, b, c>>[3] = c
  OBVIOUS
<1> QED BY <1>1, Zenon DEF Digits

\* b64.c: what was written before a step stays, and what the step appends is
\* the next part of the text.
LEMMA TextGrows ==
  ASSUME B64TypeOK, TextInv, NEW more \in Seq(0..63 \cup {Pad}), enc' = enc \o more, src' = src,
         \A g \in Nat, k \in 1..4 :
            4 * g + k > Len(enc) /\ 4 * g + k <= Len(enc) + Len(more)
              => more[4 * g + k - Len(enc)] = CharOf(g, k)
  PROVE  TextInv'
<1>1. enc \in Seq(0..63 \cup {Pad}) /\ Len(enc) \in Nat /\ Len(more) \in Nat
  BY DEF B64TypeOK
<1>2. /\ Len(enc') = Len(enc) + Len(more)
      /\ \A i \in 1..Len(enc) + Len(more) :
           enc'[i] = IF i <= Len(enc) THEN enc[i] ELSE more[i - Len(enc)]
  BY <1>1, ConcatProperties
<1>3. ASSUME NEW g \in Nat, NEW k \in 1..4, 4 * g + k <= Len(enc')
      PROVE  enc'[4 * g + k] = CharOf(g, k)
  <2>1. 4 * g + k \in 1..Len(enc) + Len(more)
    BY <1>1, <1>2, <1>3
  <2>2. CASE 4 * g + k <= Len(enc)
    BY <1>2, <2>1, <2>2 DEF TextInv
  <2>3. CASE ~(4 * g + k <= Len(enc))
    <3>1. 4 * g + k > Len(enc) /\ 4 * g + k <= Len(enc) + Len(more)
      BY <1>1, <2>1, <2>3
    <3>2. more[4 * g + k - Len(enc)] = CharOf(g, k)
      BY <3>1
    <3> QED BY <1>2, <2>1, <2>3, <3>2
  <2> QED BY <2>2, <2>3
<1>4. \A g, k : CharOf(g, k)' = CharOf(g, k)
  BY DEF CharOf, GroupOf, ByteOf
<1> QED BY <1>3, <1>4 DEF TextInv

\* b64.c: what is written before a last group are whole groups.
LEMMA WholeGroups ==
  ASSUME NEW e \in Nat, NEW m \in Nat, 3 * e = 4 * m
  PROVE  \E n \in Nat : e = 4 * n /\ m = 3 * n
<1> DEFINE n == e \div 4
<1>1. n \in Nat /\ e = 4 * n /\ m = 3 * n
  OBVIOUS
<1> HIDE DEF n
<1> QED BY <1>1

\* b64.c: the bytes in tmp are those of the group that comes next.
LEMMA TmpIs ==
  ASSUME B64TypeOK, GroupInv, NEW n \in Nat, read - Len(tmp) = 3 * n
  PROVE  \A i \in 1..Len(tmp) : tmp[i] = ByteOf(3 * n + i)
<1>1. Len(tmp) \in Nat /\ read \in Nat /\ Len(src) \in Nat /\ read <= Len(src)
  BY DEF B64TypeOK
<1>2. ASSUME NEW i \in 1..Len(tmp)
      PROVE  tmp[i] = ByteOf(3 * n + i)
  <2>1. tmp[i] = src[3 * n + i]
    BY <1>1 DEF GroupInv
  <2>2. 3 * n + i <= Len(src)
    BY <1>1
  <2> QED BY <2>1, <2>2 DEF ByteOf
<1> QED BY <1>2

LEMMA ReadByteText ==
  ASSUME B64TypeOK, Progress, TextInv, GroupInv, ReadByte
  PROVE  TextInv' /\ GroupInv'
<1>1. /\ tmp \in Seq(Bytes) /\ Len(tmp) \in Nat /\ src[read + 1] \in Bytes
      /\ read \in Nat /\ read' = read + 1 /\ src' = src /\ enc' = enc /\ step' = "loop"
      /\ tmp' = Append(tmp, src[read + 1])
  <2>1. read + 1 \in 1..Len(src)
    BY DEF B64TypeOK, ReadByte
  <2> QED BY <2>1, ElementOfSeq DEF B64TypeOK, ReadByte
<1>2. /\ Len(tmp') = Len(tmp) + 1 /\ tmp'[Len(tmp) + 1] = src[read + 1]
      /\ \A i \in 1..Len(tmp) : tmp'[i] = tmp[i]
  BY <1>1, AppendProperties
<1>3. ASSUME NEW i \in 1..Len(tmp) + 1
      PROVE  tmp'[i] = src[read' - Len(tmp') + i]
  <2>1. read' - Len(tmp') + i = read - Len(tmp) + i
    BY <1>1, <1>2
  <2>2. CASE i \in 1..Len(tmp)
    BY <1>2, <2>1, <2>2 DEF GroupInv
  <2>3. CASE i = Len(tmp) + 1
    <3>1. read - Len(tmp) + i = read + 1
      BY <1>1, <2>3
    <3> QED BY <1>2, <2>1, <2>3, <3>1
  <2> QED BY <1>1, <2>2, <2>3
<1>4. GroupInv'
  BY <1>1, <1>2, <1>3 DEF GroupInv
<1>5. TextInv'
  BY <1>1 DEF TextInv, CharOf, GroupOf, ByteOf
<1> QED BY <1>4, <1>5

\* b64.c: the digits of a whole group are the next four characters.
LEMMA WriteGroupText ==
  ASSUME B64TypeOK, Progress, TextInv, GroupInv, WriteGroup
  PROVE  TextInv' /\ GroupInv'
<1> DEFINE c     == src[read + 1]
           whole == Append(tmp, c)
           group == Digits(whole)
<1>1. /\ src \in Seq(Bytes) /\ read + 1 \in 1..Len(src) /\ Len(src) \in Nat /\ read \in Nat
      /\ tmp \in Seq(Bytes) /\ Len(tmp) = 2 /\ Len(enc) \in Nat
      /\ src' = src /\ enc' = enc \o group /\ tmp' = <<>> /\ step' = "loop"
      /\ 3 * Len(enc) = 4 * (read - Len(tmp))
  BY DEF B64TypeOK, WriteGroup, Progress
<1>2. c \in Bytes
  BY <1>1, ElementOfSeq
<1>3. PICK n \in Nat : Len(enc) = 4 * n /\ read = 3 * n + 2
  <2>1. 3 * Len(enc) = 4 * (read - 2)
    BY <1>1
  <2>2. read - 2 \in Nat
    BY <1>1, <2>1
  <2>3. PICK n \in Nat : Len(enc) = 4 * n /\ read - 2 = 3 * n
    BY <1>1, <2>1, <2>2, WholeGroups
  <2>4. read \in Nat
    BY <1>1
  <2>5. read = 3 * n + 2
    BY <2>3, <2>4
  <2> QED BY <2>3, <2>5, Zenon
<1>4. whole[1] = ByteOf(3 * n + 1) /\ whole[2] = ByteOf(3 * n + 2) /\ whole[3] = ByteOf(3 * n + 3)
  <2>1. /\ \A i \in 1..Len(tmp) : whole[i] = tmp[i]
        /\ whole[Len(tmp) + 1] = c
    <3>1. tmp \in Seq(Bytes)
      BY <1>1
    <3> HIDE DEF c
    <3> QED BY <3>1, <1>2, AppendProperties
  <2>2. \A i \in 1..Len(tmp) : tmp[i] = ByteOf(3 * n + i)
    <3>1. read - Len(tmp) = 3 * n
      BY <1>1, <1>3
    <3> QED BY <3>1, TmpIs
  <2>3. 1 \in 1..Len(tmp) /\ 2 \in 1..Len(tmp) /\ Len(tmp) + 1 = 3
    BY <1>1
  <2>4. c = ByteOf(3 * n + 3)
    BY <1>1, <1>3 DEF ByteOf
  <2> QED BY <2>1, <2>2, <2>3, <2>4, Zenon
<1>5. group = GroupOf(n)
  <2>1. Digits(whole) = Digits(<<ByteOf(3 * n + 1), ByteOf(3 * n + 2), ByteOf(3 * n + 3)>>)
    <3> HIDE DEF whole
    <3> QED BY <1>4, DigitsOf
  <2> QED BY <2>1, Zenon DEF GroupOf
<1>6. group \in Seq(0..63 \cup {Pad}) /\ Len(group) = 4
  <2> HIDE DEF c
  <2> QED BY <1>1, <1>2, FullGroup
<1> HIDE DEF group, whole, c
<1>7. ASSUME NEW g \in Nat, NEW k \in 1..4,
             4 * g + k > Len(enc), 4 * g + k <= Len(enc) + Len(group)
      PROVE  group[4 * g + k - Len(enc)] = CharOf(g, k)
  <2>1. g = n /\ 4 * g + k - Len(enc) = k
    BY <1>3, <1>6, <1>7
  <2>2. ~(3 * g + k - 1 > Len(src))
    BY <1>1, <1>3, <2>1
  <2> QED BY <1>5, <2>1, <2>2, Zenon DEF CharOf
<1>8. TextInv'
  BY <1>1, <1>6, <1>7, TextGrows
<1>9. GroupInv'
  <2>1. Len(tmp') = 0 /\ read' = read + 1
    BY <1>1 DEF WriteGroup
  <2> QED BY <1>1, <2>1 DEF GroupInv
<1> QED BY <1>8, <1>9

\* b64.c: the digits of the remainder are those of the last group, with zeroes
\* for the bytes that it has not.
LEMMA RestText ==
  ASSUME B64TypeOK, GroupInv, NEW n \in Nat, NEW r \in 1..2, Len(tmp) = r,
         read = Len(src), read = 3 * n + r
  PROVE  Digits(tmp \o <<0, 0>>) = GroupOf(n)
<1> DEFINE zeroes == <<0, 0>>
           group  == tmp \o zeroes
<1> DEFINE B == 0..255
<1>1. zeroes \in Seq(B) /\ Len(zeroes) = 2 /\ zeroes[1] = 0 /\ zeroes[2] = 0
  OBVIOUS
<1>2. tmp \in Seq(B)
  <2>1. Bytes \subseteq B
    BY B64Assumptions
  <2>2. tmp \in Seq(Bytes)
    BY DEF B64TypeOK
  <2> HIDE DEF B
  <2> QED BY <2>1, <2>2, SeqMonotonic
<1> HIDE DEF zeroes, B
<1>3. \A i \in 1..Len(tmp) + Len(zeroes) :
        group[i] = IF i <= Len(tmp) THEN tmp[i] ELSE zeroes[i - Len(tmp)]
  <2>1. ASSUME NEW s \in Seq(B), NEW z \in Seq(B)
        PROVE  \A i \in 1..Len(s) + Len(z) :
                 (s \o z)[i] = IF i <= Len(s) THEN s[i] ELSE z[i - Len(s)]
    BY ConcatProperties
  <2>2. zeroes \in Seq(B)
    BY <1>1
  <2> QED BY <1>2, <2>1, <2>2, Zenon
<1> HIDE DEF group
<1>4. \A i \in 1..r + 2 : group[i] = IF i <= r THEN tmp[i] ELSE zeroes[i - r]
  BY <1>1, <1>3
<1>5. \A i \in 1..r : tmp[i] = ByteOf(3 * n + i)
  <2>1. read - Len(tmp) = 3 * n
    OBVIOUS
  <2> QED BY <2>1, TmpIs
<1>6. ASSUME NEW i \in 1..3
      PROVE  group[i] = ByteOf(3 * n + i)
  <2>1. i \in 1..r + 2
    OBVIOUS
  <2>2. CASE i <= r
    BY <1>4, <1>5, <2>1, <2>2
  <2>3. CASE ~(i <= r)
    <3>1. i - r = 1 \/ i - r = 2
      BY <2>3
    <3>2. group[i] = 0
      BY <1>1, <1>4, <2>1, <2>3, <3>1
    <3>3. ~(3 * n + i <= Len(src))
      BY <2>3
    <3> QED BY <3>2, <3>3 DEF ByteOf
  <2> QED BY <2>2, <2>3
<1>7. /\ group[1] = ByteOf(3 * n + 1) /\ group[2] = ByteOf(3 * n + 2)
      /\ group[3] = ByteOf(3 * n + 3)
  BY <1>6
<1>8. Digits(group) = Digits(<<ByteOf(3 * n + 1), ByteOf(3 * n + 2), ByteOf(3 * n + 3)>>)
  BY <1>7, DigitsOf
<1> QED BY <1>8, Zenon DEF GroupOf, group, zeroes

\* b64.c: the digits of every group.
LEMMA GroupType ==
  ASSUME B64TypeOK, NEW n \in Nat
  PROVE  /\ GroupOf(n) \in Seq(0..63 \cup {Pad})
         /\ Len(GroupOf(n)) = 4
<1> DEFINE a == ByteOf(3 * n + 1)
           b == ByteOf(3 * n + 2)
           c == ByteOf(3 * n + 3)
<1>1. a \in 0..255 /\ b \in 0..255 /\ c \in 0..255
  BY ByteType
<1>2. GroupOf(n) = Digits(<<a, b, c>>)
  BY Zenon DEF GroupOf
<1> HIDE DEF a, b, c
<1>3. <<a, b, c>>[1] = a /\ <<a, b, c>>[2] = b /\ <<a, b, c>>[3] = c
  OBVIOUS
<1> QED BY <1>1, <1>2, <1>3, DigitsType

LEMMA WriteRestText ==
  ASSUME B64TypeOK, Progress, TextInv, GroupInv, WriteRest
  PROVE  TextInv' /\ GroupInv'
<1>1. PICK r \in 1..2 : Len(tmp) = r
  BY Remainder DEF WriteRest
<1> DEFINE quad == Digits(tmp \o <<0, 0>>)
           rest   == SubSeq(quad, 1, r + 1)
<1>2. /\ read = Len(src) /\ read \in Nat /\ Len(enc) \in Nat
      /\ 3 * Len(enc) = 4 * (read - Len(tmp))
  BY DEF B64TypeOK, WriteRest, Progress
<1>3. /\ enc' = enc \o rest /\ src' = src /\ tmp' = tmp /\ read' = read /\ step' = "pad"
  BY <1>1 DEF WriteRest
<1>4. PICK n \in Nat : Len(enc) = 4 * n /\ read = 3 * n + r
  <2>1. 3 * Len(enc) = 4 * (read - r)
    BY <1>1, <1>2
  <2>2. read - r \in Nat
    BY <1>2, <2>1
  <2>3. PICK n \in Nat : Len(enc) = 4 * n /\ read - r = 3 * n
    BY <1>2, <2>1, <2>2, WholeGroups
  <2>4. read = 3 * n + r
    BY <1>2, <2>3
  <2> QED BY <2>3, <2>4, Zenon
<1>5. quad = GroupOf(n)
  BY <1>1, <1>2, <1>4, RestText
<1>6. rest \in Seq(0..63 \cup {Pad}) /\ Len(rest) = r + 1
  BY <1>1, LastGroup DEF B64TypeOK
<1>7. \A i \in 1..r + 1 : rest[i] = quad[i]
  <2>1. \A i \in 1..4 : quad[i] \in 0..63 \cup {Pad}
    <3>1. GroupOf(n) \in Seq(0..63 \cup {Pad}) /\ Len(GroupOf(n)) = 4
      BY GroupType
    <3> HIDE DEF quad
    <3> QED BY <1>5, <3>1, LenProperties
  <2> HIDE DEF quad
  <2>2. \A i \in 1..r + 1 : quad[i] \in 0..63 \cup {Pad}
    <3>1. 1..r + 1 \subseteq 1..4
      OBVIOUS
    <3> QED BY <2>1, <3>1, Zenon
  <2>3. \A i \in 1..(r + 1) - 1 + 1 : rest[i] = quad[1 + i - 1]
    BY <2>2, SubSeqProperties
  <2> HIDE DEF rest
  <2> QED BY <2>3
<1> HIDE DEF rest, quad
<1>8. ASSUME NEW g \in Nat, NEW k \in 1..4,
             4 * g + k > Len(enc), 4 * g + k <= Len(enc) + Len(rest)
      PROVE  rest[4 * g + k - Len(enc)] = CharOf(g, k)
  <2>1. g = n /\ 4 * g + k - Len(enc) = k /\ k \in 1..r + 1
    BY <1>4, <1>6, <1>8
  <2>2. ~(3 * g + k - 1 > Len(src))
    BY <1>2, <1>4, <2>1
  <2> QED BY <1>5, <1>7, <2>1, <2>2, Zenon DEF CharOf
<1>9. TextInv'
  BY <1>3, <1>6, <1>8, TextGrows
<1>10. GroupInv'
  BY <1>3 DEF GroupInv
<1> QED BY <1>9, <1>10

\* b64.c: a character without a bit of the source is Pad.
LEMMA WritePadText ==
  ASSUME B64TypeOK, Progress, TextInv, GroupInv, WritePad
  PROVE  TextInv' /\ GroupInv'
<1>1. tmp # <<>> /\ step = "pad"
  BY DEF WritePad, Progress
<1>2. PICK r \in 1..2 : Len(tmp) = r
  BY <1>1, Remainder
<1> DEFINE pads == [i \in 1..3 - r |-> Pad]
<1>3. /\ read = Len(src) /\ read \in Nat /\ Len(enc) \in Nat
      /\ 3 * (Len(enc) - Len(tmp) - 1) = 4 * (read - Len(tmp))
  BY <1>1 DEF B64TypeOK, Progress
<1>4. /\ enc' = enc \o pads /\ src' = src /\ tmp' = tmp /\ read' = read /\ step' = "end"
  BY <1>2 DEF WritePad
<1>5. PICK n \in Nat : Len(enc) = 4 * n + r + 1 /\ read = 3 * n + r
  <2>1. 3 * (Len(enc) - r - 1) = 4 * (read - r)
    BY <1>2, <1>3
  <2>2. read - r \in Nat /\ Len(enc) - r - 1 \in Nat
    <3>1. read >= Len(tmp)
      BY DEF GroupInv
    <3> QED BY <1>2, <1>3, <2>1, <3>1
  <2>3. PICK n \in Nat : Len(enc) - r - 1 = 4 * n /\ read - r = 3 * n
    BY <2>1, <2>2, WholeGroups
  <2>4. Len(enc) = 4 * n + r + 1 /\ read = 3 * n + r
    BY <1>3, <2>3
  <2> QED BY <2>4, Zenon
<1>6. pads \in Seq(0..63 \cup {Pad}) /\ Len(pads) = 3 - r /\ \A i \in 1..3 - r : pads[i] = Pad
  <2>1. 3 - r \in 1..2
    OBVIOUS
  <2> QED BY <2>1, Padding
<1> HIDE DEF pads
<1>7. ASSUME NEW g \in Nat, NEW k \in 1..4,
             4 * g + k > Len(enc), 4 * g + k <= Len(enc) + Len(pads)
      PROVE  pads[4 * g + k - Len(enc)] = CharOf(g, k)
  <2>1. g = n /\ 4 * g + k - Len(enc) \in 1..3 - r
    BY <1>5, <1>6, <1>7
  <2>2. 3 * g + k - 1 > Len(src)
    BY <1>3, <1>5, <1>7, <2>1
  <2> QED BY <1>6, <2>1, <2>2 DEF CharOf
<1>8. TextInv'
  BY <1>4, <1>6, <1>7, TextGrows
<1>9. GroupInv'
  BY <1>4, Zenon DEF GroupInv
<1> QED BY <1>8, <1>9

\* b64.c: a step that leaves the source and the text alone.
LEMMA SameText ==
  ASSUME TextInv, GroupInv, src' = src, enc' = enc, read' = read, tmp' = tmp
  PROVE  TextInv' /\ GroupInv'
<1>1. TextInv'
  BY DEF TextInv, CharOf, GroupOf, ByteOf
<1>2. GroupInv'
  BY Zenon DEF GroupInv
<1> QED BY <1>1, <1>2

LEMMA TurnText ==
  ASSUME B64TypeOK, Progress, TextInv, GroupInv, b64_turn
  PROVE  TextInv' /\ GroupInv'
<1>1. CASE SkipRest
  BY <1>1, SameText DEF SkipRest
<1>2. CASE Terminate
  BY <1>2, SameText DEF Terminate
<1> QED BY <1>1, <1>2, ReadByteText, WriteGroupText, WriteRestText, WritePadText DEF b64_turn

\* b64.c: nothing is written at the beginning of a call, nor after its end.
LEMMA NoText ==
  ASSUME enc = <<>>, tmp = <<>>, read = 0
  PROVE  TextInv /\ GroupInv
<1>1. Len(enc) = 0 /\ Len(tmp) = 0
  OBVIOUS
<1> QED BY <1>1 DEF TextInv, GroupInv

LEMMA NoTextLeft ==
  ASSUME enc' = <<>>, tmp' = <<>>, read' = 0
  PROVE  TextInv' /\ GroupInv'
<1>1. Len(enc') = 0 /\ Len(tmp') = 0
  OBVIOUS
<1> QED BY <1>1 DEF TextInv, GroupInv

Octet == 0..255

\* The number that the four digits of three bytes make.
Number(a, b, c) ==
  (((a \div 4) * 64 + ((a % 4) * 16 + b \div 16)) * 64
    + ((b % 16) * 4 + c \div 64)) * 64 + (c % 64)

\* The bytes of a group, out of that number.
LEMMA Bits ==
  ASSUME NEW a \in Octet, NEW b \in Octet, NEW c \in Octet
  PROVE  /\ ByteIn(Number(a, b, c), 0) = a
         /\ ByteIn(Number(a, b, c), 1) = b
         /\ ByteIn(Number(a, b, c), 2) = c
<1> DEFINE x == Number(a, b, c)
<1> USE DEF Octet
<1>1. x = 256 * 256 * a + 256 * b + c
  <2> DEFINE qa == a \div 4
             ra == a % 4
             qb == b \div 16
             rb == b % 16
             qc == c \div 64
             rc == c % 64
  <2>1. qa \in Int /\ ra \in Int /\ a = 4 * qa + ra
    OBVIOUS
  <2>2. qb \in Int /\ rb \in Int /\ b = 16 * qb + rb
    OBVIOUS
  <2>3. qc \in Int /\ rc \in Int /\ c = 64 * qc + rc
    OBVIOUS
  <2>4. x = ((qa * 64 + (ra * 16 + qb)) * 64 + (rb * 4 + qc)) * 64 + rc
    BY Zenon DEF Number
  <2> HIDE DEF qa, ra, qb, rb, qc, rc
  <2> QED BY <2>1, <2>2, <2>3, <2>4
<1> HIDE DEF x
<1>2. (x \div (256 * 256)) % 256 = a /\ (x \div 256) % 256 = b /\ (x \div 1) % 256 = c
  BY <1>1
<1>3. ByteIn(x, 0) = a /\ ByteIn(x, 1) = b /\ ByteIn(x, 2) = c
  BY <1>2 DEF ByteIn
<1> QED BY <1>3 DEF x

\* b64.c: a digit indexes b64_table.
LEMMA GroupDigits ==
  ASSUME B64TypeOK, NEW g \in Nat, NEW k \in 1..4
  PROVE  GroupOf(g)[k] \in 0..63
<1> DEFINE a == ByteOf(3 * g + 1)
           b == ByteOf(3 * g + 2)
           c == ByteOf(3 * g + 3)
<1>1. a \in 0..255 /\ b \in 0..255 /\ c \in 0..255
  BY ByteType
<1>2. /\ GroupOf(g)[1] = a \div 4
      /\ GroupOf(g)[2] = (a % 4) * 16 + b \div 16
      /\ GroupOf(g)[3] = (b % 16) * 4 + c \div 64
      /\ GroupOf(g)[4] = c % 64
  BY DigitsAre DEF GroupOf
<1> HIDE DEF a, b, c
<1>3. a \div 4 \in 0..63
  BY <1>1
<1>4. (a % 4) * 16 + b \div 16 \in 0..63
  BY <1>1
<1>5. (b % 16) * 4 + c \div 64 \in 0..63
  BY <1>1
<1>6. c % 64 \in 0..63
  BY <1>1
<1>7. k = 1 \/ k = 2 \/ k = 3 \/ k = 4
  OBVIOUS
<1> QED BY <1>2, <1>3, <1>4, <1>5, <1>6, <1>7, Zenon

\* The characters of a text as numbers: Pad only stands for bits that are zero.
LEMMA DigitIs ==
  ASSUME B64TypeOK, TextInv, NEW g \in Nat, NEW k \in 1..4, 4 * g + k <= Len(enc),
         3 * g < Len(src)
  PROVE  DigitAt(enc, 4 * g + k) = GroupOf(g)[k]
<1> DEFINE a == ByteOf(3 * g + 1)
           b == ByteOf(3 * g + 2)
           c == ByteOf(3 * g + 3)
<1>1. a \in 0..255 /\ b \in 0..255 /\ c \in 0..255
  BY ByteType
<1>2. enc[4 * g + k] = CharOf(g, k)
  BY DEF TextInv
<1>3. /\ GroupOf(g)[1] = a \div 4
      /\ GroupOf(g)[2] = (a % 4) * 16 + b \div 16
      /\ GroupOf(g)[3] = (b % 16) * 4 + c \div 64
      /\ GroupOf(g)[4] = c % 64
  BY DigitsAre DEF GroupOf
<1>4. CASE 3 * g + k - 1 > Len(src)
  <2>1. Len(src) \in Nat
    BY DEF B64TypeOK
  <2>2. k = 3 \/ k = 4
    BY <1>4, <2>1
  <2>3. c = 0 /\ (k = 3 => b = 0)
    BY <1>4, <2>1, <2>2 DEF ByteOf
  <2> HIDE DEF a, b, c
  <2>4. CASE k = 3
    <3>1. (0 % 16) * 4 + 0 \div 64 = 0
      OBVIOUS
    <3> QED BY <1>2, <1>3, <1>4, <2>3, <2>4, <3>1, Zenon DEF CharOf, DigitAt
  <2>5. CASE k = 4
    <3>1. 0 % 64 = 0
      OBVIOUS
    <3> QED BY <1>2, <1>3, <1>4, <2>3, <2>5, <3>1, Zenon DEF CharOf, DigitAt
  <2> QED BY <2>2, <2>4, <2>5
<1>5. CASE ~(3 * g + k - 1 > Len(src))
  <2>1. GroupOf(g)[k] \in 0..63
    BY GroupDigits
  <2>2. GroupOf(g)[k] # Pad
    BY <2>1, B64Assumptions
  <2> QED BY <1>2, <1>5, <2>2 DEF CharOf, DigitAt
<1> QED BY <1>4, <1>5

\* The number of padding characters is what the last group lacks.
LEMMA Pads ==
  ASSUME B64TypeOK, TextInv, Len(enc) = B64Len(Len(src))
  PROVE  (Len(enc) \div 4) * 3 - Cardinality({i \in DOMAIN enc : enc[i] = Pad}) = Len(src)
<1> DEFINE n    == Len(src)
           e    == Len(enc)
           p    == (e \div 4) * 3 - n
           pads == {i \in DOMAIN enc : enc[i] = Pad}
<1>1. n \in Nat /\ e \in Nat /\ e = ((n + 2) \div 3) * 4
  BY DEF B64TypeOK, B64Len
<1>2. p \in 0..2 /\ e >= p
  <2> HIDE DEF n, e
  <2> QED BY <1>1
<1>3. ASSUME NEW i \in 1..e
      PROVE  enc[i] = Pad <=> i > e - p
  <2> DEFINE g == (i - 1) \div 4
             k == ((i - 1) % 4) + 1
  <2>1. i \in 1..e /\ e \in Nat
    BY <1>1
  <2> HIDE DEF e
  <2>2. g \in Nat /\ k \in 1..4 /\ i = 4 * g + k
    BY <2>1
  <2> HIDE DEF g, k
  <2>3. 4 * g + k <= Len(enc)
    BY <2>1, <2>2 DEF e
  <2>4. enc[i] = CharOf(g, k)
    BY <2>2, <2>3 DEF TextInv
  <2>5. GroupOf(g)[k] # Pad
    <3>1. GroupOf(g)[k] \in 0..63
      BY <2>2, GroupDigits
    <3> QED BY <3>1, B64Assumptions
  <2>6. enc[i] = Pad <=> 3 * g + k - 1 > n
    BY <2>4, <2>5 DEF CharOf
  <2>7. 3 * g + k - 1 > n <=> i > e - p
    <3> HIDE DEF n
    <3> QED BY <1>1, <2>1, <2>2
  <2> QED BY <2>6, <2>7
<1>4. DOMAIN enc = 1..e
  BY DEF B64TypeOK
<1>5. pads = (e - p + 1)..e
  <2> HIDE DEF e, p
  <2>1. pads = {i \in 1..e : i > e - p}
    BY <1>3, <1>4
  <2>2. p \in 0..2 /\ e \in Nat /\ e >= p
    BY <1>1, <1>2
  <2> HIDE DEF pads
  <2> QED BY <2>1, <2>2
<1>6. Cardinality(pads) = p
  <2> HIDE DEF n, e, p, pads
  <2>1. e \in Nat /\ p \in 0..2 /\ e - p + 1 \in Int
    BY <1>1, <1>2
  <2>2. Cardinality((e - p + 1)..e) = IF e - p + 1 > e THEN 0 ELSE e - (e - p + 1) + 1
    BY <2>1, FS_Interval
  <2> QED BY <1>5, <2>1, <2>2
<1> HIDE DEF pads
<1>7. (e \div 4) * 3 - Cardinality(pads) = n
  <2> HIDE DEF n, e
  <2>1. (e \div 4) * 3 \in Int
    BY <1>1
  <2> QED BY <1>1, <1>6, <2>1
<1> QED BY <1>7 DEF pads

\* The reference decoder gets every byte of the source back.
LEMMA TextDecodes ==
  ASSUME B64TypeOK, TextInv, Len(enc) = B64Len(Len(src))
  PROVE  Decoded(enc) = src
<1>1. (Len(enc) \div 4) * 3 - Cardinality({i \in DOMAIN enc : enc[i] = Pad}) = Len(src)
  BY Pads
<1>2. Decoded(enc) = [j \in 1..Len(src) |-> ByteAt(enc, j)]
  BY <1>1, Zenon DEF Decoded
<1>3. Len(src) \in Nat /\ Len(enc) \in Nat /\ Len(enc) = ((Len(src) + 2) \div 3) * 4
  BY DEF B64TypeOK, B64Len
<1>4. ASSUME NEW j \in 1..Len(src)
      PROVE  ByteAt(enc, j) = src[j]
  <2> DEFINE g == (j - 1) \div 3
             r == (j - 1) % 3
             a == ByteOf(3 * g + 1)
             b == ByteOf(3 * g + 2)
             c == ByteOf(3 * g + 3)
             x == GroupAt(enc, g)
  <2>1. g \in Nat /\ r \in 0..2 /\ j = 3 * g + r + 1
    BY <1>3
  <2>2. ByteAt(enc, j) = ByteIn(x, r)
    BY Zenon DEF ByteAt
  <2> HIDE DEF g, r
  <2>3. 3 * g < Len(src) /\ 4 * g + 4 <= Len(enc)
    BY <1>3, <2>1
  <2>4. \A k \in 1..4 : DigitAt(enc, 4 * g + k) = GroupOf(g)[k]
    <3>1. ASSUME NEW k \in 1..4
          PROVE  4 * g + k <= Len(enc)
      BY <1>3, <2>1, <2>3
    <3> QED BY <2>1, <2>3, <3>1, DigitIs
  <2>5. /\ DigitAt(enc, 4 * g + 1) = a \div 4
        /\ DigitAt(enc, 4 * g + 2) = (a % 4) * 16 + b \div 16
        /\ DigitAt(enc, 4 * g + 3) = (b % 16) * 4 + c \div 64
        /\ DigitAt(enc, 4 * g + 4) = c % 64
    <3>1. /\ GroupOf(g)[1] = a \div 4
          /\ GroupOf(g)[2] = (a % 4) * 16 + b \div 16
          /\ GroupOf(g)[3] = (b % 16) * 4 + c \div 64
          /\ GroupOf(g)[4] = c % 64
      BY DigitsAre DEF GroupOf
    <3>2. 1 \in 1..4 /\ 2 \in 1..4 /\ 3 \in 1..4 /\ 4 \in 1..4
      OBVIOUS
    <3> HIDE DEF a, b, c
    <3> QED BY <2>4, <3>1, <3>2, Zenon
  <2>6. a \in Octet /\ b \in Octet /\ c \in Octet
    BY <2>1, ByteType DEF Octet
  <2>7. src[j] = ByteOf(j)
    BY DEF ByteOf
  <2>8. /\ r = 0 => src[j] = a
        /\ r = 1 => src[j] = b
        /\ r = 2 => src[j] = c
    BY <2>1, <2>7
  <2> HIDE DEF a, b, c
  <2>9. x = Number(a, b, c)
    BY <2>5, Zenon DEF GroupAt, Number
  <2> HIDE DEF x
  <2>10. ByteIn(x, 0) = a /\ ByteIn(x, 1) = b /\ ByteIn(x, 2) = c
    BY <2>6, <2>9, Bits
  <2>11. r = 0 \/ r = 1 \/ r = 2
    BY <2>1
  <2> QED BY <2>2, <2>8, <2>10, <2>11, Zenon
<1>5. src = [j \in 1..Len(src) |-> src[j]]
  BY DEF B64TypeOK
<1>6. [j \in 1..Len(src) |-> ByteAt(enc, j)] = [j \in 1..Len(src) |-> src[j]]
  BY <1>4
<1> QED BY <1>2, <1>5, <1>6, Zenon

(***************************************************************************)
(* The messages                                                            *)
(***************************************************************************)
\* connect.c: the reserve for one line, and with it the one for the array.
LEMMA Reserve ==
  /\ B64Len(MaxLogLen) \in Nat
  /\ Slot \in Nat \ {0}
  /\ 3 + NumLogs * Slot <= logarrsize
<1> DEFINE k == B64Len(MaxLogLen)
<1>1. NumLogs \in Nat \ {0} /\ MaxLogLen \in Nat
  BY PayloadAssumptions
<1>2. k \in Nat
  BY <1>1, B64LenMonotone
<1>3. Slot = k + 3 /\ logarrsize = (k + 1) * NumLogs + (NumLogs * 4 + NumLogs - 1 + 2)
  BY DEF Slot, logarrsize
<1> HIDE DEF k
<1>4. (k + 1) * NumLogs = NumLogs * k + NumLogs /\ NumLogs * (k + 3) = NumLogs * k + NumLogs * 3
  BY <1>1, <1>2
<1>5. NumLogs * k \in Nat
  BY <1>1, <1>2
<1>6. 3 + NumLogs * Slot <= logarrsize
  BY <1>1, <1>3, <1>4, <1>5
<1>7. k + 3 \in Nat \ {0}
  BY <1>2
<1> QED BY <1>2, <1>3, <1>6, <1>7 DEF k

\* connect.c: what the lines of the loop take.
LEMMA Slots ==
  ASSUME NEW n \in 0..NumLogs
  PROVE  /\ n * Slot \in Nat
         /\ n * Slot <= NumLogs * Slot
         /\ (n + 1) * Slot = n * Slot + Slot
<1>1. Slot \in Nat /\ NumLogs \in Nat
  BY Reserve, PayloadAssumptions
<1> QED BY <1>1

\* b64.c: the text of a line is never longer than the reserve.
LEMMA EncodedFits ==
  ASSUME B64TypeOK, Progress, Len(src) < MaxLogLen
  PROVE  Len(enc) <= B64Len(MaxLogLen)
<1>1. /\ Len(src) \in Nat /\ Len(enc) \in Nat /\ Len(tmp) \in Nat /\ read \in 0..Len(src)
      /\ MaxLogLen \in Nat
  BY PayloadAssumptions DEF B64TypeOK
<1>2. 4 * MaxLogLen <= 3 * B64Len(MaxLogLen)
  BY <1>1 DEF B64Len
<1>3. B64Len(MaxLogLen) \in Nat
  BY Reserve
<1>4. CASE step = "idle"
  <2>1. Len(enc) = 0
    BY <1>4, EmptySeq DEF Progress
  <2> QED BY <1>3, <2>1
<1>5. CASE step = "loop"
  <2>1. 3 * Len(enc) = 4 * (read - Len(tmp))
    BY <1>5 DEF Progress
  <2> QED BY <1>1, <1>2, <1>3, <2>1
<1>6. CASE step = "pad"
  <2>1. 3 * (Len(enc) - Len(tmp) - 1) = 4 * (read - Len(tmp)) /\ tmp # <<>>
    BY <1>6 DEF Progress
  <2>2. PICK n \in 1..2 : Len(tmp) = n
    BY <2>1, Remainder
  <2>3. 3 * (Len(enc) - n - 1) = 4 * (read - n)
    BY <2>1, <2>2
  <2> QED BY <1>1, <1>2, <1>3, <2>3
<1>7. CASE step \in {"end", "done"}
  <2>1. Len(enc) = B64Len(Len(src))
    BY <1>7 DEF Progress
  <2> QED BY <1>1, <2>1, B64LenMonotone
<1> QED BY <1>4, <1>5, <1>6, <1>7 DEF B64TypeOK

\* b64.c is not called: what holds of the encoder stays.
LEMMA Quiet ==
  ASSUME B64TypeOK, Progress, InBlocks, UNCHANGED b64_vars
  PROVE  B64TypeOK' /\ Progress' /\ InBlocks'
BY DEF B64TypeOK, Progress, InBlocks, b64_vars

\* b64.c: the beginning and the end of a call.
LEMMA CallEncoder ==
  ASSUME NEW line \in Seq(Bytes), b64_encode(line)
  PROVE  B64TypeOK' /\ Progress' /\ InBlocks'
<1>1. BufferSize \in Nat \ {0}
  BY B64Assumptions
<1>2. Len(line) \in Nat /\ <<>> \in Seq(Bytes) /\ <<>> \in Seq(0..63 \cup {Pad}) /\ Len(<<>>) = 0
  BY EmptySeq
<1> QED BY <1>1, <1>2 DEF b64_encode, B64TypeOK, Progress, InBlocks

LEMMA ReturnEncoder ==
  ASSUME b64_return
  PROVE  B64TypeOK' /\ Progress' /\ InBlocks'
<1>1. BufferSize \in Nat \ {0}
  BY B64Assumptions
<1>2. <<>> \in Seq(Bytes) /\ <<>> \in Seq(0..63 \cup {Pad}) /\ Len(<<>>) = 0
  BY EmptySeq
<1> QED BY <1>1, <1>2 DEF b64_return, B64TypeOK, Progress, InBlocks

LEMMA InitInv ==
  ASSUME Init
  PROVE  IInv
<1>1. BufferSize \in Nat \ {0} /\ NumLogs \in Nat
  BY B64Assumptions, PayloadAssumptions
<1>2. <<>> \in Seq(Bytes) /\ <<>> \in Seq(0..63 \cup {Pad}) /\ Len(<<>>) = 0
  BY EmptySeq
<1>3. B64TypeOK /\ Progress /\ InBlocks
  BY <1>1, <1>2 DEF Init, b64_idle, B64TypeOK, Progress, InBlocks
<1>4. TypeOK
  BY <1>1, <1>3 DEF Init, TypeOK, Kinds
<1>5. ArrayInv
  BY DEF Init, b64_idle, ArrayInv
<1>6. SizeInv /\ InAllocation
  BY DEF Init, SizeInv, InAllocation
<1> QED BY <1>3, <1>4, <1>5, <1>6 DEF IInv

\* host.c: a request replaces the token, at any time.
LEMMA ParseStep ==
  ASSUME IInv, parse_wifi_credentials
  PROVE  IInv'
<1>1. B64TypeOK' /\ Progress' /\ InBlocks'
  BY Quiet DEF IInv, TypeOK, parse_wifi_credentials
<1>2. token \in Nat /\ token' \in Nat /\ token' \in Tokens /\ growth \in Int /\ alloc \in Nat
  BY PayloadAssumptions DEF IInv, TypeOK, parse_wifi_credentials
<1>3. /\ growth' = (IF pc = "bound" THEN growth + token' - token ELSE growth)
      /\ step' = step /\ src' = src
      /\ UNCHANGED <<pc, kind, digits, logs, pos, full, alloc, limit, text, sent>>
  BY DEF parse_wifi_credentials, b64_vars
<1>4. TypeOK'
  BY <1>1, <1>2, <1>3 DEF IInv, TypeOK
<1>5. ArrayInv'
  BY <1>3 DEF IInv, ArrayInv
<1>6. SizeInv' /\ InAllocation'
  <2>1. CASE pc = "bound"
    <3>1. alloc + growth = 46 + token /\ kind = "provision"
      BY <2>1 DEF IInv, SizeInv
    <3>2. alloc' + growth' = 46 + token'
      BY <1>2, <1>3, <2>1, <3>1
    <3> QED BY <1>3, <2>1, <3>1, <3>2 DEF SizeInv, InAllocation
  <2>2. CASE pc # "bound"
    <3>1. growth' = growth /\ Overrun' = Overrun
      BY <1>3, <2>2 DEF Overrun
    <3> QED BY <1>3, <2>2, <3>1 DEF IInv, SizeInv, InAllocation
  <2> QED BY <2>1, <2>2
<1> QED BY <1>1, <1>4, <1>5, <1>6 DEF IInv

\* connect.c, provision: the first strlen of the token, for malloc.
LEMMA ProvisionAllocStep ==
  ASSUME IInv, ProvisionAlloc
  PROVE  IInv'
<1>1. B64TypeOK' /\ Progress' /\ InBlocks'
  BY Quiet DEF IInv, TypeOK, ProvisionAlloc
<1>2. token \in Nat
  BY PayloadAssumptions DEF IInv, TypeOK
<1>3. /\ alloc' = 46 + token /\ text' = 0 /\ sent' = 0
      /\ pc' = "bound" /\ kind' = "provision" /\ step' = step /\ pc = "idle"
      /\ UNCHANGED <<token, growth, digits, logs, pos, full, limit>>
  BY <1>2 DEF ProvisionAlloc, b64_vars
<1>4. TypeOK'
  BY <1>1, <1>2, <1>3 DEF IInv, TypeOK, Kinds
<1>5. ArrayInv'
  BY <1>3 DEF IInv, ArrayInv
<1>6. SizeInv' /\ InAllocation'
  <2>1. growth' = 0 /\ alloc' + growth' = 46 + token'
    BY <1>2, <1>3 DEF IInv, SizeInv
  <2> QED BY <1>3, <2>1 DEF SizeInv, InAllocation
<1> QED BY <1>1, <1>4, <1>5, <1>6 DEF IInv

\* connect.c, provision: the second strlen, for snprintf.
LEMMA ProvisionBoundStep ==
  ASSUME IInv, ProvisionBound
  PROVE  IInv'
<1>1. B64TypeOK' /\ Progress' /\ InBlocks'
  BY Quiet DEF IInv, TypeOK, ProvisionBound
<1>2. token \in Nat /\ growth \in Int /\ alloc \in Nat
  BY PayloadAssumptions DEF IInv, TypeOK
<1>3. /\ limit' = 45 + token
      /\ pc' = "format" /\ step' = step /\ pc = "bound"
      /\ UNCHANGED <<kind, token, growth, digits, logs, pos, full, alloc, text, sent>>
  BY <1>2 DEF ProvisionBound, b64_vars
<1>4. TypeOK'
  BY <1>1, <1>2, <1>3 DEF IInv, TypeOK
<1>5. ArrayInv'
  BY <1>3 DEF IInv, ArrayInv
<1>6. kind = "provision" /\ alloc + growth = 46 + token
  BY <1>3 DEF IInv, SizeInv
<1>7. limit' > 0 /\ limit' <= alloc' + Overrun'
  BY <1>2, <1>3, <1>6 DEF Overrun
<1>8. SizeInv' /\ InAllocation'
  BY <1>3, <1>6, <1>7 DEF SizeInv, InAllocation
<1> QED BY <1>1, <1>4, <1>5, <1>8 DEF IInv

LEMMA BreadcrumbMeasureStep ==
  ASSUME IInv, BreadcrumbMeasure
  PROVE  IInv'
<1>1. B64TypeOK' /\ Progress' /\ InBlocks'
  BY Quiet DEF IInv, TypeOK, BreadcrumbMeasure
<1>2. PICK c \in Readings, t \in Readings : digits' = c + t
  BY DEF BreadcrumbMeasure
<1>3. token \in Nat /\ c \in Nat /\ t \in Nat /\ digits' \in Nat
  BY <1>2, PayloadAssumptions DEF IInv, TypeOK
<1> DEFINE len == BreadcrumbLen(digits')
<1>4. len \in Nat \ {0}
  <2>1. ASSUME NEW d \in Nat
        PROVE  BreadcrumbLen(d) \in Nat \ {0}
    BY <1>3 DEF BreadcrumbLen, Opening
  <2> QED BY <1>3, <2>1
<1>5. /\ alloc' = len /\ limit' = len /\ text' = 0 /\ sent' = 0
      /\ pc' = "format" /\ kind' = "breadcrumb" /\ step' = step /\ pc = "idle"
      /\ UNCHANGED <<token, growth, logs, pos, full>>
  BY DEF BreadcrumbMeasure, Measured, b64_vars
<1> HIDE DEF len
<1>6. TypeOK'
  BY <1>1, <1>3, <1>4, <1>5 DEF IInv, TypeOK, Kinds
<1>7. ArrayInv'
  BY <1>5 DEF IInv, ArrayInv
<1>8. SizeInv' /\ InAllocation'
  <2>1. limit' > 0 /\ limit' <= alloc' + Overrun'
    BY <1>4, <1>5 DEF Overrun
  <2> QED BY <1>5, <2>1 DEF SizeInv, InAllocation
<1> QED BY <1>1, <1>6, <1>7, <1>8 DEF IInv

\* connect.c, logdump: the array begins.
LEMMA LogdumpBeginStep ==
  ASSUME IInv, LogdumpBegin
  PROVE  IInv'
<1>1. B64TypeOK' /\ Progress' /\ InBlocks'
  BY Quiet DEF IInv, TypeOK, LogdumpBegin
<1>3. /\ pos' = 1 /\ text' = 0 /\ sent' = 0
      /\ pc' = "array" /\ kind' = "logdump" /\ step' = step /\ pc = "idle"
      /\ UNCHANGED <<token, growth, digits, logs, full, alloc, limit>>
  BY DEF LogdumpBegin, b64_vars
<1>4. TypeOK'
  BY <1>1, <1>3 DEF IInv, TypeOK, Kinds
<1>5. ArrayInv'
  <2>1. logs * Slot \in Nat
    BY Slots DEF IInv, TypeOK
  <2>2. pos' <= 1 + logs' * Slot
    BY <1>3, <2>1
  <2> QED BY <1>3, <2>2 DEF IInv, ArrayInv
<1>6. SizeInv' /\ InAllocation'
  BY <1>3 DEF SizeInv, InAllocation
<1> QED BY <1>1, <1>4, <1>5, <1>6 DEF IInv

\* A line moves pos by two characters at most before it is encoded, and there is
\* a slot left for it.
LEMMA LogdumpLineStep ==
  ASSUME IInv, LogdumpLine
  PROVE  IInv'
<1>1. PICK line \in Lines : b64_encode(line)
  BY DEF LogdumpLine
<1>2. line \in Seq(Bytes) /\ Len(line) < MaxLogLen
  BY PayloadAssumptions
<1>3. B64TypeOK' /\ Progress' /\ InBlocks'
  BY <1>1, <1>2, CallEncoder
<1>4. /\ src' = line /\ step' = "loop" /\ pc = "array" /\ pc' = "encode"
      /\ logs' = logs + 1 /\ logs < NumLogs
      /\ UNCHANGED <<kind, token, growth, digits, full, alloc, limit, text, sent>>
  BY <1>1 DEF LogdumpLine, b64_encode
<1>5. logs \in 0..NumLogs /\ NumLogs \in Nat /\ pos \in Nat
  BY PayloadAssumptions DEF IInv, TypeOK
<1>6. pos' \in Nat /\ pos' <= pos + 2
  BY <1>5 DEF LogdumpLine
<1>7. logs' \in 0..NumLogs /\ logs' > 0
  BY <1>4, <1>5
<1>8. TypeOK'
  BY <1>3, <1>4, <1>6, <1>7 DEF IInv, TypeOK
<1>9. pos' + B64Len(MaxLogLen) + 1 <= 1 + logs' * Slot
  <2>1. pos <= 1 + logs * Slot
    BY <1>4 DEF IInv, ArrayInv
  <2>2. logs' * Slot = logs * Slot + Slot /\ logs * Slot \in Nat
    BY <1>4, <1>5, Slots
  <2>3. Slot = B64Len(MaxLogLen) + 3 /\ B64Len(MaxLogLen) \in Nat
    BY Reserve DEF Slot
  <2> QED BY <1>5, <1>6, <2>1, <2>2, <2>3
<1>10. ArrayInv'
  BY <1>2, <1>4, <1>7, <1>9 DEF ArrayInv
<1>11. SizeInv' /\ InAllocation'
  BY <1>4 DEF IInv, SizeInv, InAllocation
<1> QED BY <1>3, <1>8, <1>10, <1>11 DEF IInv

LEMMA LogdumpEncodeStep ==
  ASSUME IInv, LogdumpEncode
  PROVE  IInv'
<1>1. B64TypeOK' /\ Progress' /\ InBlocks'
  BY TurnEncoder DEF IInv, TypeOK, LogdumpEncode
<1>2. step # "idle" /\ step' # "idle" /\ src' = src
  BY DEF LogdumpEncode, b64_turn, ReadByte, WriteGroup, WriteRest, WritePad, SkipRest, Terminate
<1>3. UNCHANGED <<pc, kind, token, growth, digits, logs, pos, full, alloc, limit, text, sent>>
  BY DEF LogdumpEncode
<1>4. TypeOK'
  BY <1>1, <1>3 DEF IInv, TypeOK
<1>5. ArrayInv'
  BY <1>2, <1>3 DEF IInv, ArrayInv
<1>6. SizeInv' /\ InAllocation'
  BY <1>3 DEF IInv, SizeInv, InAllocation, Overrun
<1> QED BY <1>1, <1>4, <1>5, <1>6 DEF IInv

\* What strcpy copies is no longer than the reserve for the line.
LEMMA LogdumpCopyStep ==
  ASSUME IInv, LogdumpCopy
  PROVE  IInv'
<1>1. B64TypeOK' /\ Progress' /\ InBlocks'
  BY ReturnEncoder DEF LogdumpCopy
<1>2. /\ pc = "encode" /\ pc' = "array" /\ step' = "idle" /\ pos' = pos + Len(enc) + 1
      /\ UNCHANGED <<kind, token, growth, digits, logs, full, alloc, limit, text, sent>>
  BY DEF LogdumpCopy, b64_return
<1>3. Len(enc) \in Nat /\ pos \in Nat /\ logs \in 0..NumLogs
  BY DEF IInv, TypeOK, B64TypeOK
<1>4. TypeOK'
  <2>1. pos' \in Nat
    BY <1>2, <1>3
  <2> QED BY <1>1, <1>2, <2>1 DEF IInv, TypeOK
<1>5. pos' <= 1 + logs * Slot
  <2>1. Len(enc) <= B64Len(MaxLogLen)
    BY <1>2, EncodedFits DEF IInv, TypeOK, ArrayInv
  <2>2. pos + B64Len(MaxLogLen) + 1 <= 1 + logs * Slot
    BY <1>2 DEF IInv, ArrayInv
  <2>3. B64Len(MaxLogLen) \in Nat /\ logs * Slot \in Nat
    BY <1>3, Reserve, Slots
  <2> QED BY <1>2, <1>3, <2>1, <2>2, <2>3
<1>6. ArrayInv'
  BY <1>2, <1>5 DEF ArrayInv
<1>7. SizeInv' /\ InAllocation'
  BY <1>2 DEF IInv, SizeInv, InAllocation
<1> QED BY <1>1, <1>4, <1>6, <1>7 DEF IInv

LEMMA LogdumpEndStep ==
  ASSUME IInv, LogdumpEnd
  PROVE  IInv'
<1>1. B64TypeOK' /\ Progress' /\ InBlocks'
  BY Quiet DEF IInv, TypeOK, LogdumpEnd
<1>2. /\ pc = "array" /\ pc' = "measure" /\ step' = step /\ pos' = pos + 1
      /\ UNCHANGED <<kind, token, growth, digits, logs, full, alloc, limit, text, sent>>
  BY DEF LogdumpEnd, b64_vars
<1>3. pos \in Nat /\ logs \in 0..NumLogs
  BY DEF IInv, TypeOK
<1>4. TypeOK'
  <2>1. pos' \in Nat
    BY <1>2, <1>3
  <2> QED BY <1>1, <1>2, <2>1 DEF IInv, TypeOK
<1>5. pos' <= 2 + NumLogs * Slot
  <2>1. pos <= 1 + logs * Slot
    BY <1>2 DEF IInv, ArrayInv
  <2>2. logs * Slot <= NumLogs * Slot /\ logs * Slot \in Nat /\ NumLogs * Slot \in Nat
    <3>1. NumLogs \in 0..NumLogs
      BY PayloadAssumptions
    <3> QED BY <1>3, <3>1, Slots
  <2> QED BY <1>2, <1>3, <2>1, <2>2
<1>6. ArrayInv'
  BY <1>2, <1>5 DEF IInv, ArrayInv
<1>7. SizeInv' /\ InAllocation'
  BY <1>2 DEF IInv, SizeInv, InAllocation
<1> QED BY <1>1, <1>4, <1>6, <1>7 DEF IInv

LEMMA LogdumpMeasureStep ==
  ASSUME IInv, LogdumpMeasure
  PROVE  IInv'
<1>1. B64TypeOK' /\ Progress' /\ InBlocks'
  BY Quiet DEF IInv, TypeOK, LogdumpMeasure
<1>2. token \in Nat /\ pos \in Nat
  BY PayloadAssumptions DEF IInv, TypeOK
<1>3. LogdumpLen \in Nat
  BY <1>2 DEF LogdumpLen, Opening
<1>4. /\ alloc' = LogdumpLen + 1 /\ limit' = LogdumpLen + 1
      /\ pc = "measure" /\ pc' = "format" /\ step' = step
      /\ UNCHANGED <<token, kind, growth, digits, logs, pos, full, text, sent>>
  BY DEF LogdumpMeasure, Measured, b64_vars
<1>5. TypeOK'
  BY <1>1, <1>3, <1>4 DEF IInv, TypeOK
<1>6. ArrayInv'
  BY <1>4 DEF IInv, ArrayInv
<1>7. kind = "logdump"
  BY <1>4 DEF IInv, SizeInv
<1>8. limit' > 0 /\ limit' <= alloc' + Overrun'
  BY <1>3, <1>4, <1>7 DEF Overrun
<1>9. SizeInv' /\ InAllocation'
  BY <1>4, <1>7, <1>8 DEF SizeInv, InAllocation
<1> QED BY <1>1, <1>5, <1>6, <1>9 DEF IInv

\* connect.c: the locals of a message are gone.
LEMMA ClearedFrame ==
  ASSUME Cleared
  PROVE  /\ growth' \in Int /\ logs' \in 0..NumLogs
         /\ {digits', pos', full', alloc', limit'} \subseteq Nat
BY PayloadAssumptions DEF Cleared

LEMMA LogdumpFailedStep ==
  ASSUME IInv, LogdumpFailed
  PROVE  IInv'
<1>1. B64TypeOK' /\ Progress' /\ InBlocks'
  BY ReturnEncoder DEF LogdumpFailed
<1>2. /\ kind' = "none" /\ pc' = "idle" /\ step' = "idle" /\ Cleared /\ growth' = 0
      /\ UNCHANGED <<token, text, sent>>
  BY DEF LogdumpFailed, b64_return, Cleared
<1>3. TypeOK'
  BY <1>1, <1>2, ClearedFrame DEF IInv, TypeOK, Kinds
<1>4. ArrayInv'
  BY <1>2 DEF ArrayInv
<1>5. SizeInv' /\ InAllocation'
  BY <1>2 DEF SizeInv, InAllocation
<1> QED BY <1>1, <1>3, <1>4, <1>5 DEF IInv

\* connect.c: whatever the token is by now, snprintf keeps to its size.
LEMMA FormatStep ==
  ASSUME IInv, Format
  PROVE  IInv'
<1>1. B64TypeOK' /\ Progress' /\ InBlocks'
  BY Quiet DEF IInv, TypeOK, Format
<1> DEFINE len == MessageLen
<1>2. /\ full' = len /\ text' = Written(len)
      /\ pc = "format" /\ pc' = "publish" /\ step' = step
      /\ UNCHANGED <<kind, token, growth, digits, logs, pos, alloc, limit, sent>>
  BY DEF Format, b64_vars
<1>3. token \in Nat /\ pos \in Nat /\ digits \in Nat /\ growth \in Int /\ alloc \in Nat /\ limit \in Nat
  BY PayloadAssumptions DEF IInv, TypeOK
<1>4. kind # "none" /\ limit > 0 /\ limit <= alloc + Overrun
  BY <1>2 DEF IInv, SizeInv
<1>5. len \in Nat
  <2>1. ProvisionLen \in Nat /\ BreadcrumbLen(digits) \in Nat /\ LogdumpLen \in Nat
    BY <1>3 DEF ProvisionLen, BreadcrumbLen, LogdumpLen, Opening
  <2>2. kind \in {"provision", "breadcrumb", "logdump"}
    BY <1>4 DEF IInv, TypeOK, Kinds
  <2> QED BY <2>1, <2>2 DEF MessageLen
<1> HIDE DEF len
<1>6. text' \in Nat /\ text' + 1 <= limit
  BY <1>2, <1>3, <1>4, <1>5 DEF Written
<1>7. TypeOK'
  BY <1>1, <1>2, <1>5, <1>6 DEF IInv, TypeOK
<1>8. ArrayInv'
  BY <1>2 DEF IInv, ArrayInv
<1>9. InAllocation'
  <2>1. Overrun' = Overrun /\ Overrun \in Nat
    BY <1>2, <1>3 DEF Overrun
  <2>2. text' + 1 <= alloc' + Overrun'
    BY <1>2, <1>3, <1>4, <1>6, <2>1
  <2> QED BY <2>2 DEF InAllocation
<1>10. SizeInv'
  BY <1>2 DEF SizeInv
<1> QED BY <1>1, <1>7, <1>8, <1>9, <1>10 DEF IInv

LEMMA PublishStep ==
  ASSUME IInv, publish
  PROVE  IInv'
<1>1. B64TypeOK' /\ Progress' /\ InBlocks'
  BY Quiet DEF IInv, TypeOK, publish
<1>2. /\ pc = "publish" /\ pc' = "idle" /\ step' = step /\ Cleared /\ growth' = 0
      /\ UNCHANGED <<kind, token, text>>
  BY DEF publish, Cleared, b64_vars
<1>3. sent' \in Nat
  BY PayloadAssumptions DEF IInv, TypeOK, publish
<1>4. TypeOK'
  BY <1>1, <1>2, <1>3, ClearedFrame DEF IInv, TypeOK
<1>5. ArrayInv'
  BY <1>2 DEF IInv, ArrayInv
<1>6. SizeInv' /\ InAllocation'
  BY <1>2 DEF SizeInv, InAllocation
<1> QED BY <1>1, <1>4, <1>5, <1>6 DEF IInv

LEMMA NextInv ==
  ASSUME IInv, [Next]_vars
  PROVE  IInv'
<1>1. CASE Next
  BY <1>1, ParseStep, ProvisionAllocStep, ProvisionBoundStep, BreadcrumbMeasureStep,
     LogdumpBeginStep, LogdumpLineStep, LogdumpEncodeStep, LogdumpCopyStep, LogdumpEndStep,
     LogdumpMeasureStep, LogdumpFailedStep, FormatStep, PublishStep DEF Next, logdump
<1>2. CASE UNCHANGED vars
  BY <1>2 DEF vars, b64_vars, IInv, TypeOK, B64TypeOK, Progress, InBlocks, ArrayInv, SizeInv,
              InAllocation, Overrun
<1> QED BY <1>1, <1>2

LEMMA InvFits ==
  ASSUME IInv
  PROVE  ArrayFits
<1>1. pos \in Nat /\ Len(enc) \in Nat /\ logs \in 0..NumLogs
  BY DEF IInv, TypeOK, B64TypeOK
<1>2. /\ logs * Slot <= NumLogs * Slot /\ logs * Slot \in Nat /\ NumLogs * Slot \in Nat
      /\ 3 + NumLogs * Slot <= logarrsize /\ logarrsize \in Int /\ B64Len(MaxLogLen) \in Nat
  <2>1. NumLogs \in 0..NumLogs
    BY PayloadAssumptions
  <2>2. logarrsize \in Int
    BY Reserve, PayloadAssumptions DEF logarrsize
  <2> QED BY <1>1, <2>1, <2>2, Slots, Reserve
<1>3. CASE pc = "encode"
  <2>1. Len(enc) <= B64Len(MaxLogLen)
    BY <1>3, EncodedFits DEF IInv, TypeOK, ArrayInv
  <2>2. pos + B64Len(MaxLogLen) + 1 <= 1 + logs * Slot
    BY <1>3 DEF IInv, ArrayInv
  <2>3. pos + Len(enc) + 1 <= logarrsize
    BY <1>1, <1>2, <2>1, <2>2
  <2> QED BY <2>3 DEF ArrayFits
<1>4. CASE pc \in {"array", "measure"}
  <2>1. Len(enc) = 0
    BY <1>4, EmptySeq DEF IInv, ArrayInv, Progress
  <2>2. pos <= 2 + NumLogs * Slot
    BY <1>1, <1>2, <1>4 DEF IInv, ArrayInv
  <2>3. pos + Len(enc) + 1 <= logarrsize
    BY <1>1, <1>2, <2>1, <2>2
  <2> QED BY <2>3 DEF ArrayFits
<1> QED BY <1>3, <1>4 DEF ArrayFits

\* connect.c, b64.c: the text is right in every step.
LEMMA NextText ==
  ASSUME IInv, TextInv, GroupInv, [Next]_vars
  PROVE  TextInv' /\ GroupInv'
<1>1. CASE LogdumpLine
  BY <1>1, NoTextLeft DEF LogdumpLine, b64_encode
<1>2. CASE LogdumpCopy \/ LogdumpFailed
  BY <1>2, NoTextLeft DEF LogdumpCopy, LogdumpFailed, b64_return
<1>3. CASE LogdumpEncode
  BY <1>3, TurnText DEF LogdumpEncode, IInv, TypeOK
<1>4. CASE UNCHANGED b64_vars
  BY <1>4, SameText DEF b64_vars
<1> QED
  BY <1>1, <1>2, <1>3, <1>4 DEF Next, logdump, parse_wifi_credentials, ProvisionAlloc,
     ProvisionBound, BreadcrumbMeasure, LogdumpBegin, LogdumpEnd, LogdumpMeasure, Format, publish, vars

LEMMA InvDecodes ==
  ASSUME IInv, TextInv
  PROVE  Decodes
BY TextDecodes DEF IInv, TypeOK, Progress, Decodes

(***************************************************************************)
(* The theorems                                                            *)
(***************************************************************************)
\* The inductive invariant holds in every state of connect.c and b64.c.
THEOREM Invariance == Spec => []IInv
<1>1. Init => IInv
  BY InitInv
<1>2. IInv /\ [Next]_vars => IInv'
  BY NextInv
<1> QED BY <1>1, <1>2, PTL DEF Spec

\* connect.c, b64.c: the types of the messages and of the encoder.
THEOREM PayloadTypeCorrect == Spec => []TypeOK
<1>1. IInv => TypeOK
  BY DEF IInv
<1> QED BY <1>1, Invariance, PTL

\* b64_buf_realloc: whatever the size of a block and the length of a line, the
\* encoder writes nothing behind its blocks, the terminator included.
THEOREM EncoderInBlocks == Spec => []InBlocks
<1>1. IInv => InBlocks
  BY DEF IInv
<1> QED BY <1>1, Invariance, PTL

\* connect.c: whatever the lengths of the fields and whenever a request replaces the
\* token, snprintf writes no breadcrumb and no dump behind what was allocated for
\* it, and a provisioning message by no more than the token has grown by.
THEOREM MessagesInAllocation == Spec => []InAllocation
<1>1. IInv => InAllocation
  BY DEF IInv
<1> QED BY <1>1, Invariance, PTL

\* connect.c, logdump: whatever lines there are and however many, the strcpy of
\* their texts stays in the array that was reserved for them.
THEOREM LogdumpFits == Spec => []ArrayFits
<1>1. IInv => ArrayFits
  BY InvFits
<1> QED BY <1>1, Invariance, PTL

\* b64_encode: whatever the bytes of a line and however many, the text that is
\* made of it decodes to the line, padding included.
THEOREM EncoderIsInverted == Spec => []Decodes
<1>1. Init => TextInv /\ GroupInv
  BY NoText DEF Init, b64_idle
<1>2. IInv /\ TextInv /\ GroupInv /\ [Next]_vars => TextInv' /\ GroupInv'
  BY NextText
<1>3. IInv /\ TextInv => Decodes
  BY InvDecodes
<1> QED BY <1>1, <1>2, <1>3, Invariance, PTL DEF Spec
=============================================================================
