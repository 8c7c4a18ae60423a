--------------------------------- MODULE B64 ---------------------------------
(***************************************************************************)
(* b64_encode (b64.c), one action per turn of its loops: bytes are read    *)
(* three at a time, four digits are appended to a buffer that grows when   *)
(* it is full, and the last group is padded.  A digit is its index in      *)
(* b64_table; Pad stands for '='.  Payload.tla calls it for each log line. *)
(***************************************************************************)
EXTENDS Integers, Sequences, FiniteSets

CONSTANTS
  Bytes,       \* the bytes that occur in a log line, a subset of 0..255
  BufferSize,  \* B64_BUFFER_SIZE: 64 K
  Pad          \* '='

ASSUME B64Assumptions ==
  /\ Bytes \subseteq 0..255
  /\ BufferSize \in Nat \ {0}
  /\ Pad \notin 0..63

VARIABLES
  src,   \* the source
  read,  \* how many bytes of it are read
  tmp,   \* the bytes of the group that is being read
  enc,   \* encbuf.ptr: what is written so far
  bufc,  \* encbuf.bufc: the allocated blocks
  step   \* "idle", "loop", "pad", "end" or "done"

b64_vars == <<src, read, tmp, enc, bufc, step>>

B64TypeOK ==
  /\ src \in Seq(Bytes)
  /\ read \in 0..Len(src)
  /\ tmp \in Seq(Bytes) /\ Len(tmp) <= 2
  /\ enc \in Seq(0..63 \cup {Pad})
  /\ bufc \in Nat \ {0}
  /\ step \in {"idle", "loop", "pad", "end", "done"}

b64_idle ==
  src = <<>> /\ read = 0 /\ tmp = <<>> /\ enc = <<>> /\ bufc = 1 /\ step = "idle"

\* The call: b64_buf_malloc has succeeded.
b64_encode(line) ==
  /\ src' = line
  /\ read' = 0 /\ tmp' = <<>> /\ enc' = <<>> /\ bufc' = 1
  /\ step' = "loop"

\* The return: the blocks are freed.
b64_return ==
  /\ src' = <<>>
  /\ read' = 0 /\ tmp' = <<>> /\ enc' = <<>> /\ bufc' = 1
  /\ step' = "idle"

(***************************************************************************)
(* Helpers                                                                 *)
(***************************************************************************)
\* Mutant of b64_buf_realloc: a size of exactly the blocks is one too many.
b64_buf_realloc_late(size) == IF size > bufc * BufferSize + 1 THEN bufc + 1 ELSE bufc

\* The blocks that are allocated once there is room for size bytes.
b64_buf_realloc(size) ==
  IF size > bufc * BufferSize THEN (size + BufferSize - 1) \div BufferSize ELSE bufc

\* Mutant of Digits: the two highest bits of the last byte are lost.
Digits_cut(t) ==
  <<t[1] \div 4, (t[1] % 4) * 16 + t[2] \div 16, (t[2] % 16) * 4, t[3] % 64>>

\* The four digits of three bytes, by masks and shifts.
Digits(t) ==
  <<t[1] \div 4, (t[1] % 4) * 16 + t[2] \div 16, (t[2] % 16) * 4 + t[3] \div 64, t[3] % 64>>

(***************************************************************************)
(* The loops                                                               *)
(***************************************************************************)
\* A byte that does not fill the group.
ReadByte ==
  /\ step = "loop" /\ read < Len(src) /\ Len(tmp) < 2
  /\ tmp' = Append(tmp, src[read + 1])
  /\ read' = read + 1
  /\ UNCHANGED <<src, enc, bufc, step>>

\* The third byte of a group.
WriteGroup ==
  /\ step = "loop" /\ read < Len(src) /\ Len(tmp) = 2
  /\ enc' = enc \o Digits(Append(tmp, src[read + 1]))
  /\ bufc' = b64_buf_realloc(Len(enc) + 4)
  /\ tmp' = <<>>
  /\ read' = read + 1
  /\ UNCHANGED <<src, step>>

\* The remainder: as many digits as it has bytes, and one.
WriteRest ==
  /\ step = "loop" /\ read = Len(src) /\ tmp # <<>>
  /\ enc' = enc \o SubSeq(Digits(tmp \o <<0, 0>>), 1, Len(tmp) + 1)
  /\ bufc' = b64_buf_realloc(Len(enc) + Len(tmp) + 1)
  /\ step' = "pad"
  /\ UNCHANGED <<src, read, tmp>>

\* while (i++ < 3).
WritePad ==
  /\ step = "pad"
  /\ enc' = enc \o [i \in 1..3 - Len(tmp) |-> Pad]
  /\ bufc' = b64_buf_realloc(Len(enc'))
  /\ step' = "end"
  /\ UNCHANGED <<src, read, tmp>>

\* There was no remainder.
SkipRest ==
  /\ step = "loop" /\ read = Len(src) /\ tmp = <<>>
  /\ step' = "end"
  /\ UNCHANGED <<src, read, tmp, enc, bufc>>

\* Room for the terminator, which is written.
Terminate ==
  /\ step = "end"
  /\ bufc' = b64_buf_realloc(Len(enc) + 1)
  /\ step' = "done"
  /\ UNCHANGED <<src, read, tmp, enc>>

b64_turn == ReadByte \/ WriteGroup \/ WriteRest \/ WritePad \/ SkipRest \/ Terminate

(***************************************************************************)
(* Properties                                                              *)
(***************************************************************************)
\* Nothing is written behind the allocated blocks, the terminator included,
\* wherever the growing text crosses from one block to the next
\* (b64_buf_realloc and its calls).
InBlocks ==
  /\ Len(enc) <= bufc * BufferSize
  /\ step = "done" => Len(enc) + 1 <= bufc * BufferSize

\* A reference decoder: a digit, the number of 24 bits that the four digits of a
\* group make, the byte at place r of that number, and byte k of a text.
DigitAt(e, i) == IF e[i] = Pad THEN 0 ELSE e[i]
GroupAt(e, g) ==
  ((DigitAt(e, 4 * g + 1) * 64 + DigitAt(e, 4 * g + 2)) * 64 + DigitAt(e, 4 * g + 3)) * 64
    + DigitAt(e, 4 * g + 4)
ByteIn(x, r) == (x \div (IF r = 0 THEN 256 * 256 ELSE IF r = 1 THEN 256 ELSE 1)) % 256
ByteAt(e, k) == ByteIn(GroupAt(e, (k - 1) \div 3), (k - 1) % 3)

\* Pad tells how many bytes the last group lacks.
Decoded(e) ==
  [k \in 1..(Len(e) \div 4) * 3 - Cardinality({i \in DOMAIN e : e[i] = Pad}) |-> ByteAt(e, k)]

\* What dirtie-srv decodes is what was logged: the digits of the text, read as
\* a number of 24 bits for each group, are the bytes of the source (b64_encode).
Decodes == step = "done" => Decoded(enc) = src
=============================================================================
