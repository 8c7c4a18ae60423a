------------------------------ MODULE MCPayload ------------------------------
(***************************************************************************)
(* Payload.tla for TLC: the fields and the buffer of publish() have the    *)
(* lengths of the code; the lines and their number are small.  Two         *)
(* comments of connect.c are stated at the end.                            *)
(***************************************************************************)
EXTENDS Payload

\* No token, tokens of one and two characters, and the longest that a request may
\* have.
TokenLengths == {0, 1, 2, 64}

\* 00001010, 01011101, 10110010 and 11111111: bytes whose bits differ at every
\* border between two digits (a line may hold a network's name in any encoding).
SampleBytes == {10, 93, 178, 255}

\* All lines of up to four bytes, and longer ones of one byte repeated.
SampleLines ==
  UNION {[1..n -> SampleBytes] : n \in 0..4}
    \cup {[i \in 1..n |-> 178] : n \in 5..MaxLogLen - 1}

\* provision() has the comment {"macAddr":"...","contract":"..."} for its text.
\* The size it gives to snprintf leaves no room for the brace at its end.
ProvisionComplete == pc = "publish" /\ kind = "provision" => text = full

\* logdump() frees the lines with the comment "Immediately free all logs, no
\* longer needed": they are in the message.  Of a message that is longer than
\* the buffer of publish() only the beginning is handed to lwIP.
DumpHandedOver == pc = "idle" /\ kind = "logdump" => sent = text
=============================================================================
