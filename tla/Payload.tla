------------------------------- MODULE Payload -------------------------------
(***************************************************************************)
(* The messages of connect.c, by their lengths: how much memory is         *)
(* allocated for a text, how much of it snprintf writes, and how much      *)
(* publish() hands to lwIP.  The texts themselves are left out: the length *)
(* of a text tells whether its end is there.  Only the log lines have      *)
(* their bytes: logdump has B64.tla encode each in its turn, and copies    *)
(* what it gets without a size.                                            *)
(*                                                                         *)
(* The token is not the functions' own: the server replaces it in an       *)
(* interrupt, between any two of their calls.  A strlen or a %s that a      *)
(* request comes into finds the end of the old token or of the new one.    *)
(***************************************************************************)
EXTENDS B64

CONSTANTS
  Tokens,     \* the lengths of prv_token that occur
  Readings,   \* the lengths of a reading in decimal: 1..5
  Lines,      \* the log lines that occur
  NumLogs,    \* length of ctx->logdump: 16
  MaxLogLen,  \* MAX_LOG_LEN: 1024
  MsgBuf,     \* the buffer of publish(): 128
  Beyond      \* how far strlen may run behind that buffer

ASSUME PayloadAssumptions ==
  /\ Tokens \subseteq Nat /\ Readings \subseteq Nat
  /\ NumLogs \in Nat \ {0} /\ MaxLogLen \in Nat \ {0}
  /\ \A line \in Lines : line \in Seq(Bytes) /\ Len(line) < MaxLogLen
  /\ MsgBuf \in Nat \ {0} /\ Beyond \in Nat

VARIABLES
  pc,     \* "idle", "bound" before the second strlen of provision, "array" in the
          \* loop of logdump, "encode" in b64_encode, "measure", "format" or "publish"
  kind,   \* the message
  token,  \* strlen(ctx->prv_token)
  growth, \* how much longer it has become since provision called malloc
  digits, \* the lengths of the two readings of a breadcrumb
  logs,   \* lines that the loop of logdump has encoded
  pos,    \* pos of logdump
  full,   \* the length of the text the template gives
  alloc,  \* the size of the allocated payload
  limit,  \* the size that snprintf gets
  text,   \* the length of the text that is in it
  sent    \* the length that mqtt_publish gets

vars == <<pc, kind, token, growth, digits, logs, pos, full, alloc, limit, text, sent, b64_vars>>

Kinds == {"none", "provision", "breadcrumb", "logdump"}

TypeOK ==
  /\ B64TypeOK
  /\ pc \in {"idle", "bound", "array", "encode", "measure", "format", "publish"}
  /\ kind \in Kinds
  /\ token \in Tokens
  /\ growth \in Int
  /\ logs \in 0..NumLogs
  /\ {digits, pos, full, alloc, limit, text, sent} \subseteq Nat

Init ==
  /\ b64_idle
  /\ pc = "idle" /\ kind = "none"
  /\ token \in Tokens
  /\ growth = 0 /\ digits = 0 /\ logs = 0 /\ pos = 0
  /\ full = 0 /\ alloc = 0 /\ limit = 0 /\ text = 0 /\ sent = 0

(***************************************************************************)
(* The templates: what is not a field                                      *)
(***************************************************************************)
\* {"macAddr":"xx:xx:xx:xx:xx:xx","contract":"
Opening == 43

ProvisionLen == Opening + token + 2
BreadcrumbLen(d) == Opening + token + 17 + 17 + d + 2
LogdumpLen == Opening + token + 12 + pos + 1

\* What a call of snprintf with a size leaves in the buffer.
Written(len) == IF len < limit THEN len ELSE limit - 1

(***************************************************************************)
(* The messages                                                            *)
(***************************************************************************)
\* A request has come.
parse_wifi_credentials ==
  /\ token' \in Tokens
  /\ growth' = IF pc = "bound" THEN growth + token' - token ELSE growth
  /\ UNCHANGED <<pc, kind, digits, logs, pos, full, alloc, limit, text, sent, b64_vars>>

\* No message is being made: the locals of the last one are gone.
Cleared ==
  /\ growth' = 0 /\ digits' = 0 /\ logs' = 0 /\ pos' = 0
  /\ full' = 0 /\ alloc' = 0 /\ limit' = 0

\* malloc(45 + n + 1); mqtt_init_handler calls it for a token.  Where malloc fails
\* nothing changes.
ProvisionAlloc ==
  /\ pc = "idle" /\ token > 0
  /\ kind' = "provision"
  /\ alloc' = 45 + token + 1
  /\ text' = 0 /\ sent' = 0
  /\ pc' = "bound"
  /\ UNCHANGED <<token, growth, digits, logs, pos, full, limit, b64_vars>>

\* The size for snprintf: the token is measured once more.
ProvisionBound ==
  /\ pc = "bound"
  /\ limit' = 45 + token
  /\ pc' = "format"
  /\ UNCHANGED <<kind, token, growth, digits, logs, pos, full, alloc, text, sent, b64_vars>>

\* Mutant of Measured: room for the last character, but not in the memory.
Measured_widened(bytes) ==
  /\ alloc' = bytes
  /\ limit' = bytes + 1
  /\ pc' = "format"

\* The size of malloc is that of snprintf.
Measured(bytes) ==
  /\ alloc' = bytes
  /\ limit' = bytes
  /\ pc' = "format"

\* malloc(len), snprintf(len).
BreadcrumbMeasure ==
  /\ pc = "idle"
  /\ \E c, t \in Readings : digits' = c + t
  /\ Measured(BreadcrumbLen(digits'))
  /\ kind' = "breadcrumb"
  /\ text' = 0 /\ sent' = 0
  /\ UNCHANGED <<token, growth, logs, pos, full, b64_vars>>

\* What is reserved for a line of n bytes.
B64Len(n) == ((n + 2) \div 3) * 4

\* Mutant of logarrsize: the lines are counted as they are, not encoded.
logarrsize_plain == (MaxLogLen + 1) * NumLogs + NumLogs * 4 + NumLogs - 1 + 2

logarrsize ==
  LET max_base64_log_len == B64Len(MaxLogLen) + 1
      json_chars         == NumLogs * 4 + NumLogs - 1 + 2
  IN max_base64_log_len * NumLogs + json_chars

\* "[" is written.
LogdumpBegin ==
  /\ pc = "idle"
  /\ kind' = "logdump"
  /\ pos' = 1
  /\ text' = 0 /\ sent' = 0
  /\ pc' = "array"
  /\ UNCHANGED <<token, growth, digits, logs, full, alloc, limit, b64_vars>>

\* Mutant of LogdumpLine: the loop takes one slot too many.
LogdumpLine_more ==
  /\ pc = "array" /\ logs <= NumLogs
  /\ logs' = logs + 1
  /\ pos' = pos + (IF logs > 0 THEN 1 ELSE 0) + 1
  /\ \E line \in Lines : b64_encode(line)
  /\ pc' = "encode"
  /\ UNCHANGED <<kind, token, growth, digits, full, alloc, limit, text, sent>>

\* A comma but for the first, a quote, and the call of b64_encode.
LogdumpLine ==
  /\ pc = "array" /\ logs < NumLogs
  /\ logs' = logs + 1
  /\ pos' = pos + (IF logs > 0 THEN 1 ELSE 0) + 1
  /\ \E line \in Lines : b64_encode(line)
  /\ pc' = "encode"
  /\ UNCHANGED <<kind, token, growth, digits, full, alloc, limit, text, sent>>

LogdumpEncode ==
  /\ b64_turn
  /\ UNCHANGED <<pc, kind, token, growth, digits, logs, pos, full, alloc, limit, text, sent>>

\* strcpy to the array, which is the end of b64_encode, and a quote.
LogdumpCopy ==
  /\ pc = "encode" /\ step = "done"
  /\ pos' = pos + Len(enc) + 1
  /\ pc' = "array"
  /\ b64_return
  /\ UNCHANGED <<kind, token, growth, digits, logs, full, alloc, limit, text, sent>>

\* "]" is written.
LogdumpEnd ==
  /\ pc = "array"
  /\ pos' = pos + 1
  /\ pc' = "measure"
  /\ UNCHANGED <<kind, token, growth, digits, logs, full, alloc, limit, text, sent, b64_vars>>

\* malloc(len + 1), snprintf(len + 1).
LogdumpMeasure ==
  /\ pc = "measure"
  /\ Measured(LogdumpLen + 1)
  /\ UNCHANGED <<kind, token, growth, digits, logs, pos, full, text, sent, b64_vars>>

\* b64_encode or malloc finds no memory: nothing is published.
LogdumpFailed ==
  /\ pc \in {"encode", "measure"}
  /\ kind' = "none"
  /\ pc' = "idle"
  /\ b64_return
  /\ Cleared
  /\ UNCHANGED <<token, text, sent>>

logdump ==
  \/ LogdumpBegin \/ LogdumpLine \/ LogdumpEncode \/ LogdumpCopy \/ LogdumpEnd \/ LogdumpMeasure
  \/ LogdumpFailed

\* The length of the text that the template of the message gives.
MessageLen ==
  [provision |-> ProvisionLen, breadcrumb |-> BreadcrumbLen(digits), logdump |-> LogdumpLen][kind]

\* snprintf, the same call in each of the three: the token is read once more.
Format ==
  /\ pc = "format"
  /\ full' = MessageLen
  /\ text' = Written(MessageLen)
  /\ pc' = "publish"
  /\ UNCHANGED <<kind, token, growth, digits, logs, pos, alloc, limit, sent, b64_vars>>

\* Without the terminator, which strncpy copies only when there is room for it,
\* strlen runs on behind the buffer.
publish ==
  /\ pc = "publish"
  /\ IF text < MsgBuf THEN sent' = text ELSE \E n \in 0..Beyond : sent' = MsgBuf + n
  /\ pc' = "idle"
  /\ Cleared
  /\ UNCHANGED <<kind, token, text, b64_vars>>

Next ==
  \/ parse_wifi_credentials
  \/ ProvisionAlloc \/ ProvisionBound \/ BreadcrumbMeasure \/ logdump \/ Format
  \/ publish

Spec == Init /\ [][Next]_vars

(***************************************************************************)
(* Properties                                                              *)
(***************************************************************************)
\* How far a text may exceed its memory: provision gives snprintf a size of its own,
\* one less than that of malloc for the same token.
Overrun == IF kind = "provision" /\ growth > 1 THEN growth - 1 ELSE 0

\* No text, with its terminator, is longer than the memory that was allocated for
\* it, whatever requests replace the token between the calls that measure it and
\* the one that prints it; only provision, which measures it twice, may exceed its
\* memory, by no more than the token has grown in between less one (the sizes of
\* malloc and snprintf in provision, breadcrumb and logdump).
InAllocation == pc = "publish" => text + 1 <= alloc + Overrun

\* The array stays in its allocation, whatever the lines: b64_encode copies the
\* text it has made to the array with strcpy, and no size is checked there
\* (logdump, the reserve for each line, and b64_encode, the length of a text).
ArrayFits ==
  pc \in {"array", "encode", "measure"} => pos + Len(enc) + 1 <= logarrsize
=============================================================================
