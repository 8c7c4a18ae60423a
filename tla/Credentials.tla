----------------------------- MODULE Credentials -----------------------------
(***************************************************************************)
(* The four strings of APP_CTX_T, which lie one behind the other in        *)
(* memory: wifi_ssid, wifi_pass, prv_token and hub_loc, BufLen bytes each. *)
(* parse_wifi_credentials writes the first three from a request,           *)
(* flash_write_handler stores them in the text of FlashCodec.tla, and      *)
(* flash_init_handler reads them back after a restart.  Everybody reads    *)
(* them as strings that end at their first terminator, wherever that is.   *)
(*                                                                         *)
(* A request arrives in an interrupt.  It may come between any two writes, *)
(* and while esc_chars reads the string that is written: once to count the *)
(* escapes and once to copy it, a byte in each turn of its loops (of the   *)
(* loads of *src in one turn only the last tells).  What a copy longer     *)
(* than its allocation does to the heap is not modelled.  Power may fail at*)
(* every step.  FLASH_WRITE may come again: update_state has a branch for  *)
(* a reset, which leads back to WIFI_CONFIG.                               *)
(***************************************************************************)
EXTENDS FlashCodec

CONSTANTS
  BufLen,    \* 64
  Order,     \* the keys in the order of their buffers: ssid, password, contract
  Requests,  \* the bodies that arrive: a string for each key
  Nul,       \* the terminator
  Mixed,     \* stands for a string that was replaced while it was written
  HubLoc     \* HUB_LOC of the build

ASSUME CredentialsAssumptions ==
  /\ BufLen \in Nat \ {0}
  /\ Order \in [1..3 -> Keys] /\ ToSet(Order) = Keys
  /\ \A i, j \in 1..3 : Order[i] = Order[j] => i = j
  /\ Requests \subseteq [Keys -> Seq(Chars)]
  /\ Nul \notin Chars
  /\ Mixed \notin Seq(Chars) \cup {NotFound}
  /\ HubLoc \in Seq(Chars) /\ Len(HubLoc) \in 1..BufLen - 1

VARIABLES
  mem,      \* the four buffers, and the byte behind them
  configd,  \* ctx->wifi_configd
  nth,      \* the write that flash_write_handler makes next
  loop,     \* the loop of esc_chars that runs: "count", "copy" or "none"
  seen,     \* the characters that it has read
  room,     \* the bytes that esc_chars has allocated for the copy
  torn,     \* whether a request has come since this write began
  given,    \* the string each buffer was last given
  source    \* the string each key was last given with success

reading == <<loop, seen, room, torn>>

vars == <<flash, call, full, mem, configd, nth, reading, given, source>>

Bytes == 0..4 * BufLen

TypeOK ==
  /\ FlashTypeOK
  /\ mem \in [Bytes -> Chars \cup {Nul}]
  /\ configd \in BOOLEAN
  /\ nth \in 1..3
  /\ loop \in {"none", "count", "copy"}
  /\ seen \in Seq(Chars)
  /\ room \in Nat
  /\ torn \in BOOLEAN
  /\ given \in [Keys -> Seq(Chars) \cup {Mixed}]
  /\ source \in [Keys -> Seq(Chars) \cup {Mixed, NotFound}]

Hub == 3 * BufLen

Base(k) == ((CHOOSE i \in 1..3 : Order[i] = k) - 1) * BufLen

\* memcpy and the assignment of the terminator: s written at an address.
Put(m, at, s) ==
  [i \in Bytes |-> IF i - at \in 0..Len(s) - 1 THEN s[i - at + 1] ELSE m[i]]

\* What a reader of the string at an address sees.
String(at) ==
  LET nul == {i \in Bytes : i >= at /\ mem[i] = Nul}
      end == IF nul = {} THEN 4 * BufLen + 1 ELSE Min(nul)
  IN [i \in 1..end - at |-> mem[at + i - 1]]

\* main: calloc, and strcpy of HUB_LOC.
Booted == Put([i \in Bytes |-> Nul], Hub, HubLoc)

\* No write is under way.
Idle == loop = "none" /\ seen = <<>> /\ room = 0 /\ torn = FALSE

Empty == [k \in Keys |-> <<>>]

Init ==
  /\ initialize_flash
  /\ mem = Booted
  /\ configd = FALSE
  /\ nth = 1
  /\ Idle
  /\ given = Empty
  /\ source = [k \in Keys |-> NotFound]

\* Mutant of Accepted: the lengths are not looked at.
Accepted_always(r) == TRUE

Accepted(r) == \A k \in Keys : Len(r[k]) <= BufLen

\* Mutant of Copied: a string is copied without its terminator.
Copied_open(m, k, s) == Put(m, Base(k), s)

Copied(m, k, s) == Put(m, Base(k), s \o <<Nul>>)

parse_wifi_credentials(r) ==
  /\ Accepted(r)
  /\ LET first == Copied(mem, Order[1], r[Order[1]])
         second == Copied(first, Order[2], r[Order[2]])
     IN mem' = Copied(second, Order[3], r[Order[3]])
  /\ configd' = TRUE
  /\ given' = r
  /\ torn' = (loop # "none")
  /\ UNCHANGED <<flash, call, full, nth, loop, seen, room, source>>

\* The field that flash_write_handler passes to write(), and the byte that
\* esc_chars looks at.
Field == Base(Order[nth])
At == Field + Len(seen)
Ends == At \in Bytes => mem[At] = Nul

\* write() is called, and looks at the length.  After an error the loop calls the
\* handler again.  What write() does with a text that fills the sector, whose copy has no
\* terminator, is not modelled.
flash_write_handler ==
  /\ configd /\ loop = "none" /\ Len(flash) < NvsSize
  /\ IF Len(String(Field)) > MaxVal
     THEN /\ call' = [key |-> Order[nth], val |-> String(Field), ok |-> FALSE]
          /\ nth' = 1
          /\ UNCHANGED loop
     ELSE loop' = "count" /\ UNCHANGED <<call, nth>>
  /\ UNCHANGED <<flash, full, mem, configd, seen, room, torn, given, source>>

\* One turn of a loop of esc_chars.
Turn ==
  /\ loop # "none" /\ ~Ends
  /\ seen' = Append(seen, mem[At])
  /\ UNCHANGED <<flash, call, full, mem, configd, nth, loop, room, torn, given, source>>

\* Mutant of Allocated: the escapes are not counted.
Allocated_plain(s) == Len(s) + 1

Allocated(s) == Len(esc_chars(s)) + 1

\* The first loop ends.
Count ==
  /\ loop = "count" /\ Ends
  /\ room' = Allocated(seen)
  /\ loop' = "copy" /\ seen' = <<>>
  /\ UNCHANGED <<flash, call, full, mem, configd, nth, torn, given, source>>

\* Mutant of Copy: the handler does not stop behind the last write.
Copy_on ==
  /\ loop = "copy" /\ Ends
  /\ LET k == Order[nth] IN
       /\ write_copied(k, seen)
       /\ IF call'.ok
          THEN /\ nth' = nth + 1
               /\ source' = [source EXCEPT ![k] = IF torn THEN Mixed ELSE given[k]]
          ELSE nth' = 1 /\ UNCHANGED source
  /\ loop' = "none" /\ seen' = <<>> /\ room' = 0 /\ torn' = FALSE
  /\ UNCHANGED <<mem, configd, given>>

\* The second loop ends, and the copy is stored.
Copy ==
  /\ loop = "copy" /\ Ends
  /\ LET k == Order[nth] IN
       /\ write_copied(k, seen)
       /\ IF call'.ok
          THEN /\ nth' = (nth % 3) + 1
               /\ source' = [source EXCEPT ![k] = IF torn THEN Mixed ELSE given[k]]
          ELSE nth' = 1 /\ UNCHANGED source
  /\ loop' = "none" /\ seen' = <<>> /\ room' = 0 /\ torn' = FALSE
  /\ UNCHANGED <<mem, configd, given>>

\* The keys that flash_init_handler restores: it stops at the first it misses.
Found == {Order[i] : i \in {j \in 1..3 : \A h \in 1..j : read(Order[h]) # NotFound}}

\* read() copies the escaped value to the buffer and takes the escapes out where
\* it lies: the string is followed by one terminator for each of them.
Restored(m, k) ==
  LET v == read(k)
  IN IF k \in Found THEN Put(m, Base(k), v \o [i \in 1..Len(Escaped(k)) - Len(v) + 1 |-> Nul])
     ELSE m

\* Power is lost and comes back: main and flash_init_handler.
flash_init_handler ==
  /\ mem' = Restored(Restored(Restored(Booted, Order[1]), Order[2]), Order[3])
  /\ configd' = (Found = Keys)
  /\ given' = [k \in Keys |-> IF k \in Found THEN source[k] ELSE <<>>]
  /\ nth' = 1
  /\ loop' = "none" /\ seen' = <<>> /\ room' = 0 /\ torn' = FALSE
  /\ UNCHANGED <<flash, call, full, source>>

Next ==
  \/ flash_write_handler \/ Turn \/ Count \/ Copy
  \/ flash_init_handler
  \/ \E r \in Requests : parse_wifi_credentials(r)

Spec == Init /\ [][Next]_vars

(***************************************************************************)
(* Properties                                                              *)
(***************************************************************************)
\* A string that the text can hold and whose terminator lies in its own buffer.
Storable(s) ==
  /\ s \in Seq(Chars)
  /\ Len(s) < BufLen
  /\ \A i \in DOMAIN s : s[i] # ","

\* The node joins the network and provisions with strings as they were sent,
\* whatever was in the buffers or in flash before, however often it was restarted
\* since, and whatever becomes of the other strings.  A string is lost when it has
\* a comma, when it is as long as its buffer, when a request came while it was
\* written (it is Mixed then), and when the text was full (parse_wifi_credentials,
\* write, read).
CredentialsKept ==
  configd /\ ~full => \A k \in Keys : Storable(given[k]) => String(Base(k)) = given[k]

\* The copy of a string stays within the memory that was allocated for it, whatever
\* has to be escaped; not if a request has come since the count (esc_chars).
CopyFits == loop = "copy" /\ ~torn => Len(esc_chars(seen)) + 1 <= room

(***************************************************************************)
(* What the code does not promise; the Claim configurations refute these.  *)
(***************************************************************************)
\* Every string is kept, whatever it is made of.
AsGiven == configd => \A k \in Keys : String(Base(k)) = given[k]

\* Whatever a buffer holds, some request has brought it.
AsSent == configd => \A k \in Keys : \E r \in Requests : String(Base(k)) = r[k]

\* The copy stays within its memory whatever comes between.
CopyFitsAlways == loop = "copy" => Len(esc_chars(seen)) + 1 <= room

\* The address of the broker stays what the build has set: mqtt_init_handler
\* parses hub_loc, and gives up for ever when it is not an address.
HubKept == String(Hub) = HubLoc
=============================================================================
