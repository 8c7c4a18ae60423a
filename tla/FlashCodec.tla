------------------------------ MODULE FlashCodec -----------------------------
(***************************************************************************)
(* The text that flashmem.c keeps in its sector of flash:                  *)
(*                                                                         *)
(*    ,key1=val1,key2=val2 ... \0                                          *)
(*                                                                         *)
(* and the search, the escapes, the splicing and the page arithmetic that  *)
(* write() and read() do on it.  A text is a sequence of characters; a key *)
(* is one character, since no key of the firmware is the tail of another,  *)
(* and a value may contain that character too.  Credentials.tla reads the  *)
(* string that is written as esc_chars does, and calls what follows in     *)
(* write(), and read(), as the handlers do.  Node.tla keeps of the text the*)
(* map from keys to values, and cuts the power between the erasing and the *)
(* programming; here the two are one step.                                 *)
(***************************************************************************)
EXTENDS Integers, Sequences, SequencesExt

CONSTANTS
  Keys,      \* "ssid", "password" and "contract"
  Chars,     \* the characters that are told apart
  Erased,    \* 0xFF
  MaxVal,    \* MAX_VAL_SIZE: 256
  PageSize,  \* 256
  NvsSize,   \* NVS_SIZE: 4096
  NotFound   \* DT_ERR_KEYNOTFOUND

Special == {"=", ",", "\\"}

ASSUME CodecAssumptions ==
  /\ Keys \cup Special \cup {Erased} \subseteq Chars
  /\ NotFound \notin Keys \cup Seq(Chars)
  /\ Erased \notin Keys \cup Special
  /\ Keys \cap Special = {}
  /\ MaxVal \in Nat
  /\ PageSize \in Nat \ {0}
  /\ NvsSize \in Nat \ {0}

VARIABLES
  flash,  \* the string that starts at ADDR_PERSISTENT
  call,   \* the last write(): its arguments and whether it returned DT_ERR_OK
  full    \* a write said DT_ERR_OK, and its text had no room or was not spliced in

FlashTypeOK ==
  /\ flash \in Seq(Chars)
  /\ call \in [key : Keys \cup {NotFound}, val : Seq(Chars), ok : BOOLEAN]
  /\ full \in BOOLEAN

\* initialize_flash has found an erased sector and filled it with zeroes.
initialize_flash ==
  /\ flash = <<>>
  /\ call = [key |-> NotFound, val |-> <<>>, ok |-> TRUE]
  /\ full = FALSE

(***************************************************************************)
(* Strings                                                                 *)
(***************************************************************************)
\* strstr(text, key "="): where the first item of the key starts, or 0.
KeyLoc(text, k) ==
  LET found == {i \in 1..Len(text) - 1 : text[i] = k /\ text[i + 1] = "="}
  IN IF found = {} THEN 0 ELSE Min(found)

\* Mutant of esc_chars: the escape character is not escaped itself.
esc_chars_plain(v) ==
  FlattenSeq([i \in DOMAIN v |-> IF v[i] \in Special \ {"\\"} THEN <<"\\", v[i]>> ELSE <<v[i]>>])

esc_chars(v) ==
  FlattenSeq([i \in DOMAIN v |-> IF v[i] \in Special THEN <<"\\", v[i]>> ELSE <<v[i]>>])

\* The loop at the end of read(): an escape character is taken out, and the
\* character behind it is not looked at.
unesc_chars(text) ==
  LET tail[i \in 1..Len(text) + 1] ==
        IF i > Len(text) THEN <<>>
        ELSE IF text[i] # "\\" THEN <<text[i]>> \o tail[i + 1]
        ELSE IF i = Len(text) THEN <<>> ELSE <<text[i + 1]>> \o tail[i + 2]
  IN tail[1]

\* Where the item that starts at a position ends: at its first comma, or behind
\* the text.  get_next_item looks at nothing else; get_val_end steps over an
\* escape character and then looks at the comma behind it all the same.
ItemEnd(text, start) ==
  Min({i \in start..Len(text) : text[i] = ","} \cup {Len(text) + 1})

BeforeComma(v) == SubSeq(v, 1, ItemEnd(v, 1) - 1)

(***************************************************************************)
(* read                                                                    *)
(***************************************************************************)
\* The characters between the '=' and the end of the item.
Escaped(k) ==
  LET loc == KeyLoc(flash, k) IN SubSeq(flash, loc + 2, ItemEnd(flash, loc + 2) - 1)

read(k) == IF KeyLoc(flash, k) = 0 THEN NotFound ELSE unesc_chars(Escaped(k))

(***************************************************************************)
(* write                                                                   *)
(***************************************************************************)
\* The size that splice computes is not that of the new text: it counts what
\* precedes the item twice and what follows it not at all.
Refuses(text, start, end, replace) ==
  LET start_sz == start - 1
      end_sz   == Len(text) - end + 1
  IN Len(text) + (start_sz - end_sz) + Len(replace) > NvsSize

\* When it refuses, upsert_key takes no notice.
splice(text, start, end, replace) ==
  IF Refuses(text, start, end, replace) THEN text
  ELSE SubSeq(text, 1, start - 1) \o replace \o SubSeq(text, end, Len(text))

HasRoom(text, item) == Len(item) + Len(text) + 1 <= NvsSize - 1

\* Mutant of upsert_key: the item is always appended.
upsert_key_append(text, k, item) == text \o <<",">> \o item

\* The text with the key's item appended or replaced.
upsert_key(text, k, item) ==
  LET loc == KeyLoc(text, k)
  IN IF loc = 0 THEN text \o <<",">> \o item
     ELSE splice(text, loc, ItemEnd(text, loc), item)

\* The size of the text rounded up to whole pages.
write_size(text) ==
  IF Len(text) % PageSize = 0 THEN Len(text) ELSE ((Len(text) \div PageSize) + 1) * PageSize

\* Zeroes follow the text in its last page.
Padded(text) == write_size(text) > Len(text)

\* The string found in flash after the sector is erased and the pages of the text
\* are programmed.  Pages that the text fills hold no terminator, and the string
\* goes on with the erased cells to the end of the sector; what the code reads
\* behind that is not modelled.
Programmed(text) ==
  IF Padded(text) THEN text
  ELSE text \o [i \in 1..NvsSize - Len(text) |-> Erased]

Item(k, v) == <<k, "=">> \o esc_chars(v)

Fails(k, v) == KeyLoc(flash, k) = 0 /\ ~HasRoom(flash, Item(k, v))

\* DT_ERR_OK for a text that splice left as it was, that fills its pages to the
\* last byte, or that is longer than the buffer it is made in.
Overfull(k, v) ==
  LET loc == KeyLoc(flash, k)
      new == upsert_key(flash, k, Item(k, v))
  IN \/ loc # 0 /\ Refuses(flash, loc, ItemEnd(flash, loc), Item(k, v))
     \/ ~Padded(new)
     \/ Len(new) >= NvsSize

\* What upsert_key and write() do with the string that esc_chars has copied.
write_copied(k, v) ==
  /\ call' = [key |-> k, val |-> v, ok |-> ~Fails(k, v)]
  /\ IF Fails(k, v) THEN UNCHANGED <<flash, full>>
     ELSE /\ flash' = Programmed(upsert_key(flash, k, Item(k, v)))
          /\ full' = (full \/ Overfull(k, v))

(***************************************************************************)
(* Properties                                                              *)
(***************************************************************************)
\* Every key has at most one item in the text: a second one would shadow every
\* later write, since read() takes the first and the splice replaces the first
\* (upsert_key, the choice between appending and splicing).
OneItemPerKey ==
  \A k \in Keys :
    \A i, j \in {n \in 1..Len(flash) - 1 : flash[n] = k /\ flash[n + 1] = "="} : i = j

\* The text behaves as the map of Store.tla when it is read back with read():
\* a write that succeeds changes the value of its key and of no other, whatever
\* was stored before and whatever lengths change, and one that fails changes
\* none (flashmem.h, write and read).  Of a value with a comma what precedes the
\* comma is kept, and of a text that is full nothing is promised.
S == INSTANCE Store WITH kv <- [k \in Keys |-> read(k)],
                         call <- [call EXCEPT !.val = BeforeComma(@)],
                         Inputs <- Seq(Chars)

StoreSpec == S!Spec
=============================================================================
