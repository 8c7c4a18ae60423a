---------------------------- MODULE LoggerProofs -----------------------------
(***************************************************************************)
(* Proofs about Logger.tla, for any heap, any number of slots, lines and   *)
(* dumps, any runs of logdump that fail, and any offset of the clock.      *)
(***************************************************************************)
EXTENDS Logger, FiniteSetTheorems, WellFoundedInduction, TLAPS

\* The lines of a cycle are among those that were logged.
CycleInv == cycle <= Len(born)

\* No slot behind an empty one is in use.
Contiguous == \A i \in Index : slot[i] # Null => \A j \in 1..i : slot[j] # Null

\* Outside of a dump, the lines that were put in a slot are in buffers that are
\* allocated, as they were logged.
HeldInv ==
  ~dumping => \A n \in held : n \in 1..Len(born)
                /\ \E b \in live : text[b] = [id |-> n, stamp |-> born[n]]

IInv == TypeOK /\ NoLeak /\ CycleInv /\ Contiguous /\ HeldInv

(***************************************************************************)
(* Natural numbers                                                         *)
(***************************************************************************)
\* The loops of logger.c and connect.c run through the slots from the first one:
\* a set of slots has a first one.
LEMMA First ==
  ASSUME NEW T \in SUBSET Nat, T # {}
  PROVE  \E x \in T : \A y \in T : x <= y
<1> DEFINE R == OpToRel(<, Nat)
<1>1. IsWellFoundedOn(R, Nat)
  BY NatLessThanWellFounded
<1>2. \A x, y \in Nat : x < y => <<x, y>> \in R
  BY DEF OpToRel
<1> HIDE DEF R
<1>3. PICK x \in T : \A y \in T : ~(<<y, x>> \in R)
  BY <1>1, WFMin
<1>4. ASSUME NEW y \in T
      PROVE  x <= y
  <2>1. x \in Nat /\ y \in Nat /\ ~(y < x)
    BY <1>2, <1>3
  <2> QED BY <2>1
<1> QED BY <1>4

\* And a last one.
LEMMA Last ==
  ASSUME NEW n \in Nat, NEW T \in SUBSET (1..n), T # {}
  PROVE  \E x \in T : \A y \in T : y <= x
<1> DEFINE U == {n - i : i \in T}
<1>1. U \in SUBSET Nat /\ U # {}
  <2>1. \A i \in T : n - i \in Nat
    OBVIOUS
  <2> QED BY <2>1
<1> HIDE DEF U
<1>2. PICK u \in U : \A v \in U : u <= v
  BY <1>1, First
<1>3. PICK x \in T : u = n - x
  BY DEF U
<1>4. ASSUME NEW y \in T
      PROVE  y <= x
  <2>1. n - y \in U
    BY DEF U
  <2>2. n - x <= n - y /\ x \in 1..n /\ y \in 1..n
    BY <1>2, <1>3, <2>1
  <2> QED BY <2>2
<1> QED BY <1>4

\* Induction, for a set.
LEMMA Induction ==
  ASSUME NEW S, 0 \in S, \A n \in Nat : n \in S => n + 1 \in S
  PROVE  Nat \subseteq S
<1> SUFFICES ASSUME Nat \ S # {} PROVE FALSE
  OBVIOUS
<1>1. PICK x \in Nat \ S : \A y \in Nat \ S : x <= y
  BY First
<1>2. x # 0 /\ x \in Nat
  OBVIOUS
<1>3. x - 1 \in Nat
  BY <1>2
<1>4. x - 1 \in S
  BY <1>1, <1>3
<1>5. (x - 1) + 1 \in S /\ (x - 1) + 1 = x
  BY <1>2, <1>3, <1>4
<1> QED BY <1>5

(***************************************************************************)
(* The operators                                                           *)
(***************************************************************************)
\* logger.c, dlog: the loop stops at the first slot that is empty.
LEMMA FirstNullSlot ==
  ASSUME TypeOK
  PROVE  /\ FirstNull \in 1..Slots + 1
         /\ \A j \in 1..FirstNull - 1 : slot[j] # Null
         /\ FirstNull <= Slots => slot[FirstNull] = Null
<1>1. Slots \in Nat
  BY LoggerAssumptions
<1>2. CASE \E i \in Index : slot[i] = Null
  <2> DEFINE T == {i \in Index : slot[i] = Null}
  <2>1. T \in SUBSET Nat /\ T # {}
    BY <1>2 DEF Index
  <2> HIDE DEF T
  <2>2. PICK i \in T : \A j \in T : i <= j
    BY <2>1, First
  <2>3. i \in Index /\ slot[i] = Null /\ \A j \in 1..i - 1 : slot[j] # Null
    BY <1>1, <2>2 DEF T, Index
  <2>4. FirstNull = CHOOSE n \in Index : slot[n] = Null /\ \A j \in 1..n - 1 : slot[j] # Null
    BY <1>2 DEF FirstNull
  <2>5. FirstNull \in Index /\ slot[FirstNull] = Null /\ \A j \in 1..FirstNull - 1 : slot[j] # Null
    BY <2>3, <2>4
  <2> QED BY <1>1, <2>5 DEF Index
<1>3. CASE ~\E i \in Index : slot[i] = Null
  BY <1>1, <1>3 DEF FirstNull, Index
<1> QED BY <1>2, <1>3

\* logger.c, log_transform_ts: a stamp of the hardware clock gets the offset added,
\* whatever the time is.
LEMMA Transformed ==
  ASSUME clock \in Nat, NEW ts \in Nat
  PROVE  log_transform_ts(ts) = ts + Offset /\ ts + Offset \in Nat
BY LoggerAssumptions DEF log_transform_ts

\* connect.c, logdump: a line that the loop has met n times has the offset n times.
LEMMA StampOffset ==
  ASSUME clock \in Nat, NEW i \in Index, text[slot[i]].stamp \in Nat,
         Met(slot[i], i) \in 0..Slots
  PROVE  Stamp(i) = text[slot[i]].stamp + Met(slot[i], i) * Offset
<1> DEFINE ts == text[slot[i]].stamp
           t[k \in 0..Slots] == IF k = 0 THEN text[slot[i]].stamp ELSE log_transform_ts(t[k - 1])
           f == [k \in 0..Slots |-> ts + k * Offset]
<1>1. Slots \in Nat /\ Offset \in Nat /\ ts \in Nat
  BY LoggerAssumptions
<1>2. \A k \in 0..Slots : k # 0 => log_transform_ts(ts + (k - 1) * Offset) = ts + k * Offset
  <2> SUFFICES ASSUME NEW k \in 0..Slots, k # 0
               PROVE  log_transform_ts(ts + (k - 1) * Offset) = ts + k * Offset
    OBVIOUS
  <2> HIDE DEF ts
  <2>1. (k - 1) * Offset \in Nat /\ (k - 1) * Offset + Offset = k * Offset
    BY <1>1
  <2>2. ts + (k - 1) * Offset \in Nat
    BY <1>1, <2>1
  <2>3. log_transform_ts(ts + (k - 1) * Offset) = ts + (k - 1) * Offset + Offset
    BY <2>2, Transformed
  <2> QED BY <1>1, <2>1, <2>3
<1>3. f = [k \in 0..Slots |-> IF k = 0 THEN text[slot[i]].stamp ELSE log_transform_ts(f[k - 1])]
  <2>1. ASSUME NEW k \in 0..Slots
        PROVE  ts + k * Offset = IF k = 0 THEN ts ELSE log_transform_ts(f[k - 1])
    <3> HIDE DEF ts
    <3>1. CASE k = 0
      BY <1>1, <3>1
    <3>2. CASE k # 0
      <4>1. k - 1 \in 0..Slots
        BY <1>1, <3>2
      <4>2. f[k - 1] = ts + (k - 1) * Offset
        BY <4>1
      <4> QED BY <1>2, <3>2, <4>2
    <3> QED BY <3>1, <3>2
  <2> QED BY <2>1
<1> HIDE DEF f
<1>4. t = [k \in 0..Slots |-> IF k = 0 THEN text[slot[i]].stamp ELSE log_transform_ts(t[k - 1])]
  BY <1>3, Zenon
<1>5. Stamp(i) = t[Met(slot[i], i)]
  BY DEF Stamp
<1> HIDE DEF t
<1> DEFINE S == {n \in Nat : n \in 0..Slots => t[n] = ts + n * Offset}
<1>6. 0 \in S
  <2>1. t[0] = ts
    BY <1>1, <1>4
  <2> HIDE DEF ts
  <2> QED BY <1>1, <2>1
<1>7. ASSUME NEW n \in Nat, n \in S
      PROVE  n + 1 \in S
  <2> SUFFICES ASSUME n + 1 \in 0..Slots PROVE t[n + 1] = ts + (n + 1) * Offset
    OBVIOUS
  <2>1. n \in 0..Slots /\ n + 1 # 0 /\ (n + 1) - 1 = n
    BY <1>1
  <2>2. t[n] = ts + n * Offset
    BY <1>7, <2>1
  <2>3. t[n + 1] = log_transform_ts(t[n])
    BY <1>4, <2>1
  <2> HIDE DEF ts
  <2> QED BY <1>2, <2>1, <2>2, <2>3
<1>8. Nat \subseteq S
  <2> HIDE DEF S
  <2> QED BY <1>6, <1>7, Induction
<1> QED BY <1>1, <1>5, <1>8

\* connect.c, logdump: a buffer is met as often as the slots before it hold it.
LEMMA MetType ==
  ASSUME NEW b, NEW i \in Index
  PROVE  Met(b, i) \in 0..Slots
<1> DEFINE T == {j \in 1..i : slot[j] = b}
<1>1. Slots \in Nat /\ i \in Nat /\ i <= Slots
  BY LoggerAssumptions DEF Index
<1>2. IsFiniteSet(1..i) /\ Cardinality(1..i) = i
  <2>1. 1 \in Int /\ i \in Int /\ ~(1 > i)
    BY <1>1 DEF Index
  <2>2. IsFiniteSet(1..i) /\ Cardinality(1..i) = (IF 1 > i THEN 0 ELSE i - 1 + 1)
    BY <2>1, FS_Interval
  <2> QED BY <2>1, <2>2
<1>3. T \in SUBSET (1..i)
  OBVIOUS
<1> HIDE DEF T
<1>4. IsFiniteSet(T) /\ Cardinality(T) <= i
  BY <1>2, <1>3, FS_Subset
<1>5. Cardinality(T) \in Nat
  BY <1>4, FS_CardinalityType
<1>6. Met(b, i) = Cardinality(T)
  BY DEF Met, T
<1> QED BY <1>1, <1>4, <1>5, <1>6

\* The stamps of a dump are times.
LEMMA StampType ==
  ASSUME TypeOK, NEW i \in Index, slot[i] # Null
  PROVE  Stamp(i) \in Nat
<1>1. clock \in Nat /\ slot[i] \in Bufs /\ text[slot[i]].stamp \in Nat
  BY LoggerAssumptions DEF TypeOK, Line
<1>2. Met(slot[i], i) \in 0..Slots
  BY MetType
<1>3. Stamp(i) = text[slot[i]].stamp + Met(slot[i], i) * Offset
  BY <1>1, <1>2, StampOffset
<1>4. Slots \in Nat /\ Offset \in Nat
  BY LoggerAssumptions
<1>5. Met(slot[i], i) * Offset \in Nat
  BY <1>2, <1>4
<1> QED BY <1>1, <1>3, <1>5

(***************************************************************************)
(* The invariant                                                           *)
(***************************************************************************)
LEMMA InitInv ==
  ASSUME Init
  PROVE  IInv
<1>1. /\ 0 \in 0..MaxClock /\ 0 \in 0..MaxLines /\ 0 \in 0..MaxDumps /\ 0 \in 0..MaxFails
      /\ 0 <= MaxLines /\ 0 <= Slots /\ Slots \in Nat
  BY LoggerAssumptions
<1>2. Garbage \in Line
  BY <1>1 DEF Garbage, Line
<1>3. <<>> \in Seq(Nat) /\ <<>> \in Seq(Line) /\ Len(<<>>) = 0
  OBVIOUS
<1>4. TypeOK
  BY <1>1, <1>2, <1>3 DEF Init, TypeOK
<1>5. NoLeak /\ CycleInv
  BY <1>3 DEF Init, NoLeak, CycleInv
<1>6. Contiguous /\ HeldInv
  BY DEF Init, Contiguous, HeldInv
<1> QED BY <1>4, <1>5, <1>6 DEF IInv

\* logger.c, dlog: a line in a slot is not disturbed.
LEMMA KeepFrame ==
  ASSUME TypeOK, NEW b \in Bufs, Keep(b)
  PROVE  /\ slot' \in [Index -> Bufs \cup {Null}]
         /\ live' \subseteq Bufs
         /\ \A i \in Index : i # FirstNull => slot'[i] = slot[i]
         /\ FirstNull <= Slots => slot'[FirstNull] = b /\ live' = live \cup {b}
         /\ FirstNull > Slots => slot' = slot /\ live' = live
<1>1. FirstNull \in 1..Slots + 1 /\ Slots \in Nat
  BY FirstNullSlot, LoggerAssumptions
<1>2. slot' \in [Index -> Bufs \cup {Null}] /\ live' \subseteq Bufs
  BY DEF TypeOK, Keep
<1>3. \A i \in Index : i # FirstNull => slot'[i] = slot[i]
  BY DEF Keep
<1>4. FirstNull <= Slots => slot'[FirstNull] = b /\ live' = live \cup {b}
  BY <1>1 DEF Keep, Index
<1>5. ASSUME FirstNull > Slots
      PROVE  slot' = slot /\ live' = live
  <2>1. FirstNull \notin Index /\ ~(FirstNull <= Slots)
    BY <1>1, <1>5 DEF Index
  <2>2. slot = [i \in Index |-> slot[i]]
    BY DEF TypeOK
  <2> QED BY <2>1, <2>2 DEF Keep
<1> QED BY <1>2, <1>3, <1>4, <1>5

LEMMA DlogStep ==
  ASSUME IInv, NEW b \in Bufs, dlog(b)
  PROVE  IInv'
<1> DEFINE line == [id |-> Len(born) + 1, stamp |-> clock]
           free == FirstNull
<1>1. TypeOK /\ Keep(b)
  BY DEF IInv, dlog
<1>2. /\ slot' \in [Index -> Bufs \cup {Null}] /\ live' \subseteq Bufs
      /\ \A i \in Index : i # free => slot'[i] = slot[i]
      /\ free <= Slots => slot'[free] = b /\ live' = live \cup {b}
      /\ free > Slots => slot' = slot /\ live' = live
  BY <1>1, KeepFrame
<1>3. /\ free \in 1..Slots + 1
      /\ \A j \in 1..free - 1 : slot[j] # Null
      /\ free <= Slots => slot[free] = Null
  BY <1>1, FirstNullSlot
<1> HIDE DEF free
<1>4. /\ b \notin live /\ Len(born) < MaxLines
      /\ text' = [text EXCEPT ![b] = line]
      /\ born' = Append(born, clock) /\ cycle' = cycle + 1 /\ lost' \in BOOLEAN
      /\ held' \subseteq held \cup {Len(born) + 1}
      /\ UNCHANGED <<dumping, clock, readFreed, published, dumps, fails>>
  BY DEF dlog, IInv, TypeOK
<1>5. /\ Slots \in Nat /\ MaxLines \in Nat /\ MaxClock \in Nat
      /\ Len(born) \in Nat /\ clock \in Nat /\ cycle \in Nat
      /\ born \in Seq(Nat)
  BY LoggerAssumptions DEF IInv, TypeOK
<1>6. line \in Line
  BY <1>4, <1>5 DEF Line
<1>7. born' \in Seq(Nat) /\ Len(born') = Len(born) + 1
      /\ \A i \in 1..Len(born) : born'[i] = born[i]
  BY <1>4, <1>5
<1>8. born'[Len(born) + 1] = clock
  BY <1>4, <1>5
<1>9. CycleInv'
  BY <1>4, <1>5, <1>7 DEF IInv, CycleInv
<1>10. TypeOK'
  <2>1. cycle' \in 0..MaxLines /\ Len(born') <= MaxLines
    BY <1>4, <1>5, <1>7 DEF IInv, CycleInv
  <2>2. text' \in [Bufs -> Line]
    BY <1>1, <1>4, <1>6 DEF TypeOK
  <2>3. held' \subseteq 1..MaxLines
    BY <1>1, <1>4, <1>5 DEF TypeOK
  <2> QED BY <1>1, <1>2, <1>4, <1>7, <2>1, <2>2, <2>3 DEF TypeOK
<1>11. NoLeak'
  <2> SUFFICES ASSUME NEW a \in live'
               PROVE  \E i \in Index : slot'[i] = a
    BY DEF NoLeak
  <2>1. CASE a \in live
    <3>1. PICK i \in Index : slot[i] = a
      BY <2>1 DEF IInv, NoLeak
    <3>2. a # Null
      BY <1>1, <2>1, LoggerAssumptions DEF TypeOK
    <3>3. CASE free <= Slots
      <4>1. i # free
        BY <1>3, <3>1, <3>2, <3>3
      <4> QED BY <1>2, <3>1, <4>1
    <3>4. CASE free > Slots
      BY <1>2, <3>1, <3>4
    <3> QED BY <1>3, <1>5, <3>3, <3>4
  <2>2. CASE a \notin live
    <3>1. free <= Slots /\ a = b
      BY <1>2, <1>3, <1>5, <2>2
    <3>2. free \in Index
      BY <1>3, <1>5, <3>1 DEF Index
    <3> QED BY <1>2, <3>1, <3>2
  <2> QED BY <2>1, <2>2
<1>12. Contiguous'
  <2> SUFFICES ASSUME NEW i \in Index, slot'[i] # Null, NEW j \in 1..i
               PROVE  slot'[j] # Null
    BY DEF Contiguous
  <2>1. b # Null /\ j \in Index
    BY <1>5, LoggerAssumptions DEF Index
  <2>2. CASE j = free
    BY <1>2, <1>5, <2>1, <2>2 DEF Index
  <2>3. CASE j # free
    <3>1. slot'[j] = slot[j]
      BY <1>2, <2>1, <2>3
    <3>2. CASE i = free
      BY <1>3, <1>5, <2>3, <3>1, <3>2 DEF Index
    <3>3. CASE i # free
      <4>1. slot[i] # Null
        BY <1>2, <3>3
      <4> QED BY <3>1, <4>1 DEF IInv, Contiguous
    <3> QED BY <3>2, <3>3
  <2> QED BY <2>2, <2>3
<1>13. HeldInv'
  <2> SUFFICES ASSUME ~dumping, NEW n \in held'
               PROVE  n \in 1..Len(born') /\ \E a \in live' : text'[a] = [id |-> n, stamp |-> born'[n]]
    BY <1>4 DEF HeldInv
  <2>1. CASE n \in held
    <3>1. n \in 1..Len(born) /\ \E a \in live : text[a] = [id |-> n, stamp |-> born[n]]
      BY <2>1 DEF IInv, HeldInv
    <3>2. PICK a \in live : text[a] = [id |-> n, stamp |-> born[n]]
      BY <3>1
    <3>3. a # b /\ a \in Bufs /\ text'[a] = text[a]
      BY <1>1, <1>4 DEF TypeOK
    <3>4. a \in live'
      BY <1>2, <1>3, <1>5
    <3>5. n \in 1..Len(born') /\ born'[n] = born[n]
      BY <1>5, <1>7, <3>1
    <3> QED BY <3>2, <3>3, <3>4, <3>5
  <2>2. CASE n \notin held
    <3>1. n = Len(born) + 1 /\ free <= Slots
      BY <2>2 DEF dlog, free
    <3>2. b \in live' /\ text'[b] = line
      BY <1>1, <1>2, <1>4, <3>1 DEF TypeOK
    <3>3. n \in 1..Len(born') /\ line = [id |-> n, stamp |-> born'[n]]
      BY <1>5, <1>7, <1>8, <3>1
    <3> QED BY <3>2, <3>3
  <2> QED BY <2>1, <2>2
<1> QED BY <1>9, <1>10, <1>11, <1>12, <1>13 DEF IInv

\* logger.c, free_logs: it frees, and leaves lines or what overwrote them.
LEMMA FreeFrame ==
  ASSUME TypeOK, NEW bufs, NEW lines \in [Bufs -> Line], Freed(bufs, lines)
  PROVE  live' \subseteq live /\ text' \in [Bufs -> Line]
<1>1. Garbage \in Line
  BY LoggerAssumptions DEF Garbage, Line
<1> QED BY <1>1 DEF Freed

\* connect.c, logdump: what the loop makes of the buffers.
LEMMA LinesType ==
  ASSUME TypeOK, NEW n \in 0..FirstNull - 1
  PROVE  Rewritten(n) \in [Bufs -> Line]
<1> SUFFICES ASSUME NEW b \in Bufs
             PROVE  LET met == {i \in 1..n : slot[i] = b}
                    IN (IF met = {} THEN text[b]
                        ELSE [text[b] EXCEPT !.stamp = Stamp(CHOOSE i \in met : \A j \in met : j <= i)])
                       \in Line
  BY DEF Rewritten
<1> DEFINE met == {i \in 1..n : slot[i] = b}
           top == CHOOSE i \in met : \A j \in met : j <= i
<1>1. text[b] \in Line
  BY DEF TypeOK
<1>2. Slots \in Nat /\ FirstNull \in 1..Slots + 1 /\ \A j \in 1..FirstNull - 1 : slot[j] # Null
  BY LoggerAssumptions, FirstNullSlot
<1>3. ASSUME met # {}
      PROVE  Stamp(top) \in Nat
  <2>1. met \in SUBSET (1..Slots) /\ \A j \in met : slot[j] # Null
    BY <1>2
  <2>2. \E i \in met : \A j \in met : j <= i
    <3> HIDE DEF met
    <3> QED BY <1>2, <1>3, <2>1, Last
  <2>3. top \in met
    BY <2>2
  <2>4. top \in Index /\ slot[top] # Null
    BY <1>2, <2>1, <2>3 DEF Index
  <2> HIDE DEF top
  <2> QED BY <2>4, StampType
<1>4. ASSUME met # {}
      PROVE  [text[b] EXCEPT !.stamp = Stamp(top)] \in Line
  <2> HIDE DEF top
  <2> QED BY <1>1, <1>3, <1>4 DEF Line
<1> QED BY <1>1, <1>4

\* connect.c, logdump: what is published are lines.
LEMMA PublishedType ==
  ASSUME TypeOK
  PROVE  LET p == [i \in 1..FirstNull - 1 |-> [id |-> text[slot[i]].id, stamp |-> Stamp(i)]]
         IN p \in Seq(Line) /\ Len(p) <= Slots
<1> DEFINE p == [i \in 1..FirstNull - 1 |-> [id |-> text[slot[i]].id, stamp |-> Stamp(i)]]
           n == FirstNull - 1
<1>1. Slots \in Nat /\ n \in Nat /\ n <= Slots /\ \A j \in 1..n : slot[j] # Null
  BY LoggerAssumptions, FirstNullSlot
<1>2. ASSUME NEW i \in 1..n
      PROVE  [id |-> text[slot[i]].id, stamp |-> Stamp(i)] \in Line
  <2>1. i \in Index /\ slot[i] # Null
    BY <1>1 DEF Index
  <2>2. slot[i] \in Bufs /\ text[slot[i]].id \in 0..MaxLines
    BY <2>1 DEF TypeOK, Line
  <2>3. Stamp(i) \in Nat
    BY <2>1, StampType
  <2> QED BY <2>2, <2>3 DEF Line
<1> HIDE DEF n
<1>3. p = [i \in 1..n |-> [id |-> text[slot[i]].id, stamp |-> Stamp(i)]]
  BY DEF n
<1>4. p \in Seq(Line) /\ Len(p) = n
  <2> HIDE DEF p
  <2> QED BY <1>1, <1>2, <1>3
<1> QED BY <1>1, <1>4

LEMMA LogdumpStep ==
  ASSUME IInv, logdump
  PROVE  IInv'
<1>1. TypeOK /\ FirstNull - 1 \in 0..FirstNull - 1
  BY FirstNullSlot, LoggerAssumptions DEF IInv
<1>2. Rewritten(FirstNull - 1) \in [Bufs -> Line] /\ free_logs(Rewritten(FirstNull - 1))
  BY <1>1, LinesType DEF logdump
<1>3. live' \subseteq live /\ text' \in [Bufs -> Line]
  BY <1>1, <1>2, FreeFrame DEF free_logs
<1>4. published' \in Seq(Line) /\ Len(published') <= Slots
  BY <1>1, PublishedType DEF logdump
<1>5. /\ dumping' = TRUE /\ dumps' = dumps + 1 /\ dumps < MaxDumps /\ cycle' = 0 /\ held' = {}
      /\ readFreed' \in BOOLEAN
      /\ UNCHANGED <<slot, clock, born, lost, fails>>
  BY <1>1 DEF logdump, ReadsFreed, TypeOK
<1>6. dumps' \in 0..MaxDumps /\ 0 \in 0..MaxLines
  BY <1>1, <1>5, LoggerAssumptions DEF TypeOK
<1>7. TypeOK'
  BY <1>1, <1>3, <1>4, <1>5, <1>6 DEF TypeOK
<1>8. NoLeak' /\ Contiguous' /\ HeldInv'
  BY <1>3, <1>5 DEF IInv, NoLeak, Contiguous, HeldInv
<1>9. CycleInv'
  <2>1. 0 <= Len(born)
    BY <1>1 DEF TypeOK
  <2> QED BY <1>5, <2>1 DEF CycleInv
<1> QED BY <1>7, <1>8, <1>9 DEF IInv

\* connect.c, logdump: a run that fails leaves half of the lines rewritten, which
\* update_state then frees.
LEMMA FailedStep ==
  ASSUME IInv, logdump_failed
  PROVE  IInv'
<1>1. PICK n \in 0..FirstNull - 1, wild \in SUBSET live :
        readFreed' = ReadsFreed(n) /\ Freed(wild, Rewritten(n))
  BY DEF logdump_failed
<1>2. TypeOK /\ Rewritten(n) \in [Bufs -> Line]
  BY LinesType DEF IInv
<1>3. live' \subseteq live /\ text' \in [Bufs -> Line]
  BY <1>1, <1>2, FreeFrame
<1>4. /\ dumping' = TRUE /\ fails' = fails + 1 /\ fails < MaxFails /\ cycle' = 0 /\ held' = {}
      /\ readFreed' \in BOOLEAN
      /\ UNCHANGED <<slot, clock, born, lost, published, dumps>>
  BY <1>1, <1>2 DEF logdump_failed, ReadsFreed, TypeOK
<1>5. fails' \in 0..MaxFails /\ 0 \in 0..MaxLines
  BY <1>2, <1>4, LoggerAssumptions DEF TypeOK
<1>6. TypeOK'
  BY <1>2, <1>3, <1>4, <1>5 DEF TypeOK
<1>7. NoLeak' /\ Contiguous' /\ HeldInv'
  BY <1>3, <1>4 DEF IInv, NoLeak, Contiguous, HeldInv
<1>8. CycleInv'
  <2>1. 0 <= Len(born)
    BY <1>2 DEF TypeOK
  <2> QED BY <1>4, <2>1 DEF CycleInv
<1> QED BY <1>6, <1>7, <1>8 DEF IInv

LEMMA UpdateStep ==
  ASSUME IInv, update_state
  PROVE  IInv'
<1>1. TypeOK
  BY DEF IInv
<1>2. live' \subseteq live /\ text' \in [Bufs -> Line]
  BY <1>1, FreeFrame DEF TypeOK, update_state, free_logs
<1>3. dumping' = FALSE /\ held' = {}
      /\ UNCHANGED <<slot, clock, born, cycle, lost, readFreed, published, dumps, fails>>
  BY DEF update_state
<1>4. TypeOK'
  BY <1>1, <1>2, <1>3 DEF TypeOK
<1>5. NoLeak' /\ Contiguous' /\ HeldInv' /\ CycleInv'
  BY <1>1, <1>2, <1>3 DEF IInv, NoLeak, Contiguous, HeldInv, CycleInv
<1> QED BY <1>4, <1>5 DEF IInv

LEMMA TickStep ==
  ASSUME IInv, Tick
  PROVE  IInv'
<1>1. clock' \in 0..MaxClock
  BY LoggerAssumptions DEF Tick, IInv, TypeOK
<1>2. UNCHANGED <<slot, live, text, dumping, born, cycle, held, lost, readFreed, published, dumps, fails>>
  BY DEF Tick
<1>3. TypeOK'
  BY <1>1, <1>2 DEF IInv, TypeOK
<1>4. NoLeak' /\ Contiguous' /\ HeldInv' /\ CycleInv'
  BY <1>2 DEF IInv, NoLeak, Contiguous, HeldInv, CycleInv
<1> QED BY <1>3, <1>4 DEF IInv

LEMMA NextInv ==
  ASSUME IInv, [Next]_vars
  PROVE  IInv'
<1>1. CASE UNCHANGED vars
  BY <1>1 DEF vars, IInv, TypeOK, NoLeak, Contiguous, HeldInv, CycleInv
<1> QED BY <1>1, DlogStep, LogdumpStep, FailedStep, UpdateStep, TickStep DEF Next

(***************************************************************************)
(* A dump                                                                  *)
(***************************************************************************)
\* connect.c, the loop of logdump: a line whose buffer is met for the first time is
\* transformed once.
LEMMA FirstMet ==
  ASSUME TypeOK, NEW b \in Bufs, NEW i \in Index, slot[i] = b,
         \A j \in 1..i - 1 : slot[j] # b
  PROVE  Stamp(i) = text[b].stamp + Offset
<1>1. i \in Nat /\ Slots \in Nat /\ clock \in Nat /\ Offset \in Nat /\ 1 \in 0..Slots
  BY LoggerAssumptions DEF Index, TypeOK
<1>2. {j \in 1..i : slot[j] = slot[i]} = {i}
  BY <1>1 DEF Index
<1>3. Met(slot[i], i) = 1
  BY <1>2, FS_Singleton DEF Met
<1>4. text[slot[i]].stamp \in Nat
  BY DEF TypeOK, Line
<1>5. Stamp(i) = text[slot[i]].stamp + 1 * Offset
  BY <1>1, <1>3, <1>4, StampOffset
<1> QED BY <1>1, <1>4, <1>5

LEMMA DumpStep ==
  ASSUME IInv, logdump, NEW n \in held
  PROVE  \E i \in DOMAIN published' : published'[i] = [id |-> n, stamp |-> born[n] + Offset]
<1>1. TypeOK /\ ~dumping
  BY DEF IInv, logdump
<1>2. PICK b \in live : text[b] = [id |-> n, stamp |-> born[n]]
  BY <1>1 DEF IInv, HeldInv
<1>3. b \in Bufs /\ text[b].id = n /\ text[b].stamp = born[n]
  BY <1>1, <1>2 DEF TypeOK
<1> DEFINE T == {i \in Index : slot[i] = b}
<1>4. T \in SUBSET Nat /\ T # {}
  BY DEF IInv, NoLeak, Index
<1>5. PICK i \in T : \A j \in T : i <= j
  <2> HIDE DEF T
  <2> QED BY <1>4, First
<1>6. i \in Index /\ slot[i] = b /\ \A j \in 1..i - 1 : slot[j] # b
  BY <1>5, LoggerAssumptions DEF Index
<1>7. Stamp(i) = born[n] + Offset
  BY <1>1, <1>3, <1>6, FirstMet
<1>8. i \in 1..FirstNull - 1
  <2>1. slot[i] # Null
    BY <1>3, <1>6, LoggerAssumptions
  <2>2. FirstNull \in 1..Slots + 1 /\ (FirstNull <= Slots => slot[FirstNull] = Null)
    BY <1>1, FirstNullSlot
  <2>3. i \in Nat /\ i >= 1 /\ i <= Slots /\ Slots \in Nat
    BY <1>6, LoggerAssumptions DEF Index
  <2>4. ~(FirstNull <= i)
    <3> SUFFICES ASSUME FirstNull <= i PROVE FALSE
      OBVIOUS
    <3>1. FirstNull \in 1..i /\ slot[FirstNull] = Null
      BY <2>2, <2>3
    <3> QED BY <1>6, <2>1, <3>1 DEF IInv, Contiguous
  <2> QED BY <2>2, <2>3, <2>4
<1>9. published' = [k \in 1..FirstNull - 1 |-> [id |-> text[slot[k]].id, stamp |-> Stamp(k)]]
  BY DEF logdump
<1>10. i \in DOMAIN published' /\ published'[i] = [id |-> text[slot[i]].id, stamp |-> Stamp(i)]
  BY <1>8, <1>9
<1> QED BY <1>3, <1>6, <1>7, <1>10

(***************************************************************************)
(* The theorems                                                            *)
(***************************************************************************)
\* The inductive invariant holds in every state of the log.
THEOREM Invariance == Spec => []IInv
<1>1. Init => IInv
  BY InitInv
<1>2. IInv /\ [Next]_vars => IInv'
  BY NextInv
<1> QED BY <1>1, <1>2, PTL DEF Spec

\* logger.c, connect.c: slots, lines and counters stay in their types, the stamps
\* that are transformed again and again included.
THEOREM LoggerTypeCorrect == Spec => []TypeOK
<1>1. IInv => TypeOK
  BY DEF IInv
<1> QED BY <1>1, Invariance, PTL

\* dlog, free_logs: however many lines and dumps there are, every buffer that is
\* allocated is in a slot.
THEOREM NothingLeaks == Spec => []NoLeak
<1>1. IInv => NoLeak
  BY DEF IInv
<1> QED BY <1>1, Invariance, PTL

\* dlog, log_transform_ts, logdump, update_state: however many dumps there are and
\* however many of them fail, a dump publishes every line that got a slot since the
\* run before, with the time at which it was logged.
THEOREM DumpIsFaithful == Spec => DumpFaithful
<1>1. IInv /\ [Next]_vars =>
        [dumps' # dumps =>
           \A n \in held : \E i \in DOMAIN published' :
             published'[i] = [id |-> n, stamp |-> born[n] + Offset]]_vars
  <2> SUFFICES ASSUME IInv, [Next]_vars, dumps' # dumps
               PROVE  \A n \in held : \E i \in DOMAIN published' :
                        published'[i] = [id |-> n, stamp |-> born[n] + Offset]
    OBVIOUS
  <2>1. logdump
    BY DEF Next, dlog, logdump_failed, update_state, Tick, vars
  <2> QED BY <2>1, DumpStep
<1> QED BY <1>1, Invariance, PTL DEF Spec, DumpFaithful
=============================================================================
