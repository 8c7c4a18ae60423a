------------------------------- MODULE Logger --------------------------------
(***************************************************************************)
(* The life of a log line (logger.c, logdump in connect.c, the LOGDUMP     *)
(* case of update_state): dlog takes a buffer from the heap and puts it in *)
(* a slot, logdump changes its time stamp to wall-clock time, publishes it *)
(* and frees it, and update_state frees it again.  The slots are never     *)
(* cleared.                                                                *)
(*                                                                         *)
(* The heap is a set of buffers.  malloc may hand out any that is free,    *)
(* free of a free buffer is ignored, and the text of a freed buffer is     *)
(* either intact or overwritten by the links of the free list.  A pointer  *)
(* that logdump frees uninitialised may be that of any line, or of none.   *)
(* Other users of the heap are left out, and so is the request for a dump, *)
(* which is in Node.tla: here a dump may come at any time.                 *)
(***************************************************************************)
EXTENDS Integers, Sequences, FiniteSets

CONSTANTS
  Bufs,       \* the buffers the heap has for log lines
  Null,       \* a slot that was never used
  Slots,      \* length of ctx->logdump: 16
  Offset,     \* wall-clock time at boot
  MaxLines,   \* bound on the lines that are logged
  MaxClock,   \* bound on the hardware clock
  MaxDumps,   \* bound on the dumps
  MaxFails    \* bound on the runs of logdump that fail

ASSUME LoggerAssumptions ==
  /\ Null \notin Bufs
  /\ Slots \in Nat \ {0}
  /\ IsFiniteSet(Bufs) /\ Cardinality(Bufs) > Slots
  /\ Offset \in Nat
  /\ MaxLines \in Nat /\ MaxClock \in Nat /\ MaxDumps \in Nat /\ MaxFails \in Nat

VARIABLES
  slot,       \* ctx->logdump
  live,       \* the buffers that are allocated
  text,       \* which line a buffer holds, and its time stamp
  dumping,    \* logdump has returned and update_state has not run yet
  clock,      \* milliseconds since boot
  born,       \* when each line was logged
  cycle,      \* lines logged since logdump has last run
  held,       \* those of them that dlog put in a slot when update_state had run
  lost,       \* a line was dropped though the slots had room for the cycle's lines
  readFreed,  \* logdump has read a line that was freed
  published,  \* the last dump
  dumps,      \* how many there were
  fails       \* how many runs of logdump have failed

vars == <<slot, live, text, dumping, clock, born, cycle, held, lost,
          readFreed, published, dumps, fails>>

Index == 1..Slots

\* Line 0 is none of those that were logged: a buffer that was overwritten.
Line == [id : 0..MaxLines, stamp : Nat]

Garbage == [id |-> 0, stamp |-> 0]

TypeOK ==
  /\ slot \in [Index -> Bufs \cup {Null}]
  /\ live \subseteq Bufs
  /\ text \in [Bufs -> Line]
  /\ dumping \in BOOLEAN
  /\ clock \in 0..MaxClock
  /\ born \in Seq(Nat) /\ Len(born) <= MaxLines
  /\ cycle \in 0..MaxLines
  /\ held \subseteq 1..MaxLines
  /\ lost \in BOOLEAN
  /\ readFreed \in BOOLEAN
  /\ published \in Seq(Line) /\ Len(published) <= Slots
  /\ dumps \in 0..MaxDumps
  /\ fails \in 0..MaxFails

Init ==
  /\ slot = [i \in Index |-> Null]
  /\ live = {}
  /\ text = [b \in Bufs |-> Garbage]
  /\ dumping = FALSE
  /\ clock = 0
  /\ born = <<>>
  /\ cycle = 0
  /\ held = {}
  /\ lost = FALSE
  /\ readFreed = FALSE
  /\ published = <<>>
  /\ dumps = 0
  /\ fails = 0

(***************************************************************************)
(* dlog                                                                    *)
(***************************************************************************)
\* The slot the loop of dlog stops at, or Slots + 1.
FirstNull ==
  IF \E i \in Index : slot[i] = Null
  THEN CHOOSE i \in Index : slot[i] = Null /\ \A j \in 1..i - 1 : slot[j] # Null
  ELSE Slots + 1

\* Mutant of Keep: the loop takes one slot too many.
Keep_behind(b) ==
  /\ slot' = [i \in Index \cup {FirstNull} |-> IF i = FirstNull THEN b ELSE slot[i]]
  /\ live' = live \cup {b}

\* Mutant of Keep: a line that finds no slot is not freed.
Keep_leaking(b) ==
  /\ slot' = [i \in Index |-> IF i = FirstNull THEN b ELSE slot[i]]
  /\ live' = live \cup {b}

\* The line goes to the first slot that is NULL; without one it is freed.
Keep(b) ==
  /\ slot' = [i \in Index |-> IF i = FirstNull THEN b ELSE slot[i]]
  /\ live' = IF FirstNull <= Slots THEN live \cup {b} ELSE live

dlog(b) ==
  /\ b \notin live
  /\ Len(born) < MaxLines
  /\ text' = [text EXCEPT ![b] = [id |-> Len(born) + 1, stamp |-> clock]]
  /\ Keep(b)
  /\ born' = Append(born, clock)
  /\ cycle' = cycle + 1
  /\ held' = IF FirstNull <= Slots THEN held \cup {Len(born) + 1} ELSE held
  /\ lost' = (lost \/ (FirstNull > Slots /\ cycle' <= Slots))
  /\ UNCHANGED <<dumping, clock, readFreed, published, dumps, fails>>

(***************************************************************************)
(* logdump and update_state                                                *)
(***************************************************************************)
\* Mutant of log_transform_ts: the age is added.
log_transform_ts_added(ts) == (clock + Offset) + (clock - ts)

log_transform_ts(ts) == (clock + Offset) - (clock - ts)

\* The number of times the loop of logdump meets a buffer before slot i.
Met(b, i) == Cardinality({j \in 1..i : slot[j] = b})

\* The stamp of the line in slot i when it is copied to the payload: the loop
\* transforms the line in its buffer, so that a buffer that is in two slots is
\* transformed twice.
Stamp(i) ==
  LET t[n \in 0..Slots] == IF n = 0 THEN text[slot[i]].stamp ELSE log_transform_ts(t[n - 1])
  IN t[Met(slot[i], i)]

\* The lines when the loop has run through the first n slots.
Rewritten(n) ==
  [b \in Bufs |->
     LET met == {i \in 1..n : slot[i] = b}
     IN IF met = {} THEN text[b]
        ELSE [text[b] EXCEPT !.stamp = Stamp(CHOOSE i \in met : \A j \in met : j <= i)]]

\* Buffers are freed, and some of them are overwritten.
Freed(bufs, lines) ==
  /\ live' = live \ bufs
  /\ \E clobbered \in SUBSET bufs :
       text' = [b \in Bufs |-> IF b \in clobbered THEN Garbage ELSE lines[b]]

\* free_logs: every buffer that is in a slot, and still allocated.
free_logs(lines) == Freed({slot[i] : i \in Index} \cap live, lines)

ReadsFreed(n) == readFreed \/ \E i \in 1..n : slot[i] \notin live

\* The loop breaks at the first slot that is NULL.  The lines are freed before
\* they are published, and whether or not that succeeds.
logdump ==
  /\ ~dumping /\ dumps < MaxDumps
  /\ published' = [i \in 1..FirstNull - 1 |-> [id |-> text[slot[i]].id, stamp |-> Stamp(i)]]
  /\ readFreed' = ReadsFreed(FirstNull - 1)
  /\ free_logs(Rewritten(FirstNull - 1))
  /\ dumping' = TRUE
  /\ dumps' = dumps + 1
  /\ cycle' = 0 /\ held' = {}
  /\ UNCHANGED <<slot, clock, born, lost, fails>>

\* There is no time, or no memory, or a line cannot be encoded: the exits of logdump
\* before, in and behind its loop publish nothing and free no lines but what the
\* uninitialised logarray and payload point to.
logdump_failed ==
  /\ ~dumping /\ fails < MaxFails
  /\ \E n \in 0..FirstNull - 1, wild \in SUBSET live :
       /\ Cardinality(wild) <= 2
       /\ readFreed' = ReadsFreed(n)
       /\ Freed(wild, Rewritten(n))
  /\ dumping' = TRUE
  /\ fails' = fails + 1
  /\ cycle' = 0 /\ held' = {}
  /\ UNCHANGED <<slot, clock, born, lost, published, dumps>>

\* The LOGDUMP case of update_state.
update_state ==
  /\ dumping
  /\ free_logs(text)
  /\ dumping' = FALSE
  /\ held' = {}
  /\ UNCHANGED <<slot, clock, born, cycle, lost, readFreed, published, dumps, fails>>

Tick ==
  /\ clock < MaxClock
  /\ clock' = clock + 1
  /\ UNCHANGED <<slot, live, text, dumping, born, cycle, held, lost, readFreed,
                 published, dumps, fails>>

Next == (\E b \in Bufs : dlog(b)) \/ logdump \/ logdump_failed \/ update_state \/ Tick

Spec == Init /\ [][Next]_vars

(***************************************************************************)
(* Properties                                                              *)
(***************************************************************************)
\* No line is leaked: every buffer that is allocated is in a slot, and so will
\* be freed with the next dump, whether the line was kept, dropped, published
\* or freed twice (dlog, free_logs).
NoLeak == live \subseteq {slot[i] : i \in Index}

\* A dump publishes every line that dlog put in a slot since the run of logdump
\* before, each with the wall-clock time at which it was logged: whatever the slots
\* point to besides, how often a buffer was freed and handed out again, and
\* whether that run had failed with its lines half rewritten (dlog,
\* log_transform_ts, the loop of logdump, update_state).
DumpFaithful ==
  [][dumps' # dumps =>
       \A n \in held : \E i \in DOMAIN published' :
         published'[i] = [id |-> n, stamp |-> born[n] + Offset]]_vars

(***************************************************************************)
(* What three comments say of the log and the code does not do.            *)
(***************************************************************************)
\* connect.c frees the lines with the comment "Immediately free all logs, no
\* longer needed".  The slots still point to them, and the next dump reads them.
NoLongerNeeded == ~readFreed

\* logger.c drops a line with the comment "Data loss - too many logs in one
\* cycle".  The slots are never cleared, and so it drops the first line of a
\* cycle too.
LostOnlyWhenTooMany == ~lost

\* logger.c says of the time stamp "Recalc on publish based on hw clock at the
\* time": a line is published with the wall-clock time at which it was logged.
\* Its buffer keeps the new stamp, and the next dump adds the offset again.
StampsRecalculated ==
  \A i \in DOMAIN published :
    published[i].id # 0 => published[i].stamp = born[published[i].id] + Offset
=============================================================================
