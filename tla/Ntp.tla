--------------------------------- MODULE Ntp ---------------------------------
(***************************************************************************)
(* The NTP client of util.c.  The main loop calls ntp_poll while           *)
(* loop_state is NTP_SYNC; the DNS callback, the UDP receive callback and  *)
(* the time-out alarm interrupt it.  ntp_poll holds lwIP's lock only for   *)
(* its call of dns_gethostbyname, so a callback may run between any two of *)
(* its statements, in particular before it records that it has asked.      *)
(*                                                                         *)
(* Replies may be lost, delayed past the time-out and past the next        *)
(* attempt, or invalid.  The time itself is abstracted: due says whether   *)
(* ntp_next_poll lies in the past, an alarm fires at any time after it was *)
(* armed, and a cached time is named by the reply that brought it: 0 or 1, *)
(* in turn.                                                                *)
(***************************************************************************)
EXTENDS Integers, FiniteSets

CONSTANTS
  AlarmIds,    \* the alarm pool of the SDK, whose ids are positive
  MaxLookups,  \* lookups lwIP can have outstanding (DNS_MAX_REQUESTS)
  MaxReplies   \* replies that can be on their way at once

ASSUME NtpAssumptions ==
  /\ AlarmIds \subseteq Nat \ {0}
  /\ MaxLookups \in Nat
  /\ MaxReplies \in Nat

VARIABLES
  pc,                 \* where ntp_sync_handler is
  err,                \* what dns_gethostbyname returned
  ntp_resend_alarm,   \* NTP_T: id of the time-out, 0 if none, -1 if there was no room
  dns_request_sent,   \* NTP_T: an attempt is under way
  due,                \* NTP_T: ntp_next_poll has passed
  synced,             \* NTP_T: a valid reply has come
  epoch_secs,         \* NTP_T: the reply the cached time comes from
  hw_ref_ms,          \* NTP_T: the reply its reference comes from
  ntp_syncd,          \* APP_CTX_T: the main loop has left NTP_SYNC
  delta_ms,           \* get_current_epoch: the reply of the reference it has read
  alarms,             \* the alarms armed in the SDK
  lookups,            \* DNS callbacks still to come
  replies             \* NTP replies on their way

vars == <<pc, err, ntp_resend_alarm, dns_request_sent, due, synced, epoch_secs,
          hw_ref_ms, ntp_syncd, delta_ms, alarms, lookups, replies>>
network == <<lookups, replies>>
clock == <<synced, epoch_secs, hw_ref_ms, ntp_syncd, delta_ms>>
attempt == <<ntp_resend_alarm, dns_request_sent, due, alarms>>

PCs == {"call", "lookup", "mark", "act", "flag", "running", "reading"}

TypeOK ==
  /\ pc \in PCs
  /\ err \in {"OK", "INPROGRESS", "error"}
  /\ ntp_resend_alarm \in AlarmIds \cup {0, -1}
  /\ dns_request_sent \in BOOLEAN
  /\ due \in BOOLEAN
  /\ synced \in BOOLEAN
  /\ epoch_secs \in {0, 1}
  /\ hw_ref_ms \in {0, 1}
  /\ ntp_syncd \in BOOLEAN
  /\ delta_ms \in {0, 1}
  /\ alarms \subseteq AlarmIds
  /\ lookups \in 0..MaxLookups
  /\ replies \in 0..MaxReplies

\* ntp_init has succeeded; the first poll is due at once.
Init ==
  /\ pc = "call"
  /\ err = "OK"
  /\ ntp_resend_alarm = 0
  /\ dns_request_sent = FALSE
  /\ due = TRUE
  /\ synced = FALSE
  /\ epoch_secs = 0
  /\ hw_ref_ms = 0
  /\ ntp_syncd = FALSE
  /\ delta_ms = 0
  /\ alarms = {}
  /\ lookups = 0
  /\ replies = 0

(***************************************************************************)
(* Helpers                                                                 *)
(***************************************************************************)
\* A request goes out and may be answered; without a buffer, or lost on the way,
\* it will not be.
ntp_request ==
  \/ replies' = replies
  \/ replies < MaxReplies /\ replies' = replies + 1

\* Mutant of ntp_sync_done: the time-out stays armed.
ntp_sync_done_armed(armed) ==
  /\ alarms' = armed
  /\ ntp_resend_alarm' = 0
  /\ dns_request_sent' = FALSE
  /\ due' = FALSE

\* The end of an attempt, given the alarms that are armed when it comes.
ntp_sync_done(armed) ==
  /\ IF ntp_resend_alarm > 0
     THEN alarms' = armed \ {ntp_resend_alarm} /\ ntp_resend_alarm' = 0
     ELSE alarms' = armed /\ UNCHANGED ntp_resend_alarm
  /\ dns_request_sent' = FALSE
  /\ due' = FALSE

(***************************************************************************)
(* The main loop: ntp_sync_handler and ntp_poll                            *)
(***************************************************************************)
\* add_alarm_in_ms gives an id, or -1 when the pool is empty.
PollStarts ==
  /\ pc = "call"
  /\ due /\ ~dns_request_sent
  /\ \/ \E id \in AlarmIds \ alarms : /\ ntp_resend_alarm' = id
                                      /\ alarms' = alarms \cup {id}
     \/ ntp_resend_alarm' = -1 /\ UNCHANGED alarms
  /\ pc' = "lookup"
  /\ UNCHANGED <<err, dns_request_sent, due, clock, network>>

PollSkips ==
  /\ pc = "call"
  /\ ~due \/ dns_request_sent
  /\ pc' = "flag"
  /\ UNCHANGED <<err, attempt, clock, network>>

\* Mutant of Lookup: a lookup is started when lwIP has no room for it.
Lookup_unbounded ==
  /\ pc = "lookup"
  /\ \/ err' \in {"OK", "error"} /\ UNCHANGED lookups
     \/ err' = "INPROGRESS" /\ lookups' = lookups + 1
  /\ pc' = "mark"
  /\ UNCHANGED <<attempt, clock, replies>>

\* dns_gethostbyname knows the name, starts a lookup, or fails.
Lookup ==
  /\ pc = "lookup"
  /\ \/ err' \in {"OK", "error"} /\ UNCHANGED lookups
     \/ err' = "INPROGRESS" /\ lookups < MaxLookups /\ lookups' = lookups + 1
  /\ pc' = "mark"
  /\ UNCHANGED <<attempt, clock, replies>>

\* Mutant of Mark: ntp_poll does not record that it has asked.
Mark_forgotten ==
  /\ pc = "mark"
  /\ pc' = "act"
  /\ UNCHANGED <<err, attempt, clock, network>>

Mark ==
  /\ pc = "mark"
  /\ dns_request_sent' = TRUE
  /\ pc' = "act"
  /\ UNCHANGED <<err, ntp_resend_alarm, due, alarms, clock, network>>

\* What ntp_poll does with the result of the lookup.
ActCached ==
  /\ pc = "act" /\ err = "OK"
  /\ ntp_request
  /\ pc' = "flag"
  /\ UNCHANGED <<err, attempt, clock, lookups>>

ActWait ==
  /\ pc = "act" /\ err = "INPROGRESS"
  /\ pc' = "flag"
  /\ UNCHANGED <<err, attempt, clock, network>>

ActFailed ==
  /\ pc = "act" /\ err = "error"
  /\ ntp_sync_done(alarms)
  /\ pc' = "flag"
  /\ UNCHANGED <<err, clock, network>>

ntp_poll == PollStarts \/ PollSkips \/ Lookup \/ Mark \/ ActCached \/ ActWait \/ ActFailed

\* The handler's last test.  Once ntp_syncd is set update_state leaves NTP_SYNC,
\* and no state of the sampling cycle calls ntp_poll again.
Flag ==
  /\ pc = "flag"
  /\ ntp_syncd' = (ntp_syncd \/ synced)
  /\ pc' = IF synced THEN "running" ELSE "call"
  /\ UNCHANGED <<err, attempt, synced, epoch_secs, hw_ref_ms, delta_ms, network>>

ntp_sync_handler == ntp_poll \/ Flag

(***************************************************************************)
(* The sampling cycle: get_current_epoch, called for each log dump         *)
(***************************************************************************)
ReadReference ==
  /\ pc = "running"
  /\ delta_ms' = hw_ref_ms
  /\ pc' = "reading"
  /\ UNCHANGED <<err, attempt, synced, epoch_secs, hw_ref_ms, ntp_syncd, network>>

\* The sum of what the two reads gave is returned.
ReadEpoch ==
  /\ pc = "reading"
  /\ pc' = "running"
  /\ UNCHANGED <<err, attempt, clock, network>>

get_current_epoch == ReadReference \/ ReadEpoch

(***************************************************************************)
(* Interrupts                                                              *)
(***************************************************************************)
DnsResolved ==
  /\ lookups > 0
  /\ lookups' = lookups - 1
  /\ ntp_request
  /\ UNCHANGED <<pc, err, attempt, clock>>

\* No such name, or lwIP has given up asking.
DnsFailed ==
  /\ lookups > 0
  /\ lookups' = lookups - 1
  /\ ntp_sync_done(alarms)
  /\ UNCHANGED <<pc, err, clock, replies>>

ntp_dns_found == DnsResolved \/ DnsFailed

\* A reply, of this attempt or of an earlier one.
ReplyValid ==
  /\ replies > 0
  /\ replies' = replies - 1
  /\ epoch_secs' = 1 - epoch_secs
  /\ hw_ref_ms' = 1 - epoch_secs
  /\ synced' = TRUE
  /\ ntp_sync_done(alarms)
  /\ UNCHANGED <<pc, err, ntp_syncd, delta_ms, lookups>>

ReplyInvalid ==
  /\ replies > 0
  /\ replies' = replies - 1
  /\ ntp_sync_done(alarms)
  /\ UNCHANGED <<pc, err, clock, lookups>>

ntp_recv == ReplyValid \/ ReplyInvalid

ReplyLost ==
  /\ replies > 0
  /\ replies' = replies - 1
  /\ UNCHANGED <<pc, err, attempt, clock, lookups>>

\* Mutant of ntp_failed_handler: the time-out only disarms itself.
ntp_failed_handler_silent ==
  /\ \E id \in alarms : alarms' = alarms \ {id}
  /\ UNCHANGED <<pc, err, ntp_resend_alarm, dns_request_sent, due, clock, network>>

\* The time-out.
ntp_failed_handler ==
  /\ \E id \in alarms : ntp_sync_done(alarms \ {id})
  /\ UNCHANGED <<pc, err, clock, network>>

\* NTP_POLL_MS have passed since the last attempt ended.
PollDue ==
  /\ ~due
  /\ due' = TRUE
  /\ UNCHANGED <<pc, err, ntp_resend_alarm, dns_request_sent, alarms, clock, network>>

Interrupt == ntp_dns_found \/ ntp_recv \/ ReplyLost \/ ntp_failed_handler \/ PollDue

Main == ntp_sync_handler \/ get_current_epoch

Next == Main \/ Interrupt

Spec == Init /\ [][Next]_vars

\* The main loop runs, an armed alarm fires unless it is cancelled, time passes,
\* and lwIP ends every lookup, after its last retry if need be.  No reply is
\* assumed ever to come.
Fairness ==
  /\ WF_vars(Main)
  /\ WF_vars(ntp_failed_handler)
  /\ WF_vars(PollDue)
  /\ WF_vars(ntp_dns_found)

FairSpec == Spec /\ Fairness

(***************************************************************************)
(* Properties                                                              *)
(***************************************************************************)
\* ntp_poll overwrites ntp_resend_alarm; an alarm armed for an earlier attempt
\* would then cut a later one short and could never be cancelled (util.c).  No
\* order of callbacks brings that about: the armed alarm, if any, is the one
\* NTP_T knows, and none is armed when ntp_poll arms one.
NoOrphanAlarm ==
  /\ alarms \subseteq {ntp_resend_alarm}
  /\ pc = "call" /\ ~dns_request_sent => alarms = {}

\* An attempt that has its time-out armed ends: by a reply, by a failed lookup or
\* by the time-out (util.c, "give-up if no response in 10 s").
TimedAttemptEnds ==
  dns_request_sent /\ alarms # {} ~> ~dns_request_sent

\* When an attempt has ended without a valid reply, another one is made.
Retries ==
  ~dns_request_sent ~> dns_request_sent \/ ntp_syncd
=============================================================================
