------------------------------ MODULE NtpProofs ------------------------------
(***************************************************************************)
(* Proofs about Ntp.tla, for any alarm pool and any number of outstanding  *)
(* lookups and replies: the type invariant, and that no time-out outlives  *)
(* its attempt.  The latter needs to know where an alarm may be armed      *)
(* although dns_request_sent is still unset: inside ntp_poll, before Mark. *)
(***************************************************************************)
EXTENDS Ntp, TLAPS

\* The alarm that is armed is the one NTP_T knows, and belongs to the attempt
\* under way.
AlarmOwned ==
  /\ alarms \subseteq {ntp_resend_alarm}
  /\ alarms # {} => dns_request_sent \/ pc \in {"lookup", "mark"}

IInv == TypeOK /\ AlarmOwned

\* util.c: ntp_sync_done, given some of the armed alarms, leaves none armed.
LEMMA SyncDone ==
  ASSUME IInv, NEW armed \in SUBSET alarms, ntp_sync_done(armed)
  PROVE  /\ alarms' = {}
         /\ ntp_resend_alarm' \in AlarmIds \cup {0, -1}
         /\ dns_request_sent' = FALSE
         /\ due' = FALSE
<1>1. dns_request_sent' = FALSE /\ due' = FALSE
  BY DEF ntp_sync_done
<1>2. armed \subseteq {ntp_resend_alarm} /\ ntp_resend_alarm \in AlarmIds \cup {0, -1}
  BY DEF IInv, AlarmOwned, TypeOK
<1>3. CASE ntp_resend_alarm > 0
  BY <1>1, <1>2, <1>3 DEF ntp_sync_done
<1>4. CASE ~(ntp_resend_alarm > 0)
  <2>1. ntp_resend_alarm \notin AlarmIds
    BY <1>2, <1>4, NtpAssumptions
  <2>2. armed = {}
    BY <1>2, <2>1 DEF IInv, TypeOK
  <2> QED BY <1>1, <1>2, <1>4, <2>2 DEF ntp_sync_done
<1> QED BY <1>3, <1>4

\* util.c: ntp_poll and the handler around it.
LEMMA HandlerIInv ==
  ASSUME IInv, ntp_sync_handler
  PROVE  IInv'
<1> USE DEF IInv
<1>1. CASE PollStarts
  <2>1. alarms = {}
    BY <1>1 DEF PollStarts, AlarmOwned
  <2>2. /\ pc' = "lookup"
        /\ UNCHANGED <<err, dns_request_sent, due, clock, network>>
    BY <1>1 DEF PollStarts
  <2>3. \/ \E id \in AlarmIds : ntp_resend_alarm' = id /\ alarms' = {id}
        \/ ntp_resend_alarm' = -1 /\ alarms' = {}
    BY <1>1, <2>1 DEF PollStarts
  <2>4. TypeOK'
    BY <2>2, <2>3 DEF TypeOK, PCs, clock, network
  <2>5. AlarmOwned'
    BY <2>2, <2>3 DEF AlarmOwned
  <2> QED BY <2>4, <2>5
<1>2. CASE PollSkips
  BY <1>2 DEF PollSkips, TypeOK, PCs, AlarmOwned, attempt, clock, network
<1>3. CASE Lookup
  <2>1. lookups' \in 0..MaxLookups
    BY <1>3, NtpAssumptions DEF Lookup, TypeOK
  <2>2. /\ pc' = "mark"
        /\ err' \in {"OK", "INPROGRESS", "error"}
        /\ UNCHANGED <<attempt, clock, replies>>
    BY <1>3 DEF Lookup
  <2> QED BY <2>1, <2>2 DEF TypeOK, PCs, AlarmOwned, attempt, clock
<1>4. CASE Mark
  BY <1>4 DEF Mark, TypeOK, PCs, AlarmOwned, clock, network
<1>5. CASE ActCached
  <2>1. replies' \in 0..MaxReplies
    BY <1>5, NtpAssumptions DEF ActCached, ntp_request, TypeOK
  <2>2. pc = "act" /\ pc' = "flag" /\ UNCHANGED <<err, attempt, clock, lookups>>
    BY <1>5 DEF ActCached
  <2> QED BY <2>1, <2>2 DEF TypeOK, PCs, AlarmOwned, attempt, clock
<1>6. CASE ActWait
  BY <1>6 DEF ActWait, TypeOK, PCs, AlarmOwned, attempt, clock, network
<1>7. CASE ActFailed
  <2>1. pc' = "flag" /\ ntp_sync_done(alarms) /\ UNCHANGED <<err, clock, network>>
    BY <1>7 DEF ActFailed
  <2>2. /\ alarms' = {}
        /\ ntp_resend_alarm' \in AlarmIds \cup {0, -1}
        /\ dns_request_sent' = FALSE
        /\ due' = FALSE
    BY <2>1, SyncDone
  <2> QED BY <2>1, <2>2 DEF TypeOK, PCs, AlarmOwned, clock, network
<1>8. CASE Flag
  <2>1. /\ pc = "flag" /\ pc' \in {"running", "call"}
        /\ UNCHANGED <<err, attempt, synced, epoch_secs, hw_ref_ms, delta_ms, network>>
    BY <1>8 DEF Flag
  <2>2. ntp_syncd' \in BOOLEAN
    BY <1>8 DEF Flag
  <2> QED BY <2>1, <2>2 DEF TypeOK, PCs, AlarmOwned, attempt, network
<1> QED BY <1>1, <1>2, <1>3, <1>4, <1>5, <1>6, <1>7, <1>8 DEF ntp_sync_handler, ntp_poll

\* util.c: the callbacks and the alarm.
LEMMA InterruptIInv ==
  ASSUME IInv, Interrupt
  PROVE  IInv'
<1> USE DEF IInv
<1>1. ASSUME NEW armed \in SUBSET alarms, ntp_sync_done(armed),
             UNCHANGED <<pc, err, ntp_syncd, delta_ms>>,
             synced' \in BOOLEAN, epoch_secs' \in {0, 1}, hw_ref_ms' \in {0, 1},
             lookups' \in 0..MaxLookups, replies' \in 0..MaxReplies
      PROVE  IInv'
  <2>1. /\ alarms' = {}
        /\ ntp_resend_alarm' \in AlarmIds \cup {0, -1}
        /\ dns_request_sent' = FALSE
        /\ due' = FALSE
    BY <1>1, SyncDone
  <2> QED BY <1>1, <2>1 DEF TypeOK, AlarmOwned
<1>2. /\ lookups > 0 => lookups - 1 \in 0..MaxLookups
      /\ replies > 0 => replies - 1 \in 0..MaxReplies
      /\ 1 - epoch_secs \in {0, 1}
  BY NtpAssumptions DEF TypeOK
<1>3. alarms \in SUBSET alarms /\ \A id \in alarms : alarms \ {id} \in SUBSET alarms
  OBVIOUS
<1>4. CASE DnsResolved
  <2>1. replies' \in 0..MaxReplies
    BY <1>4, NtpAssumptions DEF DnsResolved, ntp_request, TypeOK
  <2>2. lookups' \in 0..MaxLookups /\ UNCHANGED <<pc, err, attempt, clock>>
    BY <1>2, <1>4 DEF DnsResolved
  <2> QED BY <2>1, <2>2 DEF TypeOK, AlarmOwned, attempt, clock
<1>5. CASE DnsFailed
  <2>1. /\ ntp_sync_done(alarms)
        /\ lookups' \in 0..MaxLookups
        /\ UNCHANGED <<pc, err, clock, replies>>
    BY <1>2, <1>5 DEF DnsFailed
  <2> QED BY <1>1, <1>3, <2>1 DEF TypeOK, clock
<1>6. CASE ReplyValid
  <2>1. /\ ntp_sync_done(alarms)
        /\ replies' \in 0..MaxReplies
        /\ epoch_secs' \in {0, 1} /\ hw_ref_ms' \in {0, 1} /\ synced' = TRUE
        /\ UNCHANGED <<pc, err, ntp_syncd, delta_ms, lookups>>
    BY <1>2, <1>6 DEF ReplyValid
  <2> QED BY <1>1, <1>3, <2>1 DEF TypeOK
<1>7. CASE ReplyInvalid
  <2>1. /\ ntp_sync_done(alarms)
        /\ replies' \in 0..MaxReplies
        /\ UNCHANGED <<pc, err, clock, lookups>>
    BY <1>2, <1>7 DEF ReplyInvalid
  <2> QED BY <1>1, <1>3, <2>1 DEF TypeOK, clock
<1>8. CASE ReplyLost
  <2>1. replies' \in 0..MaxReplies /\ UNCHANGED <<pc, err, attempt, clock, lookups>>
    BY <1>2, <1>8 DEF ReplyLost
  <2> QED BY <2>1 DEF TypeOK, AlarmOwned, attempt, clock
<1>9. CASE ntp_failed_handler
  <2>1. PICK id \in alarms : ntp_sync_done(alarms \ {id})
    BY <1>9 DEF ntp_failed_handler
  <2>2. UNCHANGED <<pc, err, clock, network>>
    BY <1>9 DEF ntp_failed_handler
  <2> QED BY <1>1, <1>3, <2>1, <2>2 DEF TypeOK, clock, network
<1>10. CASE PollDue
  BY <1>10 DEF PollDue, TypeOK, AlarmOwned, clock, network
<1> QED BY <1>4, <1>5, <1>6, <1>7, <1>8, <1>9, <1>10 DEF Interrupt, ntp_dns_found, ntp_recv

\* Every reachable state of the NTP client satisfies the inductive invariant.
THEOREM NtpInvariance == Spec => []IInv
<1>1. Init => IInv
  <2> SUFFICES ASSUME Init PROVE IInv
    OBVIOUS
  <2>1. lookups \in 0..MaxLookups /\ replies \in 0..MaxReplies
    BY NtpAssumptions DEF Init
  <2> QED BY <2>1 DEF Init, IInv, TypeOK, PCs, AlarmOwned
<1>2. IInv /\ [Next]_vars => IInv'
  <2> SUFFICES ASSUME IInv, [Next]_vars PROVE IInv'
    OBVIOUS
  <2>1. CASE ntp_sync_handler
    BY <2>1, HandlerIInv
  <2>2. CASE get_current_epoch
    BY <2>2 DEF get_current_epoch, ReadReference, ReadEpoch, IInv, TypeOK, PCs,
                AlarmOwned, attempt, clock, network
  <2>3. CASE Interrupt
    BY <2>3, InterruptIInv
  <2>4. CASE UNCHANGED vars
    BY <2>4 DEF vars, IInv, TypeOK, AlarmOwned
  <2> QED BY <2>1, <2>2, <2>3, <2>4 DEF Next, Main
<1> QED BY <1>1, <1>2, PTL DEF Spec

\* util.c: NTP_T, the alarm pool and the outstanding work keep their types.
THEOREM NtpTypeCorrect == Spec => []TypeOK
<1>1. IInv => TypeOK
  BY DEF IInv
<1> QED BY <1>1, NtpInvariance, PTL

\* util.c: whatever the order of callbacks, time-outs and late replies, a time-out
\* that is armed is the one NTP_T knows, and none is armed when ntp_poll arms one.
THEOREM NoAlarmIsOrphaned == Spec => []NoOrphanAlarm
<1>1. IInv => NoOrphanAlarm
  BY DEF IInv, AlarmOwned, NoOrphanAlarm
<1> QED BY <1>1, NtpInvariance, PTL
=============================================================================
