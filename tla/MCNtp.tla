-------------------------------- MODULE MCNtp --------------------------------
(***************************************************************************)
(* Ntp.tla for TLC, and what the comments of util.c say of the client that *)
(* the code does not do.                                                   *)
(***************************************************************************)
EXTENDS Ntp

\* util.c: NTP_RESEND_MS, "give-up if no response in 10 s".  Every attempt that got
\* its alarm should end.  A callback that ends it, and so cancels the alarm, before
\* ntp_poll has recorded it leaves dns_request_sent set and nothing to clear it.
GivesUp ==
  dns_request_sent /\ ntp_resend_alarm # -1 ~> ~dns_request_sent

\* util.c: NTP_POLL_MS, "re-sync every 30 s".  The clock should be asked for again
\* and again; after the first success ntp_poll is not called any more.
Resyncs ==
  synced ~> pc = "lookup"

\* util.c: ntp_recv caches "the epoch + the HW time at which it was valid".  What
\* get_current_epoch adds up should be such a pair; a late reply between its two
\* reads gives it the new epoch and the time elapsed since the old one.
ReadsOneReply ==
  pc = "reading" => delta_ms = epoch_secs
=============================================================================
