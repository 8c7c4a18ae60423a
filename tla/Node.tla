-------------------------------- MODULE Node ---------------------------------
(***************************************************************************)
(* The firmware's main loop: main.c calls the handler of the current       *)
(* loop_state, logs its error, and calls update_state (state.c), for ever. *)
(* Interrupts run between any two steps of the loop: the sample timer, the *)
(* HTTP server that receives the credentials, the NTP reply, the loss of   *)
(* the broker.  Power may fail at any step; only the flash sector survives.*)
(*                                                                         *)
(* A handler that does one thing is one step.  The two that can be cut in  *)
(* half are several: flash_write_handler makes three writes, each an erase *)
(* followed by a program, and mqtt_init_handler blocks for up to 30 s in   *)
(* the WiFi join before it reads the token.                                *)
(*                                                                         *)
(* The wording of messages, the HTTP dialogue, the characters in flash and *)
(* the NTP exchange are abstracted: a credential is identified by the      *)
(* request it came in, a log line by the slot it fills, and the clock by   *)
(* whether it is synchronised.  The credentials are ones that fit their    *)
(* buffers and that read() gives back as write() got them, without comma,  *)
(* equals sign or backslash.                                               *)
(***************************************************************************)
EXTENDS Integers

CONSTANTS
  Creds,       \* the provisioning requests a client may send; each carries an
               \* SSID, a password and a token, named by the request itself
  EmptyToken,  \* the requests whose token is the empty string
  None,        \* what a credential buffer or a flash key holds before any
  LogSlots,    \* the length of APP_CTX_T.logdump: 16 in state.h
  SampleLaps   \* a number of loop iterations that always fits in SAMPLE_RATE

ASSUME NodeAssumptions ==
  /\ None \notin Creds
  /\ EmptyToken \subseteq Creds
  /\ LogSlots \in Nat \ {0}
  /\ SampleLaps \in Nat

VARIABLES
  pc,       \* where main() is
  ctx,      \* APP_CTX_T, in RAM
  HOSTING,  \* the static flag of host.c: the access point's server listens
  flash,    \* the NVS sector: what each key holds
  erased,   \* every byte of the sector is 0xFF
  buf,      \* write()'s RAM image of the sector while the sector is erased
  nth,      \* which of its three writes flash_write_handler is at
  laps      \* loop iterations since the sample timer last fired, up to SampleLaps

vars == <<pc, ctx, HOSTING, flash, erased, buf, nth, laps>>
device == <<HOSTING, flash, erased, buf, nth, laps>>

(***************************************************************************)
(* State                                                                   *)
(***************************************************************************)
Cred == Creds \cup {None}
Keys == {"ssid", "password", "contract"}
WriteOrder == <<"ssid", "password", "contract">>

Running == {"MQTT_PUBLISH", "MQTT_LISTEN", "BATT_LISTEN", "SENSE_LISTEN",
            "LOGDUMP", "THROTTLE"}
LoopStates == {"FLASH_INIT", "WIFI_CONFIG", "FLASH_WRITE", "MQTT_INIT",
               "SENSE_INIT", "NTP_SYNC"} \cup Running

\* APP_CTX_T.  capacitance stands for both measurements: the 0 of calloc, a value
\* read from the sensor, or the 65535 of a read that failed.  logdump counts the
\* slots that are not NULL: dlog fills them in order and free_logs never clears
\* one.
Ctx == [loop_state : LoopStates,
        set_publish : BOOLEAN, dump_logs : BOOLEAN, reset : BOOLEAN,
        flash_initd : BOOLEAN, wifi_configd : BOOLEAN, flash_written : BOOLEAN,
        mqtt_initd : BOOLEAN, sense_initd : BOOLEAN, ntp_syncd : BOOLEAN,
        wifi_ssid : Cred, wifi_pass : Cred, prv_token : Cred,
        mqtt_client : {"NULL", "disconnected", "connected"},
        ntp_state : {"NULL", "unsynced", "synced"},
        capacitance : {"zero", "read", "error"},
        logdump : 0..LogSlots]

\* calloc in main.c.
ZeroCtx == [loop_state |-> "FLASH_INIT",
            set_publish |-> FALSE, dump_logs |-> FALSE, reset |-> FALSE,
            flash_initd |-> FALSE, wifi_configd |-> FALSE, flash_written |-> FALSE,
            mqtt_initd |-> FALSE, sense_initd |-> FALSE, ntp_syncd |-> FALSE,
            wifi_ssid |-> None, wifi_pass |-> None, prv_token |-> None,
            mqtt_client |-> "NULL", ntp_state |-> "NULL",
            capacitance |-> "zero", logdump |-> 0]

Empty == [k \in Keys |-> None]

PCs == {"boot", "exit", "call", "write", "program", "joined", "update"}

TypeOK ==
  /\ pc \in PCs
  /\ ctx \in Ctx
  /\ HOSTING \in BOOLEAN
  /\ flash \in [Keys -> Cred]
  /\ erased \in BOOLEAN
  /\ buf \in [Keys -> Cred]
  /\ nth \in 1..3
  /\ laps \in 0..SampleLaps

Init ==
  /\ pc = "boot"
  /\ ctx = ZeroCtx
  /\ HOSTING = FALSE
  /\ flash = Empty
  /\ erased = TRUE
  /\ buf = Empty
  /\ nth = 1
  /\ laps = SampleLaps

(***************************************************************************)
(* The log (logger.c)                                                      *)
(***************************************************************************)
\* Mutant of dlog: the search for a free slot does not stop at the last one.
dlog_unbounded(c, n) ==
  [c EXCEPT !.logdump = @ + n,
            !.dump_logs = @ \/ (n > 0 /\ c.logdump + n - 1 > LogSlots \div 2)]

\* n calls of dlog that get their buffer.  A line that finds more than half of
\* the slots taken asks for a dump; one that finds them all taken is dropped.
dlog(c, n) ==
  [c EXCEPT !.logdump = IF @ + n > LogSlots THEN LogSlots ELSE @ + n,
            !.dump_logs = @ \/ (n > 0 /\ c.logdump + n - 1 > LogSlots \div 2)]

\* A handler that made some calls of dlog, main's own on an error included,
\* returns c.  Any of the calls may fail to get its buffer and log nothing.
Return(c, calls) ==
  /\ \E n \in 0..calls : ctx' = dlog(c, n)
  /\ pc' = "update"

At(s) == pc = "call" /\ ctx.loop_state = s

(***************************************************************************)
(* Power-up (main.c)                                                       *)
(***************************************************************************)
main ==
  /\ pc = "boot"
  /\ pc' \in {"call", "exit"}    \* "exit": cyw43_arch_init failed
  /\ \E n \in 0..2 : ctx' = dlog(ctx, n)
  /\ UNCHANGED device

PowerLoss ==
  /\ pc # "boot"
  /\ pc' = "boot"
  /\ ctx' = ZeroCtx
  /\ HOSTING' = FALSE
  /\ buf' = Empty
  /\ nth' = 1
  /\ laps' = SampleLaps
  /\ UNCHANGED <<flash, erased>>

(***************************************************************************)
(* FLASH_INIT: flash_init_handler (flashmem.c)                             *)
(***************************************************************************)
\* initialize_flash finds the sector erased and cannot allocate the zeroes.
InitializeFails ==
  /\ At("FLASH_INIT")
  /\ erased
  /\ Return(ctx, 1)
  /\ UNCHANGED device

\* initialize_flash leaves a sector that is not erased, whatever it holds.
Initialize ==
  /\ At("FLASH_INIT")
  /\ erased' = FALSE
  /\ UNCHANGED <<HOSTING, flash, buf, nth, laps>>

\* No SSID: not yet configured.
RestoreNothing ==
  /\ Initialize
  /\ flash["ssid"] = None
  /\ Return([ctx EXCEPT !.flash_initd = TRUE], 0)

\* An SSID without a password or without a contract is an error; what was read
\* before it stays in ctx.
RestoreSome ==
  /\ Initialize
  /\ flash["ssid"] # None
  /\ flash["password"] = None \/ flash["contract"] = None
  /\ Return([ctx EXCEPT !.wifi_ssid = flash["ssid"],
                        !.wifi_pass = IF flash["password"] = None
                                      THEN @ ELSE flash["password"]], 1)

\* Mutant of RestoreAll: the handler does not report that it is done.
RestoreAll_unflagged ==
  /\ Initialize
  /\ \A k \in Keys : flash[k] # None
  /\ Return([ctx EXCEPT !.wifi_ssid = flash["ssid"],
                        !.wifi_pass = flash["password"],
                        !.prv_token = flash["contract"],
                        !.wifi_configd = TRUE,
                        !.flash_written = TRUE], 0)

RestoreAll ==
  /\ Initialize
  /\ \A k \in Keys : flash[k] # None
  /\ Return([ctx EXCEPT !.wifi_ssid = flash["ssid"],
                        !.wifi_pass = flash["password"],
                        !.prv_token = flash["contract"],
                        !.wifi_configd = TRUE,
                        !.flash_initd = TRUE,
                        !.flash_written = TRUE], 0)

flash_init_handler ==
  InitializeFails \/ RestoreNothing \/ RestoreSome \/ RestoreAll

(***************************************************************************)
(* WIFI_CONFIG: wifi_config_handler (host.c)                               *)
(***************************************************************************)
host_provisioning_ap ==
  /\ At("WIFI_CONFIG")
  /\ ~HOSTING
  /\ HOSTING' = TRUE
  /\ Return(ctx, 0)
  /\ UNCHANGED <<flash, erased, buf, nth, laps>>

\* No memory, or the server's port cannot be opened.
HostFails ==
  /\ At("WIFI_CONFIG")
  /\ ~HOSTING
  /\ Return(ctx, 1)
  /\ UNCHANGED device

AlreadyHosting ==
  /\ At("WIFI_CONFIG")
  /\ HOSTING
  /\ Return(ctx, 0)
  /\ UNCHANGED device

wifi_config_handler == host_provisioning_ap \/ HostFails \/ AlreadyHosting

(***************************************************************************)
(* FLASH_WRITE: flash_write_handler (flashmem.c)                           *)
(***************************************************************************)
Field(c, key) == CASE key = "ssid" -> c.wifi_ssid
                   [] key = "password" -> c.wifi_pass
                   [] key = "contract" -> c.prv_token

\* Mutant of BeginWrites: flash_written is set before the writes, not after them.
BeginWrites_flagged ==
  /\ At("FLASH_WRITE")
  /\ pc' = "write"
  /\ nth' = 1
  /\ ctx' = [ctx EXCEPT !.flash_written = TRUE]
  /\ UNCHANGED <<HOSTING, flash, erased, buf, laps>>

BeginWrites ==
  /\ At("FLASH_WRITE")
  /\ pc' = "write"
  /\ nth' = 1
  /\ UNCHANGED <<ctx, HOSTING, flash, erased, buf, laps>>

\* write() up to the erase: the new image of the sector is in RAM only.
WriteErase ==
  /\ pc = "write"
  /\ buf' = [flash EXCEPT ![WriteOrder[nth]] = Field(ctx, WriteOrder[nth])]
  /\ flash' = Empty
  /\ erased' = TRUE
  /\ pc' = "program"
  /\ UNCHANGED <<ctx, HOSTING, nth, laps>>

\* Mutant of WriteFails: the handler ignores the error and makes its next write.
WriteFails_ignored ==
  /\ pc = "write"
  /\ nth < 3
  /\ nth' = nth + 1
  /\ UNCHANGED <<pc, ctx, HOSTING, flash, erased, buf, laps>>

\* write() refuses the value or the sector is full: the handler gives up and
\* the loop calls it again, from its first write.
WriteFails ==
  /\ pc = "write"
  /\ Return(ctx, 1)
  /\ UNCHANGED device

\* Mutant of WriteProgram: the handler never sets flash_written.
WriteProgram_unflagged ==
  /\ pc = "program"
  /\ flash' = buf
  /\ erased' = FALSE
  /\ buf' = Empty
  /\ IF nth < 3
     THEN pc' = "write" /\ nth' = nth + 1 /\ UNCHANGED ctx
     ELSE Return(ctx, 0) /\ UNCHANGED nth
  /\ UNCHANGED <<HOSTING, laps>>

\* The rest of write(), and of the handler after its third.
WriteProgram ==
  /\ pc = "program"
  /\ flash' = buf
  /\ erased' = FALSE
  /\ buf' = Empty
  /\ IF nth < 3
     THEN pc' = "write" /\ nth' = nth + 1 /\ UNCHANGED ctx
     ELSE Return([ctx EXCEPT !.flash_written = TRUE], 0) /\ UNCHANGED nth
  /\ UNCHANGED <<HOSTING, laps>>

flash_write_handler == BeginWrites \/ WriteErase \/ WriteFails \/ WriteProgram

(***************************************************************************)
(* MQTT_INIT, MQTT_PUBLISH, LOGDUMP (connect.c)                            *)
(***************************************************************************)
\* publish() reports what lwIP's mqtt_publish returns: an error on a client that
\* is not connected, and possibly for want of memory on one that is.  A client
\* counts as connected from the moment mqtt_client_connect accepts the request.
CanPublish(c) == c.mqtt_client = "connected"

JoinFails ==
  /\ At("MQTT_INIT")
  /\ Return(ctx, IF ctx.wifi_configd THEN 3 ELSE 2)
  /\ UNCHANGED device

\* cyw43_arch_wifi_connect_timeout_ms has returned; the rest is still to run.
Join ==
  /\ At("MQTT_INIT")
  /\ ctx.wifi_configd
  /\ \E n \in 0..2 : ctx' = dlog(ctx, n)
  /\ pc' = "joined"
  /\ UNCHANGED device

HasToken(c) == c.prv_token \notin EmptyToken \cup {None}

\* mqtt_connect's own failure is not checked: without a token the handler still
\* succeeds, with one it is provision() that fails.
MqttReady ==
  /\ pc = "joined"
  /\ \E client \in {"connected", "disconnected"} :
       LET c == [ctx EXCEPT !.mqtt_client = client, !.mqtt_initd = TRUE]
       IN  (HasToken(c) => CanPublish(c)) /\ Return(c, 0)
  /\ UNCHANGED device

\* No client, or the token could not be published.
MqttFails ==
  /\ pc = "joined"
  /\ \E client \in {"connected", "disconnected"} :
       LET c == [ctx EXCEPT !.mqtt_client = client]
       IN  (client = "connected" => HasToken(c)) /\ Return(c, 2)
  /\ UNCHANGED device

mqtt_init_handler == JoinFails \/ Join \/ MqttReady \/ MqttFails

mqtt_publish_handler ==
  /\ At("MQTT_PUBLISH")
  /\ \/ CanPublish(ctx) /\ Return(ctx, 0)
     \/ Return(ctx, 1)
  /\ UNCHANGED device

\* Nothing to dump, or the dump went out.  free_logs leaves the slots as they are.
LogdumpOk ==
  /\ At("LOGDUMP")
  /\ ctx.logdump = 0 \/ CanPublish(ctx)
  /\ Return(ctx, 0)
  /\ UNCHANGED device

LogdumpFails ==
  /\ At("LOGDUMP")
  /\ ctx.logdump > 0
  /\ Return(ctx, 1)
  /\ UNCHANGED device

logdump_handler == LogdumpOk \/ LogdumpFails

mqtt_listen_handler == At("MQTT_LISTEN") /\ Return(ctx, 0) /\ UNCHANGED device

(***************************************************************************)
(* SENSE_INIT, SENSE_LISTEN (sensor.c), NTP_SYNC (util.c), and the idle    *)
(* states (main.c)                                                         *)
(***************************************************************************)
SenseReady ==
  /\ At("SENSE_INIT")
  /\ Return([ctx EXCEPT !.sense_initd = TRUE], 0)
  /\ UNCHANGED device

\* The bus does not run at the configured rate.
SenseFails ==
  /\ At("SENSE_INIT")
  /\ Return(ctx, 1)
  /\ UNCHANGED device

sense_init_handler == SenseReady \/ SenseFails

\* The handler has no return statement: whether main logs an error is undefined.
sense_listen_handler ==
  /\ At("SENSE_LISTEN")
  /\ \E value \in {"read", "error"} : Return([ctx EXCEPT !.capacitance = value], 1)
  /\ UNCHANGED device

\* Mutant of NtpPoll: the handler polls but never sets ntp_syncd.
NtpPoll_unflagged ==
  /\ At("NTP_SYNC")
  /\ Return([ctx EXCEPT !.ntp_state = IF @ = "NULL" THEN "unsynced" ELSE @], 0)
  /\ UNCHANGED device

\* ntp_init on the first call, ntp_poll on every call, then the flag.
NtpPoll ==
  /\ At("NTP_SYNC")
  /\ Return([ctx EXCEPT !.ntp_state = IF @ = "NULL" THEN "unsynced" ELSE @,
                        !.ntp_syncd = @ \/ ctx.ntp_state = "synced"], 0)
  /\ UNCHANGED device

NtpInitFails ==
  /\ At("NTP_SYNC")
  /\ ctx.ntp_state = "NULL"
  /\ Return(ctx, 2)
  /\ UNCHANGED device

ntp_sync_handler == NtpPoll \/ NtpInitFails

batt_listen_handler == At("BATT_LISTEN") /\ Return(ctx, 0) /\ UNCHANGED device

throttle_listen_handler == At("THROTTLE") /\ Return(ctx, 0) /\ UNCHANGED device

(***************************************************************************)
(* update_state (state.c): the switch, then the three requests in order    *)
(***************************************************************************)
NextState(c) ==
  CASE c.loop_state = "FLASH_INIT" ->
         IF ~c.flash_initd THEN "FLASH_INIT"
         ELSE IF c.wifi_configd THEN "MQTT_INIT" ELSE "WIFI_CONFIG"
    [] c.loop_state = "WIFI_CONFIG" -> IF c.wifi_configd THEN "FLASH_WRITE" ELSE "WIFI_CONFIG"
    [] c.loop_state = "FLASH_WRITE" -> IF c.flash_written THEN "MQTT_INIT" ELSE "FLASH_WRITE"
    [] c.loop_state = "MQTT_INIT" -> IF c.mqtt_initd THEN "SENSE_INIT" ELSE "MQTT_INIT"
    [] c.loop_state = "SENSE_INIT" -> IF c.sense_initd THEN "NTP_SYNC" ELSE "SENSE_INIT"
    [] c.loop_state = "NTP_SYNC" -> IF c.ntp_syncd THEN "MQTT_PUBLISH" ELSE "NTP_SYNC"
    [] c.loop_state = "MQTT_PUBLISH" -> "MQTT_LISTEN"
    [] c.loop_state = "MQTT_LISTEN" -> "BATT_LISTEN"
    [] c.loop_state = "BATT_LISTEN" -> "SENSE_LISTEN"
    [] c.loop_state = "SENSE_LISTEN" -> "LOGDUMP"
    [] c.loop_state = "LOGDUMP" -> "THROTTLE"
    [] c.loop_state = "THROTTLE" -> "MQTT_LISTEN"

\* Mutant of Switch: FLASH_INIT goes to MQTT_INIT whether or not the WiFi is
\* configured.
Switch_unconfigured(c) ==
  [c EXCEPT !.loop_state = IF @ = "FLASH_INIT" /\ c.flash_initd THEN "MQTT_INIT"
                           ELSE NextState(c)]

Switch(c) == [c EXCEPT !.loop_state = NextState(c)]

TakeReset(c) ==
  IF c.reset
  THEN [c EXCEPT !.wifi_configd = FALSE, !.mqtt_initd = FALSE, !.ntp_syncd = FALSE,
                 !.loop_state = "WIFI_CONFIG", !.reset = FALSE]
  ELSE c

\* The guard of both requests below.
Online(c) == c.wifi_configd /\ c.sense_initd /\ c.mqtt_initd /\ c.ntp_syncd

\* Mutant of TakePublish: a request is served as soon as the broker is there.
TakePublish_early(c) ==
  IF c.set_publish /\ c.wifi_configd /\ c.mqtt_initd
  THEN [c EXCEPT !.loop_state = "MQTT_PUBLISH", !.set_publish = FALSE]
  ELSE c

TakePublish(c) ==
  IF c.set_publish /\ Online(c)
  THEN [c EXCEPT !.loop_state = "MQTT_PUBLISH", !.set_publish = FALSE]
  ELSE c

\* Mutant of TakeDump: the request is not cleared.
TakeDump_sticky(c) ==
  IF c.dump_logs /\ Online(c) THEN [c EXCEPT !.loop_state = "LOGDUMP"] ELSE c

TakeDump(c) ==
  IF c.dump_logs /\ Online(c)
  THEN [c EXCEPT !.loop_state = "LOGDUMP", !.dump_logs = FALSE]
  ELSE c

update_state ==
  /\ pc = "update"
  /\ ctx' = TakeDump(TakePublish(TakeReset(Switch(ctx))))
  /\ pc' = "call"
  /\ laps' = IF laps < SampleLaps THEN laps + 1 ELSE laps
  /\ UNCHANGED <<HOSTING, flash, erased, buf, nth>>

(***************************************************************************)
(* Interrupts.  flash_safe_execute keeps them off while the sector is      *)
(* being erased and programmed.                                            *)
(***************************************************************************)
Interruptible == pc \notin {"boot", "exit", "program"}

\* The repeating timer of main.c.  The loop makes at least SampleLaps iterations
\* in its five seconds.
sample_rate_update ==
  /\ Interruptible
  /\ laps = SampleLaps
  /\ laps' = 0
  /\ ctx' = [ctx EXCEPT !.set_publish = @ \/ ctx.mqtt_initd]
  /\ UNCHANGED <<pc, HOSTING, flash, erased, buf, nth>>

\* A well-formed POST /provision arrives.  The server is never closed, so this
\* may happen in any state once the access point has been opened.
parse_wifi_credentials(c) ==
  /\ Interruptible
  /\ HOSTING
  /\ ctx' = [ctx EXCEPT !.wifi_ssid = c, !.wifi_pass = c, !.prv_token = c,
                        !.wifi_configd = TRUE]
  /\ UNCHANGED <<pc, device>>

\* A valid NTP reply arrives.
ntp_recv ==
  /\ Interruptible
  /\ ctx.ntp_state = "unsynced"
  /\ ctx' = [ctx EXCEPT !.ntp_state = "synced"]
  /\ UNCHANGED <<pc, device>>

\* lwIP reports that the broker is gone; the callback only prints, and nothing
\* reconnects.
mqtt_connection_cb ==
  /\ Interruptible
  /\ ctx.mqtt_client = "connected"
  /\ ctx' = [ctx EXCEPT !.mqtt_client = "disconnected"]
  /\ UNCHANGED <<pc, device>>

(***************************************************************************)
(* Specification                                                           *)
(***************************************************************************)
Handler ==
  \/ flash_init_handler
  \/ wifi_config_handler
  \/ flash_write_handler
  \/ mqtt_init_handler
  \/ sense_init_handler
  \/ ntp_sync_handler
  \/ mqtt_publish_handler
  \/ mqtt_listen_handler
  \/ batt_listen_handler
  \/ sense_listen_handler
  \/ logdump_handler
  \/ throttle_listen_handler

Main == main \/ Handler \/ update_state

Interrupt ==
  \/ sample_rate_update
  \/ \E c \in Creds : parse_wifi_credentials(c)
  \/ ntp_recv
  \/ mqtt_connection_cb

Next == Main \/ Interrupt \/ PowerLoss

Spec == Init /\ [][Next]_vars

\* The processor keeps executing main() while it has power.
MainFairness == WF_vars(Main)

\* The environment does not refuse for ever what the loop keeps asking for:
\* memory, the access point, room in flash, the WiFi network, the broker, the
\* bus.  From some time on, a client that is connected takes the log dumps.  (A
\* reply of the NTP server is not assumed, nor that the broker stays.)
EnvironmentFairness ==
  /\ SF_vars(RestoreNothing)
  /\ SF_vars(RestoreAll)
  /\ SF_vars(host_provisioning_ap)
  /\ \A i \in 1..3 : SF_vars(nth = i /\ WriteErase)
  /\ SF_vars(Join)
  /\ SF_vars(MqttReady)
  /\ SF_vars(SenseReady)
  /\ SF_vars(NtpPoll)
  /\ <>[][At("LOGDUMP") /\ CanPublish(ctx) => (ctx'.dump_logs => ctx.dump_logs)]_vars

FairSpec == Spec /\ MainFairness /\ EnvironmentFairness

(***************************************************************************)
(* Properties                                                              *)
(***************************************************************************)
\* The sampling cycle runs only on a node that is fully initialised.  The
\* handlers of these states use ctx->mqtt_client without testing it, and
\* logdump() must not take its offline exit, which frees two pointers that are
\* not yet initialised (connect.c).
RunningReady ==
  ctx.loop_state \in Running =>
    /\ Online(ctx)
    /\ ctx.mqtt_client # "NULL"
    /\ ctx.ntp_state = "synced"

\* Power loss anywhere in the three erase-and-program writes leaves the keys a
\* prefix of the order they are written in.  flash_init_handler relies on it: it
\* takes a missing SSID to mean that nothing is stored (flashmem.c).
StoredPrefix ==
  /\ flash["password"] # None => flash["ssid"] # None
  /\ flash["contract"] # None => flash["password"] # None

\* Whenever the node goes on to connect, a power loss costs it nothing: flash
\* holds all three credentials, and wifi_configd never stands for less than a
\* complete set in RAM.
SurvivesRestart ==
  /\ ctx.loop_state \in Running \cup {"MQTT_INIT", "SENSE_INIT", "NTP_SYNC"} =>
       ~erased /\ \A k \in Keys : flash[k] # None
  /\ ctx.wifi_configd => \A k \in Keys : Field(ctx, k) # None

\* The phases the node goes through, and what flash holds in each of them, are
\* those of the abstract life cycle.
Phase ==
  CASE ctx.loop_state = "FLASH_INIT" -> "restore"
    [] ctx.loop_state = "WIFI_CONFIG" -> "provision"
    [] ctx.loop_state = "FLASH_WRITE" -> "persist"
    [] ctx.loop_state \in {"MQTT_INIT", "SENSE_INIT", "NTP_SYNC"} -> "connect"
    [] ctx.loop_state \in Running -> "run"

Stored == IF \A k \in Keys : flash[k] = None THEN "nothing"
          ELSE IF \A k \in Keys : flash[k] # None THEN "all" ELSE "some"

Life == INSTANCE Lifecycle WITH phase <- Phase, stored <- Stored

LifecycleSpec == Life!Spec

\* The node is off, or main() has returned because the radio did not start.
Down == pc \in {"boot", "exit"}

\* Once it has credentials, from the client or from flash, the node gets through
\* the broker's and the sensor's initialisation to the clock's, and once the
\* clock is synchronised to the sampling cycle, unless power is lost.
ProvisionedStarts ==
  ctx.wifi_configd ~> Down \/ ctx.loop_state \in {"NTP_SYNC"} \cup Running

\* A node whose flash is complete starts without the client.
RestoredStarts ==
  pc = "call" /\ Stored = "all" /\ ctx.loop_state = "FLASH_INIT" ~>
    Down \/ ctx.loop_state \in {"NTP_SYNC"} \cup Running

\* Once the clock is synchronised the sampling cycle starts.
SyncedRuns ==
  ctx.loop_state = "NTP_SYNC" /\ ctx.ntp_state = "synced" ~>
    Down \/ ctx.loop_state \in Running

\* As long as the broker is there, the sensor is read again and again: neither
\* the publish requests of the timer nor the dump requests of the log keep the
\* loop away from SENSE_LISTEN.
SamplesWhileConnected ==
  ctx.loop_state \in Running ~>
    Down \/ ctx.loop_state = "SENSE_LISTEN" \/ ctx.mqtt_client # "connected"
=============================================================================
