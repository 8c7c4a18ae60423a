----------------------------- MODULE NodeProofs ------------------------------
(***************************************************************************)
(* Proofs about Node.tla, for any set of requests, any number of log slots *)
(* and any sample rate: the type invariant, the three safety invariants,   *)
(* and that the node implements the life cycle of Lifecycle.tla.           *)
(*                                                                         *)
(* None of the safety invariants is inductive by itself.  IInv adds what   *)
(* the flags of APP_CTX_T say about the states they are set in, when       *)
(* flash_written may be believed, and how far flash_write_handler has got. *)
(***************************************************************************)
EXTENDS Node, TLAPS

Connecting == {"MQTT_INIT", "SENSE_INIT", "NTP_SYNC"}

\* The flags of APP_CTX_T that update_state reads, against the loop state.
Flags ==
  /\ ~ctx.reset
  /\ ctx.mqtt_initd => /\ ctx.loop_state \in Connecting \cup Running
                       /\ ctx.mqtt_client # "NULL"
  /\ ctx.sense_initd => ctx.loop_state \in {"SENSE_INIT", "NTP_SYNC"} \cup Running
  /\ ctx.ntp_syncd => /\ ctx.loop_state \in {"NTP_SYNC"} \cup Running
                      /\ ctx.ntp_state = "synced"
  /\ ctx.loop_state \in {"SENSE_INIT", "NTP_SYNC"} \cup Running => ctx.mqtt_initd
  /\ ctx.loop_state \in {"NTP_SYNC"} \cup Running => ctx.sense_initd
  /\ ctx.loop_state \in Running => ctx.ntp_syncd
  /\ ctx.loop_state \in {"FLASH_WRITE"} \cup Connecting \cup Running => ctx.wifi_configd

\* wifi_configd stands for a complete set of credentials, and while FLASH_INIT is
\* the state, for one that came from flash.
Configured ==
  /\ ctx.wifi_configd => /\ ctx.wifi_ssid # None
                         /\ ctx.wifi_pass # None
                         /\ ctx.prv_token # None
  /\ ctx.loop_state = "FLASH_INIT" =>
       /\ ~HOSTING
       /\ ctx.wifi_configd <=> ctx.flash_written
       /\ ctx.flash_written => ctx.flash_initd
       /\ ctx.flash_initd => ctx.flash_written \/ flash["ssid"] = None

\* flash_written is never set before flash holds all three credentials.
Persisted ==
  /\ ctx.flash_written =>
       /\ ~erased
       /\ flash["ssid"] # None
       /\ flash["password"] # None
       /\ flash["contract"] # None
       /\ ctx.loop_state # "WIFI_CONFIG"
       /\ ctx.loop_state \in {"FLASH_INIT", "FLASH_WRITE"} => pc = "update"
  /\ ctx.loop_state \in Connecting \cup Running => ctx.flash_written

Prefix(f) ==
  /\ f["password"] # None => f["ssid"] # None
  /\ f["contract"] # None => f["password"] # None

\* The handlers that take several steps: where they are, and what the first
\* nth - 1 writes have left in flash or the first nth in the image.
Progress ==
  /\ pc \in {"write", "program"} => ctx.loop_state = "FLASH_WRITE"
  /\ pc = "joined" => ctx.loop_state = "MQTT_INIT"
  /\ Prefix(flash)
  /\ Prefix(buf)
  /\ pc = "write" => /\ nth > 1 => flash["ssid"] # None
                     /\ nth > 2 => flash["password"] # None
  /\ pc = "program" => /\ buf["ssid"] # None
                       /\ nth > 1 => buf["password"] # None
                       /\ nth > 2 => buf["contract"] # None

IInv == TypeOK /\ Flags /\ Configured /\ Persisted /\ Progress

(***************************************************************************)
(* The log never touches anything but itself                               *)
(***************************************************************************)
\* d is c but for its log and the measurements.
SameButLog(d, c) ==
  /\ d.loop_state = c.loop_state
  /\ d.set_publish = c.set_publish
  /\ d.reset = c.reset
  /\ d.flash_initd = c.flash_initd
  /\ d.wifi_configd = c.wifi_configd
  /\ d.flash_written = c.flash_written
  /\ d.mqtt_initd = c.mqtt_initd
  /\ d.sense_initd = c.sense_initd
  /\ d.ntp_syncd = c.ntp_syncd
  /\ d.wifi_ssid = c.wifi_ssid
  /\ d.wifi_pass = c.wifi_pass
  /\ d.prv_token = c.prv_token
  /\ d.mqtt_client = c.mqtt_client
  /\ d.ntp_state = c.ntp_state

\* logger.c: whatever is logged, dlog keeps the slots within the array and changes
\* no other field of APP_CTX_T.
LEMMA DlogFrame ==
  ASSUME NEW c \in Ctx, NEW n \in Nat
  PROVE  dlog(c, n) \in Ctx /\ SameButLog(dlog(c, n), c)
<1>1. c.logdump \in 0..LogSlots /\ c.dump_logs \in BOOLEAN /\ LogSlots \in Nat
  BY NodeAssumptions DEF Ctx
<1>2. (IF c.logdump + n > LogSlots THEN LogSlots ELSE c.logdump + n) \in 0..LogSlots
  BY <1>1
<1>3. (c.dump_logs \/ (n > 0 /\ c.logdump + n - 1 > LogSlots \div 2)) \in BOOLEAN
  OBVIOUS
<1>4. dlog(c, n) \in Ctx
  BY <1>2, <1>3 DEF dlog, Ctx
<1>5. SameButLog(dlog(c, n), c)
  BY DEF dlog, SameButLog, Ctx
<1> QED BY <1>4, <1>5

\* main.c: a handler's return and main's own log line change nothing but the log.
LEMMA ReturnFrame ==
  ASSUME NEW c \in Ctx, NEW k \in Nat, Return(c, k)
  PROVE  pc' = "update" /\ ctx' \in Ctx /\ SameButLog(ctx', c)
<1>1. PICK n \in 0..k : ctx' = dlog(c, n)
  BY DEF Return
<1>2. n \in Nat
  OBVIOUS
<1> QED BY <1>1, <1>2, DlogFrame DEF Return

(***************************************************************************)
(* update_state                                                            *)
(***************************************************************************)
\* d is c but for its log, its loop state, its publish request and the measurements.
SameFlags(d, c) ==
  /\ d.reset = c.reset
  /\ d.flash_initd = c.flash_initd
  /\ d.wifi_configd = c.wifi_configd
  /\ d.flash_written = c.flash_written
  /\ d.mqtt_initd = c.mqtt_initd
  /\ d.sense_initd = c.sense_initd
  /\ d.ntp_syncd = c.ntp_syncd
  /\ d.wifi_ssid = c.wifi_ssid
  /\ d.wifi_pass = c.wifi_pass
  /\ d.prv_token = c.prv_token
  /\ d.mqtt_client = c.mqtt_client
  /\ d.ntp_state = c.ntp_state

\* state.c: the switch has a case for every loop state and leads to a loop state.
LEMMA NextStateType ==
  ASSUME NEW c \in Ctx
  PROVE  NextState(c) \in LoopStates
<1>1. c.loop_state \in LoopStates
  BY DEF Ctx
<1> QED BY <1>1 DEF NextState, LoopStates, Running

\* state.c: where no reset is pending, update_state follows the switch, or goes to
\* MQTT_PUBLISH or LOGDUMP if the node is online; it touches no other flag.
LEMMA UpdateFrame ==
  ASSUME NEW c \in Ctx, ~c.reset
  PROVE  LET d == TakeDump(TakePublish(TakeReset(Switch(c))))
         IN  /\ d \in Ctx
             /\ SameFlags(d, c)
             /\ \/ d.loop_state = NextState(c)
                \/ Online(c) /\ d.loop_state \in {"MQTT_PUBLISH", "LOGDUMP"}
<1> DEFINE s == Switch(c)
           p == TakePublish(s)
           d == TakeDump(p)
<1>1. s \in Ctx /\ SameFlags(s, c) /\ s.loop_state = NextState(c)
  BY NextStateType DEF Switch, SameFlags, Ctx
<1>2. TakeReset(s) = s
  BY <1>1 DEF TakeReset, SameFlags
<1>3. Online(s) <=> Online(c)
  BY <1>1 DEF Online, SameFlags
<1>4. /\ p \in Ctx
      /\ SameFlags(p, c)
      /\ p.loop_state = NextState(c) \/ (Online(c) /\ p.loop_state = "MQTT_PUBLISH")
  <2>1. CASE s.set_publish /\ Online(s)
    <3>1. p = [s EXCEPT !.loop_state = "MQTT_PUBLISH", !.set_publish = FALSE]
      BY <2>1 DEF TakePublish
    <3>2. "MQTT_PUBLISH" \in LoopStates
      BY DEF LoopStates, Running
    <3>3. p \in Ctx /\ SameFlags(p, s) /\ p.loop_state = "MQTT_PUBLISH"
      BY <1>1, <3>1, <3>2 DEF SameFlags, Ctx
    <3> QED BY <1>1, <1>3, <2>1, <3>3 DEF SameFlags
  <2>2. CASE ~(s.set_publish /\ Online(s))
    BY <1>1, <2>2 DEF TakePublish
  <2> QED BY <2>1, <2>2
<1>5. Online(p) <=> Online(c)
  BY <1>4 DEF Online, SameFlags
<1>6. /\ d \in Ctx
      /\ SameFlags(d, c)
      /\ \/ d.loop_state = p.loop_state
         \/ Online(c) /\ d.loop_state = "LOGDUMP"
  <2>1. CASE p.dump_logs /\ Online(p)
    <3>1. d = [p EXCEPT !.loop_state = "LOGDUMP", !.dump_logs = FALSE]
      BY <2>1 DEF TakeDump
    <3>2. "LOGDUMP" \in LoopStates
      BY DEF LoopStates, Running
    <3>3. d \in Ctx /\ SameFlags(d, p) /\ d.loop_state = "LOGDUMP"
      BY <1>4, <3>1, <3>2 DEF SameFlags, Ctx
    <3> QED BY <1>4, <1>5, <2>1, <3>3 DEF SameFlags
  <2>2. CASE ~(p.dump_logs /\ Online(p))
    BY <1>4, <2>2 DEF TakeDump
  <2> QED BY <2>1, <2>2
<1> QED BY <1>2, <1>4, <1>6

(***************************************************************************)
(* The inductive invariant                                                 *)
(***************************************************************************)
\* Every handler that reports an error, or has nothing to report, changes the log
\* only and hands over to update_state.
LEMMA QuietStep ==
  ASSUME IInv, pc \in {"call", "write", "joined"},
         pc' = "update", ctx' \in Ctx, SameButLog(ctx', ctx), UNCHANGED device
  PROVE  IInv'
<1>1. TypeOK'
  BY DEF IInv, TypeOK, PCs, device
<1>2. Flags'
  BY DEF IInv, Flags, SameButLog
<1>3. Configured'
  BY DEF IInv, Configured, SameButLog, device
<1>4. Persisted'
  BY DEF IInv, Persisted, SameButLog, device
<1>5. Progress'
  BY DEF IInv, Progress, Prefix, SameButLog, device
<1> QED BY <1>1, <1>2, <1>3, <1>4, <1>5 DEF IInv

\* main.c: a node with power but nothing in RAM satisfies the invariant, whatever
\* prefix of the credentials flash holds.
LEMMA InitIInv == Init => IInv
<1> SUFFICES ASSUME Init PROVE IInv
  OBVIOUS
<1>1. ZeroCtx \in Ctx
  BY NodeAssumptions DEF ZeroCtx, Ctx, LoopStates, Cred
<1>2. Empty \in [Keys -> Cred]
  BY DEF Empty, Cred
<1>3. TypeOK
  <2>1. HOSTING \in BOOLEAN /\ erased \in BOOLEAN
    BY DEF Init
  <2>2. nth \in 1..3 /\ laps \in 0..SampleLaps
    BY NodeAssumptions DEF Init
  <2> QED BY <1>1, <1>2, <2>1, <2>2 DEF Init, TypeOK, PCs
<1>4. Empty["ssid"] = None /\ Empty["password"] = None /\ Empty["contract"] = None
  BY DEF Empty, Keys
<1>5. Flags /\ Configured /\ Persisted
  BY DEF Init, ZeroCtx, Flags, Configured, Persisted, Connecting, Running
<1>6. Progress
  BY <1>4 DEF Init, Progress, Prefix
<1> QED BY <1>3, <1>5, <1>6 DEF IInv

\* main.c: start-up and power loss.
LEMMA PowerIInv ==
  ASSUME IInv, main \/ PowerLoss
  PROVE  IInv'
<1>1. CASE main
  <2>1. PICK n \in 0..2 : ctx' = dlog(ctx, n)
    BY <1>1 DEF main
  <2>2. ctx' \in Ctx /\ SameButLog(ctx', ctx)
    BY <2>1, DlogFrame DEF IInv, TypeOK
  <2>3. pc' \in {"call", "exit"} /\ UNCHANGED device /\ pc = "boot"
    BY <1>1 DEF main
  <2>4. TypeOK'
    BY <2>2, <2>3 DEF IInv, TypeOK, PCs, device
  <2>5. Flags'
    BY <2>2 DEF IInv, Flags, SameButLog
  <2>6. Configured'
    BY <2>2, <2>3 DEF IInv, Configured, SameButLog, device
  <2>7. Persisted'
    BY <2>2, <2>3 DEF IInv, Persisted, SameButLog, device
  <2>8. Progress'
    BY <2>2, <2>3 DEF IInv, Progress, Prefix, SameButLog, device
  <2> QED BY <2>4, <2>5, <2>6, <2>7, <2>8 DEF IInv
<1>2. CASE PowerLoss
  <2>1. ZeroCtx \in Ctx
    BY NodeAssumptions DEF ZeroCtx, Ctx, LoopStates, Cred
  <2>2. Empty \in [Keys -> Cred]
    BY DEF Empty, Cred
  <2>3. TypeOK'
    <3>1. HOSTING' \in BOOLEAN
      BY <1>2 DEF PowerLoss
    <3>2. nth' \in 1..3 /\ laps' \in 0..SampleLaps
      BY <1>2, NodeAssumptions DEF PowerLoss
    <3> QED BY <1>2, <2>1, <2>2, <3>1, <3>2 DEF IInv, PowerLoss, TypeOK, PCs
  <2>4. Empty["ssid"] = None /\ Empty["password"] = None /\ Empty["contract"] = None
    BY DEF Empty, Keys
  <2>5. Flags' /\ Configured' /\ Persisted'
    BY <1>2 DEF PowerLoss, ZeroCtx, Flags, Configured, Persisted, Connecting, Running
  <2>6. Progress'
    BY <1>2, <2>4 DEF IInv, PowerLoss, Progress, Prefix
  <2> QED BY <2>3, <2>5, <2>6 DEF IInv
<1> QED BY <1>1, <1>2

\* flashmem.c: flash_init_handler sets its flags on no more than what it read.
LEMMA FlashInitIInv ==
  ASSUME IInv, flash_init_handler
  PROVE  IInv'
<1> USE DEF IInv
<1>0. At("FLASH_INIT") /\ ctx \in Ctx /\ flash \in [Keys -> Cred]
  BY DEF flash_init_handler, InitializeFails, RestoreNothing, RestoreSome, RestoreAll,
         Initialize, TypeOK
<1>1. pc = "call" /\ ctx.loop_state = "FLASH_INIT" /\ ~ctx.flash_written /\ ~ctx.wifi_configd
  BY <1>0 DEF At, Persisted, Configured
<1>2. flash["ssid"] \in Cred /\ flash["password"] \in Cred /\ flash["contract"] \in Cred
  BY <1>0 DEF Keys
<1>3. CASE InitializeFails
  BY <1>0, <1>1, <1>3, ReturnFrame, QuietStep DEF InitializeFails
<1>4. CASE RestoreNothing
  <2> DEFINE c == [ctx EXCEPT !.flash_initd = TRUE]
  <2>1. c \in Ctx
    BY <1>0 DEF Ctx
  <2>2. pc' = "update" /\ ctx' \in Ctx /\ SameButLog(ctx', c)
    BY <1>4, <2>1, ReturnFrame DEF RestoreNothing
  <2>3. ctx'.flash_initd /\ SameButLog(ctx', [ctx EXCEPT !.flash_initd = TRUE])
    BY <1>0, <2>2 DEF SameButLog, Ctx
  <2>4. flash["ssid"] = None /\ erased' = FALSE /\ UNCHANGED <<HOSTING, flash, buf, nth, laps>>
    BY <1>4 DEF RestoreNothing, Initialize
  <2>5. TypeOK'
    BY <2>2, <2>4 DEF TypeOK, PCs
  <2>6. Flags'
    BY <1>0, <2>3 DEF Flags, SameButLog, Ctx
  <2>7. Configured'
    BY <1>0, <1>1, <2>3, <2>4 DEF Configured, SameButLog, Ctx
  <2>8. Persisted'
    BY <1>0, <1>1, <2>2, <2>3 DEF Persisted, SameButLog, Ctx, Connecting, Running
  <2>9. Progress'
    BY <2>2, <2>4 DEF Progress, Prefix
  <2> QED BY <2>5, <2>6, <2>7, <2>8, <2>9
<1>5. CASE RestoreSome
  <2> DEFINE pass == IF flash["password"] = None THEN ctx.wifi_pass ELSE flash["password"]
             c == [ctx EXCEPT !.wifi_ssid = flash["ssid"], !.wifi_pass = pass]
  <2>1. c \in Ctx
    BY <1>0, <1>2 DEF Ctx
  <2>2. pc' = "update" /\ ctx' \in Ctx /\ SameButLog(ctx', c)
    BY <1>5, <2>1, ReturnFrame DEF RestoreSome
  <2>3. /\ ctx'.loop_state = "FLASH_INIT" /\ ~ctx'.flash_written /\ ~ctx'.wifi_configd
        /\ ctx'.flash_initd = ctx.flash_initd
        /\ ctx'.reset = ctx.reset
        /\ ctx'.mqtt_initd = ctx.mqtt_initd
        /\ ctx'.sense_initd = ctx.sense_initd
        /\ ctx'.ntp_syncd = ctx.ntp_syncd
    BY <1>0, <1>1, <2>2 DEF SameButLog, Ctx
  <2>4. erased' = FALSE /\ UNCHANGED <<HOSTING, flash, buf, nth, laps>>
    BY <1>5 DEF RestoreSome, Initialize
  <2>5. TypeOK'
    BY <2>2, <2>4 DEF TypeOK, PCs
  <2>6. Flags'
    BY <1>1, <2>3 DEF Flags, Connecting, Running
  <2>7. Configured'
    BY <1>1, <2>3, <2>4 DEF Configured
  <2>8. Persisted'
    BY <2>3 DEF Persisted, Connecting, Running
  <2>9. Progress'
    BY <2>2, <2>4 DEF Progress, Prefix
  <2> QED BY <2>5, <2>6, <2>7, <2>8, <2>9
<1>6. CASE RestoreAll
  <2> DEFINE c == [ctx EXCEPT !.wifi_ssid = flash["ssid"],
                              !.wifi_pass = flash["password"],
                              !.prv_token = flash["contract"],
                              !.wifi_configd = TRUE,
                              !.flash_initd = TRUE,
                              !.flash_written = TRUE]
  <2>1. c \in Ctx
    BY <1>0, <1>2 DEF Ctx
  <2>2. pc' = "update" /\ ctx' \in Ctx /\ SameButLog(ctx', c)
    BY <1>6, <2>1, ReturnFrame DEF RestoreAll
  <2>3. /\ ctx'.loop_state = "FLASH_INIT"
        /\ ctx'.flash_written /\ ctx'.wifi_configd /\ ctx'.flash_initd
        /\ ctx'.wifi_ssid = flash["ssid"]
        /\ ctx'.wifi_pass = flash["password"]
        /\ ctx'.prv_token = flash["contract"]
        /\ ctx'.reset = ctx.reset
        /\ ctx'.mqtt_initd = ctx.mqtt_initd
        /\ ctx'.sense_initd = ctx.sense_initd
        /\ ctx'.ntp_syncd = ctx.ntp_syncd
    BY <1>0, <1>1, <2>2 DEF SameButLog, Ctx
  <2>4. erased' = FALSE /\ UNCHANGED <<HOSTING, flash, buf, nth, laps>>
    BY <1>6 DEF RestoreAll, Initialize
  <2>5. flash["ssid"] # None /\ flash["password"] # None /\ flash["contract"] # None
    BY <1>6 DEF RestoreAll, Keys
  <2>6. TypeOK'
    BY <2>2, <2>4 DEF TypeOK, PCs
  <2>7. Flags'
    BY <1>1, <2>3 DEF Flags, Connecting, Running
  <2>8. Configured'
    BY <1>1, <2>3, <2>4, <2>5 DEF Configured
  <2>9. Persisted'
    BY <2>2, <2>3, <2>4, <2>5 DEF Persisted, Connecting, Running
  <2>10. Progress'
    BY <2>2, <2>4 DEF Progress, Prefix
  <2> QED BY <2>6, <2>7, <2>8, <2>9, <2>10
<1> QED BY <1>3, <1>4, <1>5, <1>6 DEF flash_init_handler

\* host.c: the access point opens in WIFI_CONFIG only, so no request can arrive
\* while FLASH_INIT reads the flash.
LEMMA WifiConfigIInv ==
  ASSUME IInv, wifi_config_handler
  PROVE  IInv'
<1> USE DEF IInv
<1>0. pc = "call" /\ ctx.loop_state = "WIFI_CONFIG" /\ ctx \in Ctx
  BY DEF wifi_config_handler, host_provisioning_ap, HostFails, AlreadyHosting, At, TypeOK
<1>1. CASE HostFails \/ AlreadyHosting
  BY <1>0, <1>1, ReturnFrame, QuietStep DEF HostFails, AlreadyHosting
<1>2. CASE host_provisioning_ap
  <2>1. pc' = "update" /\ ctx' \in Ctx /\ SameButLog(ctx', ctx)
    BY <1>0, <1>2, ReturnFrame DEF host_provisioning_ap
  <2>2. HOSTING' = TRUE /\ UNCHANGED <<flash, erased, buf, nth, laps>>
    BY <1>2 DEF host_provisioning_ap
  <2>3. TypeOK'
    BY <2>1, <2>2 DEF TypeOK, PCs
  <2>4. Flags'
    BY <2>1 DEF Flags, SameButLog
  <2>5. Configured'
    BY <1>0, <2>1, <2>2 DEF Configured, SameButLog
  <2>6. Persisted'
    BY <2>1, <2>2 DEF Persisted, SameButLog
  <2>7. Progress'
    BY <2>1, <2>2 DEF Progress, Prefix
  <2> QED BY <2>3, <2>4, <2>5, <2>6, <2>7
<1> QED BY <1>1, <1>2 DEF wifi_config_handler

\* flashmem.c: a value of ctx that FLASH_WRITE writes is one the client sent.
LEMMA FieldType ==
  ASSUME IInv, ctx.loop_state = "FLASH_WRITE", NEW k \in Keys
  PROVE  Field(ctx, k) \in Cred /\ Field(ctx, k) # None
<1>1. ctx.wifi_ssid \in Cred /\ ctx.wifi_pass \in Cred /\ ctx.prv_token \in Cred
  BY DEF IInv, TypeOK, Ctx
<1>2. ctx.wifi_ssid # None /\ ctx.wifi_pass # None /\ ctx.prv_token # None
  BY DEF IInv, Flags, Configured
<1> QED BY <1>1, <1>2 DEF Field, Keys

\* flashmem.c: the three writes, each an erase and a program.
LEMMA FlashWriteIInv ==
  ASSUME IInv, flash_write_handler
  PROVE  IInv'
<1> USE DEF IInv
<1>0. /\ ctx.loop_state = "FLASH_WRITE"
      /\ ctx \in Ctx
      /\ flash \in [Keys -> Cred]
      /\ buf \in [Keys -> Cred]
      /\ nth \in 1..3
  BY DEF flash_write_handler, BeginWrites, WriteErase, WriteFails, WriteProgram,
         Progress, At, TypeOK
<1>1. Empty \in [Keys -> Cred]
  BY DEF Empty, Cred
<1>2. Empty["ssid"] = None /\ Empty["password"] = None /\ Empty["contract"] = None
  BY DEF Empty, Keys
<1>3. CASE BeginWrites
  <2>1. /\ pc' = "write" /\ nth' = 1 /\ pc = "call"
        /\ UNCHANGED <<ctx, HOSTING, flash, erased, buf, laps>>
    BY <1>3 DEF BeginWrites, At
  <2>2. TypeOK'
    BY <2>1 DEF TypeOK, PCs
  <2>3. Flags' /\ Configured'
    BY <2>1 DEF Flags, Configured
  <2>4. Persisted'
    BY <1>0, <2>1 DEF Persisted
  <2>5. Progress'
    BY <1>0, <2>1 DEF Progress, Prefix
  <2> QED BY <2>2, <2>3, <2>4, <2>5
<1>4. CASE WriteErase
  <2> DEFINE key == WriteOrder[nth]
  <2>1. /\ nth = 1 => key = "ssid"
        /\ nth = 2 => key = "password"
        /\ nth = 3 => key = "contract"
    BY DEF WriteOrder
  <2>2. key \in Keys
    BY <1>0, <2>1 DEF Keys
  <2>3. Field(ctx, key) \in Cred /\ Field(ctx, key) # None
    BY <1>0, <2>2, FieldType
  <2>4. /\ pc = "write" /\ pc' = "program"
        /\ buf' = [flash EXCEPT ![key] = Field(ctx, key)]
        /\ flash' = Empty
        /\ erased' = TRUE
        /\ UNCHANGED <<ctx, HOSTING, nth, laps>>
    BY <1>4 DEF WriteErase
  <2>5. buf' \in [Keys -> Cred]
    BY <1>0, <2>2, <2>3, <2>4
  <2>6. TypeOK'
    BY <1>1, <2>4, <2>5 DEF TypeOK, PCs
  <2>7. ~ctx.flash_written
    BY <1>0, <2>4 DEF Persisted
  <2>8. Flags'
    BY <2>4 DEF Flags
  <2>9. Configured'
    BY <1>0, <2>4 DEF Configured
  <2>10. Persisted'
    BY <1>0, <2>4, <2>7 DEF Persisted, Connecting, Running
  <2>11. \A k \in Keys : buf'[k] = IF k = key THEN Field(ctx, key) ELSE flash[k]
    BY <1>0, <2>4
  <2>12. /\ buf'["ssid"] = IF key = "ssid" THEN Field(ctx, key) ELSE flash["ssid"]
         /\ buf'["password"] = IF key = "password" THEN Field(ctx, key) ELSE flash["password"]
         /\ buf'["contract"] = IF key = "contract" THEN Field(ctx, key) ELSE flash["contract"]
    BY <2>11 DEF Keys
  <2>13. Progress'
    <3>1. CASE nth = 1
      BY <1>0, <1>2, <2>1, <2>3, <2>4, <2>12, <3>1 DEF Progress, Prefix
    <3>2. CASE nth = 2
      BY <1>0, <1>2, <2>1, <2>3, <2>4, <2>12, <3>2 DEF Progress, Prefix
    <3>3. CASE nth = 3
      BY <1>0, <1>2, <2>1, <2>3, <2>4, <2>12, <3>3 DEF Progress, Prefix
    <3> QED BY <1>0, <3>1, <3>2, <3>3
  <2> QED BY <2>6, <2>8, <2>9, <2>10, <2>13
<1>5. CASE WriteFails
  BY <1>0, <1>5, ReturnFrame, QuietStep DEF WriteFails
<1>6. CASE WriteProgram
  <2>1. /\ pc = "program"
        /\ flash' = buf
        /\ erased' = FALSE
        /\ buf' = Empty
        /\ UNCHANGED <<HOSTING, laps>>
    BY <1>6 DEF WriteProgram
  <2>2. CASE nth < 3
    <3>1. pc' = "write" /\ nth' = nth + 1 /\ UNCHANGED ctx
      BY <1>6, <2>2 DEF WriteProgram
    <3>2. nth' \in 1..3
      BY <1>0, <2>2, <3>1
    <3>3. TypeOK'
      BY <1>0, <1>1, <2>1, <3>1, <3>2 DEF TypeOK, PCs
    <3>4. Flags'
      BY <3>1 DEF Flags
    <3>5. Configured'
      BY <1>0, <2>1, <3>1 DEF Configured
    <3>6. Persisted'
      BY <1>0, <2>1, <3>1 DEF Persisted, Connecting, Running
    <3>7. Progress'
      BY <1>0, <1>2, <2>1, <2>2, <3>1 DEF Progress, Prefix
    <3> QED BY <3>3, <3>4, <3>5, <3>6, <3>7
  <2>3. CASE ~(nth < 3)
    <3> DEFINE c == [ctx EXCEPT !.flash_written = TRUE]
    <3>1. c \in Ctx
      BY <1>0 DEF Ctx
    <3>2. Return(c, 0) /\ UNCHANGED nth
      BY <1>6, <2>3 DEF WriteProgram
    <3>3. pc' = "update" /\ ctx' \in Ctx /\ SameButLog(ctx', c)
      BY <3>1, <3>2, ReturnFrame
    <3>4. SameFlags(ctx', c) /\ ctx'.loop_state = "FLASH_WRITE" /\ c.flash_written
      BY <1>0, <3>3 DEF SameButLog, SameFlags, Ctx
    <3>5. TypeOK'
      BY <1>0, <1>1, <2>1, <3>2, <3>3 DEF TypeOK, PCs
    <3>6. Flags'
      BY <1>0, <3>4 DEF Flags, SameFlags, Ctx, Connecting, Running
    <3>7. Configured'
      BY <1>0, <3>4 DEF Configured, SameFlags, Ctx
    <3>8. nth = 3
      BY <1>0, <2>3
    <3>9. Persisted'
      BY <1>0, <2>1, <3>3, <3>4, <3>8 DEF Persisted, Progress, Connecting, Running
    <3>10. Progress'
      BY <1>2, <2>1, <3>3 DEF Progress, Prefix
    <3> QED BY <3>5, <3>6, <3>7, <3>9, <3>10
  <2> QED BY <2>2, <2>3
<1> QED BY <1>3, <1>4, <1>5, <1>6 DEF flash_write_handler

\* connect.c: mqtt_init_handler, before and after the WiFi join.
LEMMA MqttInitIInv ==
  ASSUME IInv, mqtt_init_handler
  PROVE  IInv'
<1> USE DEF IInv
<1>0. ctx.loop_state = "MQTT_INIT" /\ ctx \in Ctx
  BY DEF mqtt_init_handler, JoinFails, Join, MqttReady, MqttFails, Progress, At, TypeOK
<1>1. CASE JoinFails
  <2>1. (IF ctx.wifi_configd THEN 3 ELSE 2) \in Nat
    OBVIOUS
  <2>2. pc = "call"
    BY <1>1 DEF JoinFails, At
  <2>3. Return(ctx, IF ctx.wifi_configd THEN 3 ELSE 2) /\ UNCHANGED device
    BY <1>1 DEF JoinFails
  <2>4. pc' = "update" /\ ctx' \in Ctx /\ SameButLog(ctx', ctx)
    BY <1>0, <2>1, <2>3, ReturnFrame
  <2> QED BY <2>2, <2>3, <2>4, QuietStep
<1>2. CASE Join
  <2>1. PICK n \in 0..2 : ctx' = dlog(ctx, n)
    BY <1>2 DEF Join
  <2>2. ctx' \in Ctx /\ SameButLog(ctx', ctx)
    BY <1>0, <2>1, DlogFrame
  <2>3. pc' = "joined" /\ UNCHANGED device
    BY <1>2 DEF Join
  <2>4. TypeOK'
    BY <2>2, <2>3 DEF TypeOK, PCs, device
  <2>5. Flags'
    BY <2>2 DEF Flags, SameButLog
  <2>6. Configured'
    BY <2>2, <2>3 DEF Configured, SameButLog, device
  <2>7. Persisted'
    BY <1>0, <2>2, <2>3 DEF Persisted, SameButLog, device
  <2>8. Progress'
    BY <1>0, <2>2, <2>3 DEF Progress, Prefix, SameButLog, device
  <2> QED BY <2>4, <2>5, <2>6, <2>7, <2>8
<1>3. CASE MqttReady
  <2>1. PICK client \in {"connected", "disconnected"} :
          Return([ctx EXCEPT !.mqtt_client = client, !.mqtt_initd = TRUE], 0)
    BY <1>3 DEF MqttReady
  <2> DEFINE c == [ctx EXCEPT !.mqtt_client = client, !.mqtt_initd = TRUE]
  <2>2. c \in Ctx /\ c.mqtt_client = client /\ c.mqtt_initd
    BY <1>0 DEF Ctx
  <2>3. pc' = "update" /\ ctx' \in Ctx /\ SameButLog(ctx', c)
    BY <2>1, <2>2, ReturnFrame
  <2>4. UNCHANGED device
    BY <1>3 DEF MqttReady
  <2>5. TypeOK'
    BY <2>3, <2>4 DEF TypeOK, PCs, device
  <2>6. Flags'
    BY <1>0, <2>2, <2>3 DEF Flags, SameButLog, Ctx, Connecting, Running
  <2>7. Configured'
    BY <1>0, <2>3, <2>4 DEF Configured, SameButLog, Ctx, device
  <2>8. Persisted'
    BY <1>0, <2>3, <2>4 DEF Persisted, SameButLog, Ctx, device
  <2>9. Progress'
    BY <2>3, <2>4 DEF Progress, Prefix, device
  <2> QED BY <2>5, <2>6, <2>7, <2>8, <2>9
<1>4. CASE MqttFails
  <2>1. PICK client \in {"connected", "disconnected"} :
          Return([ctx EXCEPT !.mqtt_client = client], 2)
    BY <1>4 DEF MqttFails
  <2> DEFINE c == [ctx EXCEPT !.mqtt_client = client]
  <2>2. c \in Ctx /\ c.mqtt_client = client
    BY <1>0 DEF Ctx
  <2>3. pc' = "update" /\ ctx' \in Ctx /\ SameButLog(ctx', c)
    BY <2>1, <2>2, ReturnFrame
  <2>4. UNCHANGED device
    BY <1>4 DEF MqttFails
  <2>5. TypeOK'
    BY <2>3, <2>4 DEF TypeOK, PCs, device
  <2>6. Flags'
    BY <1>0, <2>2, <2>3 DEF Flags, SameButLog, Ctx, Connecting, Running
  <2>7. Configured'
    BY <1>0, <2>3, <2>4 DEF Configured, SameButLog, Ctx, device
  <2>8. Persisted'
    BY <1>0, <2>3, <2>4 DEF Persisted, SameButLog, Ctx, device
  <2>9. Progress'
    BY <2>3, <2>4 DEF Progress, Prefix, device
  <2> QED BY <2>5, <2>6, <2>7, <2>8, <2>9
<1> QED BY <1>1, <1>2, <1>3, <1>4 DEF mqtt_init_handler

\* sensor.c and util.c: the two initialisations that set a flag.
LEMMA SenseNtpIInv ==
  ASSUME IInv, sense_init_handler \/ ntp_sync_handler
  PROVE  IInv'
<1> USE DEF IInv
<1>0. pc = "call" /\ ctx \in Ctx /\ UNCHANGED device
  BY DEF sense_init_handler, SenseReady, SenseFails, ntp_sync_handler, NtpPoll,
         NtpInitFails, At, TypeOK
<1>1. CASE SenseFails \/ NtpInitFails
  BY <1>0, <1>1, ReturnFrame, QuietStep DEF SenseFails, NtpInitFails
<1>2. CASE SenseReady
  <2> DEFINE c == [ctx EXCEPT !.sense_initd = TRUE]
  <2>1. c \in Ctx /\ c.sense_initd
    BY <1>0 DEF Ctx
  <2>2. pc' = "update" /\ ctx' \in Ctx /\ SameButLog(ctx', c)
    BY <1>2, <2>1, ReturnFrame DEF SenseReady
  <2>3. ctx.loop_state = "SENSE_INIT"
    BY <1>2 DEF SenseReady, At
  <2>4. TypeOK'
    BY <1>0, <2>2 DEF TypeOK, PCs, device
  <2>5. Flags'
    BY <1>0, <2>1, <2>2, <2>3 DEF Flags, SameButLog, Ctx, Connecting, Running
  <2>6. Configured'
    BY <1>0, <2>2 DEF Configured, SameButLog, Ctx, device
  <2>7. Persisted'
    BY <1>0, <2>2 DEF Persisted, SameButLog, Ctx, device
  <2>8. Progress'
    BY <1>0, <2>2 DEF Progress, Prefix, device
  <2> QED BY <2>4, <2>5, <2>6, <2>7, <2>8
<1>3. CASE NtpPoll
  <2> DEFINE state == IF ctx.ntp_state = "NULL" THEN "unsynced" ELSE ctx.ntp_state
             syncd == ctx.ntp_syncd \/ ctx.ntp_state = "synced"
             c == [ctx EXCEPT !.ntp_state = state, !.ntp_syncd = syncd]
  <2>1. c \in Ctx /\ c.ntp_state = state /\ c.ntp_syncd = syncd
    BY <1>0 DEF Ctx
  <2>2. pc' = "update" /\ ctx' \in Ctx /\ SameButLog(ctx', c)
    BY <1>3, <2>1, ReturnFrame DEF NtpPoll
  <2>3. ctx.loop_state = "NTP_SYNC"
    BY <1>3 DEF NtpPoll, At
  <2>4. TypeOK'
    BY <1>0, <2>2 DEF TypeOK, PCs, device
  <2>5. ctx'.ntp_syncd => ctx'.ntp_state = "synced"
    BY <2>1, <2>2 DEF Flags, SameButLog
  <2>6. Flags'
    BY <1>0, <2>2, <2>3, <2>5 DEF Flags, SameButLog, Ctx, Connecting, Running
  <2>7. Configured'
    BY <1>0, <2>2 DEF Configured, SameButLog, Ctx, device
  <2>8. Persisted'
    BY <1>0, <2>2 DEF Persisted, SameButLog, Ctx, device
  <2>9. Progress'
    BY <1>0, <2>2 DEF Progress, Prefix, device
  <2> QED BY <2>4, <2>6, <2>7, <2>8, <2>9
<1> QED BY <1>1, <1>2, <1>3 DEF sense_init_handler, ntp_sync_handler

\* main.c, connect.c, sensor.c: no handler of the sampling cycle sets a flag.
LEMMA RunningIInv ==
  ASSUME IInv,
         \/ mqtt_publish_handler \/ mqtt_listen_handler \/ batt_listen_handler
         \/ sense_listen_handler \/ logdump_handler \/ throttle_listen_handler
  PROVE  IInv'
<1>1. pc = "call" /\ UNCHANGED device
  BY DEF mqtt_publish_handler, mqtt_listen_handler, batt_listen_handler,
         sense_listen_handler, logdump_handler, LogdumpOk, LogdumpFails,
         throttle_listen_handler, At
<1>2. ctx \in Ctx
  BY DEF IInv, TypeOK
<1>3. CASE sense_listen_handler
  <2>1. PICK value \in {"read", "error"} : Return([ctx EXCEPT !.capacitance = value], 1)
    BY <1>3 DEF sense_listen_handler
  <2> DEFINE c == [ctx EXCEPT !.capacitance = value]
  <2>2. c \in Ctx /\ SameButLog(c, ctx)
    BY <1>2 DEF Ctx, SameButLog
  <2>3. pc' = "update" /\ ctx' \in Ctx /\ SameButLog(ctx', c)
    BY <2>1, <2>2, ReturnFrame
  <2>4. SameButLog(ctx', ctx)
    BY <2>2, <2>3 DEF SameButLog
  <2> QED BY <1>1, <2>3, <2>4, QuietStep
<1>4. CASE ~sense_listen_handler
  <2>1. Return(ctx, 0) \/ Return(ctx, 1)
    BY <1>4 DEF mqtt_publish_handler, mqtt_listen_handler, batt_listen_handler,
                logdump_handler, LogdumpOk, LogdumpFails, throttle_listen_handler
  <2>2. pc' = "update" /\ ctx' \in Ctx /\ SameButLog(ctx', ctx)
    BY <1>2, <2>1, ReturnFrame
  <2> QED BY <1>1, <2>2, QuietStep
<1> QED BY <1>3, <1>4

\* state.c: a publish or dump request moves the loop only where the flags already
\* make the sampling cycle legal.
LEMMA UpdateIInv ==
  ASSUME IInv, update_state
  PROVE  IInv'
<1> USE DEF IInv
<1>0. /\ pc = "update" /\ pc' = "call"
      /\ UNCHANGED <<HOSTING, flash, erased, buf, nth>>
      /\ ctx \in Ctx
      /\ laps \in 0..SampleLaps
      /\ laps' = IF laps < SampleLaps THEN laps + 1 ELSE laps
  BY DEF update_state, TypeOK
<1>1. /\ ctx' \in Ctx
      /\ SameFlags(ctx', ctx)
      /\ \/ ctx'.loop_state = NextState(ctx)
         \/ Online(ctx) /\ ctx'.loop_state \in {"MQTT_PUBLISH", "LOGDUMP"}
  <2>1. ~ctx.reset
    BY DEF Flags
  <2>2. ctx' = TakeDump(TakePublish(TakeReset(Switch(ctx))))
    BY DEF update_state
  <2> QED BY <1>0, <2>1, <2>2, UpdateFrame
<1>2. TypeOK'
  <2>1. laps' \in 0..SampleLaps
    BY <1>0, NodeAssumptions
  <2> QED BY <1>0, <1>1, <2>1 DEF TypeOK, PCs
<1>3. ctx.loop_state \in LoopStates
  BY <1>0 DEF Ctx
<1>4. Progress'
  BY <1>0 DEF Progress, Prefix
<1>5. CASE Online(ctx) /\ ctx'.loop_state \in {"MQTT_PUBLISH", "LOGDUMP"}
  <2>1. Flags'
    BY <1>1, <1>5 DEF Flags, SameFlags, Online, Connecting, Running
  <2>2. Configured'
    BY <1>1, <1>5 DEF Configured, SameFlags
  <2>3. ctx.flash_written
    BY <1>5 DEF Flags, Persisted, Online, Connecting, Running
  <2>4. Persisted'
    BY <1>0, <1>1, <1>5, <2>3 DEF Persisted, SameFlags
  <2> QED BY <1>2, <1>4, <2>1, <2>2, <2>4
<1>6. CASE ctx'.loop_state = NextState(ctx)
  <2>1. Flags'
    BY <1>1, <1>3, <1>6 DEF Flags, SameFlags, NextState, Connecting, Running, LoopStates
  <2>2. Configured'
    BY <1>0, <1>1, <1>3, <1>6
       DEF Configured, SameFlags, NextState, Running, LoopStates
  <2>3. Persisted'
    BY <1>0, <1>1, <1>3, <1>6
       DEF Configured, Persisted, SameFlags, NextState, Connecting, Running, LoopStates
  <2> QED BY <1>2, <1>4, <2>1, <2>2, <2>3
<1> QED BY <1>1, <1>5, <1>6

\* The interrupts: each changes a few fields of ctx between two steps of the loop.
LEMMA InterruptIInv ==
  ASSUME IInv, Interrupt
  PROVE  IInv'
<1> USE DEF IInv
<1>0. ctx \in Ctx /\ laps \in 0..SampleLaps
  BY DEF TypeOK
<1>1. CASE sample_rate_update
  <2> DEFINE request == ctx.set_publish \/ ctx.mqtt_initd
  <2>1. ctx' = [ctx EXCEPT !.set_publish = request]
    BY <1>1 DEF sample_rate_update
  <2>2. laps' = 0 /\ UNCHANGED <<pc, HOSTING, flash, erased, buf, nth>>
    BY <1>1 DEF sample_rate_update
  <2>3. ctx' \in Ctx /\ SameFlags(ctx', ctx) /\ ctx'.loop_state = ctx.loop_state
    BY <1>0, <2>1 DEF Ctx, SameFlags
  <2>4. laps' \in 0..SampleLaps
    BY <2>2, NodeAssumptions
  <2>5. TypeOK'
    BY <2>2, <2>3, <2>4 DEF TypeOK
  <2>6. Flags' /\ Configured' /\ Persisted'
    BY <2>2, <2>3 DEF Flags, Configured, Persisted, SameFlags
  <2>7. Progress'
    BY <2>2, <2>3 DEF Progress, Prefix
  <2> QED BY <2>5, <2>6, <2>7
<1>2. ASSUME NEW r \in Creds, parse_wifi_credentials(r)
      PROVE  IInv'
  <2>1. /\ ctx' = [ctx EXCEPT !.wifi_ssid = r, !.wifi_pass = r, !.prv_token = r,
                              !.wifi_configd = TRUE]
        /\ HOSTING
        /\ UNCHANGED <<pc, device>>
    BY <1>2 DEF parse_wifi_credentials
  <2>2. r \in Cred /\ r # None
    BY NodeAssumptions DEF Cred
  <2>3. ctx' \in Ctx
    BY <1>0, <2>1, <2>2 DEF Ctx
  <2>4. /\ ctx'.wifi_configd
        /\ ctx'.wifi_ssid = r /\ ctx'.wifi_pass = r /\ ctx'.prv_token = r
        /\ ctx'.loop_state = ctx.loop_state
        /\ ctx'.reset = ctx.reset
        /\ ctx'.flash_written = ctx.flash_written
        /\ ctx'.mqtt_initd = ctx.mqtt_initd
        /\ ctx'.sense_initd = ctx.sense_initd
        /\ ctx'.ntp_syncd = ctx.ntp_syncd
        /\ ctx'.mqtt_client = ctx.mqtt_client
        /\ ctx'.ntp_state = ctx.ntp_state
    BY <1>0, <2>1 DEF Ctx
  <2>5. TypeOK'
    BY <2>1, <2>3 DEF TypeOK, device
  <2>6. Flags'
    BY <2>4 DEF Flags
  <2>7. Configured'
    BY <2>1, <2>2, <2>4 DEF Configured
  <2>8. Persisted'
    BY <2>1, <2>4 DEF Persisted, device
  <2>9. Progress'
    BY <2>1, <2>4 DEF Progress, Prefix, device
  <2> QED BY <2>5, <2>6, <2>7, <2>8, <2>9
<1>3. CASE ntp_recv
  <2>1. /\ ctx' = [ctx EXCEPT !.ntp_state = "synced"]
        /\ UNCHANGED <<pc, device>>
    BY <1>3 DEF ntp_recv
  <2>2. ctx' \in Ctx /\ ctx'.ntp_state = "synced"
    BY <1>0, <2>1 DEF Ctx
  <2>3. TypeOK'
    BY <2>1, <2>2 DEF TypeOK, device
  <2>4. Flags'
    BY <1>0, <2>1, <2>2 DEF Flags, Ctx
  <2>5. Configured'
    BY <1>0, <2>1 DEF Configured, Ctx, device
  <2>6. Persisted'
    BY <1>0, <2>1 DEF Persisted, Ctx, device
  <2>7. Progress'
    BY <1>0, <2>1 DEF Progress, Prefix, Ctx, device
  <2> QED BY <2>3, <2>4, <2>5, <2>6, <2>7
<1>4. CASE mqtt_connection_cb
  <2>1. /\ ctx' = [ctx EXCEPT !.mqtt_client = "disconnected"]
        /\ UNCHANGED <<pc, device>>
    BY <1>4 DEF mqtt_connection_cb
  <2>2. ctx' \in Ctx /\ ctx'.mqtt_client = "disconnected"
    BY <1>0, <2>1 DEF Ctx
  <2>3. TypeOK'
    BY <2>1, <2>2 DEF TypeOK, device
  <2>4. Flags'
    BY <1>0, <2>1, <2>2 DEF Flags, Ctx
  <2>5. Configured'
    BY <1>0, <2>1 DEF Configured, Ctx, device
  <2>6. Persisted'
    BY <1>0, <2>1 DEF Persisted, Ctx, device
  <2>7. Progress'
    BY <1>0, <2>1 DEF Progress, Prefix, Ctx, device
  <2> QED BY <2>3, <2>4, <2>5, <2>6, <2>7
<1> QED BY <1>1, <1>2, <1>3, <1>4 DEF Interrupt

\* main.c: no step of the loop, no interrupt and no power loss breaks the
\* invariant.
LEMMA NextIInv == IInv /\ [Next]_vars => IInv'
<1> SUFFICES ASSUME IInv, [Next]_vars PROVE IInv'
  OBVIOUS
<1>1. CASE main \/ PowerLoss
  BY <1>1, PowerIInv
<1>2. CASE Handler
  BY <1>2, FlashInitIInv, WifiConfigIInv, FlashWriteIInv, MqttInitIInv, SenseNtpIInv,
     RunningIInv DEF Handler
<1>3. CASE update_state
  BY <1>3, UpdateIInv
<1>4. CASE Interrupt
  BY <1>4, InterruptIInv
<1>5. CASE UNCHANGED vars
  BY <1>5 DEF vars, IInv, TypeOK, Flags, Configured, Persisted, Progress, Prefix
<1> QED BY <1>1, <1>2, <1>3, <1>4, <1>5 DEF Next, Main

(***************************************************************************)
(* The theorems                                                            *)
(***************************************************************************)
\* Every reachable state of the node satisfies the inductive invariant.
THEOREM Invariance == Spec => []IInv
<1> QED BY InitIInv, NextIInv, PTL DEF Spec

\* APP_CTX_T, flash and the loop's own variables keep their types; in particular
\* dlog never fills more slots than logdump has.
THEOREM TypeCorrect == Spec => []TypeOK
<1>1. IInv => TypeOK
  BY DEF IInv
<1> QED BY <1>1, Invariance, PTL

\* The handlers of the sampling cycle only run on a node that is fully
\* initialised (state.c, connect.c).
THEOREM RunningOnlyWhenReady == Spec => []RunningReady
<1>1. IInv => RunningReady
  BY DEF IInv, RunningReady, Flags, Online, Connecting, Running
<1> QED BY <1>1, Invariance, PTL

\* Power loss never leaves a key in flash without the keys written before it
\* (flashmem.c).
THEOREM StoredIsPrefix == Spec => []StoredPrefix
<1>1. IInv => StoredPrefix
  BY DEF IInv, StoredPrefix, Progress, Prefix
<1> QED BY <1>1, Invariance, PTL

\* A node that goes on to connect could restart from its flash, and wifi_configd
\* stands for a complete set of credentials (flashmem.c, host.c).
THEOREM RestartIsSafe == Spec => []SurvivesRestart
<1>1. IInv => SurvivesRestart
  BY DEF IInv, SurvivesRestart, Persisted, Configured, Keys, Field, Connecting
<1> QED BY <1>1, Invariance, PTL

(***************************************************************************)
(* Refinement                                                              *)
(***************************************************************************)
\* logger.c: dlog does not move the loop.
LEMMA DlogStays ==
  ASSUME NEW c, NEW n, "loop_state" \in DOMAIN c
  PROVE  dlog(c, n).loop_state = c.loop_state
BY DEF dlog

\* main.c: returning c leaves the loop where c has it.
LEMMA ReturnStays ==
  ASSUME NEW c, NEW k, "loop_state" \in DOMAIN c, Return(c, k)
  PROVE  ctx'.loop_state = c.loop_state
BY DlogStays DEF Return

\* No handler moves the loop: that is update_state's.  Only flash_write_handler
\* writes the credentials.
LEMMA HandlerStays ==
  ASSUME IInv, Handler
  PROVE  /\ ctx'.loop_state = ctx.loop_state
         /\ flash' = flash \/ ctx.loop_state = "FLASH_WRITE"
<1>0. "loop_state" \in DOMAIN ctx
  BY DEF IInv, TypeOK, Ctx
<1>1. CASE flash_init_handler
  <2>1. UNCHANGED flash
    BY <1>1 DEF flash_init_handler, InitializeFails, RestoreNothing, RestoreSome,
                RestoreAll, Initialize, device
  <2>2. CASE InitializeFails
    BY <1>0, <2>1, <2>2, ReturnStays DEF InitializeFails
  <2>3. CASE RestoreNothing
    BY <1>0, <2>1, <2>3, ReturnStays DEF RestoreNothing
  <2>4. CASE RestoreSome
    <3> DEFINE pass == IF flash["password"] = None THEN ctx.wifi_pass ELSE flash["password"]
               c == [ctx EXCEPT !.wifi_ssid = flash["ssid"], !.wifi_pass = pass]
    <3>1. "loop_state" \in DOMAIN c /\ c.loop_state = ctx.loop_state
      BY <1>0
    <3>2. Return(c, 1)
      BY <2>4 DEF RestoreSome
    <3> QED BY <2>1, <3>1, <3>2, ReturnStays
  <2>5. CASE RestoreAll
    <3> DEFINE c == [ctx EXCEPT !.wifi_ssid = flash["ssid"],
                                !.wifi_pass = flash["password"],
                                !.prv_token = flash["contract"],
                                !.wifi_configd = TRUE,
                                !.flash_initd = TRUE,
                                !.flash_written = TRUE]
    <3>1. "loop_state" \in DOMAIN c /\ c.loop_state = ctx.loop_state
      BY <1>0
    <3>2. Return(c, 0)
      BY <2>5 DEF RestoreAll
    <3> QED BY <2>1, <3>1, <3>2, ReturnStays
  <2> QED BY <1>1, <2>1, <2>2, <2>3, <2>4, <2>5 DEF flash_init_handler
<1>2. CASE wifi_config_handler
  BY <1>0, <1>2, ReturnStays
     DEF wifi_config_handler, host_provisioning_ap, HostFails, AlreadyHosting, device
<1>3. CASE flash_write_handler
  <2>1. ctx.loop_state = "FLASH_WRITE"
    BY <1>3 DEF flash_write_handler, BeginWrites, WriteErase, WriteFails, WriteProgram,
                At, IInv, Progress
  <2>2. CASE BeginWrites \/ WriteErase
    BY <2>1, <2>2 DEF BeginWrites, WriteErase
  <2>3. CASE WriteFails
    BY <1>0, <2>1, <2>3, ReturnStays DEF WriteFails
  <2>4. CASE WriteProgram
    BY <1>0, <2>1, <2>4, ReturnStays DEF WriteProgram
  <2> QED BY <1>3, <2>2, <2>3, <2>4 DEF flash_write_handler
<1>4. CASE mqtt_init_handler
  <2>1. UNCHANGED flash
    BY <1>4 DEF mqtt_init_handler, JoinFails, Join, MqttReady, MqttFails, device
  <2>2. CASE JoinFails
    BY <1>0, <2>1, <2>2, ReturnStays DEF JoinFails
  <2>3. CASE Join
    BY <1>0, <2>1, <2>3, DlogStays DEF Join
  <2>4. CASE MqttReady
    <3>1. PICK client \in {"connected", "disconnected"} :
            Return([ctx EXCEPT !.mqtt_client = client, !.mqtt_initd = TRUE], 0)
      BY <2>4 DEF MqttReady
    <3> DEFINE c == [ctx EXCEPT !.mqtt_client = client, !.mqtt_initd = TRUE]
    <3>2. "loop_state" \in DOMAIN c /\ c.loop_state = ctx.loop_state
      BY <1>0
    <3> QED BY <2>1, <3>1, <3>2, ReturnStays
  <2>5. CASE MqttFails
    BY <1>0, <2>1, <2>5, ReturnStays DEF MqttFails
  <2> QED BY <1>4, <2>1, <2>2, <2>3, <2>4, <2>5 DEF mqtt_init_handler
<1>5. CASE sense_init_handler
  BY <1>0, <1>5, ReturnStays DEF sense_init_handler, SenseReady, SenseFails, device
<1>6. CASE ntp_sync_handler
  <2>1. UNCHANGED flash
    BY <1>6 DEF ntp_sync_handler, NtpPoll, NtpInitFails, device
  <2>2. CASE NtpInitFails
    BY <1>0, <2>1, <2>2, ReturnStays DEF NtpInitFails
  <2>3. CASE NtpPoll
    <3> DEFINE state == IF ctx.ntp_state = "NULL" THEN "unsynced" ELSE ctx.ntp_state
               syncd == ctx.ntp_syncd \/ ctx.ntp_state = "synced"
               c == [ctx EXCEPT !.ntp_state = state, !.ntp_syncd = syncd]
    <3>1. "loop_state" \in DOMAIN c /\ c.loop_state = ctx.loop_state
      BY <1>0
    <3>2. Return(c, 0)
      BY <2>3 DEF NtpPoll
    <3> QED BY <2>1, <3>1, <3>2, ReturnStays
  <2> QED BY <1>6, <2>2, <2>3 DEF ntp_sync_handler
<1>7. CASE \/ mqtt_publish_handler \/ mqtt_listen_handler \/ batt_listen_handler
           \/ logdump_handler \/ throttle_listen_handler
  <2>1. UNCHANGED flash /\ (Return(ctx, 0) \/ Return(ctx, 1))
    BY <1>7 DEF mqtt_publish_handler, mqtt_listen_handler, batt_listen_handler,
                logdump_handler, LogdumpOk, LogdumpFails, throttle_listen_handler, device
  <2> QED BY <1>0, <2>1, ReturnStays
<1>8. CASE sense_listen_handler
  BY <1>0, <1>8, ReturnStays DEF sense_listen_handler, device
<1> QED BY <1>1, <1>2, <1>3, <1>4, <1>5, <1>6, <1>7, <1>8 DEF Handler

\* No interrupt moves the loop or writes the credentials.
LEMMA InterruptStays ==
  ASSUME IInv, Interrupt
  PROVE  ctx'.loop_state = ctx.loop_state /\ flash' = flash
<1>0. "loop_state" \in DOMAIN ctx
  BY DEF IInv, TypeOK, Ctx
<1> QED BY <1>0 DEF Interrupt, sample_rate_update, parse_wifi_credentials, ntp_recv,
                    mqtt_connection_cb, device

\* state.c against the life cycle: each step of the node is a step of
\* Lifecycle.tla, or leaves both the phase and what is stored alone.
LEMMA StepRefines == IInv /\ [Next]_vars => [Life!Next]_(Life!vars)
<1> SUFFICES ASSUME IInv, [Next]_vars PROVE [Life!Next]_(Life!vars)
  OBVIOUS
<1> USE DEF Life!vars, Life!Next
<1>1. ASSUME ctx'.loop_state = ctx.loop_state, flash' = flash
      PROVE  UNCHANGED <<Phase, Stored>>
  BY <1>1 DEF Phase, Stored
<1>2. Stored \in Life!Amounts /\ Stored' \in Life!Amounts
  BY DEF Stored, Life!Amounts
<1>3. CASE main
  <2>1. "loop_state" \in DOMAIN ctx
    BY DEF IInv, TypeOK, Ctx
  <2>2. ctx'.loop_state = ctx.loop_state /\ flash' = flash
    BY <1>3, <2>1, DlogStays DEF main, device
  <2> QED BY <1>1, <2>2
<1>4. CASE PowerLoss
  <2>1. ctx'.loop_state = "FLASH_INIT" /\ flash' = flash
    BY <1>4 DEF PowerLoss, ZeroCtx
  <2>2. Phase' = "restore" /\ Stored' = Stored
    BY <2>1 DEF Phase, Stored, Running
  <2> QED BY <2>2 DEF Life!PowerCycle
<1>5. CASE Handler
  <2>1. ctx'.loop_state = ctx.loop_state
    BY <1>5, HandlerStays
  <2>2. CASE flash' = flash
    BY <1>1, <2>1, <2>2
  <2>3. CASE ctx.loop_state = "FLASH_WRITE"
    <3>1. Phase = "persist" /\ Phase' = "persist"
      BY <2>1, <2>3 DEF Phase, Running
    <3> QED BY <1>2, <3>1 DEF Life!Rewrite
  <2> QED BY <1>5, <2>2, <2>3, HandlerStays
<1>6. CASE Interrupt
  BY <1>1, <1>6, InterruptStays
<1>7. CASE update_state
  <2>1. ctx \in Ctx /\ ctx.loop_state \in LoopStates /\ ~ctx.reset
    BY DEF IInv, TypeOK, Flags, Ctx
  <2>2. ctx' = TakeDump(TakePublish(TakeReset(Switch(ctx)))) /\ flash' = flash
    BY <1>7 DEF update_state
  <2>3. \/ ctx'.loop_state = NextState(ctx)
        \/ Online(ctx) /\ ctx'.loop_state \in {"MQTT_PUBLISH", "LOGDUMP"}
    BY <2>1, <2>2, UpdateFrame
  <2>4. Stored' = Stored
    BY <2>2 DEF Stored
  <2>5. ctx.flash_written => Stored = "all"
    BY DEF IInv, Persisted, Stored, Keys
  <2>6. flash["ssid"] = None => Stored = "nothing"
    BY DEF IInv, Progress, Prefix, Stored, Keys
  <2>7. CASE Online(ctx) /\ ctx'.loop_state \in {"MQTT_PUBLISH", "LOGDUMP"}
    <3>1. Phase' = "run"
      BY <2>7 DEF Phase, Running
    <3>2. ctx.loop_state \in {"NTP_SYNC"} \cup Running
      BY <2>7 DEF IInv, Flags, Online
    <3>3. Phase \in {"connect", "run"}
      BY <3>2 DEF Phase, Running
    <3> QED BY <2>4, <3>1, <3>3 DEF Life!Online, Life!To
  <2>8. CASE ctx'.loop_state = NextState(ctx)
    <3>1. CASE ctx.loop_state = "FLASH_INIT"
      <4>1. Phase = "restore"
        BY <3>1 DEF Phase, Running
      <4>2. CASE ~ctx.flash_initd
        <5>1. ctx'.loop_state = ctx.loop_state
          BY <2>8, <3>1, <4>2 DEF NextState
        <5> QED BY <1>1, <2>2, <5>1
      <4>3. CASE ctx.flash_initd /\ ctx.wifi_configd
        <5>1. Phase' = "connect"
          BY <2>8, <3>1, <4>3 DEF NextState, Phase, Running
        <5>2. Stored = "all"
          BY <2>5, <3>1, <4>3 DEF IInv, Configured
        <5> QED BY <2>4, <4>1, <5>1, <5>2 DEF Life!RestoreAll, Life!To
      <4>4. CASE ctx.flash_initd /\ ~ctx.wifi_configd
        <5>1. Phase' = "provision"
          BY <2>8, <3>1, <4>4 DEF NextState, Phase, Running
        <5>2. Stored = "nothing"
          BY <2>6, <3>1, <4>4 DEF IInv, Configured
        <5> QED BY <2>4, <4>1, <5>1, <5>2 DEF Life!RestoreNothing, Life!To
      <4> QED BY <4>2, <4>3, <4>4
    <3>2. CASE ctx.loop_state = "WIFI_CONFIG"
      <4>1. Phase = "provision" /\ Phase' \in {"provision", "persist"}
        BY <2>8, <3>2 DEF NextState, Phase, Running
      <4> QED BY <2>4, <4>1 DEF Life!Provisioned, Life!To
    <3>3. CASE ctx.loop_state = "FLASH_WRITE"
      <4>1. Phase = "persist"
        BY <3>3 DEF Phase, Running
      <4>2. CASE ctx.flash_written
        <5>1. Phase' = "connect"
          BY <2>8, <3>3, <4>2 DEF NextState, Phase, Running
        <5> QED BY <2>4, <2>5, <4>1, <4>2, <5>1 DEF Life!Persisted, Life!To
      <4>3. CASE ~ctx.flash_written
        <5>1. ctx'.loop_state = ctx.loop_state
          BY <2>8, <3>3, <4>3 DEF NextState
        <5> QED BY <1>1, <2>2, <5>1
      <4> QED BY <4>2, <4>3
    <3>4. CASE ctx.loop_state \in Connecting
      <4>1. Phase = "connect" /\ Phase' \in {"connect", "run"}
        BY <2>8, <3>4 DEF NextState, Phase, Connecting, Running
      <4> QED BY <2>4, <4>1 DEF Life!Online, Life!To
    <3>5. CASE ctx.loop_state \in Running
      <4>1. Phase = "run" /\ Phase' = "run"
        BY <2>8, <3>5 DEF NextState, Phase, Running
      <4> QED BY <2>4, <4>1
    <3> QED BY <2>1, <3>1, <3>2, <3>3, <3>4, <3>5 DEF LoopStates, Connecting
  <2> QED BY <2>3, <2>7, <2>8
<1>8. CASE UNCHANGED vars
  BY <1>1, <1>8 DEF vars
<1> QED BY <1>3, <1>4, <1>5, <1>6, <1>7, <1>8 DEF Next, Main

\* The node implements the life cycle: it provisions only when flash holds
\* nothing, connects only when flash holds everything, and rewrites flash only
\* between the two (state.c, flashmem.c).
THEOREM Implements == Spec => LifecycleSpec
<1>1. Init => Life!Init
  <2>1. Init => Phase = "restore" /\ Stored = "nothing"
    BY DEF Init, ZeroCtx, Empty, Phase, Stored, Running
  <2> QED BY <2>1 DEF Life!Init
<1> QED BY <1>1, StepRefines, Invariance, PTL DEF Spec, LifecycleSpec, Life!Spec
=============================================================================
