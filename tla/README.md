# dirtie-node: a verification project

`dirtie-node` is the firmware of a soil sensor on a Raspberry Pi Pico W. It
receives WiFi credentials and a provisioning token ("contract") from a mobile
client, keeps them in flash, joins the network, and publishes measurements to an
MQTT broker. This directory holds TLA+ models of it, TLC configurations that
check them, and theorems that TLAPS proves about them. `PROJECT.json` lists the
runs, the source lines behind each definition, the hazards and the findings.

## 1. The system

| component | source | state | operations |
|---|---|---|---|
| main loop, state machine | `main.c`, `state/` | `APP_CTX_T`: loop state, flags, credentials, measurements, log | one handler per loop state, `update_state`, the 5 s timer `sample_rate_update` |
| credential store | `flashmem/` | one 4096-byte flash sector with the text `key=val,...` | `initialize_flash`, `read`, `write`, `flash_init_handler`, `flash_write_handler` |
| provisioning server | `access_point/host.c` | `HOSTING`, one state per TCP connection | opening the access point, TCP callbacks, `parse_wifi_credentials` |
| MQTT client | `connect/` | the lwIP client | join, connect, `provision`, `breadcrumb`, `logdump` |
| NTP client | `util/` | `NTP_T` | `ntp_poll`, DNS and UDP callbacks, the time-out alarm, `get_current_epoch` |
| logger | `logger/` | 16 slots of lines | `dlog`, `free_logs`, `log_transform_ts` |
| sensor | `sensor/` | the I2C bus | `sensor_init`, `seesaw_read_16` |
| DHCP server | `access_point/dhcpserver.c` | a table of leases | DISCOVER and REQUEST |
| base64 | `b64/` | none | `b64_encode` |
| button, LED | `basicio/` | pressed since, blink state | `basicio_init_handler`, `basicio_listen_handler` (never called) |

How they interact. `main()` is a single thread: it calls the handler of
`ctx->loop_state`, logs the error it returns, calls `update_state`, for ever.
Everything else runs in interrupts between its instructions, in lwIP's background
context or in the SDK's alarms: the timer sets `set_publish`; an HTTP request
overwrites the credentials and sets `wifi_configd`, in *any* state, since the
server is never closed; an NTP reply sets the clock; lwIP notices the loss of the
broker. All of it goes through `APP_CTX_T` and `NTP_T` without locks. Interrupts
are off only while the sector is erased and programmed (`flash_safe_execute`).
Power may fail at any time and only the sector survives.

What is hard, and what makes each part correct:

* the store: three writes, each of which erases everything first; a power loss
  or a second request between them. A restart must find nothing, or everything;
* the state machine: six initialisation flags, and two requests (publish, dump
  the log) that jump into the cycle. The cycle must run only on a node that is
  initialised, must be reached, and must keep reading the sensor;
* the NTP client: callbacks of the current and of earlier attempts between any
  two of its statements. An attempt must end, and another must follow;
* the text in flash: special characters, values that contain a key, a value that
  replaces a longer or a shorter one. `read` must return what was written last;
* the strings of the context: adjacent 64-byte buffers, no room for a terminator
  counted, replaced by an interrupt while they are read. What can be stored must
  be there after a restart as it was sent;
* the HTTP server: callbacks that close a connection or find it gone, requests
  in several segments, a pool of 24 buffers. Each callback must find its own state,
  and a phone that keeps trying must be heard;
* the lease table: a 16-bit expiry against a 32-bit clock that wraps. No address
  for two clients, and none lost for ever;
* the log: buffers that are freed twice and reused, stamps rewritten in place,
  dumps that give up half-way. No line may leak, and a dump must tell what was
  logged since the one before;
* the messages: every text needs a size for `malloc` and one for `snprintf`, while a
  request may replace the token that is in it;
* the MQTT client: retries that keep what they allocated, connections that end
  late. The contract must get to the broker.

## 2. The modules

| module | what it is |
|---|---|
| `Lifecycle` | abstract: five phases (restore, provision, persist, connect, run) and how much flash holds |
| `Node` | the firmware: all handlers, `update_state`, the interrupts, power loss; implements `Lifecycle` |
| `MCNode` | `Node` for TLC, and the claims of docs and comments that fail |
| `NodeProofs` | the theorems about `Node` |
| `Ntp` | the NTP client, statement by statement |
| `MCNtp`, `NtpProofs` | the same for `Ntp` |
| `Store` | abstract: a map from keys to values, with writes that succeed or fail |
| `FlashCodec` | the text in flash, its escapes, the splice, the pages: `read` and `write`; implements `Store` |
| `Credentials`, `MCCredentials`, `CredentialsProofs` | extends `FlashCodec`: the four adjacent strings of the context, a request, storing, restoring |
| `Host`, `HostProofs` | the TCP server: connections, segments, packet buffers |
| `Dhcp`, `DhcpProofs` | the table of leases and the clock that wraps |
| `Logger`, `LoggerProofs` | who owns the buffer of a log line, and its time stamp |
| `B64` | `b64_encode`, turn by turn |
| `Payload`, `MCPayload`, `PayloadProofs` | extends `B64`: the lengths of the messages and of the memory they are written to, and the theorems about both |
| `Mqtt`, `MqttProofs` | the lwIP clients that the retries of MQTT_INIT create |

How they fit together. `Node` is the whole; each other module takes one thing that
`Node` abstracts and models it in detail, with the same handler names. A credential
of `Node` is a name; `Credentials` gives it its characters and a place in memory,
`FlashCodec` its text in flash. The request that may arrive at any time in `Node`
comes out of `Host`. `Node` counts log slots; `Logger` has the lines in them,
`Payload` the message made of them and `B64` its encoding. `Node`'s `mqtt_client` is
the current client of `Mqtt`. `Node`'s clock is the one that `Ntp` sets.

### Node

`pc` is where `main()` stands: `call` (about to call a handler), `update` (about
to call `update_state`), and the places inside the two handlers that can be cut
in half: `write` and `program` in `flash_write_handler`, `joined` in
`mqtt_init_handler` after the WiFi join that blocks for up to 30 s. `boot` and
`exit` are a node without power and one whose radio did not start. `ctx` is
`APP_CTX_T` with the source's field names; `flash`, `erased`, `buf`, `nth` are the
sector and the progress of the writes. `laps` counts loop iterations since the
timer fired.

Every action is a whole handler, or the part of one up to the next place where it
can be interrupted, and ends with `Return`, which contains the calls of `dlog`
that the handler and `main()` make. A `dlog` whose `calloc` fails logs nothing, so
the number of lines is any number up to the number of calls. Every failure of a
library call is an alternative of the handler.

What is abstracted:

* a credential is named by the request it came in. The model's credentials fit
  their buffers and contain no `,`, `=` or `\`, so that `read` returns what `write`
  got. `EmptyToken` are the requests with an empty token;
* the log is the number of slots that are not `NULL`. `free_logs` never clears a
  pointer, so this number never falls. The memory behind the pointers is not
  in `Node`: it assumes an allocator that survives the double free;
* `mqtt_client` is `connected` from the moment lwIP accepts the connection
  request (its `mqtt_publish` then queues) until the connection is lost.
  `calloc` of the client's own record is assumed to succeed: the code does not
  test it and would write through a null pointer;
* `capacitance` stands for both measurements: `zero` (from `calloc`), `read` or
  `error` (65535). `sense_listen_handler` has no return statement, so whether
  `main()` logs an error after it is a free choice;
* erasing the sector and programming it are atomic each; a power loss *within*
  one of them leaves what the flash chip makes of it and is not modelled;
* nothing sets `reset`: the loop calls `basicio_init_handler` where its comment
  announces the button, so `basicio_listen_handler` never runs. `TakeReset` is
  still part of `update_state`.

### Ntp

`ntp_poll` takes lwIP's lock only around `dns_gethostbyname`, so each of its
statements is an action of its own: arm the alarm (`PollStarts`), look up
(`Lookup`), record (`Mark`), act on the result (`ActCached`, `ActWait`,
`ActFailed`), test `synced` (`Flag`). Then the loop leaves NTP_SYNC and only
`get_current_epoch` uses the client, in two reads. Callbacks may come at any time:
`ntp_dns_found` for each outstanding lookup, `ntp_recv` for each reply on its way,
also of earlier attempts, `ntp_failed_handler` for each armed alarm. Replies may be
lost, requests may fail for want of a buffer, the alarm pool may be empty. Time is
abstracted to `due`; a cached time is named by the reply that brought it, 0 or 1 in
turn, which is enough to tell two consecutive replies apart.

### The store and the credentials

`FlashCodec` works on a sequence of characters, as `flashmem.c` works on a string.
It has the operations and no behaviour of its own: `Credentials` calls `read` from
`flash_init_handler` and `write_copied` from the last step of a write. Keys are
single characters; no key of the firmware (`ssid`, `password`, `contract`) is the tail
of another, which is what `strstr` would need to confuse two of them, but a value may
contain a key and even `key=`, escaped. The erasing and the programming are one
step here: the power losses between them are `Node`'s. `full` says that a write has
reported success although its text was not spliced in, filled its pages to the last
byte, or did not fit the buffer (`Overfull`). `Store` says what `read` must return
after any sequence of writes; `FlashCodec` implements it with `kv` mapped to what
`read` gives for each key and a written value to what precedes its first comma
(`BeforeComma`), and promises nothing any more once `full` is set.

`Credentials` lays the buffers out as the structure does: `mem` is the bytes of
`wifi_ssid`, `wifi_pass`, `prv_token`, `hub_loc` and one byte behind them. `Put`
writes without regard to a buffer's end, `String` reads to the first terminator.
`parse_wifi_credentials` runs in an interrupt and may come anywhere, in the middle
of `esc_chars` too. That function reads the string through a pointer into the
context twice, so a write is not one step but the turns of its two loops:
`flash_write_handler` calls `write`, `Turn` reads one byte, `Count` ends the first
loop and allocates, `Copy` ends the second and stores what was copied. Power may be
lost, and the node restart, before any of them. `given` and `source` are ghosts: the
string that each buffer, and each key in flash, was last given; a key that was
written while a request came is given `Mixed`, of which nothing is promised. A write whose text
already fills the sector to its last byte is not modelled: its copy in RAM has no
terminator, and what `strlen` finds behind it is not the model's to say. Nor is
what an overrun of the copy does to the heap.

### Host

Each action is one lwIP callback with all it calls. `con_state` is the block that
`calloc` gave a connection, `allocated` the blocks not freed. The error callback has
two forms: after a reset (`tcp_server_err`) it closes and frees; when lwIP has
aborted the connection itself (`tcp_server_err_aborted`, ERR_ABRT, `host.c:190`) it
does nothing, and the block is `leaked`. A request is cut into segments
(`Cuts`), and lwIP hands over one segment or a chain. The method is looked for in a
copy of the whole chain, the rest in its first buffer (`PayloadTexts`), where no
terminator stops `strstr`: what it finds behind the segment is either nothing or
what an earlier segment left in the same buffer (`residue`), a free choice.
`tcp_server_sent` is registered but every write is followed by the close that
takes it off again; `tcp_server_close` is never called.

### Dhcp

A DISCOVER or REQUEST may come from any client at any time, so lost, repeated and
reordered messages are all behaviours. `left` is a ghost: how much of its lease each
client still believes in. Ignored messages change nothing and have no action.

### Logger, Payload, B64

`Logger` has a heap of a few buffers. `malloc` hands out any free one, `free` of a
free one does nothing (newlib would rather corrupt its list: what the model shows is
the least that goes wrong), and a freed text is intact or overwritten. A dump is one
action, as nothing logs between its statements except `get_current_epoch`'s error
path, which never reaches the lines. `logdump_failed` is every other way out of it:
any number of lines may be rewritten by then, nothing is published, the two
pointers that are freed uninitialised may be those of two lines, and `update_state`
frees the lines that no dump has published. `held` is a ghost: the lines put in a
slot since the run before.

`Payload` follows only lengths, those of the code: `Written` is what `snprintf`
leaves, and behind the buffer of `publish` `strlen` may run on for any number up to
`Beyond`. A request may replace the token between any two calls
(`parse_wifi_credentials`); each message is therefore made in as many steps as it
reads the token: `ProvisionAlloc`, `ProvisionBound` and `Format`, or a `Measure` and
`Format`. `growth` is a ghost, how much longer the token has become since the
`malloc` of `provision`. Only the log lines have bytes: `LogdumpLine` calls
`b64_encode`, whose turns are the actions of `B64`, and `LogdumpCopy` is the `strcpy`
at its end. `LogdumpFailed` is the way out when it or `malloc` finds no memory.

### Mqtt

`Mqtt` has the lwIP heap as `Blocks`, each free, taken by a packet, or a client.
Every call of `mqtt_init_handler` behind the join takes one and none is given back.

## 3. The runs

| run | constants | shows |
|---|---|---|
| `node_safety` | 2 requests, one with an empty token; 6 log slots | `TypeOK`, `RunningReady`, `StoredPrefix`, `SurvivesRestart`, `LifecycleSpec` |
| `node_liveness` | 1 request; 2 log slots | `ProvisionedStarts`, `RestoredStarts`, `SyncedRuns`, `SamplesWhileConnected` |
| `ntp_client` | 2 alarms, 2 lookups, 2 replies | `TypeOK`, `NoOrphanAlarm`, `TimedAttemptEnds`, `Retries` |
| `dhcp_leases` | 3 clients, 2 addresses, a clock of 4 units of 3 ticks, leases of 3 | `TypeOK`, `Exclusive`, `Reclaimed` |
| `credentials_stored` | buffers of 3 bytes, pages of 9, a sector of 20; 3 requests with commas, escapes, another key's item, a token as long as its buffer and a longer one | `TypeOK`, `OneItemPerKey`, `StoreSpec`, `CredentialsKept`, `CopyFits` |
| `host_server` | 2 connections, 3 blocks, requests whole or cut, 4 packet buffers, 1 doubtful request, 1 abort by lwIP | `TypeOK`, `OwnState`, `ConnectionEnds`, `Heard` |
| `logger_lines` | 2 slots, 3 buffers, 4 lines, 2 dumps, 1 that fails | `TypeOK`, `NoLeak`, `DumpFaithful` |
| `payload_messages` | fields and `publish` as in the code, tokens of 0, 1, 2 and 64 characters; 3 lines of up to 7 of 4 bytes, blocks of 3 | `TypeOK`, `InBlocks`, `Decodes`, `InAllocation`, `ArrayFits` |
| `mqtt_retries` | 4 blocks, 3 refusals, any blocks occupied at first | `TypeOK`, `ContractTaken`, `Initialises` |

Bounds. Two requests are enough for one to overwrite the other; six log slots let
the log be empty, under half, over half and full, with several lines per step (the
code has 16); two are enough for liveness, where only "full" matters. `SampleLaps`
is 6: the code's cycle of six states takes about 0.6 s (two reads of 250 ms and
`sleep_ms(100)`), so more than six iterations fit in the 5 s of `SAMPLE_RATE`. The
blocking states before the cycle are slower, but the timer has no effect until
`mqtt_initd` is set. Two alarms, lookups and replies let those of an earlier attempt
meet those of the current one.

`Dhcp`: two addresses and three clients make the pool run out; the clock is as short
as `DhcpAssumptions` allows (twice a lease and a unit), so that it wraps inside and
between leases, as the code's does after 49 days. `Credentials`: the strings
need an escape at either end, hold a comma or the text of another key's item, are
empty, as long as their buffer or longer in their escaped form, and change in length
from one request to the next; one request is refused for its length. Buffers of
three bytes let a string overrun its buffer both when it is received and when it is
restored; a sector of twenty bytes is filled, a text comes to the end of its page,
`splice` refuses, `upsert_key` has no room and `write` refuses a value that is too
long. `CredentialsKept` says what then still holds: every string that is
shorter than its buffer, has no comma and was not replaced while it was written is
kept, whatever becomes of the others, until a write has filled the text. That the
exempted strings really are lost is the subject of `Claim_broker`,
`Claim_restored_broker`, `Claim_escape`, `Claim_overwrite`, `Claim_terminator` and
`Claim_torn`.
`Host`: a request is doubtful when it may be answered with 400, that is when it is
bad or its body is cut off; each costs a buffer for good, and four buffers leave
enough for a chain of three. One block more than connections, since an abort costs
one for good. `Logger`: one buffer more than slots, so that a line may be dropped and
a freed buffer reused; four lines, two dumps and a failed one fill, dump, and log
again. `Payload`: lines
of up to 7 bytes have every remainder after none, one and two full groups, and blocks
of 3 are crossed inside a group, between groups and by the terminator; the four bytes
differ at every border between digits (a line may hold the name of a network, in any
encoding). A token may grow by one, by two and by as much as a buffer allows, and
with the longest a breadcrumb is longer than the buffer of `publish`. `Mqtt`: one block more than refusals.

Deadlock is checked except where the system really stops: the bounds of `Logger` are
used up, the heap of `Mqtt` is full or the node initialised, and a `Host`
whose pool is empty is silent.

Fairness. `WF(Main)`: the processor executes `main()`. `EnvironmentFairness`: what
the loop keeps asking for is not refused for ever (memory, the access point, a
write, the join, the broker, the bus); strong, because each request is a separate
call that may fail any number of times before it succeeds. Its last conjunct says
that from some time on a connected client takes the log dumps: lwIP may refuse one
when its output buffer is full, and a client that refused every dump although
connected would keep the loop in LOGDUMP. That an NTP reply comes, or that the
broker stays, is not assumed. For `Ntp`: an armed alarm fires, time passes, and
lwIP ends each lookup after its last retry; no reply is assumed ever to come. For
`Dhcp` only that time passes. For `Host`: the poll timer of a connection fires, and a
phone that keeps connecting and sending good requests, whole, has one of them handed
over before the connection ends, not every time but again and again (strong
fairness).
For `Mqtt`: the loop calls the handler, whose join succeeds at last; an open
connection sends what it has taken; packets are acknowledged or given up.

`Node_liveness` assumes that connecting succeeds at last. `Mqtt` shows when that is
justified: while there have been fewer refusals than the heap has room for clients.

Where the code does not do what its comments or documents say, TLC ends with a
counterexample. Three of these are runs: `claim_boot`, `claim_give_up` and
`claim_freed`, with their findings in `PROJECT.json`. The others have a configuration
too, to be run by hand (`tlc -config Claim_x.cfg MCy`); the module is `MCNode` for
the first six, then `MCNtp`, `Dhcp`, `MCCredentials`, `Host`, `Logger`, `MCPayload` and
`Mqtt`, in the order of the table.

| configuration | quoted from | what happens |
|---|---|---|
| `Claim_boot` | `flashmem.c:271,288` | power lost after the write of `ssid` and before that of `contract`: every later start stays in FLASH_INIT, the access point is never opened |
| `Claim_publish` | `main.c:63` | a publish request and a dump request taken by one `update_state`: the publish is dropped |
| `Claim_sampling` | `README.md:8` | broker gone, log over half full: LOGDUMP fails, logs, asks for LOGDUMP, for ever |
| `Claim_token` | `state.h:15` | a request accepted after FLASH_WRITE: provisioned with one token, another one stored |
| `Claim_one_request` | `docs/network.md:19` | a request accepted between two writes: flash mixes two requests |
| `Claim_readings` | `README.md:8` | the first publish precedes the first reading; a failed reading is published |
| `Claim_give_up` | `util.c:37` | a callback between the lookup and `dns_request_sent = true`: the client waits for ever |
| `Claim_resync` | `util.c:36` | `ntp_poll` is not called after the first synchronisation |
| `Claim_epoch` | `util.c:121` | a late reply between the two reads of `get_current_epoch` |
| `Claim_full` | `dhcpserver.c:208` | a lease that ended 25 days ago looks valid again: a new client is ignored though all leases have ended |
| `Claim_escape` | `test_flashmem.c:101` | `get_val_end` stops at an escaped comma |
| `Claim_overwrite` | `test_flashmem.c:85` | `splice` refuses for a wrong size, `upsert_key` ignores it: success reported, old value kept |
| `Claim_terminator` | `flashmem.c:25` | a text of a multiple of 256 characters is programmed without terminator |
| `Claim_torn` | `flashmem.c:76` | a request between the two loops of `esc_chars`: the copy overruns its memory (and, with `-continue`, a string that nobody sent is stored) |
| `Claim_broker` | `state.h:42` | a 64-character token empties `hub_loc` |
| `Claim_restored_broker` | `state.h:42` | the escaped form of a token that just fits overwrites `hub_loc` on restart |
| `Claim_split` | `host.c:132` | headers and body in a chain of two buffers: a good request is answered with 400 |
| `Claim_pool` | `state.h:13` | each refused request keeps its packet buffer, until nothing is heard any more |
| `Claim_freed` | `connect.c:435` | the next dump reads the lines the last one freed |
| `Claim_lost` | `logger.c:57` | after the slots were full once, the first line of a cycle is lost |
| `Claim_stamps` | `logger.c:21` | a line dumped twice has the offset added twice |
| `Claim_provision` | `connect.c:293` | the closing brace does not fit the size given to `snprintf` (the breadcrumb loses its own in the same way) |
| `Claim_dump` | `connect.c:435` | `publish` hands over 128 bytes of a dump and its lines are gone |
| `Claim_retries` | `state.h:15` | refused clients fill the heap, MQTT_INIT is never left |
| `Claim_delivered` | `state.h:15` | the connection fails after the contract is queued; nothing sends it again |

Each property of a passing run has a mutant, a variant of one mapped definition
with a plausible mistake (names `X_something` before `X`), that violates it.

## 4. The proofs

`NodeProofs` proves for every set of requests, every log length and every timer
rate (assuming only `NodeAssumptions`) that `Spec` implies `[]TypeOK`
(`TypeCorrect`), `[]RunningReady` (`RunningOnlyWhenReady`), `[]StoredPrefix`
(`StoredIsPrefix`), `[]SurvivesRestart` (`RestartIsSafe`) and `LifecycleSpec`
(`Implements`).

None of the four invariants is inductive. `IInv` adds:

* `Flags`: which flags are set in which loop state. A handler sets its flag one
  step before `update_state` leaves the state, and `update_state` may jump when all
  flags are set; so both directions are needed;
* `Configured`: `wifi_configd` means three credentials in RAM; while FLASH_INIT is
  the state it means they came from flash, because the server is not open yet;
* `Persisted`: `flash_written` means three credentials in flash, and is still
  unset while the sector is being rewritten. This is what carries
  `SurvivesRestart` over the erase;
* `Progress`: at the n-th write the first n - 1 keys are in flash, and between
  erase and program the first n are in `buf`. This carries `StoredPrefix` through
  a power loss and through a write that fails and is repeated.

The proof has one lemma per handler. `DlogFrame` and `ReturnFrame` say that
logging changes nothing but the log, `UpdateFrame` what `update_state` can do, and
`QuietStep` covers every handler that only logs. `Implements` maps the initial
state and each action to a step of `Lifecycle` or to a stutter.

`NtpProofs` proves `[]TypeOK` and `[]NoOrphanAlarm` for any alarm pool and any
number of lookups and replies, with `AlarmOwned`: the armed alarms are at most the
one `NTP_T` knows, and none is armed between the end of an attempt and the next.

`DhcpProofs` proves `[]TypeOK` and `[]Exclusive` for any clients, addresses, clock
and lease (assuming `DhcpAssumptions`: twice a lease and a unit fit a turn of the
clock, as 24 hours do in 49 days). `Exclusive` speaks of what clients believe,
`left`, which the code cannot see; `Recorded` ties it to the table: an address that
is held is there with its client, and its 16-bit expiry is the unit in which the
lease ends, counted on the clock that wraps. `NotYetExpired` is the arithmetic: a
lease with time left is not expired to the comparison in DISCOVER, whatever the unit
rounds off.

`MqttProofs` proves `[]TypeOK` and `[]ContractTaken` for a heap of any size and any
number of refusals. With the types `ContractTaken` is inductive: no client is made
after `mqtt_initd` is set.

`CredentialsProofs` proves every safety property of `Credentials` for buffers, pages
and a sector of any size and for requests of any strings, also those with which the
store loses or mixes up values: `[]TypeOK` (`CredentialsTyped`), `[]OneItemPerKey`
(`OneItemForEachKey`), `StoreSpec` (`TextIsStore`), `[]CredentialsKept`
(`StringsAreKept`) and `[]CopyFits` (`CopyStaysWithin`). Nothing is assumed but
`CodecAssumptions` and `CredentialsAssumptions`: the keys are three different
characters and neither special nor the erased cell, no string holds the terminator,
the build's `HUB_LOC` fits its buffer.

The first invariant, `TextInv`, is about flash. A key has one item at most
(`Single`); as long as no write has filled the text, every item begins behind a
comma (`Led`); and a key that was never written has no item, which is why a text that
has lost one is not mistaken for one that never had it. For `Single`: behind an
escape no `=` follows a key (`Shape`, `EscShape`, by induction over what `FlattenSeq`
has put together, `EscSteps`), the item that is replaced ends at a comma or with the
text (`ItemEndIs`), so an item of the new text was one of the old text on either side
of the splice or is the new one (`SplicedStarts`); an item is appended only when
there is none (`AppendedStarts`). What is left of a value behind its first comma
stays in the text and does no harm there: `SplicedHas` and `AppendedHas` say that the
items of the other keys keep their values, `SplicedOwn` and `AppendedOwn` what that
of the key becomes, `UpsertReads` puts the four together. With `UnescBefore`, taking the escapes out of what precedes the first
comma of an escaped string gives what precedes the first comma of the string, this is
a step of `Store` (`CopyIsWrite`). A request, a restart and a turn of a loop are stutters.

The second, `KeptInv`, adds what is in memory and in transit: the buffers hold what
they were given (`Kept`), the text what was stored (`StoredInv`), each for the
strings that are `Storable`; while a write goes on that no request has come into,
what was read is what is in the buffer (`SeenIs`), and the copy has room for that
(`RoomIs`). `ThreePuts` is the step in memory: three buffers are written one behind
the other, each with whatever runs over its end, and a storable string with its
terminators is still there when the third is written. It needs the order: an
overrun only reaches buffers that are written later. `SeenWhole` is the step to
flash: a copy that no request has met is the buffer's string.

The two meet in `EscapesAreInverted`: the loop of `read` gives back what `esc_chars`
was given, for every string. `unesc_chars` is a recursive function, which TLA+
defines as a CHOOSE, so `UnescExists` first builds, by induction over the length, a
function that solves its equation; then the offset of each character in the escaped
text (`EscOffsets`) carries the induction from the end of the string to its start.

`LoggerProofs` proves `[]TypeOK`, `[]NoLeak` and the action property `DumpFaithful`
for any heap, any number of slots, lines and dumps, any runs of `logdump` that fail
and any offset. `DumpFaithful` rests on `HeldInv`: between dumps, the lines put in a
slot since the last run are in buffers that are allocated, as they were logged. A
failed run may rewrite lines and free any, but those are no longer `held`; a buffer
that is in several slots has been handed out again, and the line in it is met first in the
slot at which it is published (`FirstMet`); no empty slot comes before one in use
(`Contiguous`), so that the loop reaches it (`DumpStep`). The dump's loop rewrites the
stamps buffer by buffer as a recursive function; `First`, `Last` and `Induction`
derive induction over the slots from the library's `WFMin`, which is about sets and
so within the reach of the provers.

`HostProofs` proves `[]TypeOK` and `[]OwnState` for any connections, blocks, pool and
cutting of requests, with `Silent`: nothing is on its way on a connection that has
not asked. `OwnState` is inductive with it: `calloc` gives a block that is not
allocated, and a block that lwIP's abort leaves behind stays `allocated` and is never
given again.

`PayloadProofs` proves `[]TypeOK`, `[]InBlocks`, `[]InAllocation`, `[]ArrayFits` and
`[]Decodes` for any block size, any lines, any number of them and any lengths of the
fields, with requests that replace the token between any two calls (assuming only
`B64Assumptions` and `PayloadAssumptions`: bytes below 256, lines shorter than
`MaxLogLen`). `SizeInv` says what the sizes of `malloc` and `snprintf` are in terms of
the token as it is now; `provision` measures it twice, so that its text may exceed its
memory by what the token has grown in between, less one, and `InAllocation` says
that this is all. None of the bounds is inductive: `Progress` says
how many characters are written for the bytes read, which gives the length of a
finished text (`Lengths`), and `ArrayInv` how far in the array `pos` may be after
so many lines, with room for the one that is being encoded (`Slot`). There is one
lemma per action of both modules; `Reserve` is the arithmetic of `logarrsize`.
`Decodes` follows from `TextInv`: every character written so far is the digit that
belongs there, or Pad where no bit of the source is in it (`CharOf`); `GroupInv`
says that `tmp` holds the bytes of the next group. `Bits` puts three bytes together
from four digits and `Pads` counts the padding.

Every invariant of the passing runs, every refinement and every action property
without fairness has its theorem. Only model-checked are the liveness properties
(`ProvisionedStarts`, `RestoredStarts`, `SyncedRuns`, `SamplesWhileConnected`,
`TimedAttemptEnds`, `Retries`, `Reclaimed`, `ConnectionEnds`, `Heard`, `Initialises`):
they depend on fairness, and TLAPS reasons about neither that nor ENABLED.

What the exemptions of a property leave out (a token that grows in `provision`, a
string with a comma or as long as its buffer, one replaced while it is copied, a text
that is full, a block that lwIP's abort leaves behind) the code does not promise, and
a configuration above or a sentence of this text says what becomes of it. The
formulas that promise it are stated for such a configuration alone: `AsGiven`
(`Claim_escape`, `Claim_overwrite`, `Claim_terminator`), `HubKept` (`Claim_broker`,
`Claim_restored_broker`), `CopyFitsAlways` and `AsSent` (`Claim_torn`) and
`GoodNotRefused` (`Claim_split`).

## 5. Not modelled, and the plan

Left out for good:

* the I2C transfers, the WiFi join and lwIP itself: external, each a choice of
  outcomes;
* the button and the LED: `basicio_listen_handler` is never called, and
  `basicio_init_handler` only configures a pin;
* the MQTT test client: it runs from the hardware test only. The callbacks for
  inbound messages are registered by the firmware too, but it subscribes to nothing;
* the wording of texts: the truncation mark of a log line, the JSON, the HTTP
  headers, the layout of DHCP messages;
* what follows a write through a null pointer (`mqtt_client_init`) or the corruption
  of the heap by a double free, by the free of an uninitialised pointer, by the copy
  of a string that has grown or by a message longer than its memory;
* the tests and the build files.

Next: `Firmware`, `Node` and `Ntp` composed, with `Node`'s clock as the abstraction
of `Ntp`.
