-------------------------------- MODULE Mqtt ---------------------------------
(***************************************************************************)
(* The clients that mqtt_init_handler creates (connect.c).  Node.tla keeps *)
(* whether the node has a connection; this module keeps the memory: every  *)
(* call of the handler takes a new client from the heap of lwIP, and one   *)
(* that fails behind that point leaves it there, with its connection.      *)
(***************************************************************************)
EXTENDS Integers

CONSTANTS
  Blocks,   \* clients that the heap of lwIP has room for (MEM_SIZE: 4000 bytes)
  MaxFails  \* how many times the network refuses before it works

ASSUME MqttAssumptions ==
  /\ Blocks \in Nat
  /\ MaxFails \in Nat

VARIABLES
  token,       \* *ctx->prv_token is not NUL
  joined,      \* the handler is behind the WiFi join
  clients,     \* each block of the heap: free, in use by a packet, or a client,
               \* whose connection is gone or else open or being opened
  cur,         \* the block of ctx->mqtt_client, or 0
  mqtt_initd,  \* ctx->mqtt_initd
  sent,        \* the block of the client that took the contract, or 0
  delivered,   \* the broker has the contract
  fails        \* refusals so far

vars == <<token, joined, clients, cur, mqtt_initd, sent, delivered, fails>>

TypeOK ==
  /\ token \in BOOLEAN
  /\ joined \in BOOLEAN
  /\ clients \in [1..Blocks -> {"free", "packet", "disconnected", "connected"}]
  /\ cur \in 0..Blocks
  /\ mqtt_initd \in BOOLEAN
  /\ sent \in 0..Blocks
  /\ delivered \in BOOLEAN
  /\ fails \in 0..MaxFails

\* The answers of the provisioning server live in the same heap until their
\* segments are acknowledged.
Init ==
  /\ token \in BOOLEAN
  /\ joined = FALSE
  /\ clients \in [1..Blocks -> {"free", "packet"}]
  /\ cur = 0
  /\ mqtt_initd = FALSE
  /\ sent = 0
  /\ delivered = FALSE
  /\ fails = 0

(***************************************************************************)
(* mqtt_init_handler                                                       *)
(***************************************************************************)
\* A join that fails changes nothing, and is tried again.
Join ==
  /\ ~mqtt_initd /\ ~joined
  /\ joined' = TRUE
  /\ UNCHANGED <<token, clients, cur, mqtt_initd, sent, delivered, fails>>

\* mqtt_client_new takes a block; the connection is open or refused.
ClientNew(b, connection) ==
  /\ ~mqtt_initd /\ joined
  /\ clients[b] = "free"
  /\ clients' = [clients EXCEPT ![b] = connection]
  /\ cur' = b
  /\ joined' = FALSE

\* Mutant of NoClient: the result of mqtt_client_new is not looked at.
NoClient_ignored ==
  /\ ~mqtt_initd /\ joined
  /\ \A b \in 1..Blocks : clients[b] # "free"
  /\ cur' = Blocks + 1
  /\ joined' = FALSE
  /\ UNCHANGED <<token, clients, mqtt_initd, sent, delivered, fails>>

\* mqtt_client_new returns NULL.
NoClient ==
  /\ ~mqtt_initd /\ joined
  /\ \A b \in 1..Blocks : clients[b] # "free"
  /\ cur' = 0
  /\ joined' = FALSE
  /\ UNCHANGED <<token, clients, mqtt_initd, sent, delivered, fails>>

\* Mutant of ConnectFails: the handler does not look at the result of provision().
ConnectFails_ignored(b) ==
  /\ fails < MaxFails
  /\ ClientNew(b, "disconnected")
  /\ mqtt_initd' = TRUE
  /\ fails' = fails + 1
  /\ UNCHANGED <<token, sent, delivered>>

\* mqtt_client_connect fails.  The handler notices only when it has a contract
\* to send, by the result of provision().
ConnectFails(b) ==
  /\ fails < MaxFails
  /\ ClientNew(b, "disconnected")
  /\ mqtt_initd' = ~token
  /\ fails' = fails + 1
  /\ UNCHANGED <<token, sent, delivered>>

\* The connection is there, but mqtt_publish has no room for the message.
ProvisionFails(b) ==
  /\ fails < MaxFails /\ token
  /\ ClientNew(b, "connected")
  /\ fails' = fails + 1
  /\ UNCHANGED <<token, mqtt_initd, sent, delivered>>

\* Mutant of Provisioned: the flag is forgotten.
Provisioned_unflagged(b) ==
  /\ ClientNew(b, "connected")
  /\ sent' = IF token THEN b ELSE 0
  /\ UNCHANGED <<token, mqtt_initd, delivered, fails>>

Provisioned(b) ==
  /\ ClientNew(b, "connected")
  /\ mqtt_initd' = TRUE
  /\ sent' = IF token THEN b ELSE 0
  /\ UNCHANGED <<token, delivered, fails>>

mqtt_init_handler ==
  \/ Join
  \/ NoClient
  \/ \E b \in 1..Blocks : ConnectFails(b) \/ ProvisionFails(b) \/ Provisioned(b)

\* The connection of a client ends, be it of one that was given up: the broker
\* is gone, or closes the older of two clients with one name.  The callback
\* prints, and nothing else.
mqtt_connection_cb(b) ==
  /\ clients[b] = "connected"
  /\ clients' = [clients EXCEPT ![b] = "disconnected"]
  /\ UNCHANGED <<token, joined, cur, mqtt_initd, sent, delivered, fails>>

\* The connection is up and lwIP sends what the client has taken.
Sent ==
  /\ sent # 0 /\ clients[sent] = "connected" /\ ~delivered
  /\ delivered' = TRUE
  /\ UNCHANGED <<token, joined, clients, cur, mqtt_initd, sent, fails>>

\* lwIP gives back a block that a packet had.
PacketFreed(b) ==
  /\ clients[b] = "packet"
  /\ clients' = [clients EXCEPT ![b] = "free"]
  /\ UNCHANGED <<token, joined, cur, mqtt_initd, sent, delivered, fails>>

Next ==
  \/ mqtt_init_handler
  \/ Sent
  \/ \E b \in 1..Blocks : mqtt_connection_cb(b) \/ PacketFreed(b)

Spec == Init /\ [][Next]_vars

\* The loop calls the handler as long as mqtt_initd is not set, and the join
\* succeeds sooner or later; the network refuses at most MaxFails times, and
\* packets are acknowledged or given up.
FairSpec ==
  /\ Spec
  /\ WF_vars(mqtt_init_handler)
  /\ WF_vars(Sent)
  /\ \A b \in 1..Blocks : WF_vars(PacketFreed(b))

(***************************************************************************)
(* Properties                                                              *)
(***************************************************************************)
\* A node with a contract leaves MQTT_INIT only after the client that it goes on
\* with has taken the contract, not one of those it gave up (mqtt_init_handler).
ContractTaken == mqtt_initd /\ token => cur # 0 /\ sent = cur

\* The retries come to an end: once the network works the node is initialised
\* (mqtt_init_handler, called again and again by the loop).
Initialises == <>mqtt_initd

\* A node that has left MQTT_INIT with a contract gets it to the broker: the
\* comment of MQTT_INIT (state.h) says that the state completes provisioning.
ContractDelivered == mqtt_initd /\ token ~> delivered
=============================================================================
