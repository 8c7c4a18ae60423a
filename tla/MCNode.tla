------------------------------- MODULE MCNode --------------------------------
(***************************************************************************)
(* Node.tla for TLC, and what the repository's own words say of the node   *)
(* that the code does not do.  Each of these properties is the subject of  *)
(* one run that TLC ends with a counterexample.                            *)
(***************************************************************************)
EXTENDS Node

\* flash_init_handler has two ends: "WIFI not yet configured" sends the node to
\* the client, "SSID and password restored from flash" to the broker.  A node
\* that starts should reach one of them.  A power loss between the writes of
\* "ssid" and "contract" leaves a flash that satisfies neither.
BootLeavesFlashInit ==
  At("FLASH_INIT") ~> Down \/ ctx.loop_state # "FLASH_INIT"

\* main.c sets set_publish from a timer, its "Regular publish interval".  A
\* request update_state takes should be followed by the publish handler; a dump
\* request taken in the same call puts LOGDUMP in its place.
PublishRequestServed ==
  [][pc = "update" /\ ctx.set_publish /\ ~ctx'.set_publish /\ pc' = "call" =>
       ctx'.loop_state = "MQTT_PUBLISH"]_vars

\* The README's overview: the node "reads soil moisture data from connected
\* sensors and publishes the readings".  Once it runs it should keep reading the
\* sensor.  When the broker is gone, each failing LOGDUMP logs an error, and the
\* error asks for the next LOGDUMP.
SamplingContinues ==
  ctx.loop_state \in Running ~> Down \/ ctx.loop_state = "SENSE_LISTEN"

\* LOOP_STATE_E: FLASH_WRITE writes the credentials to flash, and MQTT_INIT is to
\* "complete provisioning with token from previous state".  A request accepted
\* after FLASH_WRITE changes the token in RAM only.
ProvisionsWithStoredToken ==
  pc = "joined" => ctx.prv_token = flash["contract"]

\* docs/network.md: the client sends "SSID,PW,Contract" to the node in one
\* message.  The three that are stored should come from one message; a second
\* request accepted between two writes mixes them.
StoredFromOneRequest ==
  (\A k \in Keys : flash[k] # None) => \A j, k \in Keys : flash[j] = flash[k]

\* The README's overview: the node publishes the readings of its sensor.  The
\* first MQTT_PUBLISH comes before the first SENSE_LISTEN and publishes the zeroes
\* of calloc; a failed read is published as 65535.
PublishesReadings ==
  At("MQTT_PUBLISH") => ctx.capacitance = "read"
=============================================================================
