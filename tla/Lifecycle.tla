------------------------------ MODULE Lifecycle ------------------------------
(***************************************************************************)
(* What the firmware promises about its life between two power-ups, and    *)
(* about what a power-up finds in flash memory.  The phases are the ones   *)
(* the comments of LOOP_STATE_E (state.h) name:                            *)
(*   restore    read the credentials back from flash (FLASH_INIT)          *)
(*   provision  receive them from the mobile client (WIFI_CONFIG)          *)
(*   persist    write them to flash (FLASH_WRITE)                          *)
(*   connect    join WiFi, reach the broker, start sensor and clock        *)
(*   run        the sampling and publishing cycle                          *)
(*                                                                         *)
(* A node provisions only when flash holds nothing, connects only when     *)
(* flash holds everything, so that a node that got as far as connecting    *)
(* never needs the client again.  Nothing is promised for a node that is   *)
(* restored from an incomplete flash: it stays in the restore phase.       *)
(* Node.tla implements this specification.                                 *)
(***************************************************************************)

VARIABLES
  phase,   \* one of the five phases
  stored   \* how many of the three credentials flash holds

Phases == {"restore", "provision", "persist", "connect", "run"}
Amounts == {"nothing", "some", "all"}

vars == <<phase, stored>>

LifecycleTypeOK == phase \in Phases /\ stored \in Amounts

Init == phase = "restore" /\ stored = "nothing"

To(from, to) == phase = from /\ phase' = to /\ UNCHANGED stored

RestoreNothing == stored = "nothing" /\ To("restore", "provision")

RestoreAll == stored = "all" /\ To("restore", "connect")

Provisioned == To("provision", "persist")

\* The flash sector is only ever rewritten in the persist phase; each rewrite
\* erases it first.
Rewrite == phase = "persist" /\ stored' \in Amounts /\ UNCHANGED phase

Persisted == stored = "all" /\ To("persist", "connect")

Online == To("connect", "run")

\* Power may fail at any time; flash keeps what it holds at that moment.
PowerCycle == phase' = "restore" /\ UNCHANGED stored

Next ==
  \/ RestoreNothing
  \/ RestoreAll
  \/ Provisioned
  \/ Rewrite
  \/ Persisted
  \/ Online
  \/ PowerCycle

Spec == Init /\ [][Next]_vars
==============================================================================
