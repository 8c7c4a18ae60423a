-------------------------------- MODULE Store --------------------------------
(***************************************************************************)
(* What flashmem.h promises: a map from keys to values.  A write either    *)
(* stores the value and says so, or says that it failed and changes        *)
(* nothing.  The promise ends when the memory is full.                     *)
(***************************************************************************)
CONSTANTS
  Keys,     \* the keys that may be written
  Inputs,   \* the values that may be written
  NotFound  \* what a key that was never written reads as

VARIABLES
  kv,    \* what each key reads as
  call,  \* the last write: its arguments and whether it succeeded
  full   \* whether a write found too little memory and said that it succeeded

Init ==
  /\ kv = [k \in Keys |-> NotFound]
  /\ call = [key |-> NotFound, val |-> <<>>, ok |-> TRUE]
  /\ full = FALSE

Write ==
  /\ call' \in [key : Keys, val : Inputs, ok : BOOLEAN]
  /\ kv' = IF call'.ok THEN [kv EXCEPT ![call'.key] = call'.val] ELSE kv
  /\ UNCHANGED full

Fill ==
  /\ call' \in [key : Keys, val : Inputs, ok : {TRUE}]
  /\ full' = TRUE

Next == (~full /\ (Write \/ Fill)) \/ (full /\ full')

Spec == Init /\ [][Next]_<<kv, call, full>>
=============================================================================
