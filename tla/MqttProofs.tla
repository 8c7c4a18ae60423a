----------------------------- MODULE MqttProofs ------------------------------
(***************************************************************************)
(* Proofs about Mqtt.tla, for a heap of any size and any number of         *)
(* refusals.                                                               *)
(***************************************************************************)
EXTENDS Mqtt, TLAPS

\* ContractTaken is inductive once the types are known: no client is made after
\* mqtt_initd is set, and nothing else changes cur or sent.
IInv == TypeOK /\ ContractTaken

LEMMA InitInv ==
  ASSUME Init
  PROVE  IInv
<1>1. 0 \in 0..Blocks /\ 0 \in 0..MaxFails
  BY MqttAssumptions
<1>2. clients \in [1..Blocks -> {"free", "packet", "disconnected", "connected"}]
  BY DEF Init
<1> QED BY <1>1, <1>2 DEF Init, IInv, TypeOK, ContractTaken

\* connect.c, mqtt_init_handler: a client is made only before mqtt_initd is set.
LEMMA NewClient ==
  ASSUME TypeOK, NEW b \in 1..Blocks, NEW s \in {"disconnected", "connected"}, ClientNew(b, s)
  PROVE  /\ clients' \in [1..Blocks -> {"free", "packet", "disconnected", "connected"}]
         /\ cur' = b /\ joined' = FALSE /\ b \in 0..Blocks /\ b # 0
         /\ ~mqtt_initd
<1>1. Blocks \in Nat
  BY MqttAssumptions
<1> QED BY <1>1 DEF TypeOK, ClientNew

LEMMA NextInv ==
  ASSUME IInv, [Next]_vars
  PROVE  IInv'
<1> USE DEF IInv, TypeOK, ContractTaken
<1>a. Blocks \in Nat /\ MaxFails \in Nat
  BY MqttAssumptions
<1>1. CASE Join
  BY <1>1 DEF Join
<1>2. CASE NoClient
  <2>1. 0 \in 0..Blocks
    BY <1>a
  <2>2. /\ cur' = 0 /\ joined' = FALSE /\ ~mqtt_initd
        /\ UNCHANGED <<token, clients, mqtt_initd, sent, delivered, fails>>
    BY <1>2 DEF NoClient
  <2> QED BY <2>1, <2>2
<1>3. ASSUME NEW b \in 1..Blocks, ConnectFails(b)
      PROVE  IInv'
  <2>1. ClientNew(b, "disconnected") /\ fails < MaxFails /\ fails' = fails + 1
        /\ mqtt_initd' = ~token /\ UNCHANGED <<token, sent, delivered>>
    BY <1>3 DEF ConnectFails
  <2>2. fails' \in 0..MaxFails
    BY <1>a, <2>1
  <2> QED BY <2>1, <2>2, NewClient
<1>4. ASSUME NEW b \in 1..Blocks, ProvisionFails(b)
      PROVE  IInv'
  <2>1. ClientNew(b, "connected") /\ fails < MaxFails /\ fails' = fails + 1
        /\ UNCHANGED <<token, mqtt_initd, sent, delivered>>
    BY <1>4 DEF ProvisionFails
  <2>2. fails' \in 0..MaxFails
    BY <1>a, <2>1
  <2> QED BY <2>1, <2>2, NewClient
<1>5. ASSUME NEW b \in 1..Blocks, Provisioned(b)
      PROVE  IInv'
  <2>1. ClientNew(b, "connected") /\ mqtt_initd' = TRUE /\ sent' = (IF token THEN b ELSE 0)
        /\ UNCHANGED <<token, delivered, fails>>
    BY <1>5 DEF Provisioned
  <2>2. 0 \in 0..Blocks
    BY <1>a
  <2> QED BY <2>1, <2>2, NewClient
<1>6. CASE Sent
  BY <1>6 DEF Sent
<1>7. ASSUME NEW b \in 1..Blocks, mqtt_connection_cb(b)
      PROVE  IInv'
  BY <1>7 DEF mqtt_connection_cb
<1>8. ASSUME NEW b \in 1..Blocks, PacketFreed(b)
      PROVE  IInv'
  BY <1>8 DEF PacketFreed
<1>9. CASE UNCHANGED vars
  BY <1>9 DEF vars
<1> QED
  BY <1>1, <1>2, <1>3, <1>4, <1>5, <1>6, <1>7, <1>8, <1>9 DEF Next, mqtt_init_handler

\* connect.c: the heap, the current client and the counters stay in their types.
THEOREM MqttTypeCorrect == Spec => []TypeOK
<1>1. Init => IInv
  BY InitInv
<1>2. IInv /\ [Next]_vars => IInv'
  BY NextInv
<1>3. IInv => TypeOK
  BY DEF IInv
<1> QED BY <1>1, <1>2, <1>3, PTL DEF Spec

\* mqtt_init_handler: however often it is retried and whatever the retries leave
\* in the heap, a node with a contract goes on with the client that took it.
THEOREM ContractIsTaken == Spec => []ContractTaken
<1>1. Init => IInv
  BY InitInv
<1>2. IInv /\ [Next]_vars => IInv'
  BY NextInv
<1>3. IInv => ContractTaken
  BY DEF IInv
<1> QED BY <1>1, <1>2, <1>3, PTL DEF Spec
=============================================================================
