----------------------------- MODULE HostProofs ------------------------------
(***************************************************************************)
(* Proofs about Host.tla, for any number of connections and blocks, any    *)
(* size of the pool and any cutting of the requests.                       *)
(***************************************************************************)
EXTENDS Host, SequenceTheorems, TLAPS

\* Nothing is on its way on a connection that has not asked.
Silent == \A c \in Conns : asked[c] = "nothing" => inbox[c] = <<>>

IInv == TypeOK /\ OwnState /\ Silent

\* A request that comes in one segment.
Request(r) == IF r = "other" THEN <<"get", "blank">> ELSE <<"post", "blank", r>>

(***************************************************************************)
(* Segments                                                                *)
(***************************************************************************)
\* host.c: a segment is a sequence of parts.
LEMMA RequestType ==
  ASSUME NEW r \in Requests
  PROVE  Request(r) \in Seq(Parts) /\ Len(Request(r)) = IF r = "other" THEN 2 ELSE 3
<1>1. CASE r = "other"
  <2>1. <<"get", "blank">> \in Seq(Parts) /\ Len(<<"get", "blank">>) = 2
    BY DEF Parts
  <2> QED BY <1>1, <2>1 DEF Request
<1>2. CASE r # "other"
  <2>1. r \in Parts
    BY <1>2 DEF Requests, Parts
  <2>2. <<"post", "blank", r>> \in Seq(Parts) /\ Len(<<"post", "blank", r>>) = 3
    BY <2>1 DEF Parts
  <2> QED BY <1>2, <2>2 DEF Request
<1> QED BY <1>1, <1>2

LEMMA PieceType ==
  ASSUME NEW r \in Requests, NEW i \in Nat \ {0}, NEW j \in Nat, j <= Len(Request(r))
  PROVE  (IF i > j THEN <<>> ELSE <<SubSeq(Request(r), i, j)>>) \in Seq(Seq(Parts))
<1> DEFINE parts == Request(r)
<1>1. parts \in Seq(Parts)
  BY RequestType
<1> HIDE DEF parts
<1>2. \A k \in i..j : parts[k] \in Parts
  BY <1>1, ElementOfSeq DEF parts
<1>3. SubSeq(parts, i, j) \in Seq(Parts)
  BY <1>2, SubSeqProperties
<1> QED BY <1>3 DEF parts

LEMMA SegmentsType ==
  ASSUME NEW r \in Requests, NEW cut
  PROVE  Segments(r, cut) \in Seq(Seq(Parts))
<1> DEFINE parts == Request(r)
           first == IF 1 \in cut THEN 1 ELSE IF 2 \in cut THEN 2 ELSE Len(parts)
           second == IF first = 1 /\ 2 \in cut THEN 2 ELSE Len(parts)
           segment(i, j) == IF i > j THEN <<>> ELSE <<SubSeq(parts, i, j)>>
<1>1. /\ first \in Nat \ {0} /\ first <= Len(parts)
      /\ second \in Nat \ {0} /\ second <= Len(parts)
      /\ Len(parts) \in Nat
  <2>1. Len(parts) \in Nat /\ 2 <= Len(parts)
    BY RequestType
  <2> HIDE DEF parts
  <2> QED BY <2>1
<1>2. Segments(r, cut) =
        segment(1, first) \o segment(first + 1, second) \o segment(second + 1, Len(parts))
  BY DEF Segments, Request
<1> HIDE DEF first, second, parts
<1>3. segment(1, first) \in Seq(Seq(Parts))
  BY <1>1, PieceType DEF parts
<1>4. segment(first + 1, second) \in Seq(Seq(Parts))
  BY <1>1, PieceType DEF parts
<1>5. segment(second + 1, Len(parts)) \in Seq(Seq(Parts))
  BY <1>1, PieceType DEF parts
<1> HIDE DEF segment
<1> QED BY <1>2, <1>3, <1>4, <1>5, ConcatProperties

(***************************************************************************)
(* The invariant                                                           *)
(***************************************************************************)
LEMMA InitInv ==
  ASSUME Init
  PROVE  IInv
<1>1. PoolSize \in 0..PoolSize /\ 0 \in 0..MaxBad
  BY HostAssumptions
<1>2. <<>> \in Seq(Seq(Parts))
  OBVIOUS
<1>3. TypeOK
  BY <1>1, <1>2 DEF Init, TypeOK
<1> QED BY <1>3 DEF Init, IInv, OwnState, Silent

LEMMA SendStep ==
  ASSUME IInv, NEW c \in Conns, NEW r \in Requests, NEW cut \in Cuts, Send(c, r, cut)
  PROVE  IInv'
<1>1. /\ c \in open /\ (Doubtful(r, cut) => bad < MaxBad)
      /\ bad' = (IF Doubtful(r, cut) THEN bad + 1 ELSE bad)
      /\ asked' = [asked EXCEPT ![c] = r]
      /\ inbox' = [inbox EXCEPT ![c] = Segments(r, cut)]
      /\ UNCHANGED <<open, con_state, allocated, leaked, pool, residue, refused, configd>>
  BY DEF Send
<1>2. bad' \in 0..MaxBad
  BY <1>1, HostAssumptions DEF IInv, TypeOK
<1>3. Segments(r, cut) \in Seq(Seq(Parts)) /\ r # "nothing"
  BY SegmentsType DEF Requests
<1>4. TypeOK'
  BY <1>1, <1>2, <1>3 DEF IInv, TypeOK
<1>5. OwnState'
  BY <1>1 DEF IInv, OwnState
<1>6. Silent'
  BY <1>1, <1>3 DEF IInv, TypeOK, Silent
<1> QED BY <1>4, <1>5, <1>6 DEF IInv

LEMMA AcceptStep ==
  ASSUME IInv, NEW c \in Conns, tcp_server_accept(c)
  PROVE  IInv'
<1>1. PICK s \in States \ allocated : /\ con_state' = [con_state EXCEPT ![c] = s]
                                      /\ allocated' = allocated \cup {s}
  BY DEF tcp_server_accept
<1>2. /\ c \notin open /\ open' = open \cup {c}
      /\ UNCHANGED <<leaked, inbox, asked, pool, residue, bad, refused, configd>>
  BY DEF tcp_server_accept
<1>3. TypeOK'
  BY <1>1, <1>2 DEF IInv, TypeOK
<1>4. con_state'[c] = s /\ \A d \in open : con_state'[d] = con_state[d]
  BY <1>1, <1>2 DEF IInv, TypeOK
<1>5. OwnState'
  <2>1. s \notin allocated /\ s \notin leaked
    BY DEF IInv, OwnState
  <2>2. \A d \in open : con_state[d] \in allocated
    BY DEF IInv, OwnState
  <2>3. {con_state'[d] : d \in open'} = {con_state[d] : d \in open} \cup {s}
    BY <1>2, <1>4
  <2> QED BY <1>1, <1>2, <1>4, <2>1, <2>2, <2>3 DEF IInv, OwnState
<1>6. Silent'
  BY <1>2 DEF IInv, Silent
<1> QED BY <1>3, <1>5, <1>6 DEF IInv

\* What a connection's end changes besides the heap.
Ended(c) ==
  /\ open' = open \ {c}
  /\ con_state' = [con_state EXCEPT ![c] = NoState]
  /\ inbox' = [inbox EXCEPT ![c] = <<>>]
  /\ asked' = [asked EXCEPT ![c] = "nothing"]

LEMMA EndFrame ==
  ASSUME IInv, NEW c \in Conns, Ended(c)
  PROVE  /\ open' \subseteq Conns
         /\ con_state' \in [Conns -> States \cup {NoState}]
         /\ inbox' \in [Conns -> Seq(Seq(Parts))]
         /\ asked' \in [Conns -> Requests \cup {"nothing"}]
         /\ Silent'
<1>1. <<>> \in Seq(Seq(Parts))
  OBVIOUS
<1>2. /\ open' \subseteq Conns /\ con_state' \in [Conns -> States \cup {NoState}]
      /\ inbox' \in [Conns -> Seq(Seq(Parts))]
      /\ asked' \in [Conns -> Requests \cup {"nothing"}]
  BY <1>1 DEF IInv, TypeOK, Ended
<1>3. Silent'
  BY DEF IInv, TypeOK, Silent, Ended
<1> QED BY <1>2, <1>3

\* The other connections keep their con_states.
LEMMA OthersKeep ==
  ASSUME IInv, NEW c \in open, Ended(c)
  PROVE  /\ \A d \in open' : d \in open /\ con_state'[d] = con_state[d] /\ con_state[d] # con_state[c]
         /\ {con_state[d] : d \in open} = {con_state'[d] : d \in open'} \cup {con_state[c]}
<1>1. \A d \in open' : d \in open /\ d # c /\ con_state'[d] = con_state[d]
  BY DEF Ended, IInv, TypeOK
<1>2. \A d \in open' : con_state[d] # con_state[c]
  BY <1>1 DEF IInv, OwnState
<1>3. open = open' \cup {c}
  BY DEF Ended
<1> QED BY <1>1, <1>2, <1>3

\* host.c, tcp_close_client_connection: the connection and its state go together.
LEMMA CloseFrame ==
  ASSUME IInv, NEW c \in open, tcp_close_client_connection(c)
  PROVE  /\ open' \subseteq Conns
         /\ con_state' \in [Conns -> States \cup {NoState}]
         /\ allocated' \subseteq States /\ leaked' \subseteq States
         /\ inbox' \in [Conns -> Seq(Seq(Parts))]
         /\ asked' \in [Conns -> Requests \cup {"nothing"}]
         /\ OwnState' /\ Silent'
<1>1. Ended(c) /\ allocated' = allocated \ {con_state[c]} /\ leaked' = leaked
  BY DEF Ended, tcp_close_client_connection
<1>2. c \in Conns
  BY DEF IInv, TypeOK
<1>3. OwnState'
  <2>1. con_state[c] \notin leaked
    BY DEF IInv, OwnState
  <2>2. \A d \in open' : con_state'[d] \in allocated' \ leaked'
    BY <1>1, OthersKeep DEF IInv, OwnState
  <2>3. \A d, e \in open' : con_state'[d] = con_state'[e] => d = e
    BY <1>1, OthersKeep DEF IInv, OwnState
  <2>4. con_state[c] \notin {con_state'[d] : d \in open'}
    BY <1>1, OthersKeep
  <2>5. allocated' = {con_state'[d] : d \in open'} \cup leaked'
    <3>1. allocated = {con_state[d] : d \in open} \cup leaked
      BY DEF IInv, OwnState
    <3>2. {con_state[d] : d \in open} = {con_state'[d] : d \in open'} \cup {con_state[c]}
      BY <1>1, OthersKeep
    <3> QED BY <1>1, <2>1, <2>4, <3>1, <3>2
  <2> QED BY <2>2, <2>3, <2>5 DEF OwnState
<1> QED BY <1>1, <1>2, <1>3, EndFrame DEF IInv, TypeOK

\* host.c:190: a connection that lwIP aborts leaves its con_state behind.
LEMMA AbortedStep ==
  ASSUME IInv, NEW c \in Conns, tcp_server_err_aborted(c)
  PROVE  IInv'
<1>1. /\ c \in open /\ Ended(c) /\ leaked' = leaked \cup {con_state[c]}
      /\ UNCHANGED <<allocated, pool, residue, bad, refused, configd>>
  BY DEF Ended, tcp_server_err_aborted
<1>2. con_state[c] \in States
  BY <1>1 DEF IInv, TypeOK, OwnState
<1>3. TypeOK'
  BY <1>1, <1>2, EndFrame DEF IInv, TypeOK
<1>4. OwnState'
  <2>1. \A d \in open' : con_state'[d] \in allocated' \ leaked'
    BY <1>1, OthersKeep DEF IInv, OwnState
  <2>2. \A d, e \in open' : con_state'[d] = con_state'[e] => d = e
    BY <1>1, OthersKeep DEF IInv, OwnState
  <2>3. allocated' = {con_state'[d] : d \in open'} \cup leaked'
    <3>1. allocated = {con_state[d] : d \in open} \cup leaked
      BY DEF IInv, OwnState
    <3>2. {con_state[d] : d \in open} = {con_state'[d] : d \in open'} \cup {con_state[c]}
      BY <1>1, OthersKeep
    <3> QED BY <1>1, <3>1, <3>2
  <2> QED BY <2>1, <2>2, <2>3 DEF OwnState
<1> QED BY <1>1, <1>3, <1>4, EndFrame DEF IInv

LEMMA CloseStep ==
  ASSUME IInv, NEW c \in open, tcp_close_client_connection(c),
         UNCHANGED <<pool, residue, bad, refused, configd>>
  PROVE  IInv'
BY CloseFrame DEF IInv, TypeOK

\* What has arrived is the request that was asked.
LEMMA Arrived ==
  ASSUME IInv, NEW c \in Conns, NEW n \in 1..3, n <= Len(inbox[c])
  PROVE  asked[c] \in Requests
<1>1. inbox[c] # <<>>
  <2>1. Len(inbox[c]) # 0
    BY DEF IInv, TypeOK
  <2> QED BY <2>1
<1> QED BY <1>1 DEF IInv, TypeOK, Silent

LEMMA AnsweredStep ==
  ASSUME IInv, NEW c \in open, NEW n \in 1..3, n <= Len(inbox[c]), n <= pool, NEW text,
         Answered(c, n, text)
  PROVE  IInv'
<1>1. tcp_close_client_connection(c) /\ UNCHANGED <<residue, bad>>
  BY DEF Answered
<1> c \in Conns
  BY DEF IInv, TypeOK
<1>2. pool' \in 0..PoolSize
  BY HostAssumptions DEF IInv, TypeOK, Answered
<1>3. refused' \subseteq Requests /\ configd' \in BOOLEAN
  BY Arrived DEF IInv, TypeOK, Answered
<1> QED BY <1>1, <1>2, <1>3, CloseFrame DEF IInv, TypeOK

LEMMA IgnoredStep ==
  ASSUME IInv, NEW c \in Conns, NEW n \in 1..3, n <= Len(inbox[c]), Ignored(c, n)
  PROVE  IInv'
<1> DEFINE box == inbox[c]
           behind == SubSeq(box, n + 1, Len(box))
           taken == SubSeq(box, 1, n)
<1>1. box \in Seq(Seq(Parts)) /\ Len(box) \in Nat /\ n \in Nat /\ n <= Len(box)
  BY DEF IInv, TypeOK
<1>2. /\ inbox' = [inbox EXCEPT ![c] = behind]
      /\ residue' = residue \cup ToSet(taken)
      /\ UNCHANGED <<open, con_state, allocated, leaked, asked, pool, bad, refused, configd>>
  BY DEF Ignored, IInv, TypeOK
<1> HIDE DEF box
<1>3. \A i \in 1..Len(box) : box[i] \in Seq(Parts)
  BY <1>1, ElementOfSeq
<1>4. behind \in Seq(Seq(Parts))
  <2>1. \A i \in n + 1..Len(box) : box[i] \in Seq(Parts)
    BY <1>1, <1>3
  <2>2. n + 1 \in Int /\ Len(box) \in Int
    BY <1>1
  <2> QED BY <2>1, <2>2, SubSeqProperties
<1>5. taken \in Seq(Seq(Parts))
  <2>1. \A i \in 1..n : box[i] \in Seq(Parts)
    BY <1>1, <1>3
  <2>2. 1 \in Int /\ n \in Int
    BY <1>1
  <2> QED BY <2>1, <2>2, SubSeqProperties
<1> HIDE DEF behind, taken
<1>6. ToSet(taken) \subseteq Seq(Parts)
  BY <1>5, ElementOfSeq DEF ToSet
<1>7. TypeOK'
  BY <1>2, <1>4, <1>6 DEF IInv, TypeOK
<1>8. OwnState'
  BY <1>2 DEF IInv, OwnState
<1>9. Silent'
  <2>1. asked[c] # "nothing"
    BY Arrived DEF Requests, box
  <2> QED BY <1>2, <2>1 DEF IInv, TypeOK, Silent
<1> QED BY <1>7, <1>8, <1>9 DEF IInv

LEMMA NextInv ==
  ASSUME IInv, [Next]_vars
  PROVE  IInv'
<1>1. ASSUME NEW c \in Conns, Recv(c)
      PROVE  IInv'
  <2>1. PICK n \in 1..3 : tcp_server_recv(c, n)
    BY <1>1 DEF Recv
  <2>2. c \in open /\ n <= Len(inbox[c]) /\ n <= pool /\ \E text : Answered(c, n, text) \/ Ignored(c, n)
    BY <2>1 DEF tcp_server_recv
  <2> QED BY <2>2, AnsweredStep, IgnoredStep
<1>2. ASSUME NEW c \in Conns,
             tcp_server_recv_closed(c) \/ tcp_server_poll(c) \/ tcp_server_err(c)
      PROVE  IInv'
  BY <1>2, CloseStep DEF tcp_server_recv_closed, tcp_server_poll, tcp_server_err
<1>3. CASE UNCHANGED vars
  BY <1>3 DEF vars, IInv, TypeOK, OwnState, Silent
<1> QED BY <1>1, <1>2, <1>3, SendStep, AcceptStep, AbortedStep DEF Next

(***************************************************************************)
(* The theorems                                                            *)
(***************************************************************************)
\* The inductive invariant holds in every state of the server.
THEOREM Invariance == Spec => []IInv
<1>1. Init => IInv
  BY InitInv
<1>2. IInv /\ [Next]_vars => IInv'
  BY NextInv
<1> QED BY <1>1, <1>2, PTL DEF Spec

\* host.c: connections, segments and the pool stay in their types; no more packet
\* buffers are taken or given back than there are.
THEOREM HostTypeCorrect == Spec => []TypeOK
<1>1. IInv => TypeOK
  BY DEF IInv
<1> QED BY <1>1, Invariance, PTL

\* host.c: however many connections there are and whichever callback closes them, each
\* has a con_state of its own, and only those that lwIP aborts leave theirs behind.
THEOREM StateIsOwn == Spec => []OwnState
<1>1. IInv => OwnState
  BY DEF IInv
<1> QED BY <1>1, Invariance, PTL
=============================================================================
