-------------------------------- MODULE Host ---------------------------------
(***************************************************************************)
(* The provisioning server (host.c): the TCP connections of the access     *)
(* point, the con_state each of them owns, and the packet buffers that the *)
(* received segments occupy.  Every action is one callback of lwIP, which  *)
(* runs them one at a time, with all the calls it makes.                   *)
(*                                                                         *)
(* A provisioning request is three parts: the line "POST /provision", the  *)
(* empty line behind the headers, and the body.  It arrives cut into       *)
(* segments; lwIP hands over one segment, or a chain of several when they  *)
(* came out of order.  Credentials.tla is about what the body contains:    *)
(* here it is good or bad.  Any other request has no body.                 *)
(***************************************************************************)
EXTENDS Integers, Sequences, FiniteSets, SequencesExt

CONSTANTS
  Conns,     \* connections that may be open at a time
  Cuts,      \* where a client may cut a request: sets of parts that end a segment
  PoolSize,  \* PBUF_POOL_SIZE: 24
  MaxBad,    \* how many requests arrive that may be answered with 400
  States,    \* blocks of the heap for a con_state
  NoState,   \* NULL
  MaxAborts  \* how many connections lwIP aborts itself

ASSUME HostAssumptions ==
  /\ \A cut \in Cuts : cut \subseteq {1, 2}
  /\ PoolSize \in Nat \ {0}
  /\ MaxBad \in Nat
  /\ NoState \notin States

Requests == {"good", "bad", "other"}

Parts == {"post", "get", "blank", "good", "bad"}

VARIABLES
  open,       \* the connections that lwIP has an established pcb for
  con_state,  \* the argument of the callbacks of each connection
  allocated,  \* the blocks that calloc has given and free has not taken back
  leaked,     \* the blocks whose connection lwIP has aborted itself
  inbox,      \* the segments sent on a connection and not yet handed over
  asked,      \* the request sent on a connection
  pool,       \* packet buffers that are free
  residue,    \* the segments whose buffers went back to the pool
  bad,        \* requests with a bad body or in several segments, sent so far
  refused,    \* the requests that were answered with 400
  configd     \* ctx->wifi_configd

vars == <<open, con_state, allocated, leaked, inbox, asked, pool, residue, bad, refused, configd>>

TypeOK ==
  /\ open \subseteq Conns
  /\ con_state \in [Conns -> States \cup {NoState}]
  /\ allocated \subseteq States
  /\ leaked \subseteq States
  /\ inbox \in [Conns -> Seq(Seq(Parts))]
  /\ asked \in [Conns -> Requests \cup {"nothing"}]
  /\ pool \in 0..PoolSize
  /\ residue \subseteq Seq(Parts)
  /\ bad \in 0..MaxBad
  /\ refused \subseteq Requests
  /\ configd \in BOOLEAN

\* tcp_server_open has succeeded.
Init ==
  /\ open = {}
  /\ con_state = [c \in Conns |-> NoState]
  /\ allocated = {}
  /\ leaked = {}
  /\ inbox = [c \in Conns |-> <<>>]
  /\ asked = [c \in Conns |-> "nothing"]
  /\ pool = PoolSize
  /\ residue = {}
  /\ bad = 0
  /\ refused = {}
  /\ configd = FALSE

(***************************************************************************)
(* Clients                                                                 *)
(***************************************************************************)
\* The segments of a request that is cut behind some of its parts.
Segments(request, cut) ==
  LET parts  == IF request = "other" THEN <<"get", "blank">> ELSE <<"post", "blank", request>>
      first  == IF 1 \in cut THEN 1 ELSE IF 2 \in cut THEN 2 ELSE Len(parts)
      second == IF first = 1 /\ 2 \in cut THEN 2 ELSE Len(parts)
      segment(i, j) == IF i > j THEN <<>> ELSE <<SubSeq(parts, i, j)>>
  IN segment(1, first) \o segment(first + 1, second) \o segment(second + 1, Len(parts))

\* A request that may be answered with 400.
Doubtful(request, cut) == request = "bad" \/ (request = "good" /\ cut # {})

Send(c, request, cut) ==
  /\ c \in open /\ asked[c] = "nothing"
  /\ Doubtful(request, cut) => bad < MaxBad
  /\ bad' = IF Doubtful(request, cut) THEN bad + 1 ELSE bad
  /\ asked' = [asked EXCEPT ![c] = request]
  /\ inbox' = [inbox EXCEPT ![c] = Segments(request, cut)]
  /\ UNCHANGED <<open, con_state, allocated, leaked, pool, residue, refused, configd>>

(***************************************************************************)
(* The server                                                              *)
(***************************************************************************)
\* calloc may fail: then lwIP drops the connection and nothing changes.  This
\* and every other packet needs a buffer while it is handled.
tcp_server_accept(c) ==
  /\ c \notin open /\ pool > 0
  /\ \E s \in States \ allocated :
       /\ con_state' = [con_state EXCEPT ![c] = s]
       /\ allocated' = allocated \cup {s}
  /\ open' = open \cup {c}
  /\ UNCHANGED <<leaked, inbox, asked, pool, residue, bad, refused, configd>>

\* Mutant of tcp_close_client_connection: the callbacks stay on the connection.
tcp_close_client_connection_attached(c) ==
  /\ allocated' = allocated \ {con_state[c]}
  /\ UNCHANGED <<open, con_state, leaked>>
  /\ inbox' = [inbox EXCEPT ![c] = <<>>]
  /\ asked' = [asked EXCEPT ![c] = "nothing"]

\* tcp_close, or tcp_abort when that fails: the callbacks are taken off and
\* con_state is freed in either case.
tcp_close_client_connection(c) ==
  /\ open' = open \ {c}
  /\ con_state' = [con_state EXCEPT ![c] = NoState]
  /\ allocated' = allocated \ {con_state[c]}
  /\ leaked' = leaked
  /\ inbox' = [inbox EXCEPT ![c] = <<>>]
  /\ asked' = [asked EXCEPT ![c] = "nothing"]

\* What strstr sees from p->payload on: the first segment of the chain, which no
\* terminator follows, and what an earlier segment may have left behind it in
\* the same buffer.
PayloadTexts(segment) ==
  {segment} \cup UNION {{segment \o SubSeq(s, i, Len(s)) : i \in 1..3} : s \in residue}

HasBlank(text) == "blank" \in ToSet(text)

EndOfHeaders(text) == SelectInSeq(text, LAMBDA part : part = "blank")

\* What follows the empty line.
Json(text) == SubSeq(text, EndOfHeaders(text) + 1, Len(text))

\* parse_wifi_credentials.
Parsed(text) == "good" \in ToSet(Json(text))

\* Mutant of Answered: the flag is not set.
Answered_unflagged(c, n, text) ==
  /\ refused' = IF Parsed(text) THEN refused ELSE refused \cup {asked[c]}
  /\ pool' = pool - n
  /\ tcp_close_client_connection(c)
  /\ UNCHANGED <<residue, bad, configd>>

\* The request is answered, with 200 or with 400, and the connection is closed.
\* The n buffers of the chain are not freed.
Answered(c, n, text) ==
  /\ configd' = (configd \/ Parsed(text))
  /\ refused' = IF Parsed(text) THEN refused ELSE refused \cup {asked[c]}
  /\ pool' = pool - n
  /\ tcp_close_client_connection(c)
  /\ UNCHANGED <<residue, bad>>

\* Mutant of Ignored: the buffers are freed once more.
Ignored_twice(c, n) ==
  /\ pool' = pool + n
  /\ inbox' = [inbox EXCEPT ![c] = SubSeq(@, n + 1, Len(@))]
  /\ residue' = residue \cup ToSet(SubSeq(inbox[c], 1, n))
  /\ UNCHANGED <<open, con_state, allocated, leaked, asked, bad, refused, configd>>

\* Anything else is acknowledged and its buffers are freed.
Ignored(c, n) ==
  /\ inbox' = [inbox EXCEPT ![c] = SubSeq(@, n + 1, Len(@))]
  /\ residue' = residue \cup ToSet(SubSeq(inbox[c], 1, n))
  /\ UNCHANGED <<open, con_state, allocated, leaked, asked, pool, bad, refused, configd>>

\* The method and the path are looked for in the copy of the whole chain, the
\* rest in its first buffer.
tcp_server_recv(c, n) ==
  /\ c \in open
  /\ n <= Len(inbox[c]) /\ n <= pool
  /\ \E text \in PayloadTexts(inbox[c][1]) :
       IF inbox[c][1][1] = "post" /\ HasBlank(text) THEN Answered(c, n, text)
       ELSE Ignored(c, n)

\* p is NULL: the client has closed the connection.
tcp_server_recv_closed(c) ==
  /\ c \in open /\ inbox[c] = <<>> /\ pool > 0
  /\ tcp_close_client_connection(c)
  /\ UNCHANGED <<pool, residue, bad, refused, configd>>

\* Mutant of tcp_server_poll: a connection that has sent something is left alone.
tcp_server_poll_idle(c) ==
  /\ c \in open /\ asked[c] = "nothing"
  /\ tcp_close_client_connection(c)
  /\ UNCHANGED <<pool, residue, bad, refused, configd>>

\* Five seconds have passed.
tcp_server_poll(c) ==
  /\ c \in open
  /\ tcp_close_client_connection(c)
  /\ UNCHANGED <<pool, residue, bad, refused, configd>>

\* ERR_RST: the client has reset the connection.
tcp_server_err(c) ==
  /\ c \in open /\ pool > 0
  /\ tcp_close_client_connection(c)
  /\ UNCHANGED <<pool, residue, bad, refused, configd>>

\* ERR_ABRT: lwIP has aborted the connection itself, because what was sent is
\* never acknowledged or because it needs the pcb.  The callback does nothing, and
\* nothing points at con_state any more.
tcp_server_err_aborted(c) ==
  /\ c \in open /\ Cardinality(leaked) < MaxAborts
  /\ open' = open \ {c}
  /\ con_state' = [con_state EXCEPT ![c] = NoState]
  /\ leaked' = leaked \cup {con_state[c]}
  /\ inbox' = [inbox EXCEPT ![c] = <<>>]
  /\ asked' = [asked EXCEPT ![c] = "nothing"]
  /\ UNCHANGED <<allocated, pool, residue, bad, refused, configd>>

Recv(c) == \E n \in 1..3 : tcp_server_recv(c, n)

Next ==
  \E c \in Conns :
    \/ \E request \in Requests, cut \in Cuts : Send(c, request, cut)
    \/ tcp_server_accept(c)
    \/ Recv(c)
    \/ tcp_server_recv_closed(c)
    \/ tcp_server_poll(c)
    \/ tcp_server_err(c)
    \/ tcp_server_err_aborted(c)

Spec == Init /\ [][Next]_vars

\* The phone keeps trying: it connects again and sends a good request, in one
\* segment, again and again.  lwIP runs the poll timer of every connection, and hands over what
\* has arrived: a connection may be closed before its good request is handed
\* over, but not every time.
FairSpec ==
  /\ Spec
  /\ \A c \in Conns : /\ WF_vars(tcp_server_accept(c))
                      /\ SF_vars(Send(c, "good", {}))
                      /\ WF_vars(tcp_server_poll(c))
                      /\ SF_vars(asked[c] = "good" /\ Recv(c))

(***************************************************************************)
(* Properties                                                              *)
(***************************************************************************)
\* The assertions of tcp_close_client_connection and tcp_server_recv: a callback
\* finds a con_state that is allocated and no other connection's, and a con_state
\* outlives its connection only when lwIP aborts the connection itself.
OwnState ==
  /\ \A c \in open : con_state[c] \in allocated \ leaked
  /\ \A c, d \in open : con_state[c] = con_state[d] => c = d
  /\ allocated = {con_state[c] : c \in open} \cup leaked

\* Claimed by a test by hand only: a request with a good body is never answered with
\* 400 (tcp_server_recv, the search for the body in the first buffer of the chain).
GoodNotRefused == "good" \notin refused

\* Every connection ends, though its client may neither send nor close
\* (tcp_server_poll).
ConnectionEnds == \A c \in Conns : c \in open ~> c \notin open

\* A phone that keeps trying is heard, though connections are reset, closed by
\* the poll timer and taken by others (tcp_server_recv).
Heard == <>configd
=============================================================================
