---------------------------- MODULE MCCredentials ----------------------------
(***************************************************************************)
(* Credentials.tla for TLC: which strings the requests carry.              *)
(***************************************************************************)
EXTENDS Credentials

KeyOrder == <<"S", "P", "T">>

Letters == {"S", "P", "T", "=", ",", "\\", "s", "p", "t", "1", "a", "b", "e"}

RequestsOf(ssids, passes, tokens) == [S : ssids, P : passes, T : tokens]

Address == <<"1">>

\* An ssid with the text of another key's item; a password with a comma; tokens that
\* are longer than their buffer when their specials are escaped, as long as it, and
\* longer.
MixedRequests ==
  RequestsOf({<<"P", "=">>}, {<<"p", ",">>}, {<<"=", "\\">>})
    \cup RequestsOf({<<"P", "=">>}, {<<>>},
                   {[i \in 1..BufLen |-> "t"], [i \in 1..BufLen + 1 |-> "t"]})

(***************************************************************************)
(* Requests with which AsGiven, AsSent, CopyFitsAlways or HubKept fails.   *)
(***************************************************************************)
\* A password with a comma, as in test_flashmem_esc (test_flashmem.c).
CommaRequests == RequestsOf({<<"s">>}, {<<"a", ",">>}, {<<"t">>})

\* Two tokens of one length, as in test_flashmem_overwrite.
EqualRequests == RequestsOf({<<"s">>}, {<<"p">>}, {<<"a">>, <<"b">>})

\* A token as long as its buffer.
FullTokenRequests == RequestsOf({<<"s">>}, {<<"p">>}, {[i \in 1..BufLen |-> "t"]})

\* A token that fits, and whose escaped form does not.
EscapedRequests == RequestsOf({<<"s">>}, {<<"p">>}, {<<"=", "=">>})

\* Two ssids that differ in two places.
PairRequests == RequestsOf({<<"s", "s">>, <<"=", "=">>}, {<<"p">>}, {<<"t">>})
=============================================================================
