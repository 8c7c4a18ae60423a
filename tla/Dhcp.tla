-------------------------------- MODULE Dhcp ---------------------------------
(***************************************************************************)
(* The DHCP server of the access point (dhcpserver.c): a table of leases,  *)
(* changed by the DISCOVER and REQUEST messages of the clients and by the  *)
(* passing of time.  A message may be lost, repeated, reordered or made up *)
(* by a client: DISCOVER and REQUEST may come from any client at any time, *)
(* and a REQUEST may name any address.  Other messages, and those the      *)
(* server ignores, change nothing.                                         *)
(*                                                                         *)
(* The clock is the code's: ticks of 32 bits that wrap, and the end of a   *)
(* lease rounded down to units of 2^16 ticks and kept in 16 bits.  Unit,   *)
(* Units and Lease scale these down.                                       *)
(***************************************************************************)
EXTENDS Integers

CONSTANTS
  Macs,    \* the clients' hardware addresses
  NoMac,   \* the six zero bytes of a table entry that is free
  MaxIp,   \* DHCPS_MAX_IP: 8
  Unit,    \* ticks in a unit of expiry: 2^16
  Units,   \* units until the clock wraps: 2^16
  Lease    \* DEFAULT_LEASE_TIME_S * 1000: 86 400 000

Wrap == Unit * Units

ASSUME DhcpAssumptions ==
  /\ NoMac \notin Macs
  /\ MaxIp \in Nat
  /\ Unit \in Nat \ {0}
  /\ Units \in Nat \ {0}
  /\ Lease \in Nat \ {0}
  /\ 2 * (Lease + Unit) <= Wrap

VARIABLES
  ticks,   \* cyw43_hal_ticks_ms()
  lease,   \* dhcp_server_t.lease
  left     \* what is left of the time each client was last granted each address;
           \* it goes on counting for a Unit after the end

vars == <<ticks, lease, left>>

Ips == 0..MaxIp - 1

TypeOK ==
  /\ ticks \in 0..Wrap - 1
  /\ lease \in [Ips -> [mac : Macs \cup {NoMac}, expiry : 0..Units - 1]]
  /\ left \in [Ips -> [Macs -> -Unit..Lease]]

\* dhcp_server_init.
Init ==
  /\ ticks = 0
  /\ lease = [i \in Ips |-> [mac |-> NoMac, expiry |-> 0]]
  /\ left = [i \in Ips |-> [m \in Macs |-> -Unit]]

(***************************************************************************)
(* The server                                                              *)
(***************************************************************************)
\* Mutant of Expired: the units are not rounded up again.
Expired_early(i) ==
  (lease[i].expiry * Unit - ticks) % Wrap >= Wrap \div 2

\* The difference of two 32-bit numbers, taken as signed, is negative.
Expired(i) ==
  (lease[i].expiry * Unit + Unit - 1 - ticks) % Wrap >= Wrap \div 2

\* The entry the loop of DISCOVER stops at: the first of the client itself.
Own(m) == {i \in Ips : lease[i].mac = m /\ \A j \in 0..i - 1 : lease[j].mac # m}

\* The entry the loop picks before it stops: the first that is free or expired.
Available(m) ==
  {i \in Ips : /\ lease[i].mac = NoMac \/ Expired(i)
               /\ \A j \in 0..i : lease[j].mac # m
               /\ \A j \in 0..i - 1 : lease[j].mac # NoMac /\ ~Expired(j)}

\* What is offered: the client's own entry if it has one, or the one picked.
Offered(m) == IF Own(m) # {} THEN Own(m) ELSE Available(m)

\* The only trace a DISCOVER leaves: an expired entry that was picked is freed,
\* whether or not it is the one that is offered.
Discover(m) ==
  /\ lease' = [i \in Ips |-> IF i \in Available(m) /\ Expired(i)
                             THEN [lease[i] EXCEPT !.mac = NoMac] ELSE lease[i]]
  /\ UNCHANGED <<ticks, left>>

\* Mutant of Request: the end of the lease is not reduced to 16 bits.
Request_unwrapped(m, i) ==
  /\ lease[i].mac \in {m, NoMac}
  /\ lease' = [lease EXCEPT ![i] = [mac |-> m, expiry |-> (ticks + Lease) \div Unit]]
  /\ left' = [left EXCEPT ![i][m] = Lease]
  /\ UNCHANGED ticks

Request(m, i) ==
  /\ lease[i].mac \in {m, NoMac}
  /\ lease' = [lease EXCEPT ![i] =
                 [mac |-> m, expiry |-> ((ticks + Lease) % Wrap) \div Unit]]
  /\ left' = [left EXCEPT ![i][m] = Lease]
  /\ UNCHANGED ticks

dhcp_server_process ==
  \E m \in Macs : Discover(m) \/ \E i \in Ips : Request(m, i)

Elapse ==
  [i \in Ips |-> [m \in Macs |-> IF left[i][m] > -Unit THEN left[i][m] - 1 ELSE -Unit]]

\* Mutant of Tick: the clock stops at its largest value instead of wrapping.
Tick_saturating ==
  /\ ticks' = IF ticks + 1 < Wrap THEN ticks + 1 ELSE ticks
  /\ left' = Elapse
  /\ UNCHANGED lease

Tick ==
  /\ ticks' = (ticks + 1) % Wrap
  /\ left' = Elapse
  /\ UNCHANGED lease

Next == dhcp_server_process \/ Tick

Spec == Init /\ [][Next]_vars

\* Time passes.
FairSpec == Spec /\ WF_vars(Tick)

(***************************************************************************)
(* Properties                                                              *)
(***************************************************************************)
Held(i) == \E m \in Macs : left[i][m] > 0

\* An address that is granted to a client is neither granted nor offered to
\* another before its lease has run out, whatever the 16 bits of the expiry lose
\* and however often the clock has wrapped (dhcpserver.c, the comparison in
\* DISCOVER and the test of the hardware address in REQUEST).
Exclusive ==
  \A i \in Ips : \A m \in Macs :
    left[i][m] > 0 => /\ \A n \in Macs \ {m} : left[i][n] <= 0
                      /\ \A n \in Macs \ {m} : i \notin Offered(n)

\* An address that nobody holds any more is offered again sooner or later: an
\* expired lease may look valid for half a turn of the clock, but not for ever.
Reclaimed ==
  \A m \in Macs : (<>[](\E i \in Ips : ~Held(i))) => []<>(Offered(m) # {})

\* dhcpserver.c ignores a DISCOVER with the comment "No more IP addresses left".
\* Then there should be no address whose last lease ended a whole unit of the
\* expiry ago.  A lease that ended more than half a turn of the clock ago looks
\* valid again, and its address is not offered.
IgnoredOnlyWhenFull ==
  \A m \in Macs : Offered(m) = {} => \A i \in Ips : \E n \in Macs : left[i][n] > -Unit
=============================================================================
