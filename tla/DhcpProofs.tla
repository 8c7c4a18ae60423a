----------------------------- MODULE DhcpProofs ------------------------------
(***************************************************************************)
(* Proofs about Dhcp.tla, for any clients, any number of addresses, any    *)
(* width of the clock and any length of a lease that is less than half a   *)
(* turn of the clock.                                                      *)
(***************************************************************************)
EXTENDS Dhcp, TLAPS

\* An address that is held is in the table with the client that holds it, and its
\* expiry is the unit in which its time ends, counted on the clock that wraps.
Recorded ==
  \A i \in Ips : \A m \in Macs :
    left[i][m] > 0 =>
      /\ lease[i].mac = m
      /\ lease[i].expiry = ((ticks + left[i][m]) % Wrap) \div Unit

IInv == TypeOK /\ Recorded

(***************************************************************************)
(* Arithmetic of a clock that wraps                                        *)
(***************************************************************************)
\* dhcpserver.c: quotient and rest of a time.
LEMMA Division ==
  ASSUME NEW a \in Int, NEW w \in Nat \ {0}
  PROVE  /\ a \div w \in Int
         /\ a % w \in 0..w - 1
         /\ a = (a \div w) * w + (a % w)
BY Z3

\* The rest is the only one.
LEMMA Rest ==
  ASSUME NEW w \in Nat \ {0}, NEW a \in Int, NEW q \in Int, NEW r \in 0..w - 1,
         a = q * w + r
  PROVE  a % w = r
<1> DEFINE p == a \div w
           s == a % w
<1>1. p \in Int /\ s \in 0..w - 1 /\ a = p * w + s
  BY Division
<1> HIDE DEF p, s
<1>2. (p - q) * w = r - s
  BY <1>1
<1>3. ~(p - q >= 1)
  <2> SUFFICES ASSUME p - q >= 1 PROVE FALSE
    OBVIOUS
  <2>1. (p - q) * w >= w
    BY <1>1
  <2> QED BY <1>1, <1>2, <2>1
<1>4. ~(q - p >= 1)
  <2> SUFFICES ASSUME q - p >= 1 PROVE FALSE
    OBVIOUS
  <2>1. (q - p) * w >= w
    BY <1>1
  <2>2. (q - p) * w = s - r
    BY <1>1
  <2> QED BY <1>1, <2>1, <2>2
<1>5. p = q
  BY <1>1, <1>3, <1>4
<1>6. s = r
  BY <1>1, <1>5
<1> QED BY <1>6 DEF s

\* Reducing a time first makes no difference.
LEMMA Shift ==
  ASSUME NEW w \in Nat \ {0}, NEW a \in Int, NEW b \in Int
  PROVE  ((a % w) + b) % w = (a + b) % w
<1> DEFINE q == a \div w
           s == a % w
           p == (a + b) \div w
           r == (a + b) % w
<1>1. q \in Int /\ s \in 0..w - 1 /\ a = q * w + s
  BY Division
<1>2. p \in Int /\ r \in 0..w - 1 /\ a + b = p * w + r
  <2>1. a + b \in Int
    OBVIOUS
  <2> QED BY <2>1, Division
<1> HIDE DEF p, q, r, s
<1>3. s + b = (p - q) * w + r
  BY <1>1, <1>2
<1>4. (s + b) % w = r
  <2>1. s + b \in Int /\ p - q \in Int
    BY <1>1, <1>2
  <2> QED BY <1>2, <1>3, <2>1, Rest
<1> QED BY <1>4 DEF r, s

\* The sizes of the clock.
LEMMA Sizes ==
  /\ Unit \in Nat \ {0} /\ Units \in Nat \ {0} /\ Lease \in Nat \ {0} /\ MaxIp \in Nat
  /\ Wrap \in Nat \ {0} /\ Wrap = Units * Unit
  /\ Lease + Unit <= Wrap \div 2
<1>1. /\ Unit \in Nat \ {0} /\ Units \in Nat \ {0} /\ Lease \in Nat \ {0} /\ MaxIp \in Nat
      /\ 2 * (Lease + Unit) <= Wrap
  BY DhcpAssumptions
<1>2. Wrap \in Nat \ {0} /\ Wrap = Units * Unit
  BY <1>1 DEF Wrap
<1>3. Lease + Unit <= Wrap \div 2
  <2> HIDE DEF Wrap
  <2> QED BY <1>1, <1>2
<1> QED BY <1>1, <1>2, <1>3

\* The 16 bits of the expiry hold the unit of any time.
LEMMA ExpiryType ==
  ASSUME NEW t \in Int
  PROVE  (t % Wrap) \div Unit \in 0..Units - 1
<1> DEFINE e == t % Wrap
           u == e \div Unit
<1>1. e \in 0..Wrap - 1 /\ e \in Int
  BY Sizes, Division
<1> HIDE DEF e
<1>2. u \in Int /\ e % Unit \in 0..Unit - 1 /\ e = u * Unit + (e % Unit)
  BY <1>1, Sizes, Division
<1> HIDE DEF u
<1>3. ~(u >= Units)
  <2> SUFFICES ASSUME u >= Units PROVE FALSE
    OBVIOUS
  <2>1. u * Unit >= Units * Unit
    BY <1>2, Sizes
  <2>2. u * Unit <= e /\ e < Units * Unit
    BY <1>1, <1>2, Sizes
  <2> QED BY <1>1, <1>2, <2>1, <2>2, Sizes
<1>4. ~(u < 0)
  <2> SUFFICES ASSUME u <= -1 PROVE FALSE
    BY <1>2
  <2>1. u * Unit <= -Unit
    BY <1>2, Sizes
  <2> QED BY <1>1, <1>2, <2>1, Sizes
<1>5. u \in 0..Units - 1
  BY <1>2, <1>3, <1>4, Sizes
<1> QED BY <1>5 DEF u, e

\* dhcpserver.c, DISCOVER: what is lost of a time by rounding it down to a unit is
\* less than what the comparison adds, and the sum is less than half a turn.
LEMMA NotYetExpired ==
  ASSUME IInv, NEW i \in Ips, NEW m \in Macs, left[i][m] > 0
  PROVE  ~Expired(i)
<1> DEFINE n == left[i][m]
           t == ticks
           e == (t + n) % Wrap
           u == e \div Unit
           q == (t + n) \div Wrap
           d == u * Unit + Unit - 1 - t
           r == n + Unit - 1 - (e % Unit)
<1>1. n \in Int /\ n > 0 /\ n <= Lease /\ t \in 0..Wrap - 1 /\ t \in Int
  BY Sizes DEF IInv, TypeOK
<1>2. lease[i].expiry = u
  BY DEF IInv, Recorded
<1> HIDE DEF n, t
<1>3. q \in Int /\ e \in 0..Wrap - 1 /\ t + n = q * Wrap + e
  <2>1. t + n \in Int
    BY <1>1
  <2> QED BY <2>1, Sizes, Division
<1> HIDE DEF e, q
<1>4. u \in Int /\ e % Unit \in 0..Unit - 1 /\ e = u * Unit + (e % Unit)
  BY <1>3, Sizes, Division
<1> DEFINE f == e % Unit
<1>5. f \in 0..Unit - 1 /\ e = u * Unit + f /\ r = n + Unit - 1 - f
  BY <1>4
<1> HIDE DEF f, r, u
<1>6. r \in 0..Wrap - 1 /\ r < Wrap \div 2
  <2>1. Wrap \in Nat /\ Wrap \div 2 \in Nat /\ Wrap \div 2 <= Wrap
    BY Sizes
  <2> QED BY <1>1, <1>5, <2>1, Sizes
<1>7. d \in Int /\ -q \in Int /\ u * Unit \in Int /\ q * Wrap \in Int
  BY <1>1, <1>3, <1>4, Sizes
<1>8. d = (-q) * Wrap + r
  <2>1. (-q) * Wrap = -(q * Wrap)
    BY <1>3, Sizes
  <2> QED BY <1>1, <1>3, <1>5, <1>7, <2>1, Sizes
<1>9. d % Wrap = r
  <2> HIDE DEF d
  <2> QED BY <1>6, <1>7, <1>8, Sizes, Rest
<1>10. Expired(i) <=> d % Wrap >= Wrap \div 2
  BY <1>2 DEF Expired, t
<1>11. ~(r >= Wrap \div 2)
  <2>1. Wrap \div 2 \in Int
    BY Sizes
  <2> QED BY <1>6, <2>1
<1> QED BY <1>9, <1>10, <1>11

(***************************************************************************)
(* The invariant                                                           *)
(***************************************************************************)
\* dhcp_server_init: nobody holds an address.
LEMMA InitInv ==
  ASSUME Init
  PROVE  IInv
<1>1. 0 \in 0..Wrap - 1 /\ 0 \in 0..Units - 1 /\ -Unit \in -Unit..Lease /\ ~(-Unit > 0)
  BY Sizes
<1>2. TypeOK
  BY <1>1 DEF Init, TypeOK
<1>3. Recorded
  BY <1>1 DEF Init, Recorded
<1> QED BY <1>2, <1>3 DEF IInv

\* DISCOVER frees only an entry whose time is over.
LEMMA DiscoverStep ==
  ASSUME IInv, NEW m \in Macs, Discover(m)
  PROVE  IInv'
<1>1. TypeOK'
  BY DEF IInv, TypeOK, Discover
<1>2. ASSUME NEW i \in Ips, NEW n \in Macs, left[i][n] > 0
      PROVE  lease'[i] = lease[i]
  <2>1. ~Expired(i)
    BY <1>2, NotYetExpired
  <2> QED BY <2>1 DEF Discover
<1>3. ticks' = ticks /\ left' = left
  BY DEF Discover
<1>4. Recorded'
  BY <1>2, <1>3 DEF IInv, Recorded
<1> QED BY <1>1, <1>4 DEF IInv

\* REQUEST is refused for an entry of another client, and so the client that holds
\* an address is the only one it is granted to.
LEMMA RequestStep ==
  ASSUME IInv, NEW m \in Macs, NEW i \in Ips, Request(m, i)
  PROVE  IInv'
<1> DEFINE unit == ((ticks + Lease) % Wrap) \div Unit
<1>1. /\ lease[i].mac \in {m, NoMac}
      /\ lease' = [lease EXCEPT ![i] = [mac |-> m, expiry |-> unit]]
      /\ left' = [left EXCEPT ![i][m] = Lease]
      /\ ticks' = ticks
  BY DEF Request
<1>2. unit \in 0..Units - 1
  <2>1. ticks + Lease \in Int
    BY Sizes DEF IInv, TypeOK
  <2> QED BY <2>1, ExpiryType
<1> HIDE DEF unit
<1>3. TypeOK'
  <2>1. Lease \in -Unit..Lease
    BY Sizes
  <2> QED BY <1>1, <1>2, <2>1 DEF IInv, TypeOK
<1>4. ASSUME NEW j \in Ips, NEW n \in Macs, left'[j][n] > 0
      PROVE  /\ lease'[j].mac = n
             /\ lease'[j].expiry = ((ticks + left'[j][n]) % Wrap) \div Unit
  <2>1. CASE j # i
    BY <1>1, <1>4, <2>1 DEF IInv, TypeOK, Recorded
  <2>2. CASE j = i /\ n = m
    <3>1. left'[j][n] = Lease /\ lease'[j] = [mac |-> m, expiry |-> unit]
      BY <1>1, <2>2 DEF IInv, TypeOK
    <3> QED BY <2>2, <3>1 DEF unit
  <2>3. CASE j = i /\ n # m
    <3>1. left[i][n] > 0
      BY <1>1, <1>4, <2>3 DEF IInv, TypeOK
    <3>2. lease[i].mac = n
      BY <3>1 DEF IInv, Recorded
    <3> QED BY <1>1, <2>3, <3>2, DhcpAssumptions
  <2> QED BY <2>1, <2>2, <2>3
<1>5. Recorded'
  BY <1>1, <1>4 DEF Recorded
<1> QED BY <1>3, <1>5 DEF IInv

\* While time passes, the end of a lease stays where it is, across the wrap too.
LEMMA TickStep ==
  ASSUME IInv, Tick
  PROVE  IInv'
<1>1. ticks \in Int /\ ticks' = (ticks + 1) % Wrap /\ left' = Elapse /\ lease' = lease
  BY Sizes DEF IInv, TypeOK, Tick
<1>2. ticks' \in 0..Wrap - 1
  <2>1. ticks + 1 \in Int
    BY <1>1
  <2> QED BY <1>1, <2>1, Sizes, Division
<1>3. ASSUME NEW i \in Ips, NEW m \in Macs
      PROVE  /\ left[i][m] \in -Unit..Lease
             /\ left'[i][m] = IF left[i][m] > -Unit THEN left[i][m] - 1 ELSE -Unit
  BY <1>1 DEF IInv, TypeOK, Elapse
<1>4. left' \in [Ips -> [Macs -> -Unit..Lease]]
  <2>1. \A x \in -Unit..Lease : (IF x > -Unit THEN x - 1 ELSE -Unit) \in -Unit..Lease
    BY Sizes
  <2> QED BY <1>1, <2>1 DEF IInv, TypeOK, Elapse
<1>5. TypeOK'
  BY <1>1, <1>2, <1>4 DEF IInv, TypeOK
<1>6. ASSUME NEW i \in Ips, NEW m \in Macs, left'[i][m] > 0
      PROVE  /\ lease'[i].mac = m
             /\ lease'[i].expiry = ((ticks' + left'[i][m]) % Wrap) \div Unit
  <2> DEFINE n == left[i][m]
  <2>1. n \in Int /\ n > 0 /\ left'[i][m] = n - 1
    BY <1>3, <1>6, Sizes
  <2>2. lease[i].mac = m /\ lease[i].expiry = ((ticks + n) % Wrap) \div Unit
    BY <2>1 DEF IInv, Recorded
  <2> HIDE DEF n
  <2>3. (((ticks + 1) % Wrap) + (n - 1)) % Wrap = (ticks + n) % Wrap
    <3>1. ticks + 1 \in Int /\ n - 1 \in Int /\ (ticks + 1) + (n - 1) = ticks + n
      BY <1>1, <2>1
    <3>2. (((ticks + 1) % Wrap) + (n - 1)) % Wrap = ((ticks + 1) + (n - 1)) % Wrap
      BY <3>1, Sizes, Shift
    <3> QED BY <3>1, <3>2
  <2> QED BY <1>1, <2>1, <2>2, <2>3
<1>7. Recorded'
  BY <1>6 DEF Recorded
<1> QED BY <1>5, <1>7 DEF IInv

LEMMA NextInv ==
  ASSUME IInv, [Next]_vars
  PROVE  IInv'
<1>1. CASE UNCHANGED vars
  BY <1>1 DEF vars, IInv, TypeOK, Recorded
<1> QED BY <1>1, DiscoverStep, RequestStep, TickStep DEF Next, dhcp_server_process

LEMMA InvExclusive ==
  ASSUME IInv
  PROVE  Exclusive
<1> SUFFICES ASSUME NEW i \in Ips, NEW m \in Macs, left[i][m] > 0, NEW n \in Macs \ {m}
             PROVE  left[i][n] <= 0 /\ i \notin Offered(n)
  BY DEF Exclusive
<1>1. lease[i].mac = m /\ m # NoMac /\ m # n
  BY DhcpAssumptions DEF IInv, Recorded
<1>2. left[i][n] <= 0
  <2>1. left[i][n] \in -Unit..Lease /\ ~(left[i][n] > 0)
    BY <1>1 DEF IInv, TypeOK, Recorded
  <2> QED BY <2>1, Sizes
<1>3. i \notin Own(n)
  BY <1>1 DEF Own
<1>4. i \notin Available(n)
  BY <1>1, NotYetExpired DEF Available
<1> QED BY <1>2, <1>3, <1>4 DEF Offered

(***************************************************************************)
(* The theorems                                                            *)
(***************************************************************************)
\* dhcpserver.c: the clock and the table stay in their 32 and 16 bits.
THEOREM DhcpTypeCorrect == Spec => []TypeOK
<1>1. Init => IInv
  BY InitInv
<1>2. IInv /\ [Next]_vars => IInv'
  BY NextInv
<1>3. IInv => TypeOK
  BY DEF IInv
<1> QED BY <1>1, <1>2, <1>3, PTL DEF Spec

\* dhcpserver.c: whatever messages the clients send and however often the clock
\* wraps, an address that is held is neither granted nor offered to another.
THEOREM LeasesAreExclusive == Spec => []Exclusive
<1>1. Init => IInv
  BY InitInv
<1>2. IInv /\ [Next]_vars => IInv'
  BY NextInv
<1>3. IInv => Exclusive
  BY InvExclusive
<1> QED BY <1>1, <1>2, <1>3, PTL DEF Spec
=============================================================================
