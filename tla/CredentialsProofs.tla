------------------------- MODULE CredentialsProofs ---------------------------
(***************************************************************************)
(* Proofs about Credentials.tla and FlashCodec.tla, for strings of any     *)
(* characters and any length.                                              *)
(***************************************************************************)
EXTENDS Credentials, SequenceTheorems, WellFoundedInduction, TLAPS

(***************************************************************************)
(* Natural numbers                                                         *)
(***************************************************************************)
\* The loops and searches of flashmem.c run from the first character on: a set of
\* positions has a first one.
LEMMA First ==
  ASSUME NEW T \in SUBSET Nat, T # {}
  PROVE  \E x \in T : \A y \in T : x <= y
<1> DEFINE R == OpToRel(<, Nat)
<1>1. IsWellFoundedOn(R, Nat)
  BY NatLessThanWellFounded
<1>2. \A x, y \in Nat : x < y => <<x, y>> \in R
  BY DEF OpToRel
<1> HIDE DEF R
<1>3. PICK x \in T : \A y \in T : ~(<<y, x>> \in R)
  BY <1>1, WFMin
<1>4. ASSUME NEW y \in T
      PROVE  x <= y
  <2>1. x \in Nat /\ y \in Nat /\ ~(y < x)
    BY <1>2, <1>3
  <2> QED BY <2>1
<1> QED BY <1>4

\* Induction, for a set.
LEMMA Induction ==
  ASSUME NEW T, 0 \in T, \A n \in Nat : n \in T => n + 1 \in T
  PROVE  Nat \subseteq T
<1> SUFFICES ASSUME Nat \ T # {} PROVE FALSE
  OBVIOUS
<1>1. PICK x \in Nat \ T : \A y \in Nat \ T : x <= y
  BY First
<1>2. x # 0 /\ x \in Nat
  OBVIOUS
<1>3. x - 1 \in Nat
  BY <1>2
<1>4. x - 1 \in T
  BY <1>1, <1>3
<1>5. (x - 1) + 1 \in T /\ (x - 1) + 1 = x
  BY <1>2, <1>3, <1>4
<1> QED BY <1>5

\* strstr, the search for a comma, strlen: what the first position is.
LEMMA MinIs ==
  ASSUME NEW T \in SUBSET Nat, T # {}
  PROVE  Min(T) \in T /\ \A y \in T : Min(T) <= y
<1>1. \E x \in T : \A y \in T : x <= y
  BY First
<1>2. Min(T) = CHOOSE x \in T : \A y \in T : x <= y
  BY Zenon DEF Min
<1> QED BY <1>1, <1>2, Zenon

(***************************************************************************)
(* Escapes                                                                 *)
(***************************************************************************)
\* flashmem.c: the equation that FlattenSeq solves has a solution.
LEMMA FlattenExists ==
  ASSUME NEW p, NEW m \in Nat
  PROVE  \E g : g = [i \in 1..m |-> IF i = 1 THEN p[i] ELSE g[i - 1] \o p[i]]
<1> DEFINE T == {n \in Nat : \E g : g = [i \in 1..n |-> IF i = 1 THEN p[i] ELSE g[i - 1] \o p[i]]}
<1>1. 0 \in T
  <2> DEFINE z == [i \in 1..0 |-> 0]
  <2>1. z = [i \in 1..0 |-> IF i = 1 THEN p[i] ELSE z[i - 1] \o p[i]]
    OBVIOUS
  <2> QED BY <2>1
<1>2. ASSUME NEW n \in Nat, n \in T
      PROVE  n + 1 \in T
  <2>1. PICK g : g = [i \in 1..n |-> IF i = 1 THEN p[i] ELSE g[i - 1] \o p[i]]
    BY <1>2
  <2> DEFINE next == IF n + 1 = 1 THEN p[n + 1] ELSE g[n] \o p[n + 1]
             h    == [i \in 1..n + 1 |-> IF i = n + 1 THEN next ELSE g[i]]
  <2>2. ASSUME NEW i \in 1..n + 1
        PROVE  h[i] = IF i = 1 THEN p[i] ELSE h[i - 1] \o p[i]
    <3>1. CASE i = n + 1
      <4>1. n # 0 => h[n] = g[n]
        OBVIOUS
      <4> QED BY <3>1, <4>1
    <3>2. CASE i # n + 1
      <4>1. i \in 1..n
        BY <3>2
      <4>2. g[i] = IF i = 1 THEN p[i] ELSE g[i - 1] \o p[i]
        BY <2>1, <4>1
      <4>3. i # 1 => h[i - 1] = g[i - 1]
        BY <4>1
      <4>4. h[i] = g[i]
        BY <4>1
      <4> HIDE DEF h
      <4> QED BY <4>2, <4>3, <4>4
    <3> QED BY <3>1, <3>2
  <2>3. h = [i \in 1..n + 1 |-> h[i]]
    OBVIOUS
  <2> HIDE DEF h
  <2>4. h = [i \in 1..n + 1 |-> IF i = 1 THEN p[i] ELSE h[i - 1] \o p[i]]
    BY <2>2, <2>3
  <2>5. n + 1 \in Nat
    OBVIOUS
  <2> QED BY <2>4, <2>5, Zenon
<1> HIDE DEF T
<1>3. m \in T
  BY <1>1, <1>2, Induction
<1> QED BY <1>3 DEF T

\* flashmem.c, esc_chars: what the loop has written after each character.
LEMMA FlattenIs ==
  ASSUME NEW p, Len(p) \in Nat \ {0}
  PROVE  \E g : /\ FlattenSeq(p) = g[Len(p)]
                /\ g[1] = p[1]
                /\ \A i \in 2..Len(p) : g[i] = g[i - 1] \o p[i]
<1> DEFINE m    == Len(p)
           e(g) == [i \in 1..m |-> IF i = 1 THEN p[i] ELSE g[i - 1] \o p[i]]
           f    == CHOOSE g : g = e(g)
<1>1. \E g : g = e(g)
  BY FlattenExists
<1>2. f = e(f)
  BY <1>1, Zenon
<1>3. FlattenSeq(p) = f[m]
  BY DEF FlattenSeq
<1> HIDE DEF f
<1>4. \A i \in 1..m : f[i] = IF i = 1 THEN p[i] ELSE f[i - 1] \o p[i]
  BY <1>2, Zenon
<1>5. 1 \in 1..m /\ \A i \in 2..m : i \in 1..m /\ i # 1
  OBVIOUS
<1>6. f[1] = p[1]
  BY <1>4, <1>5, Zenon
<1>7. ASSUME NEW i \in 2..m
      PROVE  f[i] = f[i - 1] \o p[i]
  <2>1. i \in 1..m /\ i # 1
    BY <1>5
  <2> QED BY <1>4, <2>1, Zenon
<1> QED BY <1>3, <1>6, <1>7, Zenon

\* What esc_chars writes for a character.
Piece(c) == IF c \in Special THEN <<"\\", c>> ELSE <<c>>

\* The alphabet of an escaped text.
Esc(A) == A \cup {"\\"}

LEMMA PieceType ==
  ASSUME NEW A, NEW c \in A
  PROVE  /\ Piece(c) \in Seq(Esc(A))
         /\ c \in Special => Len(Piece(c)) = 2 /\ Piece(c)[1] = "\\" /\ Piece(c)[2] = c
         /\ c \notin Special => Len(Piece(c)) = 1 /\ Piece(c)[1] = c
BY DEF Piece, Esc

\* flashmem.c, esc_chars: what is written after each character.
LEMMA EscSteps ==
  ASSUME NEW A, NEW v \in Seq(A)
  PROVE  \E h \in [0..Len(v) -> Seq(Esc(A))] :
            /\ h[0] = <<>>
            /\ \A i \in 1..Len(v) : h[i] = h[i - 1] \o Piece(v[i])
            /\ esc_chars(v) = h[Len(v)]
<1> DEFINE N == Len(v)
           p == [i \in DOMAIN v |-> IF v[i] \in Special THEN <<"\\", v[i]>> ELSE <<v[i]>>]
<1>1. N \in Nat /\ DOMAIN v = 1..N
  BY LenProperties
<1>2. \A i \in 1..N : v[i] \in A /\ p[i] = Piece(v[i]) /\ p[i] \in Seq(Esc(A))
  <2>1. ASSUME NEW i \in 1..N
        PROVE  v[i] \in A /\ p[i] = Piece(v[i])
    BY <1>1 DEF Piece
  <2> QED BY <2>1, PieceType
<1>3. Len(p) = N
  BY <1>1
<1>4. esc_chars(v) = FlattenSeq(p)
  BY Zenon DEF esc_chars
<1> HIDE DEF p
<1>5. CASE N = 0
  <2>1. p = <<>>
    BY <1>1, <1>5 DEF p
  <2>2. FlattenSeq(p) = <<>>
    BY <2>1 DEF FlattenSeq
  <2> DEFINE h == [i \in 0..N |-> <<>>]
  <2>3. h \in [0..N -> Seq(Esc(A))] /\ h[0] = <<>> /\ h[N] = <<>>
    BY <1>5
  <2>4. 1..N = {}
    BY <1>5
  <2> HIDE DEF h
  <2> QED BY <1>4, <2>2, <2>3, <2>4
<1>6. CASE N # 0
  <2>1. PICK g : /\ FlattenSeq(p) = g[N]
                 /\ g[1] = p[1]
                 /\ \A i \in 2..N : g[i] = g[i - 1] \o p[i]
    <3>1. Len(p) \in Nat \ {0}
      BY <1>1, <1>3, <1>6
    <3> HIDE DEF N
    <3> QED BY <1>3, <3>1, FlattenIs
  <2> DEFINE h == [i \in 0..N |-> IF i = 0 THEN <<>> ELSE g[i]]
  <2>2. \A i \in 0..N : h[i] = IF i = 0 THEN <<>> ELSE g[i]
    OBVIOUS
  <2>3. h[0] = <<>> /\ DOMAIN h = 0..N /\ h[N] = g[N]
    BY <1>1, <1>6
  <2>4. h = [i \in 0..N |-> h[i]]
    OBVIOUS
  <2> HIDE DEF h
  <2>5. ASSUME NEW i \in 1..N
        PROVE  h[i] = h[i - 1] \o Piece(v[i])
    <3>1. CASE i = 1
      <4>1. h[i] = p[1] /\ h[i - 1] = <<>>
        BY <1>1, <2>1, <2>2, <3>1
      <4>2. p[1] = <<>> \o p[1]
        BY <1>2, <3>1, ConcatEmptySeq
      <4> QED BY <1>2, <3>1, <4>1, <4>2
    <3>2. CASE i # 1
      <4>1. i \in 2..N /\ i \in 0..N /\ i - 1 \in 0..N /\ i # 0 /\ i - 1 # 0
        BY <1>1, <3>2
      <4>2. h[i] = g[i] /\ h[i - 1] = g[i - 1]
        BY <2>2, <4>1
      <4> QED BY <1>2, <2>1, <4>1, <4>2
    <3> QED BY <3>1, <3>2
  <2> DEFINE T == {n \in Nat : n <= N => h[n] \in Seq(Esc(A))}
  <2>6. 0 \in T
    BY <2>3
  <2>7. ASSUME NEW n \in Nat, n \in T
        PROVE  n + 1 \in T
    <3>1. CASE n + 1 <= N
      <4>1. n + 1 \in 1..N /\ h[n] \in Seq(Esc(A)) /\ (n + 1) - 1 = n
        BY <1>1, <2>7, <3>1
      <4>2. h[n + 1] = h[n] \o Piece(v[n + 1]) /\ Piece(v[n + 1]) \in Seq(Esc(A))
        BY <1>2, <2>5, <4>1
      <4>3. h[n + 1] \in Seq(Esc(A))
        BY <4>1, <4>2, ConcatProperties
      <4> QED BY <4>3
    <3>2. CASE ~(n + 1 <= N)
      BY <3>2
    <3> QED BY <3>1, <3>2
  <2> HIDE DEF T
  <2>8. Nat \subseteq T
    BY <2>6, <2>7, Induction
  <2>9. h \in [0..N -> Seq(Esc(A))]
    <3>1. \A i \in 0..N : h[i] \in Seq(Esc(A))
      BY <1>1, <2>8 DEF T
    <3> QED BY <2>4, <3>1
  <2>10. esc_chars(v) = h[N]
    BY <1>4, <2>1, <2>3
  <2> QED BY <2>3, <2>5, <2>9, <2>10
<1> QED BY <1>5, <1>6

\* Every '=' in an escaped text is behind an escape character.
Shape(e) == \A n \in 1..Len(e) : e[n] = "=" => n > 1 /\ e[n - 1] = "\\"

LEMMA ConcatShape ==
  ASSUME NEW A, NEW a \in Seq(A), NEW b \in Seq(A), Shape(a), Shape(b)
  PROVE  Shape(a \o b)
<1> DEFINE e == a \o b
<1>1. /\ Len(a) \in Nat /\ Len(b) \in Nat /\ Len(e) = Len(a) + Len(b)
      /\ \A i \in 1..Len(a) + Len(b) : e[i] = IF i <= Len(a) THEN a[i] ELSE b[i - Len(a)]
  BY ConcatProperties
<1> HIDE DEF e
<1>2. ASSUME NEW n \in 1..Len(e), e[n] = "="
      PROVE  n > 1 /\ e[n - 1] = "\\"
  <2>1. CASE n <= Len(a)
    <3>1. n \in 1..Len(a) /\ a[n] = "="
      BY <1>1, <1>2, <2>1
    <3>2. n > 1 /\ a[n - 1] = "\\"
      BY <3>1 DEF Shape
    <3>3. e[n - 1] = a[n - 1]
      BY <1>1, <2>1, <3>2
    <3> QED BY <3>2, <3>3
  <2>2. CASE ~(n <= Len(a))
    <3>1. n - Len(a) \in 1..Len(b) /\ b[n - Len(a)] = "="
      BY <1>1, <1>2, <2>2
    <3>2. n - Len(a) > 1 /\ b[(n - Len(a)) - 1] = "\\"
      BY <3>1 DEF Shape
    <3>3. n - 1 \in 1..Len(a) + Len(b) /\ ~(n - 1 <= Len(a)) /\ (n - 1) - Len(a) = (n - Len(a)) - 1
      BY <1>1, <3>1, <3>2
    <3>4. e[n - 1] = b[(n - Len(a)) - 1]
      BY <1>1, <3>3
    <3> QED BY <1>1, <3>2, <3>3, <3>4
  <2> QED BY <2>1, <2>2
<1> QED BY <1>2 DEF Shape, e

LEMMA PieceShape ==
  ASSUME NEW c
  PROVE  Shape(Piece(c))
<1>1. CASE c \in Special
  <2>1. Len(Piece(c)) = 2 /\ Piece(c)[1] = "\\" /\ Piece(c)[2] = c
    BY <1>1 DEF Piece
  <2> QED BY <2>1 DEF Shape
<1>2. CASE c \notin Special
  <2>1. Len(Piece(c)) = 1 /\ Piece(c)[1] = c /\ c # "="
    BY <1>2 DEF Piece, Special
  <2> QED BY <2>1 DEF Shape
<1> QED BY <1>1, <1>2

\* flashmem.c, esc_chars: no '=' of a value looks like the one of an item.
LEMMA EscShape ==
  ASSUME NEW A, NEW v \in Seq(A)
  PROVE  esc_chars(v) \in Seq(Esc(A)) /\ Shape(esc_chars(v))
<1> DEFINE N == Len(v)
<1>1. N \in Nat /\ \A i \in 1..N : v[i] \in A
  BY LenProperties
<1>2. PICK h \in [0..N -> Seq(Esc(A))] :
            /\ h[0] = <<>>
            /\ \A i \in 1..N : h[i] = h[i - 1] \o Piece(v[i])
            /\ esc_chars(v) = h[N]
  BY EscSteps
<1> HIDE DEF N
<1> DEFINE T == {n \in Nat : n <= N => Shape(h[n])}
<1>3. 0 \in T
  <2>1. Len(h[0]) = 0
    BY <1>2
  <2> QED BY <2>1 DEF Shape
<1>4. ASSUME NEW n \in Nat, n \in T
      PROVE  n + 1 \in T
  <2>1. CASE n + 1 <= N
    <3>1. n + 1 \in 1..N /\ n \in 0..N /\ (n + 1) - 1 = n /\ Shape(h[n])
      BY <1>1, <1>4, <2>1
    <3>2. h[n + 1] = h[n] \o Piece(v[n + 1])
      BY <1>2, <3>1
    <3>3. h[n] \in Seq(Esc(A)) /\ Piece(v[n + 1]) \in Seq(Esc(A))
      BY <1>1, <1>2, <3>1, PieceType
    <3>4. Shape(h[n + 1])
      BY <3>1, <3>2, <3>3, PieceShape, ConcatShape
    <3> QED BY <3>4
  <2>2. CASE ~(n + 1 <= N)
    BY <2>2
  <2> QED BY <2>1, <2>2
<1> HIDE DEF T
<1>5. Nat \subseteq T
  BY <1>3, <1>4, Induction
<1>6. Shape(h[N])
  BY <1>1, <1>5 DEF T
<1>7. h[N] \in Seq(Esc(A))
  BY <1>1, <1>2
<1> QED BY <1>2, <1>6, <1>7

(***************************************************************************)
(* The items of a text                                                     *)
(***************************************************************************)
\* Where an item of a key starts.
Starts(t, k) == {n \in 1..Len(t) - 1 : t[n] = k /\ t[n + 1] = "="}

\* OneItemPerKey, of any text.
Single(t) == \A k \in Keys : \A i, j \in Starts(t, k) : i = j

\* flashmem.c, strstr: the first item of a key, if there is one.
LEMMA KeyLocIs ==
  ASSUME NEW A, NEW t \in Seq(A), NEW k
  PROVE  /\ Starts(t, k) = {} => KeyLoc(t, k) = 0
         /\ Starts(t, k) # {} => /\ KeyLoc(t, k) \in Starts(t, k)
                                 /\ \A n \in Starts(t, k) : KeyLoc(t, k) <= n
         /\ KeyLoc(t, k) \in 0..Len(t)
<1> DEFINE found == Starts(t, k)
<1>1. Len(t) \in Nat /\ found \subseteq 1..Len(t) - 1 /\ found \in SUBSET Nat
  BY DEF Starts
<1>2. KeyLoc(t, k) = IF found = {} THEN 0 ELSE Min(found)
  BY Zenon DEF KeyLoc, Starts
<1> HIDE DEF found
<1>3. found # {} => Min(found) \in found /\ \A n \in found : Min(found) <= n
  BY <1>1, MinIs
<1>4. KeyLoc(t, k) \in 0..Len(t)
  <2>1. CASE found = {}
    BY <1>1, <1>2, <2>1
  <2>2. CASE found # {}
    <3>1. KeyLoc(t, k) \in 1..Len(t) - 1
      BY <1>1, <1>2, <1>3, <2>2
    <3> QED BY <1>1, <3>1
  <2> QED BY <2>1, <2>2
<1>5. /\ found = {} => KeyLoc(t, k) = 0
      /\ found # {} => KeyLoc(t, k) \in found /\ \A n \in found : KeyLoc(t, k) <= n
  BY <1>2, <1>3, Zenon
<1> QED BY <1>4, <1>5 DEF found

\* flashmem.c, get_val_end: an item ends at a comma or with the text.
LEMMA ItemEndIs ==
  ASSUME NEW A, NEW t \in Seq(A), NEW start \in 1..Len(t) + 1
  PROVE  /\ ItemEnd(t, start) \in start..Len(t) + 1
         /\ ItemEnd(t, start) <= Len(t) => t[ItemEnd(t, start)] = ","
         /\ \A i \in start..ItemEnd(t, start) - 1 : t[i] # ","
<1> DEFINE L   == Len(t)
           T   == {i \in start..L : t[i] = ","} \cup {L + 1}
           end == ItemEnd(t, start)
<1>1. L \in Nat /\ start \in 1..L + 1
  OBVIOUS
<1>2. end = Min(T)
  BY Zenon DEF ItemEnd
<1>3. \A y : y \in T <=> (y \in start..L /\ t[y] = ",") \/ y = L + 1
  OBVIOUS
<1> HIDE DEF L, T, end
<1>4. T \subseteq start..L + 1 /\ L + 1 \in T
  <2>1. ASSUME NEW y \in T
        PROVE  y \in start..L + 1
    <3>1. y \in start..L \/ y = L + 1
      BY <1>3, Zenon
    <3> QED BY <1>1, <3>1
  <2> QED BY <1>3, <2>1
<1>5. T \in SUBSET Nat /\ T # {}
  <2>1. start..L + 1 \subseteq Nat
    BY <1>1
  <2> QED BY <1>4, <2>1
<1>6. end \in T /\ \A y \in T : end <= y
  BY <1>2, <1>5, MinIs
<1>7. end \in start..L + 1 /\ end \in Nat
  BY <1>4, <1>5, <1>6
<1>8. end <= L => t[end] = ","
  <2>1. end <= L => end # L + 1
    BY <1>1, <1>7
  <2> QED BY <1>3, <1>6, <2>1, Zenon
<1>9. ASSUME NEW i \in start..end - 1
      PROVE  t[i] # ","
  <2>1. i \in start..L /\ ~(end <= i)
    BY <1>1, <1>7
  <2> QED BY <1>3, <1>6, <2>1
<1> QED BY <1>7, <1>8, <1>9 DEF end, L

\* The parts of a text that is put together of three.
LEMMA ThreeParts ==
  ASSUME NEW A, NEW a \in Seq(A), NEW b \in Seq(A), NEW c \in Seq(A)
  PROVE  /\ a \o b \o c \in Seq(A)
         /\ Len(a \o b \o c) = Len(a) + Len(b) + Len(c)
         /\ \A i \in 1..Len(a) : (a \o b \o c)[i] = a[i]
         /\ \A i \in 1..Len(b) : (a \o b \o c)[Len(a) + i] = b[i]
         /\ \A i \in 1..Len(c) : (a \o b \o c)[Len(a) + Len(b) + i] = c[i]
<1> DEFINE d == a \o b
           e == d \o c
<1>1. Len(a) \in Nat /\ Len(b) \in Nat /\ Len(c) \in Nat
  OBVIOUS
<1>2. /\ d \in Seq(A) /\ Len(d) = Len(a) + Len(b)
      /\ \A i \in 1..Len(a) + Len(b) : d[i] = IF i <= Len(a) THEN a[i] ELSE b[i - Len(a)]
  BY ConcatProperties
<1> HIDE DEF d
<1>3. /\ e \in Seq(A) /\ Len(e) = Len(d) + Len(c)
      /\ \A i \in 1..Len(d) + Len(c) : e[i] = IF i <= Len(d) THEN d[i] ELSE c[i - Len(d)]
  <2>1. d \in Seq(A)
    BY <1>2
  <2> QED BY <2>1, ConcatProperties
<1> HIDE DEF e
<1>4. ASSUME NEW i \in 1..Len(a)
      PROVE  e[i] = a[i]
  BY <1>1, <1>2, <1>3
<1>5. ASSUME NEW i \in 1..Len(b)
      PROVE  e[Len(a) + i] = b[i]
  <2>1. Len(a) + i \in 1..Len(a) + Len(b) /\ ~(Len(a) + i <= Len(a)) /\ (Len(a) + i) - Len(a) = i
    BY <1>1
  <2>2. d[Len(a) + i] = b[i]
    BY <1>2, <2>1
  <2>3. Len(a) + i \in 1..Len(d) + Len(c) /\ Len(a) + i <= Len(d)
    BY <1>1, <1>2, <2>1
  <2> QED BY <1>3, <2>2, <2>3
<1>6. ASSUME NEW i \in 1..Len(c)
      PROVE  e[Len(a) + Len(b) + i] = c[i]
  <2>1. /\ Len(d) + i \in 1..Len(d) + Len(c) /\ ~(Len(d) + i <= Len(d)) /\ (Len(d) + i) - Len(d) = i
    BY <1>1, <1>2
  <2>2. e[Len(d) + i] = c[i]
    BY <1>3, <2>1
  <2> QED BY <1>2, <2>2
<1>7. Len(e) = Len(a) + Len(b) + Len(c)
  BY <1>2, <1>3
<1> QED BY <1>3, <1>4, <1>5, <1>6, <1>7 DEF d, e

\* The item of k that starts at loc, with value e, takes the place of what is
\* between loc and end; it ends at last.
Spliced(new, t, k, e, loc, end, last) ==
  /\ Len(new) = last + (Len(t) - end + 1)
  /\ \A i \in 1..loc - 1 : new[i] = t[i]
  /\ new[loc] = k /\ new[loc + 1] = "="
  /\ \A i \in 1..Len(e) : new[loc + 1 + i] = e[i]
  /\ \A i \in end..Len(t) : new[last + 1 + (i - end)] = t[i]

\* An item of k with value e is behind the text.
Extended(new, t, k, e) ==
  /\ Len(new) = Len(t) + 3 + Len(e)
  /\ \A i \in 1..Len(t) : new[i] = t[i]
  /\ new[Len(t) + 1] = "," /\ new[Len(t) + 2] = k /\ new[Len(t) + 3] = "="
  /\ \A i \in 1..Len(e) : new[Len(t) + 3 + i] = e[i]

\* What follows an item.
EndsItem(t, end) == end <= Len(t) => t[end] = ","

\* flashmem.c, splice: an item of the new text was one of the old text before or
\* behind the item that is replaced, or is the new one.
LEMMA SplicedStarts ==
  ASSUME NEW A, NEW t \in Seq(A), NEW k \in Keys, NEW e \in Seq(A), Shape(e),
         NEW loc \in 1..Len(t), NEW end \in loc + 1..Len(t) + 1, EndsItem(t, end),
         NEW new, NEW size \in Nat, size = loc + 1 + Len(e),
         Spliced(new, t, k, e, loc, end, size),
         NEW x \in Keys, NEW n \in Starts(new, x)
  PROVE  \/ n < loc /\ n \in Starts(t, x)
         \/ n = loc /\ x = k
         \/ n > size /\ n - size - 1 + end \in Starts(t, x)
<1> DEFINE L == Len(t)
<1>1. L \in Nat /\ Len(e) \in Nat /\ loc \in 1..L /\ end \in loc + 1..L + 1
  OBVIOUS
<1>2. x # "\\" /\ k # "="
  BY CodecAssumptions DEF Special
<1>3. n \in 1..Len(new) - 1 /\ new[n] = x /\ new[n + 1] = "="
  BY DEF Starts
<1>4. Len(new) = size + (L - end + 1)
  BY DEF Spliced
<1>5. \A i \in 1..L - 1 : t[i] = x /\ t[i + 1] = "=" => i \in Starts(t, x)
  BY DEF Starts
<1> HIDE DEF L
<1>6. n \in Nat \ {0} /\ n + 1 <= size + (L - end + 1)
  BY <1>1, <1>3, <1>4
<1>7. CASE n + 1 < loc
  <2>1. n \in 1..loc - 1 /\ n + 1 \in 1..loc - 1 /\ n \in 1..L - 1 /\ n < loc
    BY <1>1, <1>6, <1>7
  <2>2. t[n] = x /\ t[n + 1] = "="
    BY <1>3, <2>1 DEF Spliced
  <2> QED BY <1>5, <2>1, <2>2
<1>8. CASE n + 1 = loc
  BY <1>2, <1>3, <1>8 DEF Spliced
<1>9. CASE n = loc
  BY <1>3, <1>9 DEF Spliced
<1>10. CASE n > loc /\ n < size
  <2> DEFINE i == n - loc
  <2>1. i \in 1..Len(e) /\ n + 1 = loc + 1 + i /\ n = loc + 1 + (i - 1)
    BY <1>1, <1>6, <1>10
  <2> HIDE DEF i
  <2>2. e[i] = "="
    BY <1>3, <2>1 DEF Spliced
  <2>3. i > 1 /\ e[i - 1] = "\\"
    BY <2>1, <2>2 DEF Shape
  <2>4. i - 1 \in 1..Len(e)
    BY <1>1, <2>1, <2>3
  <2>5. new[n] = "\\"
    BY <2>1, <2>3, <2>4 DEF Spliced
  <2> QED BY <1>2, <1>3, <2>5
<1>11. CASE n = size
  <2>1. end <= L /\ end \in end..L /\ n + 1 = size + 1 + (end - end)
    BY <1>1, <1>6, <1>11
  <2>2. new[n + 1] = t[end]
    BY <2>1 DEF Spliced, L
  <2>3. t[end] = ","
    BY <2>1 DEF EndsItem, L
  <2> QED BY <1>3, <2>2, <2>3
<1>12. CASE n > size
  <2> DEFINE i == n - size - 1 + end
  <2>1. /\ i \in end..L /\ i + 1 \in end..L /\ n = size + 1 + (i - end)
        /\ n + 1 = size + 1 + ((i + 1) - end) /\ i \in 1..L - 1
    BY <1>1, <1>6, <1>12
  <2> HIDE DEF i
  <2>2. t[i] = x /\ t[i + 1] = "="
    BY <1>3, <2>1 DEF Spliced, L
  <2>3. i \in Starts(t, x)
    BY <1>5, <2>1, <2>2
  <2> QED BY <1>12, <2>3 DEF i
<1>13. n + 1 < loc \/ n + 1 = loc \/ n = loc \/ (n > loc /\ n < size) \/ n = size \/ n > size
  BY <1>1, <1>6
<1> QED BY <1>7, <1>8, <1>9, <1>10, <1>11, <1>12, <1>13

\* flashmem.c, splice: and so there is still one for each key at most.
LEMMA SplicedSingle ==
  ASSUME NEW A, NEW t \in Seq(A), Single(t), NEW k \in Keys, NEW e \in Seq(A), Shape(e),
         NEW loc \in Starts(t, k), NEW end \in loc + 1..Len(t) + 1, EndsItem(t, end),
         NEW new, NEW size \in Nat, size = loc + 1 + Len(e),
         Spliced(new, t, k, e, loc, end, size)
  PROVE  Single(new)
<1>1. loc \in 1..Len(t) /\ loc \in Nat /\ end \in Nat /\ Len(t) \in Nat
  BY DEF Starts
<1>2. ASSUME NEW x \in Keys, NEW n \in Starts(new, x)
      PROVE  /\ n \in Nat
             /\ \/ n < loc /\ n \in Starts(t, x)
                \/ n = loc /\ x = k
                \/ n > size /\ n - size - 1 + end \in Starts(t, x)
  <2>1. n \in Nat
    BY <1>1 DEF Starts
  <2>2. \/ n < loc /\ n \in Starts(t, x)
        \/ n = loc /\ x = k
        \/ n > size /\ n - size - 1 + end \in Starts(t, x)
    BY <1>1, SplicedStarts
  <2> QED BY <2>1, <2>2
<1>3. ASSUME NEW x \in Keys, NEW i \in Starts(new, x), NEW j \in Starts(new, x)
      PROVE  i = j
  <2>1. \A a, b \in Starts(t, x) : a = b
    BY DEF Single
  <2>2. x = k => loc \in Starts(t, x)
    OBVIOUS
  <2>3. /\ i \in Nat
        /\ \/ i < loc /\ i \in Starts(t, x)
           \/ i = loc /\ x = k
           \/ i > size /\ i - size - 1 + end \in Starts(t, x)
    BY <1>2
  <2>4. /\ j \in Nat
        /\ \/ j < loc /\ j \in Starts(t, x)
           \/ j = loc /\ x = k
           \/ j > size /\ j - size - 1 + end \in Starts(t, x)
    BY <1>2
  <2>5. x = k => \A a \in Starts(t, x) : a = loc
    BY <2>1, <2>2
  <2>6. \A a \in Starts(t, x) : a \in Nat
    BY <1>1 DEF Starts
  <2>7. i > size => i - size - 1 + end > loc
    BY <1>1, <2>3
  <2>8. j > size => j - size - 1 + end > loc
    BY <1>1, <2>4
  <2> QED BY <1>1, <2>1, <2>3, <2>4, <2>5, <2>7, <2>8
<1> QED BY <1>3 DEF Single

\* flashmem.c, upsert_key: an item of the longer text was one before, or is the new one.
LEMMA AppendedStarts ==
  ASSUME NEW A, NEW t \in Seq(A), NEW k \in Keys, NEW e \in Seq(A), Shape(e),
         NEW new, Extended(new, t, k, e), NEW x \in Keys, NEW n \in Starts(new, x)
  PROVE  n \in Starts(t, x) \/ (n = Len(t) + 2 /\ x = k)
<1> DEFINE L == Len(t)
<1>1. L \in Nat /\ Len(e) \in Nat
  OBVIOUS
<1>2. /\ Len(new) = L + 3 + Len(e)
      /\ \A i \in 1..L : new[i] = t[i]
      /\ new[L + 1] = "," /\ new[L + 2] = k /\ new[L + 3] = "="
      /\ \A i \in 1..Len(e) : new[L + 3 + i] = e[i]
  BY DEF Extended
<1>3. ASSUME NEW i \in 1..L - 1, t[i] = x, t[i + 1] = "="
      PROVE  i \in Starts(t, x)
  BY <1>3 DEF Starts
<1> HIDE DEF L
<1>4. n \in 1..Len(new) - 1 /\ new[n] = x /\ new[n + 1] = "="
  BY DEF Starts
<1>5. n \in Nat \ {0} /\ n + 1 <= L + 3 + Len(e)
  <2>1. Len(new) = L + 3 + Len(e)
    BY <1>2
  <2>2. n \in 1..(L + 3 + Len(e)) - 1
    BY <1>4, <2>1
  <2> QED BY <1>1, <2>2
<1>6. x # "\\" /\ x # "," /\ k # "="
  BY CodecAssumptions DEF Special
<1>7. CASE n < L
  <2>1. n \in 1..L /\ n + 1 \in 1..L /\ n \in 1..L - 1
    BY <1>1, <1>5, <1>7
  <2>2. t[n] = x /\ t[n + 1] = "="
    BY <1>2, <1>4, <2>1
  <2> QED BY <1>3, <2>1, <2>2
<1>8. CASE n = L
  BY <1>2, <1>4, <1>8
<1>9. CASE n = L + 1
  BY <1>2, <1>4, <1>6, <1>9
<1>10. CASE n = L + 2
  BY <1>2, <1>4, <1>10 DEF L
<1>11. CASE n > L + 2
  <2> DEFINE i == n - L - 2
  <2>1. i \in 1..Len(e) /\ n + 1 = L + 3 + i /\ n = L + 3 + (i - 1)
    BY <1>1, <1>5, <1>11
  <2> HIDE DEF i
  <2>2. e[i] = "="
    BY <1>2, <1>4, <2>1
  <2>3. i > 1 /\ e[i - 1] = "\\"
    BY <2>1, <2>2 DEF Shape
  <2>4. i - 1 \in 1..Len(e)
    BY <1>1, <2>1, <2>3
  <2>5. new[n] = "\\"
    BY <1>2, <2>1, <2>3, <2>4
  <2> QED BY <1>4, <1>6, <2>5
<1>12. n < L \/ n = L \/ n = L + 1 \/ n = L + 2 \/ n > L + 2
  BY <1>1, <1>5
<1> QED BY <1>7, <1>8, <1>9, <1>10, <1>11, <1>12

\* flashmem.c, upsert_key: an item is appended only for a key that has none.
LEMMA AppendedSingle ==
  ASSUME NEW A, NEW t \in Seq(A), Single(t), NEW k \in Keys, NEW e \in Seq(A), Shape(e),
         Starts(t, k) = {}, NEW new, Extended(new, t, k, e)
  PROVE  Single(new)
<1>1. ASSUME NEW x \in Keys, NEW i \in Starts(new, x), NEW j \in Starts(new, x)
      PROVE  i = j
  <2>1. i \in Starts(t, x) \/ (i = Len(t) + 2 /\ x = k)
    BY AppendedStarts
  <2>2. j \in Starts(t, x) \/ (j = Len(t) + 2 /\ x = k)
    BY AppendedStarts
  <2> QED BY <2>1, <2>2 DEF Single
<1> QED BY <1>1 DEF Single

\* Programmed: the erased cells behind a text that fills its pages are no items.
LEMMA ProgrammedSingle ==
  ASSUME NEW A, NEW t \in Seq(A), Single(t)
  PROVE  /\ Single(Programmed(t)) /\ Programmed(t) \in Seq(A \cup {Erased})
         /\ \A x \in Keys : Starts(Programmed(t), x) \subseteq Starts(t, x)
<1> DEFINE m == NvsSize - Len(t)
           z == [i \in 1..m |-> Erased]
           B == A \cup {Erased}
           L == Len(t)
<1>1. L \in Nat /\ m \in Int /\ t \in Seq(B)
  BY CodecAssumptions
<1>2. z \in Seq(B) /\ \A i \in 1..Len(z) : z[i] = Erased
  <2>1. CASE m \in Nat
    <3> HIDE DEF m
    <3> QED BY <2>1
  <2>2. CASE m \notin Nat
    <3>1. 1..m = {}
      BY <1>1, <2>2
    <3>2. z = <<>>
      BY <3>1
    <3> HIDE DEF z, B
    <3> QED BY <3>2
  <2> QED BY <2>1, <2>2
<1>3. Programmed(t) = t \/ Programmed(t) = t \o z
  BY Zenon DEF Programmed
<1> HIDE DEF z, B
<1> DEFINE new == t \o z
<1>4. /\ new \in Seq(B) /\ Len(new) = L + Len(z) /\ Len(z) \in Nat
      /\ \A i \in 1..L + Len(z) : new[i] = IF i <= L THEN t[i] ELSE z[i - L]
  BY <1>1, <1>2, ConcatProperties
<1> HIDE DEF new
<1>5. ASSUME NEW x \in Keys, NEW i \in 1..L - 1, t[i] = x, t[i + 1] = "="
      PROVE  i \in Starts(t, x)
  BY <1>5 DEF Starts
<1> HIDE DEF L
<1>6. ASSUME NEW x \in Keys, NEW n \in Starts(new, x)
      PROVE  n \in Starts(t, x)
  <2>1. n \in 1..Len(new) - 1 /\ new[n] = x /\ new[n + 1] = "="
    BY DEF Starts
  <2>2. n \in Nat \ {0} /\ n + 1 \in 1..L + Len(z)
    BY <1>1, <1>4, <2>1
  <2>3. n + 1 <= L
    <3> SUFFICES ASSUME ~(n + 1 <= L) PROVE FALSE
      OBVIOUS
    <3>1. new[n + 1] = z[(n + 1) - L] /\ (n + 1) - L \in 1..Len(z)
      BY <1>1, <1>4, <2>2
    <3>2. Erased # "="
      BY CodecAssumptions DEF Special
    <3> QED BY <1>2, <2>1, <3>1, <3>2
  <2>4. n \in 1..L - 1 /\ n <= L /\ n \in 1..L + Len(z)
    BY <1>1, <2>2, <2>3
  <2>5. t[n] = x /\ t[n + 1] = "="
    BY <1>4, <2>1, <2>2, <2>3, <2>4
  <2> QED BY <1>5, <2>4, <2>5
<1>7. Single(new)
  BY <1>6 DEF Single
<1>8. Single(Programmed(t))
  <2>1. Programmed(t) = t \/ Programmed(t) = new
    BY <1>3 DEF new
  <2> QED BY <1>7, <2>1
<1>9. Programmed(t) \in Seq(B)
  BY <1>1, <1>3, <1>4 DEF new
<1>10. \A x \in Keys : Starts(Programmed(t), x) \subseteq Starts(t, x)
  <2>1. Programmed(t) = t \/ Programmed(t) = new
    BY <1>3 DEF new
  <2> QED BY <1>6, <2>1
<1> QED BY <1>8, <1>9, <1>10 DEF B

(***************************************************************************)
(* write                                                                   *)
(***************************************************************************)
\* The characters that upsert_key adds to those of the value.
Alphabet(A, k) == {k, "=", ","} \subseteq A

LEMMA OneChar ==
  ASSUME NEW A, NEW x \in A
  PROVE  <<x>> \in Seq(A) /\ Len(<<x>>) = 1 /\ <<x>>[1] = x
OBVIOUS

LEMMA TwoChars ==
  ASSUME NEW A, NEW x \in A, NEW y \in A
  PROVE  <<x, y>> \in Seq(A) /\ Len(<<x, y>>) = 2 /\ <<x, y>>[1] = x /\ <<x, y>>[2] = y
OBVIOUS

\* An item as write() puts it together.
LEMMA ItemIs ==
  ASSUME NEW A, NEW k, Alphabet(A, k), NEW e \in Seq(A)
  PROVE  /\ <<k, "=">> \o e \in Seq(A)
         /\ Len(<<k, "=">> \o e) = 2 + Len(e)
         /\ (<<k, "=">> \o e)[1] = k
         /\ (<<k, "=">> \o e)[2] = "="
         /\ \A i \in 1..Len(e) : (<<k, "=">> \o e)[2 + i] = e[i]
<1> DEFINE a == <<k, "=">>
           b == a \o e
<1>1. a \in Seq(A) /\ Len(a) = 2 /\ a[1] = k /\ a[2] = "="
  <2>1. k \in A /\ "=" \in A
    BY Zenon DEF Alphabet
  <2> QED BY <2>1, TwoChars, Zenon
<1> HIDE DEF a
<1>2. /\ b \in Seq(A) /\ Len(b) = Len(a) + Len(e) /\ Len(e) \in Nat
      /\ \A i \in 1..Len(a) + Len(e) : b[i] = IF i <= Len(a) THEN a[i] ELSE e[i - Len(a)]
  <2>1. a \in Seq(A)
    BY <1>1
  <2> QED BY <2>1, ConcatProperties
<1> HIDE DEF b
<1>3. \A i \in 1..2 + Len(e) : b[i] = IF i <= 2 THEN a[i] ELSE e[i - 2]
  BY <1>1, <1>2
<1>4. b[1] = k /\ b[2] = "="
  BY <1>1, <1>2, <1>3
<1>5. ASSUME NEW i \in 1..Len(e)
      PROVE  b[2 + i] = e[i]
  <2>1. 2 + i \in 1..2 + Len(e) /\ ~(2 + i <= 2) /\ (2 + i) - 2 = i
    BY <1>2
  <2> QED BY <1>3, <2>1
<1> QED BY <1>1, <1>2, <1>4, <1>5 DEF a, b

Upserted(new, t, k, e) == new = upsert_key(t, k, <<k, "=">> \o e)

\* flashmem.c, upsert_key: the item is appended, replaces another or does not fit.
LEMMA UpsertIs ==
  ASSUME NEW A, NEW t \in Seq(A), NEW k \in Keys, Alphabet(A, k), NEW e \in Seq(A),
         NEW new, Upserted(new, t, k, e)
  PROVE  LET loc == KeyLoc(t, k)
             end == ItemEnd(t, loc)
         IN /\ new \in Seq(A)
            /\ Starts(t, k) = {} => Extended(new, t, k, e)
            /\ Starts(t, k) # {} =>
                 /\ loc \in Starts(t, k) /\ end \in loc + 1..Len(t) + 1 /\ EndsItem(t, end)
                 /\ \/ new = t /\ Refuses(t, loc, end, <<k, "=">> \o e)
                    \/ Spliced(new, t, k, e, loc, end, loc + 1 + Len(e))
<1> DEFINE item == <<k, "=">> \o e
           loc  == KeyLoc(t, k)
           L    == Len(t)
           E    == Len(e)
<1>1. /\ item \in Seq(A) /\ Len(item) = 2 + E /\ item[1] = k /\ item[2] = "="
      /\ \A i \in 1..E : item[2 + i] = e[i]
  BY ItemIs
<1>2. L \in Nat /\ E \in Nat /\ loc \in 0..L
  BY KeyLocIs
<1>3. /\ Starts(t, k) = {} => loc = 0
      /\ Starts(t, k) # {} => loc \in Starts(t, k)
  BY KeyLocIs
<1>4. 0 \notin Starts(t, k)
  BY DEF Starts
<1>5. new = IF loc = 0 THEN t \o <<",">> \o item
            ELSE splice(t, loc, ItemEnd(t, loc), item)
  BY Zenon DEF upsert_key, Upserted
<1> HIDE DEF item, loc
<1>6. CASE loc = 0
  <2>1. Starts(t, k) = {}
    BY <1>3, <1>4, <1>6
  <2> DEFINE c == <<",">>
             x == t \o c \o item
  <2>2. c \in Seq(A) /\ Len(c) = 1 /\ c[1] = ","
    <3>1. "," \in A
      BY Zenon DEF Alphabet
    <3> QED BY <3>1, OneChar, Zenon
  <2> HIDE DEF c
  <2>3. /\ x \in Seq(A)
        /\ Len(x) = L + Len(c) + Len(item)
        /\ \A i \in 1..L : x[i] = t[i]
        /\ \A i \in 1..Len(c) : x[L + i] = c[i]
        /\ \A i \in 1..Len(item) : x[L + Len(c) + i] = item[i]
    <3>1. c \in Seq(A) /\ item \in Seq(A)
      BY <1>1, <2>2
    <3> QED BY <3>1, ThreeParts
  <2> HIDE DEF x, L, E
  <2>4. Len(x) = L + 3 + E /\ x[L + 1] = ","
    <3>1. Len(c) = 1 /\ Len(item) = 2 + E /\ Len(x) = L + Len(c) + Len(item)
      BY <1>1, <2>2, <2>3
    <3>2. 1 \in 1..Len(c)
      BY <3>1
    <3>3. x[L + 1] = ","
      BY <2>2, <2>3, <3>2
    <3>4. Len(x) = L + 3 + E
      <4>1. Len(x) = L + 1 + (2 + E)
        BY <3>1
      <4> QED BY <1>2, <4>1
    <3> QED BY <3>3, <3>4
  <2>5. \A i \in 1..2 + E : x[L + 1 + i] = item[i]
    BY <1>1, <2>2, <2>3
  <2>6. x[L + 2] = k /\ x[L + 3] = "="
    <3>1. 1 \in 1..2 + E /\ 2 \in 1..2 + E /\ L + 1 + 1 = L + 2 /\ L + 1 + 2 = L + 3
      BY <1>2
    <3> QED BY <1>1, <2>5, <3>1
  <2>7. ASSUME NEW i \in 1..E
        PROVE  x[L + 3 + i] = e[i]
    <3>1. 2 + i \in 1..2 + E /\ L + 1 + (2 + i) = L + 3 + i
      BY <1>2
    <3> QED BY <1>1, <2>5, <3>1
  <2>8. Extended(x, t, k, e)
    BY <2>3, <2>4, <2>6, <2>7 DEF Extended, L, E
  <2>9. new = x
    BY <1>5, <1>6, Zenon DEF x, c
  <2> QED BY <2>1, <2>3, <2>8, <2>9
<1>7. CASE loc # 0
  <2>1. loc \in Starts(t, k)
    BY <1>3, <1>7
  <2>2. loc \in 1..L - 1 /\ t[loc] = k
    BY <2>1 DEF Starts
  <2> DEFINE end == ItemEnd(t, loc)
             a   == SubSeq(t, 1, loc - 1)
             b   == SubSeq(t, end, L)
             x == a \o item \o b
  <2>3. loc \in 1..L + 1
    BY <1>2, <2>2
  <2>4. /\ end \in loc..L + 1
        /\ end <= L => t[end] = ","
    BY <2>3, ItemEndIs
  <2>5. EndsItem(t, end)
    BY <2>4 DEF EndsItem
  <2>6. \/ splice(t, loc, end, item) = t /\ Refuses(t, loc, end, item)
        \/ splice(t, loc, end, item) = x
    BY Zenon DEF splice
  <2> HIDE DEF end
  <2>7. k # ","
    BY CodecAssumptions DEF Special
  <2>8. end \in loc + 1..L + 1
    <3>1. loc <= L /\ loc \in Nat
      BY <1>2, <2>2
    <3>2. end # loc
      BY <2>2, <2>4, <2>7, <3>1
    <3>3. end \in loc..L + 1
      BY <2>4
    <3> QED BY <1>2, <3>1, <3>2, <3>3
  <2>9. /\ a \in Seq(A) /\ Len(a) = loc - 1
        /\ \A i \in 1..loc - 1 : a[i] = t[i]
    BY <1>2, <2>2, SubSeqProperties
  <2>10. /\ b \in Seq(A) /\ Len(b) = L - end + 1
         /\ \A i \in 1..L - end + 1 : b[i] = t[end + i - 1]
    BY <1>2, <2>2, <2>8, SubSeqProperties
  <2> HIDE DEF a, b
  <2>11. /\ x \in Seq(A)
         /\ Len(x) = Len(a) + Len(item) + Len(b)
         /\ \A i \in 1..Len(a) : x[i] = a[i]
         /\ \A i \in 1..Len(item) : x[Len(a) + i] = item[i]
         /\ \A i \in 1..Len(b) : x[Len(a) + Len(item) + i] = b[i]
    <3>1. item \in Seq(A) /\ a \in Seq(A) /\ b \in Seq(A)
      BY <1>1, <2>9, <2>10
    <3> QED BY <3>1, ThreeParts
  <2> HIDE DEF x, L, E
  <2> DEFINE size == loc + 1 + E
  <2>12. size \in Nat /\ loc \in Nat /\ end \in Nat /\ Len(a) + Len(item) = size
    <3>1. Len(a) = loc - 1 /\ Len(item) = 2 + E /\ E \in Nat /\ L \in Nat
      BY <1>1, <1>2, <2>9
    <3>2. loc \in Nat /\ end \in Nat
      BY <1>2, <2>2, <2>8
    <3> QED BY <3>1, <3>2
  <2> HIDE DEF size
  <2>13. Len(x) = size + (L - end + 1)
    BY <2>10, <2>11, <2>12
  <2>14. \A i \in 1..loc - 1 : x[i] = t[i]
    BY <2>9, <2>11
  <2>15. \A i \in 1..2 + E : x[(loc - 1) + i] = item[i]
    BY <1>1, <2>9, <2>11
  <2>16. x[loc] = k /\ x[loc + 1] = "="
    <3>1. 1 \in 1..2 + E /\ 2 \in 1..2 + E /\ (loc - 1) + 1 = loc /\ (loc - 1) + 2 = loc + 1
      BY <1>2, <2>2
    <3> QED BY <1>1, <2>15, <3>1
  <2>17. ASSUME NEW i \in 1..E
         PROVE  x[loc + 1 + i] = e[i]
    <3>1. 2 + i \in 1..2 + E /\ (loc - 1) + (2 + i) = loc + 1 + i
      BY <1>2, <2>2
    <3> QED BY <1>1, <2>15, <3>1
  <2>18. ASSUME NEW i \in end..L
         PROVE  x[size + 1 + (i - end)] = t[i]
    <3> DEFINE j == i - end + 1
    <3>1. j \in 1..L - end + 1 /\ end + j - 1 = i /\ size + j = size + 1 + (i - end)
      BY <1>2, <2>12
    <3> HIDE DEF j
    <3>2. x[size + j] = b[j]
      BY <2>10, <2>11, <2>12, <3>1
    <3>3. b[j] = t[i]
      BY <2>10, <3>1
    <3> QED BY <3>1, <3>2, <3>3
  <2>19. Spliced(x, t, k, e, loc, end, size)
    BY <2>13, <2>14, <2>16, <2>17, <2>18 DEF Spliced, L, E
  <2>20. (new = t /\ Refuses(t, loc, end, <<k, "=">> \o e)) \/ new = x
    BY <1>5, <1>7, <2>6, Zenon DEF end, item
  <2> QED BY <2>1, <2>5, <2>8, <2>11, <2>19, <2>20 DEF size, E, L, end, loc
<1> QED BY <1>6, <1>7

\* flashmem.c, upsert_key: in each case, every key keeps one item at most.
LEMMA UpsertSingle ==
  ASSUME NEW A, NEW t \in Seq(A), Single(t), NEW k \in Keys, Alphabet(A, k),
         NEW e \in Seq(A), Shape(e)
  PROVE  /\ upsert_key(t, k, <<k, "=">> \o e) \in Seq(A)
         /\ Single(upsert_key(t, k, <<k, "=">> \o e))
<1> DEFINE new  == upsert_key(t, k, <<k, "=">> \o e)
           loc  == KeyLoc(t, k)
           end  == ItemEnd(t, loc)
           size == loc + 1 + Len(e)
<1>1. /\ new \in Seq(A)
      /\ Starts(t, k) = {} => Extended(new, t, k, e)
      /\ Starts(t, k) # {} =>
           /\ loc \in Starts(t, k) /\ end \in loc + 1..Len(t) + 1 /\ EndsItem(t, end)
           /\ new = t \/ Spliced(new, t, k, e, loc, end, size)
  <2>1. Upserted(new, t, k, e)
    BY DEF Upserted
  <2> HIDE DEF new
  <2> QED BY <2>1, UpsertIs
<1>2. loc \in 0..Len(t) /\ Len(e) \in Nat /\ size = loc + 1 + Len(e)
  BY KeyLocIs
<1>3. size \in Nat
  BY <1>2
<1> HIDE DEF new, loc, end, size
<1>4. CASE Starts(t, k) = {}
  <2>1. Single(new)
    BY <1>1, <1>4, AppendedSingle
  <2> QED BY <1>1, <2>1 DEF new
<1>5. CASE Starts(t, k) # {} /\ new = t
  BY <1>5 DEF new
<1>6. CASE Starts(t, k) # {} /\ Spliced(new, t, k, e, loc, end, size)
  <2>1. Single(new)
    BY <1>1, <1>2, <1>3, <1>6, SplicedSingle
  <2> QED BY <1>1, <2>1 DEF new
<1> QED BY <1>1, <1>4, <1>5, <1>6

LEMMA SeqGrows ==
  ASSUME NEW A, NEW B, A \subseteq B, NEW t \in Seq(A)
  PROVE  t \in Seq(B)
BY LenProperties

(***************************************************************************)
(* Taking the escapes out                                                  *)
(***************************************************************************)
\* Where each character of v is in the escaped text: behind o[n - 1] characters.
Offsets(v, e, o) ==
  /\ o[0] = 0
  /\ o[Len(v)] = Len(e)
  /\ \A n \in 1..Len(v) :
       /\ o[n] = o[n - 1] + Len(Piece(v[n]))
       /\ \A i \in 1..Len(Piece(v[n])) : e[o[n - 1] + i] = Piece(v[n])[i]

\* flashmem.c, esc_chars: what was written once stays where it is.
LEMMA EscOffsets ==
  ASSUME NEW A, NEW v \in Seq(A)
  PROVE  \E o \in [0..Len(v) -> Nat] : Offsets(v, esc_chars(v), o)
<1> DEFINE N == Len(v)
<1>1. N \in Nat /\ \A i \in 1..N : v[i] \in A
  BY LenProperties
<1>2. PICK h \in [0..N -> Seq(Esc(A))] :
            /\ h[0] = <<>>
            /\ \A i \in 1..N : h[i] = h[i - 1] \o Piece(v[i])
            /\ esc_chars(v) = h[N]
  BY EscSteps
<1> DEFINE o == [n \in 0..N |-> Len(h[n])]
<1>3. o \in [0..N -> Nat] /\ \A n \in 0..N : o[n] = Len(h[n])
  BY <1>2, LenProperties
<1> HIDE DEF N, o
<1>4. ASSUME NEW n \in 1..N
      PROVE  /\ n - 1 \in 0..N /\ n \in 0..N
             /\ o[n] = o[n - 1] + Len(Piece(v[n]))
             /\ Len(Piece(v[n])) \in Nat
             /\ \A i \in 1..Len(Piece(v[n])) : h[n][o[n - 1] + i] = Piece(v[n])[i]
             /\ \A i \in 1..o[n - 1] : h[n][i] = h[n - 1][i]
  <2> DEFINE a == h[n - 1]
             b == Piece(v[n])
             c == a \o b
  <2>1. n - 1 \in 0..N /\ n \in 0..N /\ v[n] \in A
    BY <1>1
  <2>2. h[n] = c
    BY <1>2
  <2>3. a \in Seq(Esc(A)) /\ b \in Seq(Esc(A)) /\ Len(a) = o[n - 1] /\ Len(c) = o[n]
    BY <1>2, <1>3, <2>1, <2>2, PieceType
  <2> HIDE DEF a, b
  <2>4. /\ Len(a) \in Nat /\ Len(b) \in Nat /\ Len(c) = Len(a) + Len(b)
        /\ \A i \in 1..Len(a) + Len(b) : c[i] = IF i <= Len(a) THEN a[i] ELSE b[i - Len(a)]
    <3>1. a \in Seq(Esc(A)) /\ b \in Seq(Esc(A))
      BY <2>3
    <3> QED BY <3>1, ConcatProperties
  <2> HIDE DEF c
  <2>5. ASSUME NEW i \in 1..Len(b)
        PROVE  c[Len(a) + i] = b[i]
    <3>1. Len(a) + i \in 1..Len(a) + Len(b) /\ ~(Len(a) + i <= Len(a)) /\ (Len(a) + i) - Len(a) = i
      BY <2>4
    <3> QED BY <2>4, <3>1
  <2>6. ASSUME NEW i \in 1..Len(a)
        PROVE  c[i] = a[i]
    BY <2>4
  <2>7. o[n] = o[n - 1] + Len(b)
    BY <2>3, <2>4
  <2>8. \A i \in 1..Len(b) : h[n][o[n - 1] + i] = b[i]
    BY <2>2, <2>3, <2>5
  <2>9. \A i \in 1..o[n - 1] : h[n][i] = a[i]
    BY <2>2, <2>3, <2>6
  <2> QED BY <2>1, <2>4, <2>7, <2>8, <2>9 DEF a, b
<1> DEFINE T == {m \in Nat : m <= N => \A n \in 1..m : \A i \in 1..Len(Piece(v[n])) :
                                /\ h[m][o[n - 1] + i] = Piece(v[n])[i]
                                /\ o[n - 1] + i \in 1..o[m]}
<1>5. 0 \in T
  <2>1. 1..0 = {}
    OBVIOUS
  <2> QED BY <2>1
<1>6. ASSUME NEW m \in Nat, m \in T
      PROVE  m + 1 \in T
  <2>1. ASSUME m + 1 <= N, NEW n \in 1..m + 1, NEW i \in 1..Len(Piece(v[n]))
        PROVE  h[m + 1][o[n - 1] + i] = Piece(v[n])[i] /\ o[n - 1] + i \in 1..o[m + 1]
    <3>1. m + 1 \in 1..N /\ (m + 1) - 1 = m /\ m \in 0..N /\ n \in 1..N
      BY <1>1, <2>1
    <3>2. o[m] \in Nat /\ o[n - 1] \in Nat /\ Len(Piece(v[n])) \in Nat /\ Len(Piece(v[m + 1])) \in Nat
      <4>1. n - 1 \in 0..N
        BY <1>1, <3>1
      <4> QED BY <1>3, <1>4, <3>1, <4>1
    <3>3. o[m + 1] = o[m] + Len(Piece(v[m + 1]))
      BY <1>4, <3>1
    <3>4. CASE n = m + 1
      <4>1. h[n][o[n - 1] + i] = Piece(v[n])[i]
        BY <1>4, <3>1
      <4>2. n - 1 = m
        BY <3>4
      <4> QED BY <3>2, <3>3, <3>4, <4>1, <4>2
    <3>5. CASE n # m + 1
      <4>1. n \in 1..m
        BY <3>5
      <4>2. h[m][o[n - 1] + i] = Piece(v[n])[i] /\ o[n - 1] + i \in 1..o[m]
        <5>1. m <= N
          BY <1>1, <2>1
        <5>2. \A x \in 1..m : \A y \in 1..Len(Piece(v[x])) :
                 h[m][o[x - 1] + y] = Piece(v[x])[y] /\ o[x - 1] + y \in 1..o[m]
          BY <1>6, <5>1
        <5>3. \A y \in 1..Len(Piece(v[n])) :
                 h[m][o[n - 1] + y] = Piece(v[n])[y] /\ o[n - 1] + y \in 1..o[m]
          BY <4>1, <5>2, Zenon
        <5> QED BY <5>3, Zenon
      <4>3. \A j \in 1..o[m] : h[m + 1][j] = h[m][j]
        BY <1>4, <3>1
      <4>4. h[m + 1][o[n - 1] + i] = Piece(v[n])[i]
        BY <4>2, <4>3, Zenon
      <4> QED BY <3>2, <3>3, <4>2, <4>4
    <3> QED BY <3>4, <3>5
  <2>2. m + 1 <= N => \A n \in 1..m + 1 : \A i \in 1..Len(Piece(v[n])) :
                        /\ h[m + 1][o[n - 1] + i] = Piece(v[n])[i]
                        /\ o[n - 1] + i \in 1..o[m + 1]
    BY <2>1, Zenon
  <2>3. m + 1 \in Nat
    OBVIOUS
  <2> QED BY <2>2, <2>3, SMT
<1> HIDE DEF T
<1>7. N \in T
  BY <1>1, <1>5, <1>6, Induction
<1>8. \A n \in 1..N : \A i \in 1..Len(Piece(v[n])) : h[N][o[n - 1] + i] = Piece(v[n])[i]
  BY <1>1, <1>7 DEF T
<1>9. o[0] = 0 /\ o[N] = Len(h[N])
  BY <1>1, <1>2, <1>3
<1>10. Offsets(v, esc_chars(v), o)
  BY <1>2, <1>4, <1>8, <1>9 DEF Offsets, N
<1> QED BY <1>3, <1>10 DEF N

\* flashmem.c, read: the loop that takes the escapes out has an end.
LEMMA UnescExists ==
  ASSUME NEW e, NEW L \in Nat
  PROVE  \E g : g = [i \in 1..L + 1 |->
                       IF i > L THEN <<>>
                       ELSE IF e[i] # "\\" THEN <<e[i]>> \o g[i + 1]
                       ELSE IF i = L THEN <<>> ELSE <<e[i + 1]>> \o g[i + 2]]
<1> DEFINE body(g, i) == IF i > L THEN <<>>
                         ELSE IF e[i] # "\\" THEN <<e[i]>> \o g[i + 1]
                         ELSE IF i = L THEN <<>> ELSE <<e[i + 1]>> \o g[i + 2]
           from(m) == (L + 1) - m
           T == {m \in Nat : m <= L => \E g : \A i \in from(m)..L + 1 : g[i] = body(g, i)}
<1>1. 0 \in T
  <2> DEFINE z == [i \in {L + 1} |-> <<>>]
  <2>1. \A i \in from(0)..L + 1 : i = L + 1 /\ i > L
    OBVIOUS
  <2>2. z[L + 1] = <<>>
    OBVIOUS
  <2> HIDE DEF z
  <2>3. \A i \in from(0)..L + 1 : z[i] = body(z, i)
    BY <2>1, <2>2
  <2> QED BY <2>3
<1>2. ASSUME NEW m \in Nat, m \in T
      PROVE  m + 1 \in T
  <2> HIDE DEF body, from
  <2> SUFFICES ASSUME m + 1 <= L
               PROVE  \E g : \A i \in from(m + 1)..L + 1 : g[i] = body(g, i)
    OBVIOUS
  <2> USE DEF body, from
  <2>1. PICK g : \A i \in from(m)..L + 1 : g[i] = body(g, i)
    BY <1>2
  <2> DEFINE at == from(m + 1)
             new == body(g, at)
             h == [i \in at..L + 1 |-> IF i = at THEN new ELSE g[i]]
  <2>2. at \in 1..L /\ at \in Int /\ from(m) = at + 1
    OBVIOUS
  <2> HIDE DEF at, new
  <2>3. h[at] = new /\ \A i \in at + 1..L + 1 : h[i] = g[i]
    BY <2>2
  <2> HIDE DEF h
  <2>4. ASSUME NEW i \in at..L + 1
        PROVE  h[i] = body(g, i)
    <3>1. CASE i = at
      BY <2>3, <3>1 DEF new
    <3>2. CASE i # at
      <4>1. i \in at + 1..L + 1
        BY <2>2, <3>2
      <4>2. g[i] = body(g, i) /\ h[i] = g[i]
        BY <2>1, <2>2, <2>3, <4>1
      <4> HIDE DEF body
      <4> QED BY <4>2
    <3> QED BY <3>1, <3>2
  <2>5. ASSUME NEW i \in at..L + 1
        PROVE  body(g, i) = body(h, i)
    <3>1. i <= L => i + 1 \in at + 1..L + 1
      BY <2>2
    <3>2. i <= L /\ i # L => i + 2 \in at + 1..L + 1
      BY <2>2
    <3>3. i \in Int /\ (i <= L \/ i > L)
      BY <2>2
    <3>4. i <= L => h[i + 1] = g[i + 1]
      BY <2>3, <3>1
    <3>5. i <= L /\ i # L => h[i + 2] = g[i + 2]
      BY <2>3, <3>2
    <3> QED BY <3>3, <3>4, <3>5
  <2> HIDE DEF body
  <2>6. \A i \in at..L + 1 : h[i] = body(h, i)
    BY <2>4, <2>5
  <2> QED BY <2>6 DEF at
<1> HIDE DEF T
<1>3. L \in T
  BY <1>1, <1>2, Induction
<1>4. PICK g : \A i \in from(L)..L + 1 : g[i] = body(g, i)
  BY <1>3 DEF T
<1>5. from(L) = 1
  OBVIOUS
<1> HIDE DEF from
<1> DEFINE h == [i \in 1..L + 1 |-> g[i]]
<1>6. ASSUME NEW i \in 1..L + 1
      PROVE  h[i] = body(h, i)
  <2>1. h[i] = g[i] /\ g[i] = body(g, i)
    BY <1>4, <1>5
  <2>2. i <= L => i + 1 \in 1..L + 1
    OBVIOUS
  <2>3. i <= L /\ i # L => i + 2 \in 1..L + 1
    OBVIOUS
  <2>4. i <= L => h[i + 1] = g[i + 1]
    BY <2>2
  <2>5. i <= L /\ i # L => h[i + 2] = g[i + 2]
    BY <2>3
  <2>6. i <= L \/ i > L
    OBVIOUS
  <2> HIDE DEF h
  <2>7. body(g, i) = body(h, i)
    BY <2>4, <2>5, <2>6
  <2> QED BY <2>1, <2>7
<1>7. h = [i \in 1..L + 1 |-> h[i]]
  OBVIOUS
<1> HIDE DEF h
<1>8. h = [i \in 1..L + 1 |-> body(h, i)]
  BY <1>6, <1>7
<1> QED BY <1>8

\* flashmem.c, read: what the loop makes of the text from each position on.
LEMMA UnescIs ==
  ASSUME NEW e, Len(e) \in Nat
  PROVE  \E g : /\ unesc_chars(e) = g[1]
                /\ g[Len(e) + 1] = <<>>
                /\ \A i \in 1..Len(e) : e[i] # "\\" => g[i] = <<e[i]>> \o g[i + 1]
                /\ \A i \in 1..Len(e) : e[i] = "\\" /\ i # Len(e) => g[i] = <<e[i + 1]>> \o g[i + 2]
                /\ \A i \in 1..Len(e) : e[i] = "\\" /\ i = Len(e) => g[i] = <<>>
<1> DEFINE L == Len(e)
           eq(g) == [i \in 1..L + 1 |->
                       IF i > L THEN <<>>
                       ELSE IF e[i] # "\\" THEN <<e[i]>> \o g[i + 1]
                       ELSE IF i = L THEN <<>> ELSE <<e[i + 1]>> \o g[i + 2]]
           f == CHOOSE g : g = eq(g)
<1>1. unesc_chars(e) = f[1]
  BY DEF unesc_chars
<1> HIDE DEF L
<1>2. L \in Nat
  BY DEF L
<1>3. \E g : g = eq(g)
  BY <1>2, UnescExists
<1>4. f = eq(f)
  BY <1>3, Zenon
<1> HIDE DEF f
<1>5. \A i \in 1..L + 1 : f[i] = IF i > L THEN <<>>
                       ELSE IF e[i] # "\\" THEN <<e[i]>> \o f[i + 1]
                       ELSE IF i = L THEN <<>> ELSE <<e[i + 1]>> \o f[i + 2]
  BY <1>4, Zenon
<1>6. L + 1 \in 1..L + 1 /\ L + 1 > L
  BY <1>2
<1>7. f[L + 1] = <<>>
  BY <1>5, <1>6, Zenon
<1>8. \A i \in 1..L : i \in 1..L + 1 /\ ~(i > L)
  BY <1>2
<1>9. /\ \A i \in 1..L : e[i] # "\\" => f[i] = <<e[i]>> \o f[i + 1]
      /\ \A i \in 1..L : e[i] = "\\" /\ i # L => f[i] = <<e[i + 1]>> \o f[i + 2]
      /\ \A i \in 1..L : e[i] = "\\" /\ i = L => f[i] = <<>>
  BY <1>5, <1>8, Zenon
<1> QED BY <1>1, <1>7, <1>9, Zenon DEF L

\* No character is dropped, and none is behind the end.
LEMMA OffsetsGrow ==
  ASSUME NEW A, NEW v \in Seq(A), NEW e, NEW o \in [0..Len(v) -> Nat], Offsets(v, e, o)
  PROVE  \A n \in 0..Len(v) : n <= o[n] /\ o[n] <= Len(e)
<1> DEFINE N == Len(v)
<1>1. N \in Nat /\ \A i \in 1..N : v[i] \in A
  BY LenProperties
<1>2. /\ o[0] = 0 /\ o[N] = Len(e)
      /\ \A n \in 1..N : o[n] = o[n - 1] + Len(Piece(v[n]))
  BY DEF Offsets
<1> HIDE DEF N
<1>3. \A c : Len(Piece(c)) \in {1, 2}
  BY DEF Piece
<1>4. ASSUME NEW n \in 1..N
      PROVE  n - 1 \in 0..N /\ o[n - 1] \in Nat /\ o[n] >= o[n - 1] + 1
  <2>1. n - 1 \in 0..N /\ o[n] = o[n - 1] + Len(Piece(v[n]))
    BY <1>1, <1>2
  <2>2. o[n - 1] \in Nat
    BY <2>1 DEF N
  <2> QED BY <1>3, <2>1, <2>2
<1> DEFINE T == {m \in Nat : m <= N => m <= o[m]}
           D == {m \in Nat : m <= N => o[N - m] <= o[N]}
<1>5. 0 \in T /\ 0 \in D
  <2>1. 0 <= o[0]
    BY <1>2
  <2>2. N - 0 = N /\ o[N] \in Nat
    BY <1>1 DEF N
  <2> QED BY <2>1, <2>2
<1>6. ASSUME NEW m \in Nat, m \in T
      PROVE  m + 1 \in T
  <2> SUFFICES ASSUME m + 1 <= N
               PROVE  m + 1 <= o[m + 1]
    OBVIOUS
  <2>1. m + 1 \in 1..N /\ (m + 1) - 1 = m /\ m <= o[m]
    BY <1>1, <1>6
  <2>2. o[m] \in Nat /\ o[m + 1] >= o[m] + 1 /\ o[m + 1] \in Nat
    <3>1. m + 1 \in 0..Len(v)
      BY <2>1 DEF N
    <3> QED BY <1>4, <2>1, <3>1
  <2> QED BY <2>1, <2>2
<1>7. ASSUME NEW m \in Nat, m \in D
      PROVE  m + 1 \in D
  <2> SUFFICES ASSUME m + 1 <= N
               PROVE  o[N - (m + 1)] <= o[N]
    OBVIOUS
  <2> DEFINE n == N - m
  <2>1. n \in 1..N /\ N - (m + 1) = n - 1 /\ o[n] <= o[N]
    BY <1>1, <1>7
  <2> HIDE DEF n
  <2>2. o[n - 1] \in Nat /\ o[n] >= o[n - 1] + 1 /\ o[n] \in Nat /\ o[N] \in Nat
    <3>1. n \in 0..Len(v) /\ N \in 0..Len(v)
      BY <1>1, <2>1 DEF N
    <3> QED BY <1>4, <2>1, <3>1
  <2> QED BY <2>1, <2>2
<1> HIDE DEF T, D
<1>8. Nat \subseteq T /\ Nat \subseteq D
  BY <1>5, <1>6, <1>7, Induction
<1>9. ASSUME NEW n \in 0..N
      PROVE  n <= o[n] /\ o[n] <= Len(e)
  <2>1. n \in Nat /\ N - n \in Nat /\ N - n <= N /\ n <= N /\ N - (N - n) = n
    BY <1>1
  <2>2. n <= o[n]
    BY <1>8, <2>1 DEF T
  <2>3. o[N - (N - n)] <= o[N]
    BY <1>8, <2>1 DEF D
  <2> QED BY <1>2, <2>1, <2>2, <2>3
<1> QED BY <1>9 DEF N

\* What the escapes of a value are followed by: nothing, or an escape character.
Behind(f, e) ==
  /\ Len(e) \in Nat
  /\ \A i \in 1..Len(f) : e[i] = f[i]
  /\ Len(e) = Len(f) \/ (Len(e) = Len(f) + 1 /\ e[Len(e)] = "\\")

\* flashmem.c, read: an escape character that the end of the item has cut off from
\* its comma is dropped.
LEMMA UnescBehind ==
  ASSUME NEW A, NEW v \in Seq(A), NEW e, Behind(esc_chars(v), e)
  PROVE  unesc_chars(e) = v /\ Len(v) <= Len(esc_chars(v))
<1> DEFINE N == Len(v)
           f == esc_chars(v)
           F == Len(f)
           L == Len(e)
<1>1. N \in Nat /\ \A i \in 1..N : v[i] \in A
  BY LenProperties
<1>2. PICK o \in [0..N -> Nat] : Offsets(v, f, o)
  BY EscOffsets
<1>3. F \in Nat
  <2>1. f \in Seq(Esc(A))
    BY EscShape
  <2> HIDE DEF f
  <2> QED BY <2>1, LenProperties
<1> HIDE DEF f
<1>15. /\ L \in Nat /\ \A i \in 1..F : e[i] = f[i]
       /\ L = F \/ (L = F + 1 /\ e[L] = "\\")
  BY DEF Behind, f
<1>4. PICK g : /\ unesc_chars(e) = g[1]
               /\ g[L + 1] = <<>>
               /\ \A i \in 1..L : e[i] # "\\" => g[i] = <<e[i]>> \o g[i + 1]
               /\ \A i \in 1..L : e[i] = "\\" /\ i # L => g[i] = <<e[i + 1]>> \o g[i + 2]
               /\ \A i \in 1..L : e[i] = "\\" /\ i = L => g[i] = <<>>
  BY <1>15, UnescIs
<1>5. \A n \in 0..N : n <= o[n] /\ o[n] <= F
  BY <1>2, OffsetsGrow
<1>6. /\ o[0] = 0 /\ o[N] = F
      /\ \A n \in 1..N : o[n] = o[n - 1] + Len(Piece(v[n]))
      /\ \A n \in 1..N : \A i \in 1..Len(Piece(v[n])) : f[o[n - 1] + i] = Piece(v[n])[i]
  BY <1>2 DEF Offsets
<1>7. \A n \in 0..N : o[n] \in Nat
  BY <1>2
<1> HIDE DEF N, L, F
<1>8. ASSUME NEW n \in 1..N
      PROVE  g[o[n - 1] + 1] = <<v[n]>> \o g[o[n] + 1]
  <2> DEFINE c == v[n]
             b == o[n - 1]
             p == Piece(c)
  <2>1. n - 1 \in 0..N /\ n \in 0..N /\ b \in Nat /\ o[n] = b + Len(p) /\ o[n] <= F
    <3>1. n - 1 \in 0..N /\ n \in 0..N
      BY <1>1
    <3> QED BY <1>5, <1>6, <1>7, <3>1
  <2>2. \A i \in 1..Len(p) : e[b + i] = p[i]
    <3>1. ASSUME NEW i \in 1..Len(p)
          PROVE  e[b + i] = p[i]
      <4>1. f[b + i] = p[i]
        BY <1>6
      <4>2. b + i \in 1..F
        <5>1. Len(p) \in {1, 2}
          BY DEF Piece
        <5> HIDE DEF b, p
        <5> QED BY <1>3, <2>1, <5>1
      <4> QED BY <1>15, <4>1, <4>2
    <3> QED BY <3>1
  <2> HIDE DEF b
  <2>3. CASE c \in Special
    <3>1. Len(p) = 2 /\ p[1] = "\\" /\ p[2] = c
      BY <2>3 DEF Piece
    <3> HIDE DEF p, c
    <3>2. e[b + 1] = "\\" /\ e[b + 2] = c
      BY <2>2, <3>1
    <3>3. b + 1 \in 1..L /\ b + 1 # L /\ (b + 1) + 1 = b + 2 /\ (b + 1) + 2 = o[n] + 1
      BY <1>3, <1>15, <2>1, <3>1
    <3>4. g[b + 1] = <<e[(b + 1) + 1]>> \o g[(b + 1) + 2]
      BY <1>4, <3>2, <3>3
    <3> QED BY <3>2, <3>3, <3>4 DEF c, b
  <2>4. CASE c \notin Special
    <3>1. Len(p) = 1 /\ p[1] = c /\ c # "\\"
      BY <2>4 DEF Piece, Special
    <3> HIDE DEF p, c
    <3>2. e[b + 1] = c
      BY <2>2, <3>1
    <3>3. b + 1 \in 1..L /\ (b + 1) + 1 = o[n] + 1
      BY <1>3, <1>15, <2>1, <3>1
    <3>4. g[b + 1] = <<e[b + 1]>> \o g[(b + 1) + 1]
      BY <1>4, <3>1, <3>2, <3>3
    <3> QED BY <3>2, <3>3, <3>4 DEF c, b
  <2> QED BY <2>3, <2>4
<1> DEFINE T == {m \in Nat : m <= N => g[o[N - m] + 1] = SubSeq(v, N - m + 1, N)}
<1>9. 0 \in T
  <2>1. N - 0 = N /\ N < N + 1
    BY <1>1
  <2>2. SubSeq(v, N + 1, N) = <<>>
    BY <1>1, <2>1, SubSeqEmpty
  <2>3. g[o[N] + 1] = <<>>
    <3>1. CASE L = F
      BY <1>4, <1>6, <3>1
    <3>2. CASE L = F + 1 /\ e[L] = "\\"
      <4>1. L \in 1..L /\ o[N] + 1 = L
        BY <1>3, <1>6, <1>15, <3>2
      <4> QED BY <1>4, <3>2, <4>1
    <3> QED BY <1>15, <3>1, <3>2
  <2> QED BY <2>1, <2>2, <2>3
<1>10. ASSUME NEW m \in Nat, m \in T
       PROVE  m + 1 \in T
  <2> SUFFICES ASSUME m + 1 <= N
               PROVE  g[o[N - (m + 1)] + 1] = SubSeq(v, N - (m + 1) + 1, N)
    OBVIOUS
  <2> DEFINE n == N - m
  <2>1. n \in 1..N /\ N - (m + 1) = n - 1 /\ N - (m + 1) + 1 = n /\ m <= N
    BY <1>1
  <2>2. g[o[n] + 1] = SubSeq(v, n + 1, N)
    BY <1>10, <2>1
  <2> HIDE DEF n
  <2>3. g[o[n - 1] + 1] = <<v[n]>> \o g[o[n] + 1]
    BY <1>8, <2>1
  <2>4. SubSeq(v, n, N) = <<v[n]>> \o SubSeq(v, n + 1, N)
    <3>1. n \in 1..Len(v) /\ N \in n..Len(v)
      BY <1>1, <2>1 DEF N
    <3> QED BY <3>1, SubSeqRecursiveFirst
  <2> QED BY <2>1, <2>2, <2>3, <2>4
<1> HIDE DEF T
<1>11. N \in T
  BY <1>1, <1>9, <1>10, Induction
<1>12. g[1] = SubSeq(v, 1, N)
  <2>1. N - N = 0 /\ N - N + 1 = 1 /\ N <= N /\ o[0] + 1 = 1
    BY <1>1, <1>6
  <2> QED BY <1>11, <2>1 DEF T
<1>13. SubSeq(v, 1, N) = v
  BY SubSeqFull DEF N
<1>14. N <= F
  <2>1. N \in 0..N
    BY <1>1
  <2> QED BY <1>5, <1>6, <2>1
<1> QED BY <1>4, <1>12, <1>13, <1>14 DEF f, F, N

\* flashmem.c, read and write: what was escaped is read back as it was, whatever
\* characters it has.
THEOREM EscapesAreInverted ==
  ASSUME NEW A, NEW v \in Seq(A)
  PROVE  unesc_chars(esc_chars(v)) = v /\ Len(v) <= Len(esc_chars(v))
<1>1. esc_chars(v) \in Seq(Esc(A))
  BY EscShape
<1>2. Behind(esc_chars(v), esc_chars(v))
  BY <1>1, LenProperties DEF Behind
<1> QED BY <1>2, UnescBehind

\* flashmem.c, read: taking escapes out makes no text longer.
LEMMA UnescType ==
  ASSUME NEW A, NEW e \in Seq(A)
  PROVE  unesc_chars(e) \in Seq(A) /\ Len(unesc_chars(e)) <= Len(e)
<1> DEFINE L == Len(e)
<1>1. L \in Nat /\ \A i \in 1..L : e[i] \in A
  BY LenProperties
<1>2. PICK g : /\ unesc_chars(e) = g[1]
               /\ g[L + 1] = <<>>
               /\ \A i \in 1..L : e[i] # "\\" => g[i] = <<e[i]>> \o g[i + 1]
               /\ \A i \in 1..L : e[i] = "\\" /\ i # L => g[i] = <<e[i + 1]>> \o g[i + 2]
               /\ \A i \in 1..L : e[i] = "\\" /\ i = L => g[i] = <<>>
  BY <1>1, UnescIs
<1> DEFINE Short(i) == g[i] \in Seq(A) /\ Len(g[i]) <= (L + 1) - i
           T == {m \in Nat : \A i \in 1..L + 1 : (L + 1) - i <= m => Short(i)}
<1> HIDE DEF L
<1>3. ASSUME NEW c \in A, NEW s \in Seq(A)
      PROVE  <<c>> \o s \in Seq(A) /\ Len(<<c>> \o s) = 1 + Len(s) /\ Len(s) \in Nat
  OBVIOUS
<1>4. 0 \in T
  <2>1. ASSUME NEW i \in 1..L + 1, (L + 1) - i <= 0
        PROVE  Short(i)
    <3>1. i = L + 1
      BY <1>1, <2>1
    <3>2. g[i] = <<>>
      BY <1>2, <3>1
    <3> QED BY <1>1, <3>1, <3>2
  <2> HIDE DEF Short
  <2> QED BY <2>1
<1>5. ASSUME NEW m \in Nat, m \in T
      PROVE  m + 1 \in T
  <2>1. ASSUME NEW i \in 1..L + 1, (L + 1) - i <= m + 1
        PROVE  Short(i)
    <3>1. \A j \in 1..L + 1 : (L + 1) - j <= m => Short(j)
      BY <1>5
    <3>2. CASE i = L + 1
      <4>1. g[i] = <<>>
        BY <1>2, <3>2
      <4> QED BY <1>1, <3>2, <4>1
    <3>3. CASE i \in 1..L /\ e[i] # "\\"
      <4>1. i + 1 \in 1..L + 1 /\ (L + 1) - (i + 1) <= m
        BY <1>1, <2>1, <3>3
      <4>2. Short(i + 1)
        <5> HIDE DEF Short
        <5> QED BY <3>1, <4>1
      <4>3. g[i] = <<e[i]>> \o g[i + 1] /\ e[i] \in A
        BY <1>1, <1>2, <3>3
      <4>4. g[i] \in Seq(A) /\ Len(g[i]) = 1 + Len(g[i + 1]) /\ Len(g[i + 1]) \in Nat
        BY <1>3, <4>2, <4>3
      <4> QED BY <1>1, <3>3, <4>2, <4>4
    <3>4. CASE i \in 1..L /\ i # L /\ e[i] = "\\"
      <4>1. i + 2 \in 1..L + 1 /\ (L + 1) - (i + 2) <= m /\ i + 1 \in 1..L
        BY <1>1, <2>1, <3>4
      <4>2. Short(i + 2)
        <5> HIDE DEF Short
        <5> QED BY <3>1, <4>1
      <4>3. g[i] = <<e[i + 1]>> \o g[i + 2] /\ e[i + 1] \in A
        BY <1>1, <1>2, <3>4, <4>1
      <4>4. g[i] \in Seq(A) /\ Len(g[i]) = 1 + Len(g[i + 2]) /\ Len(g[i + 2]) \in Nat
        BY <1>3, <4>2, <4>3
      <4> QED BY <1>1, <3>4, <4>2, <4>4
    <3>5. CASE i = L /\ i \in 1..L /\ e[i] = "\\"
      <4>1. g[i] = <<>>
        BY <1>2, <3>5
      <4> QED BY <1>1, <3>5, <4>1
    <3>6. i = L + 1 \/ i \in 1..L
      BY <1>1
    <3> QED BY <3>2, <3>3, <3>4, <3>5, <3>6
  <2> HIDE DEF Short
  <2> QED BY <2>1
<1>6. L \in T
  <2> HIDE DEF T
  <2> QED BY <1>1, <1>4, <1>5, Induction
<1>7. Short(1)
  <2>1. 1 \in 1..L + 1 /\ (L + 1) - 1 <= L
    BY <1>1
  <2> HIDE DEF Short
  <2> QED BY <1>6, <2>1
<1>8. (L + 1) - 1 = L
  BY <1>1
<1> QED BY <1>2, <1>7, <1>8 DEF L

\* flashmem.c, esc_chars: the escapes of the beginning of a string are the beginning
\* of its escapes.
LEMMA EscPrefix ==
  ASSUME NEW A, NEW v \in Seq(A), NEW m \in 0..Len(v), NEW u \in Seq(A), Len(u) = m,
         \A i \in 1..m : u[i] = v[i]
  PROVE  /\ Len(esc_chars(u)) \in Nat /\ Len(esc_chars(v)) \in Nat
         /\ Len(esc_chars(u)) <= Len(esc_chars(v))
         /\ \A i \in 1..Len(esc_chars(u)) : esc_chars(v)[i] = esc_chars(u)[i]
         /\ m < Len(v) =>
              /\ Len(esc_chars(u)) + Len(Piece(v[m + 1])) <= Len(esc_chars(v))
              /\ \A i \in 1..Len(Piece(v[m + 1])) :
                   esc_chars(v)[Len(esc_chars(u)) + i] = Piece(v[m + 1])[i]
<1> DEFINE N == Len(v)
           e == esc_chars(v)
           f == esc_chars(u)
<1>1. N \in Nat /\ m \in 0..N /\ m \in Nat
  BY LenProperties
<1>2. PICK o \in [0..N -> Nat] : Offsets(v, e, o)
  BY EscOffsets
<1>3. PICK q \in [0..m -> Nat] : Offsets(u, f, q)
  BY EscOffsets
<1> HIDE DEF e, f
<1>4. /\ o[0] = 0 /\ o[N] = Len(e)
      /\ \A n \in 1..N : o[n] = o[n - 1] + Len(Piece(v[n]))
      /\ \A n \in 1..N : \A i \in 1..Len(Piece(v[n])) : e[o[n - 1] + i] = Piece(v[n])[i]
  BY <1>2 DEF Offsets
<1>5. /\ q[0] = 0 /\ q[m] = Len(f)
      /\ \A n \in 1..m : q[n] = q[n - 1] + Len(Piece(v[n]))
      /\ \A n \in 1..m : \A i \in 1..Len(Piece(v[n])) : f[q[n - 1] + i] = Piece(v[n])[i]
  <2>1. q[0] = 0 /\ q[m] = Len(f)
    BY <1>3 DEF Offsets
  <2>2. ASSUME NEW n \in 1..m
        PROVE  /\ q[n] = q[n - 1] + Len(Piece(u[n]))
               /\ \A i \in 1..Len(Piece(u[n])) : f[q[n - 1] + i] = Piece(u[n])[i]
               /\ u[n] = v[n]
    BY <1>3, Zenon DEF Offsets
  <2>3. ASSUME NEW n \in 1..m
        PROVE  /\ q[n] = q[n - 1] + Len(Piece(v[n]))
               /\ \A i \in 1..Len(Piece(v[n])) : f[q[n - 1] + i] = Piece(v[n])[i]
    <3> DEFINE a == Piece(u[n])
               b == Piece(v[n])
    <3>1. a = b
      BY <2>2
    <3>2. q[n] = q[n - 1] + Len(a) /\ \A i \in 1..Len(a) : f[q[n - 1] + i] = a[i]
      BY <2>2
    <3> HIDE DEF a, b
    <3>3. q[n] = q[n - 1] + Len(b) /\ \A i \in 1..Len(b) : f[q[n - 1] + i] = b[i]
      BY <3>1, <3>2
    <3> QED BY <3>3 DEF b
  <2> QED BY <2>1, <2>3, Zenon
<1>6. \A n \in 0..N : n <= o[n] /\ o[n] <= Len(e)
  BY <1>2, OffsetsGrow
<1>7. \A c : Len(Piece(c)) \in {1, 2}
  BY DEF Piece
<1> HIDE DEF N
<1> DEFINE Same(n) == q[n] = o[n] /\ \A i \in 1..o[n] : e[i] = f[i]
           T == {n \in Nat : n <= m => Same(n)}
<1>8. 0 \in T
  <2>1. Same(0)
    BY <1>4, <1>5
  <2> HIDE DEF Same
  <2> QED BY <2>1
<1>9. ASSUME NEW n \in Nat, n \in T
      PROVE  n + 1 \in T
  <2>1. ASSUME n + 1 <= m
        PROVE  Same(n + 1)
    <3> DEFINE p == Piece(v[n + 1])
               b == o[n]
    <3>1. n + 1 \in 1..m /\ n + 1 \in 1..N /\ (n + 1) - 1 = n /\ n <= m /\ n \in 0..N
      BY <1>1, <2>1
    <3>2. q[n] = b /\ \A i \in 1..b : e[i] = f[i]
      BY <1>9, <3>1
    <3>3. q[n + 1] = b + Len(p) /\ o[n + 1] = b + Len(p)
      BY <1>4, <1>5, <3>1, <3>2
    <3>4. \A i \in 1..Len(p) : e[b + i] = p[i] /\ f[b + i] = p[i]
      <4>1. \A i \in 1..Len(p) : e[o[(n + 1) - 1] + i] = p[i]
        BY <1>4, <3>1, Zenon
      <4>2. \A i \in 1..Len(p) : f[q[(n + 1) - 1] + i] = p[i]
        BY <1>5, <3>1, Zenon
      <4>3. o[(n + 1) - 1] = b /\ q[(n + 1) - 1] = b
        BY <3>1, <3>2
      <4> QED BY <4>1, <4>2, <4>3, Zenon
    <3>5. b \in Nat /\ Len(p) \in Nat
      BY <1>2, <1>7, <3>1 DEF N
    <3> HIDE DEF p, b
    <3>6. ASSUME NEW i \in 1..o[n + 1]
          PROVE  e[i] = f[i]
      <4>1. CASE i <= b
        BY <3>2, <3>5, <4>1
      <4>2. CASE ~(i <= b)
        <5>1. i - b \in 1..Len(p) /\ b + (i - b) = i
          BY <3>3, <3>5, <4>2
        <5> QED BY <3>4, <5>1
      <4> QED BY <4>1, <4>2
    <3> QED BY <3>3, <3>6
  <2> HIDE DEF Same
  <2> QED BY <2>1
<1>10. Same(m)
  <2> HIDE DEF T, Same
  <2>1. m \in T
    BY <1>1, <1>8, <1>9, Induction
  <2> QED BY <1>1, <2>1 DEF T
<1>11. o[m] = Len(f) /\ o[m] \in Nat /\ o[m] <= Len(e) /\ Len(e) \in Nat
  <2>1. N \in 0..N
    BY <1>1
  <2> QED BY <1>1, <1>2, <1>4, <1>5, <1>6, <1>10, <2>1 DEF N
<1>12. \A i \in 1..Len(f) : e[i] = f[i]
  BY <1>10, <1>11
<1>13. ASSUME m < N
       PROVE  /\ Len(f) + Len(Piece(v[m + 1])) <= Len(e)
              /\ \A i \in 1..Len(Piece(v[m + 1])) : e[Len(f) + i] = Piece(v[m + 1])[i]
  <2>1. m + 1 \in 1..N /\ m + 1 \in 0..N /\ (m + 1) - 1 = m
    BY <1>1, <1>13
  <2> DEFINE p == Piece(v[m + 1])
  <2>2. o[m + 1] = o[(m + 1) - 1] + Len(p) /\ o[m + 1] <= Len(e)
    BY <1>4, <1>6, <2>1, Zenon
  <2>3. \A i \in 1..Len(p) : e[o[(m + 1) - 1] + i] = p[i]
    BY <1>4, <2>1, Zenon
  <2>4. o[(m + 1) - 1] = Len(f)
    BY <1>11, <2>1
  <2> HIDE DEF p
  <2>5. Len(f) + Len(p) <= Len(e)
    BY <2>2, <2>4
  <2>6. \A i \in 1..Len(p) : e[Len(f) + i] = p[i]
    BY <2>3, <2>4, Zenon
  <2> QED BY <2>5, <2>6 DEF p
<1> QED BY <1>11, <1>12, <1>13 DEF e, f, N
\* flashmem.c, get_val_end: what is in front of the first comma.
LEMMA BeforeIs ==
  ASSUME NEW A, NEW t \in Seq(A)
  PROVE  \E m \in 0..Len(t) :
           /\ BeforeComma(t) \in Seq(A) /\ Len(BeforeComma(t)) = m
           /\ \A i \in 1..m : BeforeComma(t)[i] = t[i] /\ t[i] # ","
           /\ m < Len(t) => t[m + 1] = ","
<1> DEFINE L == Len(t)
           end == ItemEnd(t, 1)
           m == end - 1
           b == BeforeComma(t)
<1>1. L \in Nat /\ 1 \in 1..L + 1
  BY LenProperties
<1>2. /\ end \in 1..L + 1
      /\ end <= L => t[end] = ","
      /\ \A i \in 1..end - 1 : t[i] # ","
  BY <1>1, ItemEndIs
<1>3. b = SubSeq(t, 1, m)
  BY DEF BeforeComma
<1>8. end \in 1..L + 1 /\ L \in Nat
  BY <1>1, <1>2
<1>9. end <= L => t[end] = ","
  BY <1>2
<1> HIDE DEF end, L, b
<1>4. m \in 0..L /\ m + 1 = end /\ (m < L => end <= L)
  BY <1>8
<1>5. b \in Seq(A) /\ Len(b) = m /\ \A i \in 1..m : b[i] = t[i]
  BY <1>3, <1>4, SubSeqProperties DEF L
<1>6. m < L => t[m + 1] = ","
  BY <1>4, <1>9, Zenon
<1>7. \A i \in 1..m : t[i] # ","
  BY <1>2
<1> HIDE DEF m
<1> QED BY <1>4, <1>5, <1>6, <1>7 DEF L, b

LEMMA EscType ==
  ASSUME NEW v \in Seq(Chars)
  PROVE  esc_chars(v) \in Seq(Chars) /\ Shape(esc_chars(v))
<1>1. esc_chars(v) \in Seq(Esc(Chars)) /\ Shape(esc_chars(v))
  BY EscShape
<1>2. Esc(Chars) \subseteq Chars
  BY CodecAssumptions DEF Esc, Special
<1> QED BY <1>1, <1>2, SeqGrows

\* flashmem.c, esc_chars: a string without a comma gets none.
LEMMA EscNoComma ==
  ASSUME NEW A, NEW v \in Seq(A), \A i \in 1..Len(v) : v[i] # ","
  PROVE  \A i \in 1..Len(esc_chars(v)) : esc_chars(v)[i] # ","
<1> DEFINE B == A \ {","}
           e == esc_chars(v)
<1>1. v \in Seq(B)
  <2>1. Len(v) \in Nat /\ v \in [1..Len(v) -> A]
    BY LenProperties
  <2>2. \A i \in 1..Len(v) : v[i] \in B
    BY <2>1
  <2>3. v \in [1..Len(v) -> B]
    BY <2>1, <2>2
  <2> DEFINE n == Len(v)
  <2>4. n \in Nat /\ v \in [1..n -> B]
    BY <2>1, <2>3
  <2> HIDE DEF n, B
  <2> QED BY <2>4, SeqDef
<1>2. e \in Seq(Esc(B))
  <2> HIDE DEF B
  <2> QED BY <1>1, EscShape
<1>3. "," \notin Esc(B)
  BY DEF Esc
<1> HIDE DEF B, e
<1>4. \A i \in 1..Len(e) : e[i] \in Esc(B)
  BY <1>2, LenProperties
<1> QED BY <1>3, <1>4 DEF e

\* flashmem.c, write and read: what is in front of the first comma of a value is
\* read back as it was written; an escape does not save the comma.
LEMMA UnescBefore ==
  ASSUME NEW A, NEW v \in Seq(A)
  PROVE  unesc_chars(BeforeComma(esc_chars(v))) = BeforeComma(v)
<1> DEFINE e == esc_chars(v)
           u == BeforeComma(v)
           f == esc_chars(u)
           p == BeforeComma(e)
           N == Len(v)
           F == Len(f)
           E == Len(e)
<1>1. PICK m \in 0..N :
        /\ u \in Seq(A) /\ Len(u) = m
        /\ \A i \in 1..m : u[i] = v[i] /\ v[i] # ","
        /\ m < N => v[m + 1] = ","
  BY BeforeIs
<1>2. e \in Seq(Esc(A))
  BY EscShape
<1> HIDE DEF u, N
<1>3. /\ F \in Nat /\ E \in Nat /\ F <= E
      /\ \A i \in 1..F : e[i] = f[i]
      /\ m < N => /\ F + Len(Piece(v[m + 1])) <= E
                  /\ \A i \in 1..Len(Piece(v[m + 1])) : e[F + i] = Piece(v[m + 1])[i]
  <2>1. m \in 0..Len(v) /\ u \in Seq(A) /\ Len(u) = m /\ \A i \in 1..m : u[i] = v[i]
    BY <1>1 DEF N
  <2>2. /\ Len(esc_chars(u)) \in Nat /\ Len(esc_chars(v)) \in Nat
        /\ Len(esc_chars(u)) <= Len(esc_chars(v))
        /\ \A i \in 1..Len(esc_chars(u)) : esc_chars(v)[i] = esc_chars(u)[i]
        /\ m < Len(v) =>
             /\ Len(esc_chars(u)) + Len(Piece(v[m + 1])) <= Len(esc_chars(v))
             /\ \A i \in 1..Len(Piece(v[m + 1])) :
                  esc_chars(v)[Len(esc_chars(u)) + i] = Piece(v[m + 1])[i]
    BY <2>1, EscPrefix
  <2> QED BY <2>2, Zenon DEF N
<1>4. \A i \in 1..F : f[i] # ","
  <2>1. u \in Seq(A) /\ \A i \in 1..Len(u) : u[i] # ","
    BY <1>1
  <2> QED BY <2>1, EscNoComma
<1> HIDE DEF e, f
<1>5. PICK n \in 0..E :
        /\ Len(p) = n
        /\ \A i \in 1..n : p[i] = e[i] /\ e[i] # ","
        /\ n < E => e[n + 1] = ","
  BY <1>2, BeforeIs
<1>6. F \in Nat /\ E \in Nat /\ F <= E /\ n \in Nat /\ n <= E
  <2>1. F \in Nat /\ E \in Nat /\ F <= E
    BY <1>3, Zenon
  <2>2. n \in 0..E
    OBVIOUS
  <2> HIDE DEF E, F
  <2> QED BY <2>1, <2>2
<1>7. m \in Nat /\ N \in Nat /\ (m < N \/ m = N)
  <2>1. N \in Nat
    BY LenProperties DEF N
  <2>2. m \in 0..N
    OBVIOUS
  <2> QED BY <2>1, <2>2
<1>8. Len(p) = n /\ \A i \in 1..n : p[i] = e[i] /\ e[i] # ","
  BY <1>5
<1>9. n < E => e[n + 1] = ","
  BY <1>5
<1>10. \A i \in 1..F : e[i] = f[i]
  BY <1>3
<1> HIDE DEF p, E, F
<1>11. n >= F
  <2> SUFFICES ASSUME n < F PROVE FALSE
    BY <1>6
  <2>1. n + 1 \in 1..F /\ n < E
    BY <1>6
  <2> QED BY <1>4, <1>9, <1>10, <2>1
<1>12. \A i \in 1..F : p[i] = f[i]
  <2>1. \A i \in 1..F : i \in 1..n
    BY <1>6, <1>11
  <2> QED BY <1>8, <1>10, <2>1
<1>13. CASE m < N
  <2> DEFINE c == Piece(v[m + 1])
  <2>1. v[m + 1] = ","
    BY <1>1, <1>13
  <2>2. Len(c) = 2 /\ c[1] = "\\" /\ c[2] = ","
    BY <2>1 DEF Piece, Special
  <2>3. F + Len(c) <= E /\ \A i \in 1..Len(c) : e[F + i] = c[i]
    BY <1>3, <1>13, Zenon
  <2> HIDE DEF c
  <2>4. 1 \in 1..Len(c) /\ 2 \in 1..Len(c) /\ F + 2 <= E
    <3>1. Len(c) = 2 /\ F + Len(c) <= E
      BY <2>2, <2>3
    <3> QED BY <3>1
  <2>5. e[F + 1] = "\\" /\ e[F + 2] = ","
    BY <2>2, <2>3, <2>4, Zenon
  <2>6. n # F
    <3> SUFFICES ASSUME n = F PROVE FALSE
      OBVIOUS
    <3>1. n < E
      BY <1>6, <2>4
    <3> QED BY <1>9, <2>5, <3>1
  <2>7. ~(n >= F + 2)
    <3> SUFFICES ASSUME n >= F + 2 PROVE FALSE
      OBVIOUS
    <3>1. F + 2 \in 1..n
      BY <1>6
    <3> QED BY <1>8, <2>5, <3>1
  <2>8. n = F + 1
    BY <1>6, <1>11, <2>6, <2>7
  <2>9. p[n] = "\\"
    <3>1. n \in 1..n
      BY <1>6, <2>8
    <3> QED BY <1>8, <2>5, <2>8, <3>1
  <2>10. Len(p) \in Nat /\ Len(p) = F + 1 /\ p[Len(p)] = "\\"
    BY <1>6, <1>8, <2>8, <2>9
  <2>11. Behind(f, p)
    BY <1>12, <2>10 DEF Behind, F
  <2> QED BY <1>1, <2>11, UnescBehind DEF f, p, e, u
<1>14. CASE m = N
  <2>1. u = v
    <3>1. Len(v) = Len(u) /\ \A i \in 1..Len(v) : u[i] = v[i]
      BY <1>1, <1>14 DEF N
    <3> QED BY <1>1, <3>1, SeqEqual
  <2>2. F = E
    BY <2>1 DEF F, E, f, e
  <2>3. Len(p) \in Nat /\ Len(p) = F
    <3>1. Len(p) = n
      BY <1>8
    <3> QED BY <1>6, <1>11, <2>2, <3>1
  <2>4. Behind(f, p)
    BY <1>12, <2>3 DEF Behind, F
  <2> QED BY <1>1, <2>4, UnescBehind DEF f, p, e, u
<1> QED BY <1>7, <1>13, <1>14
(***************************************************************************)
(* What read() makes of a text                                             *)
(***************************************************************************)
\* Every item follows a comma.
Led(t) == \A x \in Keys : \A n \in Starts(t, x) : n > 1 /\ t[n - 1] = ","

\* The value of the item that starts at n is f, up to the first comma.
ItemAt(t, n, f) ==
  /\ n + 1 + Len(f) <= Len(t)
  /\ \A i \in 1..Len(f) : t[n + 1 + i] = f[i] /\ f[i] # ","
  /\ EndsItem(t, n + 2 + Len(f))

Has(t, x, f) == \E n \in Starts(t, x) : ItemAt(t, n, f)

NoComma(t, start, end) == \A i \in start..end - 1 : t[i] # ","

\* flashmem.c, splice: an item in front of the replaced one, or behind it, keeps its value.
LEMMA SplicedHas ==
  ASSUME NEW A, NEW t \in Seq(A), Led(t), NEW k \in Keys, NEW e, Len(e) \in Nat,
         NEW loc \in Starts(t, k), NEW end \in loc + 1..Len(t) + 1, NoComma(t, loc, end),
         NEW new, NEW size \in Nat, size = loc + 1 + Len(e),
         Spliced(new, t, k, e, loc, end, size),
         NEW x \in Keys, x # k, NEW f, Len(f) \in Nat, Has(t, x, f)
  PROVE  Has(new, x, f)
<1> DEFINE L == Len(t)
           F == Len(f)
           Z == Len(new)
<1>1. PICK n \in Starts(t, x) : ItemAt(t, n, f)
  BY DEF Has
<1> DEFINE M == n + 1 + F
<1>2. L \in Nat /\ F \in Nat /\ n \in Nat /\ n >= 1 /\ n <= L - 1
  BY DEF Starts
<1>3. loc \in Nat /\ loc >= 1 /\ loc <= L - 1 /\ end \in Nat /\ end >= loc + 1 /\ end <= L + 1
  BY <1>2 DEF Starts
<1>4. t[n] = x /\ t[n + 1] = "=" /\ t[loc] = k /\ x # ","
  BY CodecAssumptions DEF Starts, Special
<1>5. t[n - 1] = "," /\ t[loc - 1] = "," /\ loc > 1
  BY DEF Led
<1>6. /\ M <= L /\ M \in Nat
      /\ \A i \in 1..F : t[n + 1 + i] = f[i] /\ f[i] # ","
      /\ M + 1 <= L => t[M + 1] = ","
  <2>1. M + 1 = n + 2 + F /\ M \in Nat
    BY <1>2
  <2> QED BY <1>1, <2>1 DEF ItemAt, EndsItem
<1>7. Z = size + (L - end + 1) /\ Z \in Nat /\ Z >= loc + 1
  BY <1>2, <1>3 DEF Spliced
<1>8. /\ \A i \in 1..loc - 1 : new[i] = t[i]
      /\ \A i \in end..L : new[size + 1 + (i - end)] = t[i]
  BY DEF Spliced
<1>9. \A i \in loc..end - 1 : t[i] # ","
  BY DEF NoComma
<1>10. ASSUME NEW y \in 1..Z - 1, new[y] = x, new[y + 1] = "="
       PROVE  y \in Starts(new, x)
  BY <1>10 DEF Starts
<1>11. ASSUME NEW y \in Starts(new, x), y \in Nat, y + 1 + F <= Z,
              \A i \in 1..F : new[y + 1 + i] = f[i],
              y + 2 + F <= Z => new[y + 2 + F] = ","
       PROVE  Has(new, x, f)
  <2>1. ItemAt(new, y, f)
    BY <1>6, <1>11 DEF ItemAt, EndsItem
  <2> QED BY <2>1 DEF Has
<1> HIDE DEF L, F, Z, M
<1>12. M = n + 1 + F
  BY DEF M
<1>16. M <= L /\ M \in Nat /\ L \in Nat
  BY <1>2, <1>6, Zenon
<1>13. CASE n < loc
  <2>1. n # loc - 1
    BY <1>4, <1>5
  <2>2. n # loc - 2
    <3> SUFFICES ASSUME n = loc - 2 PROVE FALSE
      OBVIOUS
    <3>1. n + 1 = loc - 1
      BY <1>3
    <3> QED BY <1>4, <1>5, <3>1
  <2>3. ~(M >= loc - 1)
    <3> SUFFICES ASSUME M >= loc - 1 PROVE FALSE
      OBVIOUS
    <3> DEFINE i == loc - 2 - n
    <3>1. i \in 1..F /\ n + 1 + i = loc - 1
      BY <1>2, <1>3, <1>12, <1>13, <2>1, <2>2
    <3> HIDE DEF i
    <3> QED BY <1>5, <1>6, <3>1
  <2>4. M + 1 <= loc - 1 /\ M + 1 <= L /\ M + 1 <= Z
    BY <1>2, <1>3, <1>7, <1>16, <2>3
  <2>5. /\ n \in 1..loc - 1 /\ n + 1 \in 1..loc - 1 /\ n \in 1..Z - 1
        /\ M + 1 \in 1..loc - 1 /\ n + 2 + F = M + 1 /\ n + 1 + F <= Z
        /\ \A i \in 1..F : n + 1 + i \in 1..loc - 1
    BY <1>2, <1>3, <1>7, <1>12, <2>4
  <2>6. n \in Starts(new, x)
    <3>1. new[n] = x /\ new[n + 1] = "="
      BY <1>4, <1>8, <2>5
    <3> QED BY <1>10, <2>5, <3>1
  <2>7. \A i \in 1..F : new[n + 1 + i] = f[i]
    BY <1>6, <1>8, <2>5
  <2>8. new[n + 2 + F] = ","
    BY <1>6, <1>8, <2>4, <2>5
  <2> QED BY <1>2, <1>11, <2>5, <2>6, <2>7, <2>8
<1>14. CASE n > loc
  <2>1. ~(n <= end)
    <3> SUFFICES ASSUME n <= end PROVE FALSE
      OBVIOUS
    <3>1. n - 1 \in loc..end - 1
      BY <1>2, <1>3, <1>14
    <3> QED BY <1>5, <1>9, <3>1
  <2> DEFINE y == size + 1 + (n - end)
  <2>2. /\ n \in end..L /\ n + 1 \in end..L /\ y \in Nat /\ y \in 1..Z - 1
        /\ size + 1 + ((n + 1) - end) = y + 1
        /\ y + 1 + F <= Z
        /\ y + 2 + F <= Z => M + 1 \in end..L
        /\ size + 1 + ((M + 1) - end) = y + 2 + F
    BY <1>2, <1>3, <1>7, <1>12, <1>16, <2>1
  <2>3. ASSUME NEW i \in 1..F
        PROVE  n + 1 + i \in end..L /\ size + 1 + ((n + 1 + i) - end) = y + 1 + i
    BY <1>2, <1>3, <1>7, <1>12, <1>16, <2>1
  <2>4. y = size + 1 + (n - end)
    OBVIOUS
  <2> HIDE DEF y
  <2>5. y \in Starts(new, x)
    <3>1. new[y] = x
      BY <1>4, <1>8, <2>2, <2>4
    <3>2. new[y + 1] = "="
      <4>1. new[size + 1 + ((n + 1) - end)] = t[n + 1]
        BY <1>8, <2>2
      <4> QED BY <1>4, <2>2, <4>1
    <3> QED BY <1>10, <2>2, <3>1, <3>2
  <2>6. ASSUME NEW i \in 1..F
        PROVE  new[y + 1 + i] = f[i]
    <3>1. new[size + 1 + ((n + 1 + i) - end)] = t[n + 1 + i]
      BY <1>8, <2>3
    <3> QED BY <1>6, <2>3, <3>1
  <2>7. y + 2 + F <= Z => new[y + 2 + F] = ","
    <3> SUFFICES ASSUME y + 2 + F <= Z PROVE new[y + 2 + F] = ","
      OBVIOUS
    <3>1. M + 1 \in end..L
      BY <2>2
    <3>2. M + 1 <= L
      BY <1>3, <1>16, <3>1
    <3>3. new[size + 1 + ((M + 1) - end)] = t[M + 1]
      BY <1>8, <3>1
    <3>4. t[M + 1] = ","
      BY <1>6, <3>2
    <3>5. size + 1 + ((M + 1) - end) = y + 2 + F
      BY <2>2
    <3> QED BY <3>3, <3>4, <3>5, Zenon
  <2> QED BY <1>11, <2>2, <2>5, <2>6, <2>7
<1>15. n # loc
  BY <1>4
<1> QED BY <1>2, <1>3, <1>13, <1>14, <1>15

\* flashmem.c, splice: the new item reads as its value up to the first comma.
LEMMA SplicedOwn ==
  ASSUME NEW A, NEW t, Len(t) \in Nat, NEW k \in Keys, NEW e \in Seq(A),
         NEW loc \in Nat \ {0}, NEW end \in loc + 1..Len(t) + 1, EndsItem(t, end),
         NEW new, NEW size \in Nat, size = loc + 1 + Len(e),
         Spliced(new, t, k, e, loc, end, size)
  PROVE  Has(new, k, BeforeComma(e))
<1> DEFINE b == BeforeComma(e)
           E == Len(e)
           L == Len(t)
           Z == Len(new)
<1>1. PICK m \in 0..E :
        /\ Len(b) = m
        /\ \A i \in 1..m : b[i] = e[i] /\ e[i] # ","
        /\ m < E => e[m + 1] = ","
  BY BeforeIs
<1>2. E \in Nat /\ L \in Nat /\ m \in Nat /\ m <= E
  <2>1. E \in Nat
    BY LenProperties
  <2> HIDE DEF E
  <2> QED BY <2>1
<1>3. Z = size + (L - end + 1)
  BY DEF Spliced
<1>4. new[loc] = k /\ new[loc + 1] = "="
  BY DEF Spliced
<1>5. \A i \in 1..E : new[loc + 1 + i] = e[i]
  BY DEF Spliced
<1>6. \A i \in end..L : new[size + 1 + (i - end)] = t[i]
  BY DEF Spliced
<1>7. size = loc + 1 + E /\ end \in loc + 1..L + 1 /\ (end <= L => t[end] = ",")
  BY DEF EndsItem
<1>8. Len(b) = m /\ \A i \in 1..m : b[i] = e[i] /\ e[i] # ","
  BY <1>1
<1>9. m < E => e[m + 1] = ","
  BY <1>1
<1> HIDE DEF b, E, L, Z
<1>16. end \in Nat /\ end <= L + 1 /\ L - end + 1 \in Nat
  <2>1. end \in loc + 1..L + 1
    BY <1>7
  <2> QED BY <1>2, <2>1
<1>17. size = loc + 1 + E
  BY <1>7
<1>10. Z \in Nat /\ Z >= loc + 1 + m /\ Z >= loc + 1 /\ loc \in 1..Z - 1
  BY <1>2, <1>3, <1>16, <1>17
<1>11. loc \in Starts(new, k)
  BY <1>4, <1>10 DEF Starts, Z
<1>12. ASSUME NEW i \in 1..m
       PROVE  new[loc + 1 + i] = b[i] /\ b[i] # ","
  <2>1. i \in 1..E
    BY <1>2
  <2> QED BY <1>5, <1>8, <2>1
<1>13. ASSUME loc + 2 + m <= Z
       PROVE  new[loc + 2 + m] = ","
  <2>1. CASE m < E
    <3>1. m + 1 \in 1..E /\ loc + 1 + (m + 1) = loc + 2 + m
      BY <1>2, <1>16, <2>1
    <3>2. new[loc + 1 + (m + 1)] = e[m + 1]
      BY <1>5, <3>1
    <3> QED BY <1>9, <2>1, <3>1, <3>2
  <2>2. CASE m = E
    <3>1. end \in end..L /\ size + 1 + (end - end) = loc + 2 + m /\ end <= L
      BY <1>2, <1>3, <1>13, <1>16, <1>17, <2>2
    <3>2. new[size + 1 + (end - end)] = t[end]
      BY <1>6, <3>1
    <3>3. t[end] = ","
      BY <1>7, <3>1
    <3>4. size + 1 + (end - end) = loc + 2 + m
      BY <3>1
    <3> QED BY <3>2, <3>3, <3>4
  <2>3. m < E \/ m = E
    BY <1>2
  <2> QED BY <2>1, <2>2, <2>3, Zenon
<1>14. loc + 1 + m <= Z
  BY <1>10
<1>15. ItemAt(new, loc, b)
  BY <1>8, <1>12, <1>13, <1>14 DEF ItemAt, EndsItem, Z
<1> QED BY <1>11, <1>15 DEF Has, b

\* flashmem.c, upsert_key: and so does one that is appended.
LEMMA AppendedOwn ==
  ASSUME NEW A, NEW t, Len(t) \in Nat, NEW k \in Keys, NEW e \in Seq(A), NEW new,
         Extended(new, t, k, e)
  PROVE  Has(new, k, BeforeComma(e))
<1> DEFINE b == BeforeComma(e)
           E == Len(e)
           L == Len(t)
           Z == Len(new)
<1>1. PICK m \in 0..E :
        /\ Len(b) = m
        /\ \A i \in 1..m : b[i] = e[i] /\ e[i] # ","
        /\ m < E => e[m + 1] = ","
  BY BeforeIs
<1>2. E \in Nat /\ L \in Nat /\ m \in Nat /\ m <= E
  <2>1. E \in Nat
    BY LenProperties
  <2> HIDE DEF E
  <2> QED BY <2>1
<1>3. Z = L + 3 + E
  BY DEF Extended
<1>4. new[L + 2] = k /\ new[L + 3] = "="
  BY DEF Extended
<1>5. \A i \in 1..E : new[L + 3 + i] = e[i]
  BY DEF Extended
<1>8. Len(b) = m /\ \A i \in 1..m : b[i] = e[i] /\ e[i] # ","
  BY <1>1
<1>9. m < E => e[m + 1] = ","
  BY <1>1
<1> HIDE DEF b, E, L, Z
<1> DEFINE loc == L + 2
<1>10. Z \in Nat /\ Z >= loc + 1 + m /\ loc \in 1..Z - 1 /\ loc + 1 = L + 3
  BY <1>2, <1>3
<1>11. loc \in Starts(new, k)
  BY <1>4, <1>10 DEF Starts, Z
<1>12. ASSUME NEW i \in 1..m
       PROVE  new[loc + 1 + i] = b[i] /\ b[i] # ","
  <2>1. i \in 1..E /\ loc + 1 + i = L + 3 + i
    BY <1>2
  <2> QED BY <1>5, <1>8, <2>1
<1>13. ASSUME loc + 2 + m <= Z
       PROVE  new[loc + 2 + m] = ","
  <2>1. m < E /\ m + 1 \in 1..E /\ L + 3 + (m + 1) = loc + 2 + m
    BY <1>2, <1>3, <1>13
  <2>2. new[L + 3 + (m + 1)] = e[m + 1]
    BY <1>5, <2>1
  <2> QED BY <1>9, <2>1, <2>2
<1>14. loc + 1 + m <= Z
  BY <1>10
<1> HIDE DEF loc
<1>15. ItemAt(new, loc, b)
  BY <1>8, <1>12, <1>13, <1>14 DEF ItemAt, EndsItem, Z
<1> QED BY <1>11, <1>15 DEF Has, b

\* flashmem.c, upsert_key: what is in the text keeps its value when an item is appended.
LEMMA AppendedHas ==
  ASSUME NEW t, Len(t) \in Nat, NEW k, NEW e, Len(e) \in Nat, NEW new, Extended(new, t, k, e),
         NEW x, NEW f, Len(f) \in Nat, Has(t, x, f)
  PROVE  Has(new, x, f)
<1> DEFINE L == Len(t)
           F == Len(f)
           Z == Len(new)
<1>1. PICK n \in Starts(t, x) : ItemAt(t, n, f)
  BY DEF Has
<1>2. L \in Nat /\ F \in Nat /\ n \in Nat /\ n >= 1 /\ n <= L - 1 /\ t[n] = x /\ t[n + 1] = "="
  BY DEF Starts
<1>3. /\ n + 1 + F <= L
      /\ \A i \in 1..F : t[n + 1 + i] = f[i] /\ f[i] # ","
      /\ n + 2 + F <= L => t[n + 2 + F] = ","
  BY <1>1 DEF ItemAt, EndsItem
<1>4. Z = L + 3 + Len(e) /\ Len(e) \in Nat
  BY DEF Extended
<1>11. n + 1 + F <= L
  BY <1>3
<1>5. new[L + 1] = "," /\ \A i \in 1..L : new[i] = t[i]
  BY DEF Extended
<1> HIDE DEF L, F, Z
<1>6. n \in 1..L /\ n + 1 \in 1..L /\ n \in 1..Z - 1 /\ n + 1 + F <= Z
  BY <1>2, <1>4, <1>11
<1>7. n \in Starts(new, x)
  <2>1. new[n] = x /\ new[n + 1] = "="
    BY <1>2, <1>5, <1>6
  <2> QED BY <1>6, <2>1 DEF Starts, Z
<1>8. ASSUME NEW i \in 1..F
      PROVE  new[n + 1 + i] = f[i] /\ f[i] # ","
  <2>1. n + 1 + i \in 1..L
    BY <1>2, <1>11
  <2> QED BY <1>3, <1>5, <2>1
<1>9. new[n + 2 + F] = ","
  <2>1. CASE n + 2 + F <= L
    <3>1. n + 2 + F \in 1..L
      BY <1>2, <2>1
    <3> QED BY <1>3, <1>5, <2>1, <3>1
  <2>2. CASE n + 2 + F = L + 1
    BY <1>5, <2>2
  <2>3. n + 2 + F <= L \/ n + 2 + F = L + 1
    BY <1>2, <1>11
  <2> QED BY <2>1, <2>2, <2>3
<1>10. ItemAt(new, n, f)
  BY <1>6, <1>8, <1>9 DEF ItemAt, EndsItem, Z, F
<1> QED BY <1>7, <1>10 DEF Has

\* flashmem.c, splice: every item still follows a comma.
LEMMA SplicedLed ==
  ASSUME NEW A, NEW t \in Seq(A), Led(t), NEW k \in Keys, NEW e \in Seq(A), Shape(e),
         NEW loc \in Starts(t, k), NEW end \in loc + 1..Len(t) + 1, EndsItem(t, end),
         NEW new, NEW size \in Nat, size = loc + 1 + Len(e),
         Spliced(new, t, k, e, loc, end, size)
  PROVE  Led(new)
<1> DEFINE L == Len(t)
<1>1. loc \in 1..L /\ loc \in Nat /\ L \in Nat
  BY DEF Starts
<1>2. loc > 1 /\ t[loc - 1] = ","
  BY DEF Led
<1>3. /\ \A i \in 1..loc - 1 : new[i] = t[i]
      /\ \A i \in end..L : new[size + 1 + (i - end)] = t[i]
  BY DEF Spliced
<1> SUFFICES ASSUME NEW x \in Keys, NEW n \in Starts(new, x)
             PROVE  n > 1 /\ new[n - 1] = ","
  BY DEF Led
<1>4. \/ n < loc /\ n \in Starts(t, x)
      \/ n = loc /\ x = k
      \/ n > size /\ n - size - 1 + end \in Starts(t, x)
  BY <1>1, SplicedStarts
<1>5. n \in Nat
  <2>1. Len(new) \in Nat
    BY <1>1 DEF Spliced
  <2> QED BY <2>1 DEF Starts
<1>6. CASE n < loc /\ n \in Starts(t, x)
  <2>1. n > 1 /\ t[n - 1] = ","
    BY <1>6 DEF Led
  <2>3. n > 1 /\ n < loc
    BY <1>6, <2>1
  <2>2. n - 1 \in 1..loc - 1
    BY <1>1, <1>5, <2>3
  <2> QED BY <1>3, <2>1, <2>2
<1>7. CASE n = loc
  <2>2. loc > 1
    BY <1>2
  <2>1. loc - 1 \in 1..loc - 1
    BY <1>1, <2>2
  <2> QED BY <1>2, <1>3, <1>7, <2>1
<1>8. CASE n > size /\ n - size - 1 + end \in Starts(t, x)
  <2> DEFINE o == n - size - 1 + end
  <2>5. o \in Starts(t, x)
    BY <1>8
  <2> HIDE DEF o
  <2>8. o > 1 /\ t[o - 1] = ","
    BY <2>5 DEF Led
  <2>9. t[o] = x /\ o \in 1..L - 1
    BY <2>5 DEF Starts
  <2>10. o \in 1..L
    BY <1>1, <2>9
  <2>1. o > 1 /\ t[o - 1] = "," /\ t[o] = x /\ o \in 1..L
    BY <2>8, <2>9, <2>10
  <2>6. o \in Nat /\ o > 1 /\ o <= L
    <3>1. o \in 1..L /\ o > 1
      BY <2>1
    <3> QED BY <1>1, <3>1
  <2>7. end \in Nat /\ end <= L + 1 /\ n > size /\ o = n - size - 1 + end
    BY <1>1, <1>8 DEF o
  <2>2. o # end
    <3>1. x # ","
      BY CodecAssumptions DEF Special
    <3>2. end <= L => t[end] = ","
      BY DEF EndsItem
    <3>3. o <= L /\ t[o] = x
      BY <2>1, <2>6
    <3> QED BY <3>1, <3>2, <3>3
  <2>3. o - 1 \in end..L /\ size + 1 + ((o - 1) - end) = n - 1 /\ n > 1
    <3>1. o - 1 \in Nat /\ o - 1 <= L /\ o >= end
      BY <1>1, <1>5, <2>6, <2>7
    <3>2. o - 1 >= end
      BY <2>2, <2>6, <2>7, <3>1
    <3>3. o - 1 \in end..L
      BY <1>1, <2>7, <3>1, <3>2
    <3>4. size + 1 + ((o - 1) - end) = n - 1 /\ n > 1
      <4>1. n = o + size + 1 - end /\ n \in Nat /\ o \in Nat /\ end \in Nat /\ size \in Nat
        BY <1>5, <2>6, <2>7
      <4>2. n > 1
        BY <3>2, <4>1
      <4> QED BY <4>1, <4>2
    <3> QED BY <3>3, <3>4
  <2>4. new[size + 1 + ((o - 1) - end)] = t[o - 1]
    BY <1>3, <2>3
  <2> QED BY <2>1, <2>3, <2>4
<1> QED BY <1>4, <1>6, <1>7, <1>8

\* flashmem.c, upsert_key: and so it does when an item is appended.
LEMMA AppendedLed ==
  ASSUME NEW A, NEW t \in Seq(A), Led(t), NEW k \in Keys, NEW e \in Seq(A), Shape(e),
         NEW new, Extended(new, t, k, e)
  PROVE  Led(new)
<1> SUFFICES ASSUME NEW x \in Keys, NEW n \in Starts(new, x)
             PROVE  n > 1 /\ new[n - 1] = ","
  BY DEF Led
<1> DEFINE L == Len(t)
<1>1. L \in Nat /\ new[L + 1] = "," /\ \A i \in 1..L : new[i] = t[i]
  <2>1. L \in Nat
    BY LenProperties
  <2> QED BY <2>1 DEF Extended
<1>2. n \in Starts(t, x) \/ n = L + 2
  BY AppendedStarts
<1>5. L \in Nat
  BY <1>1
<1> HIDE DEF L
<1>3. CASE n \in Starts(t, x)
  <2>1. n > 1 /\ t[n - 1] = ","
    BY <1>3 DEF Led
  <2>3. n \in 1..L - 1
    BY <1>3 DEF Starts, L
  <2>4. n > 1
    BY <2>1
  <2>2. n - 1 \in 1..L
    BY <1>5, <2>3, <2>4
  <2> QED BY <1>1, <2>1, <2>2
<1>4. CASE n = L + 2
  <2>1. n > 1 /\ n - 1 = L + 1
    BY <1>4, <1>5
  <2> QED BY <1>1, <2>1
<1> QED BY <1>2, <1>3, <1>4

\* What read() finds between the '=' and the end of the first item of a key.
Value(t, k) == SubSeq(t, KeyLoc(t, k) + 2, ItemEnd(t, KeyLoc(t, k) + 2) - 1)

\* flashmem.c, read: where an item ends its value does.
LEMMA ItemEndAt ==
  ASSUME NEW A, NEW t \in Seq(A), NEW n \in Nat, NEW f, Len(f) \in Nat, ItemAt(t, n, f)
  PROVE  ItemEnd(t, n + 2) = n + 2 + Len(f)
<1> DEFINE F == Len(f)
           L == Len(t)
           s == n + 2
           end == ItemEnd(t, s)
<1>1. L \in Nat /\ F \in Nat /\ n \in Nat
  BY LenProperties
<1>2. /\ n + 1 + F <= L
      /\ \A i \in 1..F : t[n + 1 + i] # ","
      /\ n + 2 + F <= L => t[n + 2 + F] = ","
  BY DEF ItemAt, EndsItem
<1>10. n + 1 + F <= L
  BY <1>2
<1>3. s \in 1..L + 1
  <2> HIDE DEF F, L
  <2> QED BY <1>1, <1>10
<1>4. end \in s..L + 1 /\ (end <= L => t[end] = ",") /\ \A i \in s..end - 1 : t[i] # ","
  BY <1>3, ItemEndIs
<1>11. end \in s..L + 1
  BY <1>4
<1> HIDE DEF F, L, end
<1>5. end \in Nat /\ end >= s /\ end <= L + 1
  BY <1>1, <1>11
<1>6. ~(end < n + 2 + F)
  <2> SUFFICES ASSUME end < n + 2 + F PROVE FALSE
    OBVIOUS
  <2> DEFINE i == end - n - 1
  <2>1. i \in 1..F /\ n + 1 + i = end /\ end <= L
    BY <1>1, <1>5, <1>10
  <2> HIDE DEF i
  <2> QED BY <1>2, <1>4, <2>1
<1>7. ~(end > n + 2 + F)
  <2> SUFFICES ASSUME end > n + 2 + F PROVE FALSE
    OBVIOUS
  <2>1. n + 2 + F \in s..end - 1 /\ n + 2 + F <= L
    BY <1>1, <1>5
  <2> QED BY <1>2, <1>4, <2>1
<1>8. end = n + 2 + F
  BY <1>1, <1>5, <1>6, <1>7
<1> QED BY <1>8 DEF end, F

\* flashmem.c, read: the only item of a key is the one that is found.
LEMMA HasValue ==
  ASSUME NEW A, NEW t \in Seq(A), Single(t), NEW x \in Keys, NEW B, NEW f \in Seq(B), Has(t, x, f)
  PROVE  KeyLoc(t, x) # 0 /\ Value(t, x) = f
<1> DEFINE F == Len(f)
           L == Len(t)
           loc == KeyLoc(t, x)
<1>1. PICK n \in Starts(t, x) : ItemAt(t, n, f)
  BY DEF Has
<1>2. F \in Nat /\ L \in Nat
  BY LenProperties
<1>3. n \in Nat /\ n >= 1
  BY <1>2 DEF Starts
<1>4. loc = n
  <2>1. loc \in Starts(t, x)
    BY KeyLocIs
  <2> HIDE DEF loc
  <2> QED BY <2>1 DEF Single
<1>5. ItemEnd(t, n + 2) = n + 2 + F
  BY <1>1, <1>2, <1>3, ItemEndAt
<1>6. n + 1 + F <= L /\ \A i \in 1..F : t[n + 1 + i] = f[i]
  BY <1>1 DEF ItemAt
<1>7. Value(t, x) = SubSeq(t, n + 2, (n + 2 + F) - 1)
  <2>1. Value(t, x) = SubSeq(t, loc + 2, ItemEnd(t, loc + 2) - 1)
    BY DEF Value
  <2> HIDE DEF loc, F
  <2>2. Value(t, x) = SubSeq(t, n + 2, ItemEnd(t, n + 2) - 1)
    BY <1>4, <2>1, Zenon
  <2> QED BY <1>5, <2>2, Zenon
<1> HIDE DEF F, L, loc
<1> DEFINE s == n + 2
           v == SubSeq(t, s, (s + F) - 1)
<1>8. s \in 1..L + 1 /\ (s + F) - 1 \in s - 1..L /\ ((s + F) - 1) - s + 1 = F
  <2>1. n + 1 + F <= L
    BY <1>6
  <2> QED BY <1>2, <1>3, <2>1
<1>9. v \in Seq(A) /\ Len(v) = F /\ \A i \in 1..F : v[i] = t[s + i - 1]
  <2> HIDE DEF s
  <2> QED BY <1>8, SubSeqProperties DEF L
<1>10. ASSUME NEW i \in 1..F
       PROVE  v[i] = f[i]
  <2>1. s + i - 1 = n + 1 + i
    BY <1>2, <1>3
  <2>2. v[i] = t[s + i - 1] /\ t[n + 1 + i] = f[i]
    BY <1>6, <1>9
  <2> QED BY <2>1, <2>2
<1>11. v = f
  <2> HIDE DEF v
  <2>1. v \in [1..F -> A]
    BY <1>9, LenProperties
  <2>2. f \in [1..F -> B]
    BY LenProperties DEF F
  <2> DEFINE D == 1..F
  <2>3. v \in [D -> A] /\ f \in [D -> B] /\ \A i \in D : v[i] = f[i]
    BY <1>10, <2>1, <2>2
  <2> HIDE DEF D
  <2> QED BY <2>3
<1>12. loc # 0
  BY <1>3, <1>4
<1> QED BY <1>7, <1>11, <1>12 DEF loc

\* flashmem.c, read: and the item that is found has the value that is read.
LEMMA ValueHas ==
  ASSUME NEW A, NEW t \in Seq(A), NEW x \in Keys, Starts(t, x) # {}
  PROVE  Value(t, x) \in Seq(A) /\ Has(t, x, Value(t, x))
<1> DEFINE L == Len(t)
           n == KeyLoc(t, x)
           s == n + 2
           end == ItemEnd(t, s)
           v == Value(t, x)
<1>1. n \in Starts(t, x) /\ L \in Nat
  BY KeyLocIs, LenProperties
<1>2. n \in 1..L - 1
  BY <1>1 DEF Starts
<1>10. n \in Nat /\ n >= 1 /\ n + 1 <= L
  <2> HIDE DEF n, L
  <2> QED BY <1>1, <1>2
<1>3. s \in 1..L + 1
  <2> HIDE DEF n, L
  <2> QED BY <1>1, <1>10
<1>4. end \in s..L + 1 /\ (end <= L => t[end] = ",") /\ \A i \in s..end - 1 : t[i] # ","
  BY <1>3, ItemEndIs
<1>5. v = SubSeq(t, s, end - 1)
  BY DEF Value
<1> DEFINE F == end - s
<1>11. end \in s..L + 1
  BY <1>4
<1> HIDE DEF L, n, end, v
<1>6. F \in Nat /\ end = n + 2 + F /\ end - 1 \in s - 1..L /\ (end - 1) - s + 1 = F /\ n + 1 + F <= L
  BY <1>1, <1>10, <1>11
<1>7. v \in Seq(A) /\ Len(v) = F /\ \A i \in 1..F : v[i] = t[s + i - 1]
  <2> HIDE DEF s, F
  <2> QED BY <1>3, <1>5, <1>6, SubSeqProperties DEF L
<1> HIDE DEF F
<1>8. ASSUME NEW i \in 1..F
      PROVE  t[n + 1 + i] = v[i] /\ v[i] # ","
  <2>1. s + i - 1 = n + 1 + i /\ n + 1 + i \in s..end - 1
    BY <1>6, <1>10
  <2>2. v[i] = t[s + i - 1] /\ t[n + 1 + i] # ","
    BY <1>4, <1>7, <2>1
  <2> QED BY <2>1, <2>2
<1>9. ItemAt(t, n, v)
  <2>1. n + 2 + F <= L => t[n + 2 + F] = ","
    BY <1>4, <1>6
  <2>2. n + 1 + F <= L
    BY <1>6
  <2> QED BY <1>7, <1>8, <2>1, <2>2 DEF ItemAt, EndsItem, L
<1> QED BY <1>1, <1>7, <1>9 DEF Has, v, n

\* flashmem.c, upsert_key: a text into which an item is put reads as before but for
\* the key of the item.
LEMMA UpsertReads ==
  ASSUME NEW A, NEW t \in Seq(A), Single(t), Led(t), NEW k \in Keys, Alphabet(A, k),
         NEW e \in Seq(A), Shape(e), NEW new, Upserted(new, t, k, e),
         ~(KeyLoc(t, k) # 0
             /\ Refuses(t, KeyLoc(t, k), ItemEnd(t, KeyLoc(t, k)), <<k, "=">> \o e))
  PROVE  /\ Led(new)
         /\ KeyLoc(new, k) # 0 /\ Value(new, k) = BeforeComma(e)
         /\ \A x \in Keys \ {k} :
              IF KeyLoc(t, x) = 0 THEN KeyLoc(new, x) = 0
              ELSE KeyLoc(new, x) # 0 /\ Value(new, x) = Value(t, x)
<1> DEFINE loc  == KeyLoc(t, k)
           end  == ItemEnd(t, loc)
           size == loc + 1 + Len(e)
           b    == BeforeComma(e)
<1>1. /\ new \in Seq(A)
      /\ Starts(t, k) = {} => Extended(new, t, k, e)
      /\ Starts(t, k) # {} =>
           /\ loc \in Starts(t, k) /\ end \in loc + 1..Len(t) + 1 /\ EndsItem(t, end)
           /\ \/ new = t /\ Refuses(t, loc, end, <<k, "=">> \o e)
              \/ Spliced(new, t, k, e, loc, end, size)
  BY UpsertIs
<1>2. Single(new)
  <2>1. Single(upsert_key(t, k, <<k, "=">> \o e))
    BY UpsertSingle
  <2> QED BY <2>1 DEF Upserted
<1>3. loc \in 0..Len(t) /\ Len(e) \in Nat /\ Len(t) \in Nat
  BY KeyLocIs, LenProperties
<1>4. size \in Nat /\ size = loc + 1 + Len(e)
  BY <1>3
<1>5. b \in Seq(A)
  BY BeforeIs
<1>6. ASSUME NEW x \in Keys, Starts(t, x) # {}
      PROVE  Value(t, x) \in Seq(A) /\ Has(t, x, Value(t, x)) /\ KeyLoc(t, x) # 0
  <2>1. KeyLoc(t, x) \in Starts(t, x)
    BY <1>6, KeyLocIs
  <2>2. KeyLoc(t, x) # 0
    BY <1>3, <2>1 DEF Starts
  <2> QED BY <1>6, <2>2, ValueHas
<1>7. ASSUME /\ Led(new) /\ Has(new, k, b)
             /\ \A x \in Keys \ {k} : \A f : Len(f) \in Nat /\ Has(t, x, f) => Has(new, x, f)
             /\ \A x \in Keys \ {k} : Starts(t, x) = {} => Starts(new, x) = {}
      PROVE  /\ Led(new)
             /\ KeyLoc(new, k) # 0 /\ Value(new, k) = b
             /\ \A x \in Keys \ {k} :
                  IF KeyLoc(t, x) = 0 THEN KeyLoc(new, x) = 0
                  ELSE KeyLoc(new, x) # 0 /\ Value(new, x) = Value(t, x)
  <2>1. KeyLoc(new, k) # 0 /\ Value(new, k) = b
    BY <1>1, <1>2, <1>5, <1>7, HasValue
  <2>2. ASSUME NEW x \in Keys \ {k}
        PROVE  IF KeyLoc(t, x) = 0 THEN KeyLoc(new, x) = 0
               ELSE KeyLoc(new, x) # 0 /\ Value(new, x) = Value(t, x)
    <3>1. CASE Starts(t, x) = {}
      <4>1. KeyLoc(t, x) = 0
        BY <3>1, KeyLocIs
      <4>2. Starts(new, x) = {}
        BY <1>7, <3>1
      <4>3. KeyLoc(new, x) = 0
        BY <1>1, <4>2, KeyLocIs
      <4> QED BY <4>1, <4>3
    <3>2. CASE Starts(t, x) # {}
      <4>1. Value(t, x) \in Seq(A) /\ Has(t, x, Value(t, x)) /\ KeyLoc(t, x) # 0
        BY <1>6, <3>2
      <4>2. Len(Value(t, x)) \in Nat
        BY <4>1, LenProperties
      <4>3. Has(new, x, Value(t, x))
        BY <1>7, <4>1, <4>2, Zenon
      <4>4. KeyLoc(new, x) # 0 /\ Value(new, x) = Value(t, x)
        BY <1>1, <1>2, <4>1, <4>3, HasValue
      <4> QED BY <4>1, <4>4
    <3> QED BY <3>1, <3>2
  <2> QED BY <1>7, <2>1, <2>2
<1>8. CASE Starts(t, k) = {}
  <2>1. Extended(new, t, k, e)
    BY <1>1, <1>8
  <2>2. Led(new)
    BY <2>1, AppendedLed
  <2>3. Has(new, k, b)
    BY <1>3, <2>1, AppendedOwn
  <2>4. ASSUME NEW x \in Keys \ {k}, NEW f, Len(f) \in Nat, Has(t, x, f)
        PROVE  Has(new, x, f)
    BY <1>3, <2>1, <2>4, AppendedHas
  <2>5. ASSUME NEW x \in Keys \ {k}, Starts(t, x) = {}
        PROVE  Starts(new, x) = {}
    <3>1. ASSUME NEW n \in Starts(new, x)
          PROVE  FALSE
      <4>1. n \in Starts(t, x) \/ (n = Len(t) + 2 /\ x = k)
        BY <2>1, AppendedStarts
      <4> QED BY <2>5, <4>1
    <3> QED BY <3>1
  <2> HIDE DEF b
  <2>6. \A x \in Keys \ {k} : \A f : Len(f) \in Nat /\ Has(t, x, f) => Has(new, x, f)
    BY <2>4
  <2>7. \A x \in Keys \ {k} : Starts(t, x) = {} => Starts(new, x) = {}
    BY <2>5
  <2> QED BY <1>7, <2>2, <2>3, <2>6, <2>7, Zenon DEF b
<1>9. CASE Starts(t, k) # {}
  <2>1. /\ loc \in Starts(t, k) /\ end \in loc + 1..Len(t) + 1 /\ EndsItem(t, end)
        /\ loc \in 1..Len(t) /\ loc \in Nat \ {0}
    BY <1>1, <1>3, <1>9 DEF Starts
  <2>2. Spliced(new, t, k, e, loc, end, size)
    <3>1. loc # 0
      BY <2>1
    <3> QED BY <1>1, <1>9, <3>1
  <2>3. NoComma(t, loc, end)
    <3>1. loc \in 1..Len(t) + 1
      <4> HIDE DEF loc
      <4> QED BY <1>3, <2>1
    <3> QED BY <3>1, ItemEndIs DEF NoComma
  <2> HIDE DEF loc, end, size
  <2>4. Led(new)
    BY <1>4, <2>1, <2>2, SplicedLed
  <2>5. Has(new, k, b)
    BY <1>3, <1>4, <2>1, <2>2, SplicedOwn
  <2>6. ASSUME NEW x \in Keys \ {k}, NEW f, Len(f) \in Nat, Has(t, x, f)
        PROVE  Has(new, x, f)
    BY <1>3, <1>4, <2>1, <2>2, <2>3, <2>6, SplicedHas
  <2>7. ASSUME NEW x \in Keys \ {k}, Starts(t, x) = {}
        PROVE  Starts(new, x) = {}
    <3>1. ASSUME NEW n \in Starts(new, x)
          PROVE  FALSE
      <4>1. \/ n < loc /\ n \in Starts(t, x)
            \/ n = loc /\ x = k
            \/ n > size /\ n - size - 1 + end \in Starts(t, x)
        BY <1>4, <2>1, <2>2, SplicedStarts
      <4> QED BY <2>7, <4>1
    <3> QED BY <3>1
  <2> HIDE DEF b
  <2>8. \A x \in Keys \ {k} : \A f : Len(f) \in Nat /\ Has(t, x, f) => Has(new, x, f)
    BY <2>6
  <2>9. \A x \in Keys \ {k} : Starts(t, x) = {} => Starts(new, x) = {}
    BY <2>7
  <2> QED BY <1>7, <2>4, <2>5, <2>8, <2>9, Zenon DEF b
<1> QED BY <1>8, <1>9
LEMMA BaseType ==
  ASSUME NEW i \in 1..3
  PROVE  Order[i] \in Keys /\ Base(Order[i]) = (i - 1) * BufLen /\ Base(Order[i]) \in 0..2 * BufLen
<1>1. Order[i] \in Keys /\ \A j \in 1..3 : Order[j] = Order[i] => j = i
  BY CredentialsAssumptions
<1> DEFINE c == CHOOSE j \in 1..3 : Order[j] = Order[i]
<1>2. c = i
  BY <1>1
<1>3. Base(Order[i]) = (c - 1) * BufLen
  BY Zenon DEF Base
<1> HIDE DEF c
<1>4. Base(Order[i]) = (i - 1) * BufLen
  BY <1>2, <1>3, Zenon
<1>5. BufLen \in Nat /\ (i = 1 \/ i = 2 \/ i = 3)
  BY CredentialsAssumptions
<1>6. (i - 1) * BufLen \in 0..2 * BufLen
  BY <1>5
<1> QED BY <1>1, <1>4, <1>6


(***************************************************************************)
(* The text after a write                                                  *)
(***************************************************************************)
\* flashmem.c, write: what is in the sector afterwards is a text, with one item for
\* each key and none for a key that was never written.
LEMMA WriteText ==
  ASSUME NEW t \in Seq(Chars), Single(t), NEW k \in Keys, NEW v \in Seq(Chars),
         NEW p, p = Programmed(upsert_key(t, k, Item(k, v)))
  PROVE  /\ p \in Seq(Chars) /\ Single(p)
         /\ \A x \in Keys \ {k} : Starts(t, x) = {} => Starts(p, x) = {}
<1> DEFINE e    == esc_chars(v)
           new  == upsert_key(t, k, <<k, "=">> \o e)
           loc  == KeyLoc(t, k)
           end  == ItemEnd(t, loc)
           size == loc + 1 + Len(e)
<1>1. e \in Seq(Chars) /\ Shape(e)
  BY EscType
<1>2. Alphabet(Chars, k)
  BY CodecAssumptions DEF Alphabet, Special
<1>3. p = Programmed(new)
  BY DEF Item
<1> HIDE DEF e
<1>4. new \in Seq(Chars) /\ Single(new)
  BY <1>1, <1>2, UpsertSingle
<1>5. /\ Starts(t, k) = {} => Extended(new, t, k, e)
      /\ Starts(t, k) # {} =>
           /\ loc \in Starts(t, k) /\ end \in loc + 1..Len(t) + 1 /\ EndsItem(t, end)
           /\ new = t \/ Spliced(new, t, k, e, loc, end, size)
  <2>1. Upserted(new, t, k, e)
    BY DEF Upserted
  <2> HIDE DEF new
  <2> QED BY <1>1, <1>2, <2>1, UpsertIs
<1>6. loc \in 0..Len(t) /\ Len(e) \in Nat /\ size = loc + 1 + Len(e) /\ size \in Nat
  BY <1>1, KeyLocIs, LenProperties
<1> HIDE DEF new, loc, end, size
<1>7. ASSUME NEW x \in Keys \ {k}, NEW n \in Starts(new, x)
      PROVE  Starts(t, x) # {}
  <2>1. CASE Starts(t, k) = {}
    <3>1. n \in Starts(t, x) \/ (n = Len(t) + 2 /\ x = k)
      BY <1>1, <1>5, <2>1, AppendedStarts
    <3> QED BY <3>1
  <2>2. CASE Starts(t, k) # {} /\ new = t
    BY <1>7, <2>2
  <2>3. CASE Starts(t, k) # {} /\ Spliced(new, t, k, e, loc, end, size)
    <3>1. loc \in 1..Len(t)
      BY <1>5, <1>6, <2>3 DEF Starts
    <3>2. \/ n < loc /\ n \in Starts(t, x)
          \/ n = loc /\ x = k
          \/ n > size /\ n - size - 1 + end \in Starts(t, x)
      BY <1>1, <1>5, <1>6, <2>3, <3>1, SplicedStarts
    <3> QED BY <3>2
  <2> QED BY <1>5, <2>1, <2>2, <2>3
<1>8. /\ Single(p) /\ p \in Seq(Chars \cup {Erased})
      /\ \A x \in Keys : Starts(p, x) \subseteq Starts(new, x)
  BY <1>3, <1>4, ProgrammedSingle
<1>9. Chars \cup {Erased} = Chars
  BY CodecAssumptions
<1> QED BY <1>7, <1>8, <1>9

\* flashmem.c, write and read: unless the text is full, the key reads as what was
\* written, up to a comma, and every other key as it did.
LEMMA WriteReads ==
  ASSUME NEW t \in Seq(Chars), Single(t), Led(t), NEW k \in Keys, NEW v \in Seq(Chars),
         NEW p, p = Programmed(upsert_key(t, k, Item(k, v))),
         ~(KeyLoc(t, k) # 0 /\ Refuses(t, KeyLoc(t, k), ItemEnd(t, KeyLoc(t, k)), Item(k, v))),
         Padded(upsert_key(t, k, Item(k, v)))
  PROVE  /\ Led(p)
         /\ KeyLoc(p, k) # 0 /\ unesc_chars(Value(p, k)) = BeforeComma(v)
         /\ \A x \in Keys \ {k} :
              IF KeyLoc(t, x) = 0 THEN KeyLoc(p, x) = 0
              ELSE KeyLoc(p, x) # 0 /\ Value(p, x) = Value(t, x)
<1> DEFINE e == esc_chars(v)
<1>1. e \in Seq(Chars) /\ Shape(e)
  BY EscType
<1>2. Alphabet(Chars, k)
  BY CodecAssumptions DEF Alphabet, Special
<1>3. p = upsert_key(t, k, <<k, "=">> \o e)
  BY DEF Item, Programmed
<1>4. Upserted(p, t, k, e)
  BY <1>3 DEF Upserted
<1>5. ~(KeyLoc(t, k) # 0
         /\ Refuses(t, KeyLoc(t, k), ItemEnd(t, KeyLoc(t, k)), <<k, "=">> \o e))
  BY Zenon DEF Item
<1>6. unesc_chars(BeforeComma(e)) = BeforeComma(v)
  BY UnescBefore
<1> HIDE DEF e
<1>7. /\ Led(p)
      /\ KeyLoc(p, k) # 0 /\ Value(p, k) = BeforeComma(e)
      /\ \A x \in Keys \ {k} :
           IF KeyLoc(t, x) = 0 THEN KeyLoc(p, x) = 0
           ELSE KeyLoc(p, x) # 0 /\ Value(p, x) = Value(t, x)
  BY <1>1, <1>2, <1>4, <1>5, UpsertReads
<1> QED BY <1>6, <1>7

(***************************************************************************)
(* The strings in memory                                                   *)
(***************************************************************************)
\* Where the i-th buffer is; the fourth is that of hub_loc.
Slot(i) == (i - 1) * BufLen

LEMMA SlotIs ==
  /\ BufLen \in Nat \ {0}
  /\ Slot(1) = 0 /\ Slot(2) = BufLen /\ Slot(3) = 2 * BufLen
  /\ \A i \in 1..3 : Order[i] \in Keys /\ Base(Order[i]) = Slot(i)
                     /\ Slot(i) \in Nat /\ Slot(i) + BufLen <= 3 * BufLen
  /\ \A k \in Keys : \E i \in 1..3 : k = Order[i]
<1>1. BufLen \in Nat \ {0}
  BY CredentialsAssumptions
<1>2. Slot(1) = 0 /\ Slot(2) = BufLen /\ Slot(3) = 2 * BufLen
  BY <1>1 DEF Slot
<1>3. ASSUME NEW i \in 1..3
      PROVE  Order[i] \in Keys /\ Base(Order[i]) = Slot(i)
             /\ Slot(i) \in Nat /\ Slot(i) + BufLen <= 3 * BufLen
  <2>1. i = 1 \/ i = 2 \/ i = 3
    OBVIOUS
  <2>2. Slot(i) \in Nat /\ Slot(i) + BufLen <= 3 * BufLen
    BY <1>1, <1>2, <2>1
  <2> QED BY <2>2, BaseType DEF Slot
<1>4. ASSUME NEW k \in Keys
      PROVE  \E i \in 1..3 : k = Order[i]
  <2>1. Order \in [1..3 -> Keys] /\ Keys = {Order[i] : i \in DOMAIN Order}
    BY CredentialsAssumptions DEF ToSet
  <2> QED BY <2>1
<1> QED BY <1>1, <1>2, <1>3, <1>4

\* The string s and its terminator lie at an address.
Holds(m, at, s) ==
  /\ \A i \in 1..Len(s) : m[at + i - 1] = s[i]
  /\ m[at + Len(s)] = Nul

\* Everybody who reads a string stops at its terminator.
LEMMA StringIs ==
  ASSUME NEW at \in Nat, NEW s \in Seq(Chars), at + Len(s) <= 4 * BufLen, Holds(mem, at, s)
  PROVE  String(at) = s
<1> DEFINE N == Len(s)
           nul == {i \in Bytes : i >= at /\ mem[i] = Nul}
           end == IF nul = {} THEN 4 * BufLen + 1 ELSE Min(nul)
<1>1. N \in Nat /\ BufLen \in Nat /\ at + N <= 4 * BufLen
  BY CredentialsAssumptions
<1>2. Nul \notin Chars
  BY CredentialsAssumptions
<1>3. \A i \in 1..N : s[i] # Nul
  BY <1>2, LenProperties
<1>4. /\ \A i \in 1..N : mem[at + i - 1] = s[i]
      /\ mem[at + N] = Nul
  BY DEF Holds
<1>5. s = [i \in 1..N |-> s[i]]
  BY LenProperties
<1>6. String(at) = [i \in 1..end - at |-> mem[at + i - 1]]
  BY DEF String
<1>7. nul \in SUBSET Nat /\ \A y \in nul : y >= at /\ mem[y] = Nul /\ y \in Nat
  BY <1>1 DEF Bytes
<1>8. at + N \in nul
  <2>1. at + N \in Bytes /\ at + N >= at
    BY <1>1 DEF Bytes
  <2> QED BY <1>4, <2>1
<1> HIDE DEF N, nul
<1>9. Min(nul) \in nul /\ \A y \in nul : Min(nul) <= y
  BY <1>7, <1>8, MinIs
<1>10. end = Min(nul)
  BY <1>8
<1> HIDE DEF end
<1>11. end \in Nat /\ end >= at /\ end <= at + N /\ mem[end] = Nul
  BY <1>7, <1>8, <1>9, <1>10
<1>12. end = at + N
  <2> SUFFICES ASSUME end # at + N
               PROVE  FALSE
    OBVIOUS
  <2>1. end - at + 1 \in 1..N /\ at + (end - at + 1) - 1 = end
    BY <1>1, <1>11
  <2>2. mem[end] = s[end - at + 1]
    BY <1>4, <2>1
  <2> QED BY <1>3, <1>11, <2>1, <2>2
<1>13. end - at = N
  BY <1>1, <1>12
<1>14. String(at) = [i \in 1..N |-> s[i]]
  BY <1>4, <1>6, <1>13
<1> QED BY <1>5, <1>14

\* What anybody reads as a string has no terminator.
LEMMA StringType ==
  ASSUME NEW at \in Nat, at <= 4 * BufLen, mem \in [Bytes -> Chars \cup {Nul}]
  PROVE  String(at) \in Seq(Chars)
<1> DEFINE nul == {i \in Bytes : i >= at /\ mem[i] = Nul}
           end == IF nul = {} THEN 4 * BufLen + 1 ELSE Min(nul)
<1>1. BufLen \in Nat /\ at <= 4 * BufLen
  BY CredentialsAssumptions
<1>2. nul \in SUBSET Nat /\ \A y \in nul : y \in Nat /\ y >= at /\ y <= 4 * BufLen
  BY <1>1 DEF Bytes
<1>3. \A y \in Bytes : y >= at /\ mem[y] = Nul => y \in nul
  OBVIOUS
<1>4. String(at) = [i \in 1..end - at |-> mem[at + i - 1]]
  BY DEF String
<1> HIDE DEF nul
<1>5. end \in Nat /\ end >= at /\ end <= 4 * BufLen + 1 /\ \A y \in nul : ~(y < end)
  <2>1. CASE nul = {}
    <3>1. end = 4 * BufLen + 1
      BY <2>1
    <3> HIDE DEF end
    <3> QED BY <1>1, <2>1, <3>1
  <2>2. CASE nul # {}
    <3>1. Min(nul) \in nul /\ \A y \in nul : Min(nul) <= y
      BY <1>2, <2>2, MinIs
    <3>2. end = Min(nul)
      BY <2>2
    <3> HIDE DEF end
    <3>3. end \in Nat /\ end >= at /\ end <= 4 * BufLen
      BY <1>2, <3>1, <3>2
    <3>4. \A y \in nul : end <= y /\ y \in Nat
      BY <1>2, <3>1, <3>2
    <3>5. \A y \in nul : ~(y < end)
      BY <3>3, <3>4
    <3> QED BY <1>1, <3>3, <3>5
  <2> QED BY <2>1, <2>2
<1>8. end \in Nat /\ end >= at /\ end <= 4 * BufLen + 1
  BY <1>5
<1> HIDE DEF end
<1>6. ASSUME NEW i \in 1..end - at
      PROVE  mem[at + i - 1] \in Chars
  <2>1. at + i - 1 \in Nat /\ at + i - 1 >= at /\ at + i - 1 < end /\ at + i - 1 <= 4 * BufLen
    BY <1>1, <1>8
  <2>2. at + i - 1 \in Bytes
    BY <1>1, <2>1 DEF Bytes
  <2>3. mem[at + i - 1] # Nul
    BY <1>3, <1>5, <2>1, <2>2
  <2> QED BY <2>2, <2>3
<1>7. end - at \in Nat
  BY <1>8
<1> DEFINE n == end - at
           q == [i \in 1..n |-> mem[at + i - 1]]
<1>9. q \in [1..n -> Chars]
  BY <1>6
<1> HIDE DEF q, n
<1>10. q \in Seq(Chars)
  BY <1>7, <1>9, SeqDef DEF n
<1> QED BY <1>4, <1>10 DEF q, n

\* memcpy writes bytes, and only those of its destination.
LEMMA PutIs ==
  ASSUME NEW m \in [Bytes -> Chars \cup {Nul}], NEW at \in Nat, NEW w \in Seq(Chars \cup {Nul})
  PROVE  /\ Put(m, at, w) \in [Bytes -> Chars \cup {Nul}]
         /\ \A i \in Bytes : i < at => Put(m, at, w)[i] = m[i]
         /\ \A i \in 1..Len(w) : at + i - 1 \in Bytes => Put(m, at, w)[at + i - 1] = w[i]
<1> DEFINE b == Put(m, at, w)
           W == Len(w)
<1>1. W \in Nat /\ \A i \in 1..W : w[i] \in Chars \cup {Nul}
  BY LenProperties
<1>2. b = [i \in Bytes |-> IF i - at \in 0..W - 1 THEN w[i - at + 1] ELSE m[i]]
  BY DEF Put
<1>3. \A i \in Bytes : i \in Nat
  BY CredentialsAssumptions DEF Bytes
<1> HIDE DEF b, W
<1>4. \A i \in Bytes : b[i] = IF i - at \in 0..W - 1 THEN w[i - at + 1] ELSE m[i]
  BY <1>2
<1>5. b \in [Bytes -> Chars \cup {Nul}]
  <2>1. ASSUME NEW i \in Bytes
        PROVE  (IF i - at \in 0..W - 1 THEN w[i - at + 1] ELSE m[i]) \in Chars \cup {Nul}
    <3>1. i \in Nat
      BY <1>3
    <3>2. i - at \in 0..W - 1 => i - at + 1 \in 1..W
      BY <1>1, <3>1
    <3>3. m[i] \in Chars \cup {Nul}
      OBVIOUS
    <3> QED BY <1>1, <3>2, <3>3
  <2> QED BY <1>2, <2>1
<1>6. ASSUME NEW i \in Bytes, i < at
      PROVE  b[i] = m[i]
  <2>1. i \in Nat
    BY <1>3
  <2>2. i - at \notin 0..W - 1
    BY <1>6, <2>1
  <2> QED BY <1>4, <2>2
<1>7. ASSUME NEW i \in 1..W, at + i - 1 \in Bytes
      PROVE  b[at + i - 1] = w[i]
  <2>1. (at + i - 1) - at \in 0..W - 1 /\ (at + i - 1) - at + 1 = i
    BY <1>1
  <2> QED BY <1>4, <1>7, <2>1
<1> QED BY <1>5, <1>6, <1>7 DEF b, W

(***************************************************************************)
(* The types, and the items of the text                                    *)
(***************************************************************************)
\* What holds whatever is sent and however often the power fails; a key that was
\* never stored has no item.
TextInv ==
  /\ TypeOK
  /\ Single(flash)
  /\ full \/ Led(flash)
  /\ \A k \in Keys : source[k] = NotFound => Starts(flash, k) = {}

\* flashmem.c, read: what it makes of the item that it finds.
LEMMA ReadIs ==
  ASSUME NEW k
  PROVE  /\ KeyLoc(flash, k) = 0 => read(k) = NotFound
         /\ KeyLoc(flash, k) # 0 => read(k) = unesc_chars(Value(flash, k))
BY DEF read, Escaped, Value

LEMMA ReadType ==
  ASSUME TextInv, NEW k \in Keys, read(k) # NotFound
  PROVE  /\ read(k) \in Seq(Chars) /\ source[k] # NotFound
         /\ Len(read(k)) \in Nat /\ Len(Escaped(k)) \in Nat /\ Len(read(k)) <= Len(Escaped(k))
<1>1. flash \in Seq(Chars)
  BY DEF TextInv, TypeOK, FlashTypeOK
<1>2. KeyLoc(flash, k) # 0
  BY DEF read
<1>3. Starts(flash, k) # {}
  BY <1>1, <1>2, KeyLocIs
<1>4. Value(flash, k) \in Seq(Chars)
  BY <1>1, <1>3, ValueHas
<1>5. Escaped(k) = Value(flash, k)
  BY DEF Escaped, Value
<1>6. read(k) = unesc_chars(Escaped(k))
  BY <1>2 DEF read
<1>7. Escaped(k) \in Seq(Chars)
  BY <1>4, <1>5
<1>8. read(k) \in Seq(Chars) /\ Len(read(k)) <= Len(Escaped(k))
  BY <1>6, <1>7, UnescType
<1>9. Len(read(k)) \in Nat /\ Len(Escaped(k)) \in Nat
  BY <1>7, <1>8, LenProperties
<1>10. source[k] # NotFound
  BY <1>3 DEF TextInv
<1> QED BY <1>8, <1>9, <1>10

\* write: what it does with the string that has been copied.
LEMMA WriteCopied ==
  ASSUME TextInv, NEW k \in Keys, NEW v \in Seq(Chars), write_copied(k, v)
  PROVE  /\ flash' \in Seq(Chars) /\ Single(flash')
         /\ call'.ok \in BOOLEAN /\ call' = [key |-> k, val |-> v, ok |-> call'.ok]
         /\ full' \in BOOLEAN /\ (full => full')
         /\ ~call'.ok => flash' = flash /\ full' = full
         /\ \A x \in Keys \ {k} : Starts(flash, x) = {} => Starts(flash', x) = {}
         /\ call'.ok /\ ~full' =>
              /\ Led(flash')
              /\ read(k)' = BeforeComma(v)
              /\ \A x \in Keys \ {k} : read(x)' = read(x)
<1>1. /\ flash \in Seq(Chars) /\ full \in BOOLEAN
      /\ Single(flash) /\ (full \/ Led(flash))
  BY DEF TextInv, TypeOK, FlashTypeOK
<1> DEFINE fails == Fails(k, v)
           new == upsert_key(flash, k, Item(k, v))
<1>2. fails \in BOOLEAN
  BY DEF Fails
<1>3. /\ call' = [key |-> k, val |-> v, ok |-> ~fails]
      /\ IF fails THEN flash' = flash /\ full' = full
         ELSE flash' = Programmed(new) /\ full' = (full \/ Overfull(k, v))
  BY DEF write_copied
<1> HIDE DEF fails
<1>4. call'.ok = ~fails /\ call'.ok \in BOOLEAN /\ call' = [key |-> k, val |-> v, ok |-> call'.ok]
  BY <1>2, <1>3
<1>5. CASE fails
  BY <1>1, <1>3, <1>4, <1>5
<1>6. CASE ~fails
  <2>1. flash' = Programmed(new) /\ full' = (full \/ Overfull(k, v)) /\ call'.ok
    BY <1>3, <1>4, <1>6
  <2>2. /\ flash' \in Seq(Chars) /\ Single(flash')
        /\ \A x \in Keys \ {k} : Starts(flash, x) = {} => Starts(flash', x) = {}
    BY <1>1, <2>1, WriteText
  <2>3. full' \in BOOLEAN /\ (full => full')
    BY <1>1, <2>1
  <2>4. ASSUME ~full'
        PROVE  /\ Led(flash')
               /\ read(k)' = BeforeComma(v)
               /\ \A x \in Keys \ {k} : read(x)' = read(x)
    <3>1. ~full /\ ~Overfull(k, v) /\ Led(flash)
      BY <1>1, <2>1, <2>4
    <3>2. /\ ~(KeyLoc(flash, k) # 0
                 /\ Refuses(flash, KeyLoc(flash, k), ItemEnd(flash, KeyLoc(flash, k)), Item(k, v)))
          /\ Padded(new)
      BY <3>1, Zenon DEF Overfull
    <3>3. /\ Led(flash')
          /\ KeyLoc(flash', k) # 0 /\ unesc_chars(Value(flash', k)) = BeforeComma(v)
          /\ \A x \in Keys \ {k} :
               IF KeyLoc(flash, x) = 0 THEN KeyLoc(flash', x) = 0
               ELSE KeyLoc(flash', x) # 0 /\ Value(flash', x) = Value(flash, x)
      BY <1>1, <2>1, <3>1, <3>2, WriteReads
    <3>4. ASSUME NEW x
          PROVE  /\ KeyLoc(flash', x) = 0 => read(x)' = NotFound
                 /\ KeyLoc(flash', x) # 0 => read(x)' = unesc_chars(Value(flash', x))
      BY DEF read, Escaped, Value
    <3>5. read(k)' = BeforeComma(v)
      BY <3>3, <3>4
    <3>6. ASSUME NEW x \in Keys \ {k}
          PROVE  read(x)' = read(x)
      <4>1. CASE KeyLoc(flash, x) = 0
        <5>1. KeyLoc(flash', x) = 0
          BY <3>3, <4>1
        <5> QED BY <3>4, <4>1, <5>1, ReadIs
      <4>2. CASE KeyLoc(flash, x) # 0
        <5>1. KeyLoc(flash', x) # 0 /\ Value(flash', x) = Value(flash, x)
          BY <3>3, <4>2
        <5> QED BY <3>4, <4>2, <5>1, ReadIs
      <4> QED BY <4>1, <4>2
    <3> QED BY <3>3, <3>5, <3>6
  <2> QED BY <1>4, <2>1, <2>2, <2>3, <2>4
<1> QED BY <1>2, <1>5, <1>6

\* flash_write_handler: the string that is stored is the one that has been copied.
LEMMA CopyIs ==
  ASSUME TextInv, Copy
  PROVE  \E k \in Keys, v \in Seq(Chars) :
           /\ k = Order[nth] /\ v = seen
           /\ write_copied(k, v)
           /\ call'.ok => /\ nth' = (nth % 3) + 1
                          /\ source' = [source EXCEPT ![k] = IF torn THEN Mixed ELSE given[k]]
           /\ ~call'.ok => nth' = 1 /\ source' = source
<1>1. nth \in 1..3 /\ seen \in Seq(Chars)
  BY DEF TextInv, TypeOK
<1>2. Order[nth] \in Keys
  BY <1>1, SlotIs
<1>3. /\ write_copied(Order[nth], seen)
      /\ IF call'.ok
         THEN /\ nth' = (nth % 3) + 1
              /\ source' = [source EXCEPT ![Order[nth]] = IF torn THEN Mixed ELSE given[Order[nth]]]
         ELSE nth' = 1 /\ UNCHANGED source
  BY DEF Copy
<1>4. PICK k \in Keys, v \in Seq(Chars) : k = Order[nth] /\ v = seen
  BY <1>1, <1>2
<1>5. write_copied(k, v)
  BY <1>3, <1>4 DEF write_copied
<1>6. /\ call'.ok => /\ nth' = (nth % 3) + 1
                     /\ source' = [source EXCEPT ![k] = IF torn THEN Mixed ELSE given[k]]
      /\ ~call'.ok => nth' = 1 /\ source' = source
  BY <1>3, <1>4
<1> QED BY <1>4, <1>5, <1>6

\* main: the memory after calloc and strcpy.
LEMMA BootedType == Booted \in [Bytes -> Chars \cup {Nul}]
<1> DEFINE z == [i \in Bytes |-> Nul]
<1>1. z \in [Bytes -> Chars \cup {Nul}]
  OBVIOUS
<1>2. HubLoc \in Seq(Chars \cup {Nul})
  BY CredentialsAssumptions, SeqGrows
<1>3. Hub \in Nat
  BY CredentialsAssumptions DEF Hub
<1> HIDE DEF z
<1>4. Put(z, Hub, HubLoc) \in [Bytes -> Chars \cup {Nul}]
  BY <1>1, <1>2, <1>3, PutIs
<1> QED BY <1>4 DEF Booted, z

\* A string and its terminators.
LEMMA EndedType ==
  ASSUME NEW s \in Seq(Chars), NEW n \in Nat \ {0}
  PROVE  LET w == s \o [i \in 1..n |-> Nul]
         IN /\ w \in Seq(Chars \cup {Nul})
            /\ Len(w) = Len(s) + n
            /\ \A i \in 1..Len(s) : w[i] = s[i]
            /\ w[Len(s) + 1] = Nul
<1> DEFINE A == Chars \cup {Nul}
           z == [i \in 1..n |-> Nul]
           w == s \o z
<1>1. s \in Seq(A) /\ Len(s) \in Nat
  BY SeqGrows, LenProperties
<1>2. z \in Seq(A) /\ Len(z) = n /\ \A i \in 1..n : z[i] = Nul
  <2>1. z \in [1..n -> A] /\ \A i \in 1..n : z[i] = Nul
    OBVIOUS
  <2> HIDE DEF z, A
  <2>2. z \in Seq(A)
    BY <2>1, SeqDef
  <2>3. Len(z) = n
    BY <2>1, LenProperties
  <2> QED BY <2>1, <2>2, <2>3
<1> HIDE DEF z, A
<1>3. /\ w \in Seq(A) /\ Len(w) = Len(s) + n
      /\ \A i \in 1..Len(s) + n : w[i] = IF i <= Len(s) THEN s[i] ELSE z[i - Len(s)]
  BY <1>1, <1>2, ConcatProperties
<1> HIDE DEF w
<1>4. ASSUME NEW i \in 1..Len(s)
      PROVE  w[i] = s[i]
  <2>1. i \in 1..Len(s) + n /\ i <= Len(s)
    BY <1>1
  <2> QED BY <1>3, <2>1
<1>5. w[Len(s) + 1] = Nul
  <2>1. Len(s) + 1 \in 1..Len(s) + n /\ ~(Len(s) + 1 <= Len(s)) /\ (Len(s) + 1) - Len(s) = 1 /\ 1 \in 1..n
    BY <1>1
  <2> QED BY <1>2, <1>3, <2>1
<1> QED BY <1>3, <1>4, <1>5 DEF w, z, A

\* parse_wifi_credentials: a string is copied with its terminator.
LEMMA EndedByOne ==
  ASSUME NEW s \in Seq(Chars)
  PROVE  /\ s \o <<Nul>> \in Seq(Chars \cup {Nul})
         /\ Len(s \o <<Nul>>) = Len(s) + 1
         /\ \A i \in 1..Len(s) : (s \o <<Nul>>)[i] = s[i]
         /\ (s \o <<Nul>>)[Len(s) + 1] = Nul
<1>1. <<Nul>> = [i \in 1..1 |-> Nul]
  OBVIOUS
<1> DEFINE z == [i \in 1..1 |-> Nul]
           w == s \o z
<1>2. /\ w \in Seq(Chars \cup {Nul})
      /\ Len(w) = Len(s) + 1
      /\ \A i \in 1..Len(s) : w[i] = s[i]
      /\ w[Len(s) + 1] = Nul
  BY EndedType
<1>3. s \o <<Nul>> = w
  BY <1>1, Zenon
<1> HIDE DEF w
<1> QED BY <1>2, <1>3

\* parse_wifi_credentials: what it writes are bytes.
LEMMA CopiedType ==
  ASSUME NEW m \in [Bytes -> Chars \cup {Nul}], NEW k \in Keys, NEW s \in Seq(Chars)
  PROVE  Copied(m, k, s) \in [Bytes -> Chars \cup {Nul}]
<1>1. s \o <<Nul>> \in Seq(Chars \cup {Nul})
  BY EndedByOne
<1>2. Base(k) \in Nat
  BY SlotIs
<1> QED BY <1>1, <1>2, PutIs DEF Copied

\* What flash_init_handler writes for a key: its value and a terminator for each
\* character by which the escaped value is longer, and one.
Reread(k) == read(k) \o [i \in 1..Len(Escaped(k)) - Len(read(k)) + 1 |-> Nul]

LEMMA RereadIs ==
  ASSUME TextInv, NEW k \in Found
  PROVE  /\ k \in Keys /\ read(k) \in Seq(Chars) /\ source[k] # NotFound
         /\ Reread(k) \in Seq(Chars \cup {Nul})
         /\ Len(Reread(k)) > Len(read(k)) /\ Len(Reread(k)) \in Nat
         /\ \A i \in 1..Len(read(k)) : Reread(k)[i] = read(k)[i]
         /\ Reread(k)[Len(read(k)) + 1] = Nul
<1>1. k \in Keys /\ read(k) # NotFound
  <2>1. PICK i \in 1..3 : k = Order[i] /\ \A h \in 1..i : read(Order[h]) # NotFound
    BY DEF Found
  <2>2. i \in 1..i
    OBVIOUS
  <2> QED BY <2>1, <2>2, SlotIs
<1>2. /\ read(k) \in Seq(Chars) /\ source[k] # NotFound
      /\ Len(read(k)) \in Nat /\ Len(Escaped(k)) \in Nat /\ Len(read(k)) <= Len(Escaped(k))
  BY <1>1, ReadType
<1> DEFINE n == Len(Escaped(k)) - Len(read(k)) + 1
           v == read(k)
<1>3. n \in Nat \ {0}
  BY <1>2
<1> HIDE DEF n, v
<1> DEFINE w == v \o [i \in 1..n |-> Nul]
<1>4. /\ w \in Seq(Chars \cup {Nul})
      /\ Len(w) = Len(v) + n
      /\ \A i \in 1..Len(v) : w[i] = v[i]
      /\ w[Len(v) + 1] = Nul
  <2>1. v \in Seq(Chars)
    BY <1>2 DEF v
  <2> QED BY <1>3, <2>1, EndedType
<1>5. w = Reread(k)
  BY DEF Reread, v, n
<1> HIDE DEF w
<1>6. Len(w) > Len(v) /\ Len(w) \in Nat
  BY <1>2, <1>3, <1>4 DEF v
<1> QED BY <1>1, <1>2, <1>4, <1>5, <1>6 DEF v

\* flash_init_handler: what it writes are bytes.
LEMMA RestoredType ==
  ASSUME TextInv, NEW m \in [Bytes -> Chars \cup {Nul}], NEW k \in Keys
  PROVE  Restored(m, k) \in [Bytes -> Chars \cup {Nul}]
<1>1. Restored(m, k) = IF k \in Found THEN Put(m, Base(k), Reread(k)) ELSE m
  BY DEF Restored, Reread
<1>2. CASE k \in Found
  <2>1. Reread(k) \in Seq(Chars \cup {Nul})
    BY <1>2, RereadIs
  <2>2. Base(k) \in Nat
    BY SlotIs
  <2> QED BY <1>1, <1>2, <2>1, <2>2, PutIs
<1>3. CASE k \notin Found
  BY <1>1, <1>3
<1> QED BY <1>2, <1>3

(***************************************************************************)
(* Every step keeps the types and the items                                *)
(***************************************************************************)
LEMMA TextInit == Init => TextInv
<1> SUFFICES ASSUME Init PROVE TextInv
  OBVIOUS
<1>1. /\ flash = <<>> /\ call = [key |-> NotFound, val |-> <<>>, ok |-> TRUE] /\ full = FALSE
      /\ mem = Booted /\ configd = FALSE /\ nth = 1
      /\ loop = "none" /\ seen = <<>> /\ room = 0 /\ torn = FALSE
      /\ given = Empty /\ source = [k \in Keys |-> NotFound]
  BY DEF Init, initialize_flash, Idle
<1>2. FlashTypeOK
  <2>1. <<>> \in Seq(Chars)
    OBVIOUS
  <2> QED BY <1>1, <2>1 DEF FlashTypeOK
<1>3. TypeOK
  <2>1. <<>> \in Seq(Chars)
    OBVIOUS
  <2>2. given \in [Keys -> Seq(Chars) \cup {Mixed}]
    BY <1>1, <2>1 DEF Empty
  <2>3. source \in [Keys -> Seq(Chars) \cup {Mixed, NotFound}]
    BY <1>1
  <2>4. mem \in [Bytes -> Chars \cup {Nul}] /\ seen \in Seq(Chars)
    BY <1>1, <2>1, BootedType, Zenon
  <2>5. /\ loop \in {"none", "count", "copy"} /\ room \in Nat /\ nth \in 1..3
        /\ configd \in BOOLEAN /\ torn \in BOOLEAN
    <3>1. 0 \in Nat /\ FALSE \in BOOLEAN /\ "none" \in {"none", "count", "copy"} /\ 1 \in 1..3
      OBVIOUS
    <3> QED BY <1>1, <3>1, Zenon
  <2> QED BY <1>2, <2>2, <2>3, <2>4, <2>5 DEF TypeOK
<1>4. \A k : Starts(<<>>, k) = {}
  <2>1. 1..Len(<<>>) - 1 = {}
    OBVIOUS
  <2> QED BY <2>1 DEF Starts
<1>5. Single(flash) /\ Led(flash)
  BY <1>1, <1>4 DEF Single, Led
<1> QED BY <1>1, <1>3, <1>4, <1>5 DEF TextInv

\* What a step keeps that leaves the text and its sources alone.
LEMMA TextKept ==
  ASSUME TextInv, TypeOK', flash' = flash, full' = full, source' = source
  PROVE  TextInv'
BY DEF TextInv

LEMMA BeginText == ASSUME TextInv, flash_write_handler PROVE TextInv'
<1> USE DEF TextInv
<1>1. /\ flash' = flash /\ full' = full /\ source' = source /\ mem' = mem /\ configd' = configd
      /\ seen' = seen /\ room' = room /\ torn' = torn /\ given' = given
  BY DEF flash_write_handler
<1>2. \/ call' = [key |-> Order[nth], val |-> String(Field), ok |-> FALSE] /\ nth' = 1 /\ loop' = loop
      \/ call' = call /\ nth' = nth /\ loop' = "count"
  BY DEF flash_write_handler
<1>3. Order[nth] \in Keys /\ String(Field) \in Seq(Chars)
  <2>1. nth \in 1..3 /\ mem \in [Bytes -> Chars \cup {Nul}]
    BY DEF TypeOK
  <2>2. /\ Order[nth] \in Keys /\ Field = Slot(nth) /\ Slot(nth) \in Nat
        /\ Slot(nth) + BufLen <= 3 * BufLen /\ BufLen \in Nat
    BY <2>1, SlotIs DEF Field
  <2>3. Field \in Nat /\ Field <= 4 * BufLen
    BY <2>2
  <2> QED BY <2>1, <2>2, <2>3, StringType
<1>7. call' \in [key : Keys \cup {NotFound}, val : Seq(Chars), ok : BOOLEAN]
  <2>1. call \in [key : Keys \cup {NotFound}, val : Seq(Chars), ok : BOOLEAN]
    BY DEF TypeOK, FlashTypeOK
  <2>2. [key |-> Order[nth], val |-> String(Field), ok |-> FALSE]
          \in [key : Keys \cup {NotFound}, val : Seq(Chars), ok : BOOLEAN]
    BY <1>3
  <2> QED BY <1>2, <2>1, <2>2
<1>4. FlashTypeOK'
  BY <1>1, <1>7 DEF FlashTypeOK, TypeOK
<1>5. nth' \in 1..3 /\ loop' \in {"none", "count", "copy"}
  BY <1>2 DEF TypeOK
<1>6. TypeOK'
  BY <1>1, <1>4, <1>5 DEF TypeOK
<1> QED BY <1>1, <1>6, TextKept

\* A byte that esc_chars reads is a character.
LEMMA TurnIs ==
  ASSUME TextInv, ~Ends
  PROVE  At \in Bytes /\ mem[At] # Nul /\ mem[At] \in Chars
BY DEF Ends, TextInv, TypeOK

LEMMA TurnText == ASSUME TextInv, Turn PROVE TextInv'
<1>1. /\ flash' = flash /\ call' = call /\ full' = full /\ source' = source /\ mem' = mem
      /\ configd' = configd /\ nth' = nth /\ loop' = loop /\ room' = room /\ torn' = torn
      /\ given' = given /\ seen' = Append(seen, mem[At]) /\ ~Ends
  BY DEF Turn
<1>2. seen' \in Seq(Chars)
  <2>1. mem[At] \in Chars /\ seen \in Seq(Chars)
    BY <1>1, TurnIs DEF TextInv, TypeOK
  <2> QED BY <1>1, <2>1
<1>3. TypeOK'
  BY <1>1, <1>2 DEF TextInv, TypeOK, FlashTypeOK
<1> QED BY <1>1, <1>3, TextKept

LEMMA CountText == ASSUME TextInv, Count PROVE TextInv'
<1>1. /\ flash' = flash /\ call' = call /\ full' = full /\ source' = source /\ mem' = mem
      /\ configd' = configd /\ nth' = nth /\ torn' = torn /\ given' = given
      /\ loop' = "copy" /\ seen' = <<>> /\ room' = Len(esc_chars(seen)) + 1
  BY DEF Count, Allocated
<1>2. room' \in Nat /\ seen' \in Seq(Chars)
  <2>1. esc_chars(seen) \in Seq(Chars)
    BY EscType DEF TextInv, TypeOK
  <2>2. Len(esc_chars(seen)) \in Nat
    BY <2>1, LenProperties
  <2> QED BY <1>1, <2>2
<1>3. TypeOK'
  BY <1>1, <1>2 DEF TextInv, TypeOK, FlashTypeOK
<1> QED BY <1>1, <1>3, TextKept

LEMMA CopyText == ASSUME TextInv, Copy PROVE TextInv'
<1>1. /\ loop' = "none" /\ seen' = <<>> /\ room' = 0 /\ torn' = FALSE
      /\ mem' = mem /\ configd' = configd /\ given' = given
  BY DEF Copy
<1>2. PICK k \in Keys, v \in Seq(Chars) :
        /\ k = Order[nth] /\ v = seen
        /\ write_copied(k, v)
        /\ call'.ok => /\ nth' = (nth % 3) + 1
                       /\ source' = [source EXCEPT ![k] = IF torn THEN Mixed ELSE given[k]]
        /\ ~call'.ok => nth' = 1 /\ source' = source
  BY CopyIs
<1>3. /\ flash' \in Seq(Chars) /\ Single(flash')
      /\ call'.ok \in BOOLEAN /\ call' = [key |-> k, val |-> v, ok |-> call'.ok]
      /\ full' \in BOOLEAN /\ (full => full')
      /\ ~call'.ok => flash' = flash /\ full' = full
      /\ \A x \in Keys \ {k} : Starts(flash, x) = {} => Starts(flash', x) = {}
      /\ call'.ok /\ ~full' => Led(flash')
  BY <1>2, WriteCopied
<1>4. FlashTypeOK'
  BY <1>3 DEF FlashTypeOK
<1>5. nth' \in 1..3
  <2>1. nth = 1 \/ nth = 2 \/ nth = 3
    BY DEF TextInv, TypeOK
  <2>2. (nth % 3) + 1 \in 1..3
    BY <2>1
  <2> QED BY <1>2, <1>3, <2>2
<1>6. source' \in [Keys -> Seq(Chars) \cup {Mixed, NotFound}] /\ (call'.ok => source'[k] # NotFound)
  <2>1. given[k] \in Seq(Chars) \cup {Mixed} /\ source \in [Keys -> Seq(Chars) \cup {Mixed, NotFound}]
    BY DEF TextInv, TypeOK
  <2>2. given[k] # NotFound /\ Mixed # NotFound
    BY <2>1, CredentialsAssumptions, CodecAssumptions
  <2> QED BY <1>2, <1>3, <2>1, <2>2
<1>7. TypeOK'
  <2>1. mem' \in [Bytes -> Chars \cup {Nul}] /\ configd' \in BOOLEAN
        /\ given' \in [Keys -> Seq(Chars) \cup {Mixed}]
    BY <1>1 DEF TextInv, TypeOK
  <2>2. seen' \in Seq(Chars) /\ room' \in Nat /\ torn' \in BOOLEAN /\ loop' \in {"none", "count", "copy"}
    <3>1. <<>> \in Seq(Chars)
      OBVIOUS
    <3>2. 0 \in Nat /\ FALSE \in BOOLEAN /\ "none" \in {"none", "count", "copy"}
      OBVIOUS
    <3> QED BY <1>1, <3>1, <3>2, Zenon
  <2> QED BY <1>4, <1>5, <1>6, <2>1, <2>2 DEF TypeOK
<1>8. full' \/ Led(flash')
  BY <1>3 DEF TextInv
<1>9. ASSUME NEW x \in Keys, source'[x] = NotFound
      PROVE  Starts(flash', x) = {}
  <2>1. source[x] = NotFound => Starts(flash, x) = {}
    BY DEF TextInv
  <2>2. CASE call'.ok
    <3>1. x # k
      BY <1>6, <1>9, <2>2
    <3>2. source'[x] = source[x]
      <4>1. source \in [Keys -> Seq(Chars) \cup {Mixed, NotFound}]
        BY DEF TextInv, TypeOK
      <4> QED BY <1>2, <2>2, <3>1, <4>1
    <3> QED BY <1>3, <1>9, <2>1, <3>1, <3>2
  <2>3. CASE ~call'.ok
    BY <1>2, <1>3, <1>9, <2>1, <2>3
  <2> QED BY <2>2, <2>3
<1> QED BY <1>3, <1>7, <1>8, <1>9 DEF TextInv

LEMMA InitText == ASSUME TextInv, flash_init_handler PROVE TextInv'
<1>1. /\ flash' = flash /\ call' = call /\ full' = full /\ source' = source
      /\ mem' = Restored(Restored(Restored(Booted, Order[1]), Order[2]), Order[3])
      /\ configd' = (Found = Keys)
      /\ given' = [k \in Keys |-> IF k \in Found THEN source[k] ELSE <<>>]
      /\ nth' = 1 /\ loop' = "none" /\ seen' = <<>> /\ room' = 0 /\ torn' = FALSE
  BY DEF flash_init_handler
<1>2. Order[1] \in Keys /\ Order[2] \in Keys /\ Order[3] \in Keys
  BY SlotIs
<1>3. mem' \in [Bytes -> Chars \cup {Nul}]
  <2>1. Restored(Booted, Order[1]) \in [Bytes -> Chars \cup {Nul}]
    BY <1>2, BootedType, RestoredType
  <2>2. Restored(Restored(Booted, Order[1]), Order[2]) \in [Bytes -> Chars \cup {Nul}]
    BY <1>2, <2>1, RestoredType
  <2> QED BY <1>1, <1>2, <2>2, RestoredType
<1>4. given' \in [Keys -> Seq(Chars) \cup {Mixed}]
  <2>1. ASSUME NEW k \in Keys
        PROVE  (IF k \in Found THEN source[k] ELSE <<>>) \in Seq(Chars) \cup {Mixed}
    <3>1. source[k] \in Seq(Chars) \cup {Mixed, NotFound}
      BY DEF TextInv, TypeOK
    <3>2. k \in Found => source[k] # NotFound
      BY RereadIs
    <3>3. <<>> \in Seq(Chars)
      OBVIOUS
    <3> QED BY <3>1, <3>2, <3>3
  <2> QED BY <1>1, <2>1
<1>5. FlashTypeOK'
  BY <1>1 DEF TextInv, TypeOK, FlashTypeOK
<1>6. /\ configd' \in BOOLEAN /\ nth' \in 1..3 /\ loop' \in {"none", "count", "copy"}
      /\ seen' \in Seq(Chars) /\ room' \in Nat /\ torn' \in BOOLEAN
  <2>1. <<>> \in Seq(Chars)
    OBVIOUS
  <2>2. 0 \in Nat /\ FALSE \in BOOLEAN /\ "none" \in {"none", "count", "copy"} /\ 1 \in 1..3
        /\ (Found = Keys) \in BOOLEAN
    OBVIOUS
  <2> QED BY <1>1, <2>1, <2>2, Zenon
<1>7. source' \in [Keys -> Seq(Chars) \cup {Mixed, NotFound}]
  BY <1>1 DEF TextInv, TypeOK
<1>8. TypeOK'
  BY <1>3, <1>4, <1>5, <1>6, <1>7 DEF TypeOK
<1> QED BY <1>1, <1>8, TextKept

LEMMA ParseText == ASSUME TextInv, NEW r \in Requests, parse_wifi_credentials(r) PROVE TextInv'
<1>1. /\ flash' = flash /\ call' = call /\ full' = full /\ source' = source
      /\ mem' = Copied(Copied(Copied(mem, Order[1], r[Order[1]]), Order[2], r[Order[2]]),
                       Order[3], r[Order[3]])
      /\ configd' = TRUE /\ given' = r /\ torn' = (loop # "none")
      /\ nth' = nth /\ loop' = loop /\ seen' = seen /\ room' = room
  BY DEF parse_wifi_credentials
<1>2. Order[1] \in Keys /\ Order[2] \in Keys /\ Order[3] \in Keys
  BY SlotIs
<1>3. r \in [Keys -> Seq(Chars)]
  BY CredentialsAssumptions
<1>4. mem' \in [Bytes -> Chars \cup {Nul}]
  <2>1. mem \in [Bytes -> Chars \cup {Nul}]
    BY DEF TextInv, TypeOK
  <2>2. Copied(mem, Order[1], r[Order[1]]) \in [Bytes -> Chars \cup {Nul}]
    BY <1>2, <1>3, <2>1, CopiedType
  <2>3. Copied(Copied(mem, Order[1], r[Order[1]]), Order[2], r[Order[2]])
          \in [Bytes -> Chars \cup {Nul}]
    BY <1>2, <1>3, <2>2, CopiedType
  <2> QED BY <1>1, <1>2, <1>3, <2>3, CopiedType
<1>5. given' \in [Keys -> Seq(Chars) \cup {Mixed}]
  BY <1>1, <1>3
<1>6. configd' \in BOOLEAN /\ torn' \in BOOLEAN
  BY <1>1
<1>7. TypeOK'
  BY <1>1, <1>4, <1>5, <1>6 DEF TextInv, TypeOK, FlashTypeOK
<1> QED BY <1>1, <1>7, TextKept

LEMMA TextStep == TextInv /\ [Next]_vars => TextInv'
<1> SUFFICES ASSUME TextInv, [Next]_vars PROVE TextInv'
  OBVIOUS
<1>1. CASE flash_write_handler
  BY <1>1, BeginText
<1>2. CASE Turn
  BY <1>2, TurnText
<1>3. CASE Count
  BY <1>3, CountText
<1>4. CASE Copy
  BY <1>4, CopyText
<1>5. CASE flash_init_handler
  BY <1>5, InitText
<1>6. ASSUME NEW r \in Requests, parse_wifi_credentials(r)
      PROVE  TextInv'
  BY <1>6, ParseText
<1>7. CASE UNCHANGED vars
  <2>1. TypeOK'
    BY <1>7 DEF vars, reading, TextInv, TypeOK, FlashTypeOK
  <2> QED BY <1>7, <2>1, TextKept DEF vars
<1> QED BY <1>1, <1>2, <1>3, <1>4, <1>5, <1>6, <1>7 DEF Next

LEMMA TextAlways == Spec => []TextInv
BY TextInit, TextStep, PTL DEF Spec

\* ctx and the credential store: every variable keeps its type, whatever strings are
\* sent; what is read is read within the buffers and what lies behind them.
THEOREM CredentialsTyped == Spec => []TypeOK
<1>1. TextInv => TypeOK
  BY DEF TextInv
<1> QED BY <1>1, TextAlways, PTL

\* flashmem.c, upsert_key: the choice between appending and splicing leaves every key
\* with one item at most, whatever the values are, cut, spliced or full.
THEOREM OneItemForEachKey == Spec => []OneItemPerKey
<1>1. TextInv => OneItemPerKey
  BY DEF TextInv, Single, Starts, OneItemPerKey
<1> QED BY <1>1, TextAlways, PTL

(***************************************************************************)
(* The text is a map                                                       *)
(***************************************************************************)
\* What every key reads as, and the last write as Store.tla sees it.
Readable == [k \in Keys |-> read(k)]

Shown == [call EXCEPT !.val = BeforeComma(@)]

\* write: its arguments and its result.
LEMMA ShownIs ==
  ASSUME NEW k, NEW v \in Seq(Chars), NEW b
  PROVE  /\ call = [key |-> k, val |-> v, ok |-> b]
              => Shown = [key |-> k, val |-> BeforeComma(v), ok |-> b]
         /\ call' = [key |-> k, val |-> v, ok |-> b]
              => Shown' = [key |-> k, val |-> BeforeComma(v), ok |-> b]
         /\ BeforeComma(v) \in Seq(Chars)
<1>1. BeforeComma(v) \in Seq(Chars)
  BY BeforeIs
<1>2. ASSUME call = [key |-> k, val |-> v, ok |-> b]
      PROVE  Shown = [key |-> k, val |-> BeforeComma(v), ok |-> b]
  BY <1>2 DEF Shown
<1>3. ASSUME call' = [key |-> k, val |-> v, ok |-> b]
      PROVE  Shown' = [key |-> k, val |-> BeforeComma(v), ok |-> b]
  BY <1>3 DEF Shown
<1> QED BY <1>1, <1>2, <1>3

\* flashmem.h, write: a call that fails is a write of the map that fails.
LEMMA FailedIsWrite ==
  ASSUME TextInv, NEW k \in Keys, NEW v \in Seq(Chars),
         call' = [key |-> k, val |-> v, ok |-> FALSE], flash' = flash, full' = full
  PROVE  S!Next
<1>1. full \in BOOLEAN
  BY DEF TextInv, TypeOK, FlashTypeOK
<1>2. Shown' = [key |-> k, val |-> BeforeComma(v), ok |-> FALSE] /\ BeforeComma(v) \in Seq(Chars)
  BY ShownIs
<1>3. Readable' = Readable
  BY DEF Readable, read, Escaped
<1>4. Shown' \in [key : Keys, val : Seq(Chars), ok : BOOLEAN] /\ ~Shown'.ok
  BY <1>2
<1>5. CASE full
  BY <1>5 DEF S!Next
<1>6. CASE ~full
  <2>1. S!Write
    BY <1>3, <1>4 DEF S!Write, Readable, Shown
  <2> QED BY <1>6, <2>1 DEF S!Next
<1> QED BY <1>1, <1>5, <1>6

\* flashmem.h, write: and one that stores a value is a write of the map, or finds it full.
LEMMA CopyIsWrite == ASSUME TextInv, Copy PROVE S!Next
<1>1. full \in BOOLEAN
  BY DEF TextInv, TypeOK, FlashTypeOK
<1>2. PICK k \in Keys, v \in Seq(Chars) : write_copied(k, v)
  BY CopyIs
<1>3. /\ call'.ok \in BOOLEAN /\ call' = [key |-> k, val |-> v, ok |-> call'.ok]
      /\ full' \in BOOLEAN /\ (full => full')
      /\ ~call'.ok => flash' = flash /\ full' = full
      /\ call'.ok /\ ~full' =>
           /\ read(k)' = BeforeComma(v)
           /\ \A x \in Keys \ {k} : read(x)' = read(x)
  BY <1>2, WriteCopied
<1>4. CASE ~call'.ok
  <2>1. call' = [key |-> k, val |-> v, ok |-> FALSE] /\ flash' = flash /\ full' = full
    BY <1>3, <1>4
  <2> QED BY <2>1, FailedIsWrite
<1>5. CASE call'.ok
  <2>1. call' = [key |-> k, val |-> v, ok |-> TRUE]
    BY <1>3, <1>5
  <2>2. Shown' = [key |-> k, val |-> BeforeComma(v), ok |-> TRUE] /\ BeforeComma(v) \in Seq(Chars)
    BY <2>1, ShownIs
  <2>3. CASE full
    BY <1>3, <2>3 DEF S!Next
  <2>4. CASE ~full /\ full'
    <3>1. Shown' \in [key : Keys, val : Seq(Chars), ok : {TRUE}]
      BY <2>2
    <3>2. full' = TRUE
      BY <1>3, <2>4
    <3>3. S!Fill
      BY <3>1, <3>2 DEF S!Fill, Shown
    <3> QED BY <2>4, <3>3 DEF S!Next
  <2>5. CASE ~full /\ ~full'
    <3>1. /\ Shown' \in [key : Keys, val : Seq(Chars), ok : BOOLEAN]
          /\ Shown'.ok /\ Shown'.key = k /\ Shown'.val = BeforeComma(v)
      BY <2>2
    <3>2. full' = full
      BY <1>1, <1>3, <2>5
    <3>3. read(k)' = BeforeComma(v) /\ \A x \in Keys \ {k} : read(x)' = read(x)
      BY <1>3, <1>5, <2>5
    <3>4. Readable' = [Readable EXCEPT ![k] = BeforeComma(v)]
      <4>1. Readable' = [x \in Keys |-> read(x)']
        BY DEF Readable
      <4>2. ASSUME NEW x \in Keys
            PROVE  read(x)' = IF x = k THEN BeforeComma(v) ELSE read(x)
        BY <3>3
      <4>3. [Readable EXCEPT ![k] = BeforeComma(v)]
              = [x \in Keys |-> IF x = k THEN BeforeComma(v) ELSE read(x)]
        BY DEF Readable
      <4> QED BY <4>1, <4>2, <4>3
    <3>5. S!Write
      BY <3>1, <3>2, <3>4 DEF S!Write, Readable, Shown
    <3> QED BY <2>5, <3>5 DEF S!Next
  <2> QED BY <1>1, <1>3, <2>3, <2>4, <2>5
<1> QED BY <1>3, <1>4, <1>5

\* flashmem.c, write and read: the text is a map from keys to values that only a write
\* which reports success changes, and only at its key, until it is full; of a value with
\* a comma the map keeps what precedes the comma.
THEOREM TextIsStore == Spec => StoreSpec
<1>1. Init => S!Init
  <2> SUFFICES ASSUME Init PROVE S!Init
    OBVIOUS
  <2>1. flash = <<>> /\ call = [key |-> NotFound, val |-> <<>>, ok |-> TRUE] /\ full = FALSE
    BY DEF Init, initialize_flash
  <2>2. \A k \in Keys : read(k) = NotFound
    <3>1. 1..Len(<<>>) - 1 = {}
      OBVIOUS
    <3>2. \A k : Starts(<<>>, k) = {}
      BY <3>1 DEF Starts
    <3>3. <<>> \in Seq(Chars)
      OBVIOUS
    <3>4. \A k : KeyLoc(<<>>, k) = 0
      BY <3>2, <3>3, KeyLocIs
    <3> QED BY <2>1, <3>4 DEF read
  <2>3. Readable = [k \in Keys |-> NotFound]
    BY <2>2 DEF Readable
  <2>4. Shown = [key |-> NotFound, val |-> <<>>, ok |-> TRUE]
    <3>1. <<>> \in Seq(Chars) /\ Len(<<>>) = 0
      OBVIOUS
    <3>2. BeforeComma(<<>>) = <<>>
      <4>1. PICK m \in 0..Len(<<>>) : BeforeComma(<<>>) \in Seq(Chars) /\ Len(BeforeComma(<<>>)) = m
        BY <3>1, BeforeIs
      <4>2. m = 0
        BY <3>1
      <4> HIDE DEF BeforeComma
      <4> QED BY <4>1, <4>2
    <3>3. Shown = [key |-> NotFound, val |-> BeforeComma(<<>>), ok |-> TRUE]
      BY <2>1, <3>1, ShownIs
    <3> QED BY <3>2, <3>3
  <2> QED BY <2>1, <2>3, <2>4 DEF S!Init, Readable, Shown
<1>2. ASSUME TextInv, [Next]_vars
      PROVE  [S!Next]_<<Readable, Shown, full>>
  <2>1. CASE flash_write_handler
    <3>1. flash' = flash /\ full' = full
      BY <2>1 DEF flash_write_handler
    <3>2. CASE call' = call
      BY <3>1, <3>2 DEF Readable, Shown, read, Escaped
    <3>3. CASE call' # call
      <4>1. call' = [key |-> Order[nth], val |-> String(Field), ok |-> FALSE]
        BY <2>1, <3>3 DEF flash_write_handler
      <4>2. nth \in 1..3 /\ mem \in [Bytes -> Chars \cup {Nul}]
        BY <1>2 DEF TextInv, TypeOK
      <4>3. /\ Order[nth] \in Keys /\ Field = Slot(nth) /\ Slot(nth) \in Nat
            /\ Slot(nth) + BufLen <= 3 * BufLen /\ BufLen \in Nat
        BY <4>2, SlotIs DEF Field
      <4>4. Field \in Nat /\ Field <= 4 * BufLen
        BY <4>3
      <4>5. PICK k \in Keys, v \in Seq(Chars) : k = Order[nth] /\ v = String(Field)
        BY <4>2, <4>3, <4>4, StringType
      <4>6. call' = [key |-> k, val |-> v, ok |-> FALSE]
        BY <4>1, <4>5
      <4> QED BY <1>2, <3>1, <4>6, FailedIsWrite
    <3> QED BY <3>2, <3>3
  <2>2. CASE Copy
    BY <1>2, <2>2, CopyIsWrite
  <2>3. ASSUME flash' = flash, call' = call, full' = full
        PROVE  [S!Next]_<<Readable, Shown, full>>
    BY <2>3 DEF Readable, Shown, read, Escaped
  <2>4. CASE Turn \/ Count
    BY <2>3, <2>4 DEF Turn, Count
  <2>5. CASE flash_init_handler
    BY <2>3, <2>5 DEF flash_init_handler
  <2>6. ASSUME NEW r \in Requests, parse_wifi_credentials(r)
        PROVE  [S!Next]_<<Readable, Shown, full>>
    BY <2>3, <2>6 DEF parse_wifi_credentials
  <2>7. CASE UNCHANGED vars
    BY <2>3, <2>7 DEF vars
  <2> QED BY <1>2, <2>1, <2>2, <2>4, <2>5, <2>6, <2>7 DEF Next
<1>3. TextInv /\ [Next]_vars => [S!Next]_<<[k \in Keys |-> read(k)], [call EXCEPT !.val = BeforeComma(@)], full>>
  BY <1>2 DEF Readable, Shown
<1> QED BY <1>1, <1>3, TextAlways, PTL DEF Spec, StoreSpec, S!Spec

(***************************************************************************)
(* The strings in memory are those that were sent                          *)
(***************************************************************************)
\* What is written at an address is the string s, and a terminator behind it.
Terminated(w, s) ==
  /\ w \in Seq(Chars \cup {Nul}) /\ Len(w) \in Nat /\ Len(s) < Len(w)
  /\ \A i \in 1..Len(s) : w[i] = s[i]
  /\ w[Len(s) + 1] = Nul

\* A string that ends in its buffer is in it when it has been written, whatever was there.
LEMMA PutHolds ==
  ASSUME NEW m \in [Bytes -> Chars \cup {Nul}], NEW i \in 1..3, NEW s \in Seq(Chars),
         Len(s) < BufLen, NEW w, Terminated(w, s)
  PROVE  Holds(Put(m, Slot(i), w), Slot(i), s)
<1> DEFINE b == Put(m, Slot(i), w)
           N == Len(s)
           at == Slot(i)
<1>1. at \in Nat /\ at + BufLen <= 3 * BufLen /\ BufLen \in Nat
  BY SlotIs
<1>2. N \in Nat /\ Len(w) \in Nat /\ N < Len(w) /\ N < BufLen
  BY LenProperties DEF Terminated
<1>3. w \in Seq(Chars \cup {Nul}) /\ w[N + 1] = Nul /\ \A j \in 1..N : w[j] = s[j]
  BY DEF Terminated
<1>4. \A j \in 1..Len(w) : at + j - 1 \in Bytes => b[at + j - 1] = w[j]
  BY <1>1, <1>3, PutIs
<1> HIDE DEF b, N, at
<1>5. ASSUME NEW j \in 1..N + 1
      PROVE  b[at + j - 1] = w[j]
  <2>1. at + j - 1 \in Bytes /\ j \in 1..Len(w)
    BY <1>1, <1>2 DEF Bytes
  <2> QED BY <1>4, <2>1
<1>6. N + 1 \in 1..N + 1 /\ at + (N + 1) - 1 = at + N /\ \A j \in 1..N : j \in 1..N + 1
  BY <1>1, <1>2
<1>7. b[at + N] = Nul
  <2>1. b[at + (N + 1) - 1] = w[N + 1]
    BY <1>5, <1>6
  <2> QED BY <1>3, <1>6, <2>1
<1>8. \A j \in 1..N : b[at + j - 1] = s[j]
  BY <1>3, <1>5, <1>6
<1> QED BY <1>7, <1>8 DEF Holds, N, b, at

\* And it stays when a buffer behind it is written.
LEMMA PutKeeps ==
  ASSUME NEW m \in [Bytes -> Chars \cup {Nul}], NEW i \in 1..3, NEW j \in 1..3, i < j,
         NEW s \in Seq(Chars), Len(s) < BufLen, Holds(m, Slot(i), s),
         NEW w \in Seq(Chars \cup {Nul})
  PROVE  Holds(Put(m, Slot(j), w), Slot(i), s)
<1> DEFINE b == Put(m, Slot(j), w)
           N == Len(s)
           at == Slot(i)
<1>1. at \in Nat /\ BufLen \in Nat /\ at + BufLen <= Slot(j) /\ Slot(j) \in Nat
      /\ Slot(j) <= 3 * BufLen
  <2>1. BufLen \in Nat \ {0} /\ Slot(1) = 0 /\ Slot(2) = BufLen /\ Slot(3) = 2 * BufLen
    BY SlotIs
  <2>2. (i = 1 /\ j = 2) \/ (i = 1 /\ j = 3) \/ (i = 2 /\ j = 3)
    OBVIOUS
  <2>3. CASE i = 1 /\ j = 2
    BY <2>1, <2>3
  <2>4. CASE i = 1 /\ j = 3
    BY <2>1, <2>4
  <2>5. CASE i = 2 /\ j = 3
    BY <2>1, <2>5
  <2> QED BY <2>2, <2>3, <2>4, <2>5
<1>2. N \in Nat /\ N < BufLen
  BY LenProperties
<1>3. (\A y \in 1..N : m[at + y - 1] = s[y]) /\ m[at + N] = Nul
  BY DEF Holds
<1>4. \A y \in Bytes : y < Slot(j) => b[y] = m[y]
  BY <1>1, PutIs
<1> HIDE DEF b, N, at
<1>5. ASSUME NEW y \in at..at + N
      PROVE  b[y] = m[y]
  <2>1. y \in Bytes /\ y < Slot(j)
    BY <1>1, <1>2 DEF Bytes
  <2> QED BY <1>4, <2>1
<1>6. at + N \in at..at + N /\ \A y \in 1..N : at + y - 1 \in at..at + N
  BY <1>1, <1>2
<1>7. (\A y \in 1..N : b[at + y - 1] = s[y]) /\ b[at + N] = Nul
  BY <1>3, <1>5, <1>6
<1> QED BY <1>7 DEF Holds, b, N, at

\* The buffers hold the strings g, but for those that the code does not promise to keep.
Kept(m, g) ==
  \A i \in 1..3 : Storable(g[Order[i]]) => Holds(m, Slot(i), g[Order[i]])

\* The three buffers are written one behind the other.
LEMMA ThreePuts ==
  ASSUME NEW m0 \in [Bytes -> Chars \cup {Nul}], NEW g,
         NEW w1 \in Seq(Chars \cup {Nul}), NEW w2 \in Seq(Chars \cup {Nul}),
         NEW w3 \in Seq(Chars \cup {Nul}),
         Storable(g[Order[1]]) => Terminated(w1, g[Order[1]]),
         Storable(g[Order[2]]) => Terminated(w2, g[Order[2]]),
         Storable(g[Order[3]]) => Terminated(w3, g[Order[3]])
  PROVE  Kept(Put(Put(Put(m0, Slot(1), w1), Slot(2), w2), Slot(3), w3), g)
<1> DEFINE m1 == Put(m0, Slot(1), w1)
           m2 == Put(m1, Slot(2), w2)
           m3 == Put(m2, Slot(3), w3)
<1>1. Slot(1) \in Nat /\ Slot(2) \in Nat /\ Slot(3) \in Nat
  BY SlotIs
<1>2. m1 \in [Bytes -> Chars \cup {Nul}]
  BY <1>1, PutIs
<1>3. m1 = Put(m0, Slot(1), w1)
  OBVIOUS
<1> HIDE DEF m1
<1>4. m2 \in [Bytes -> Chars \cup {Nul}]
  BY <1>1, <1>2, PutIs
<1>5. m2 = Put(m1, Slot(2), w2)
  OBVIOUS
<1> HIDE DEF m2
<1>6. m3 = Put(m2, Slot(3), w3)
  OBVIOUS
<1> HIDE DEF m3
<1>7. 1 \in 1..3 /\ 2 \in 1..3 /\ 3 \in 1..3 /\ 1 < 2 /\ 1 < 3 /\ 2 < 3
  OBVIOUS
<1>8. ASSUME NEW x, Storable(x)
      PROVE  x \in Seq(Chars) /\ Len(x) < BufLen
  BY <1>8 DEF Storable
<1>9. ASSUME Storable(g[Order[1]])
      PROVE  Holds(m3, Slot(1), g[Order[1]])
  <2> DEFINE s == g[Order[1]]
  <2>1. s \in Seq(Chars) /\ Len(s) < BufLen /\ Terminated(w1, s)
    BY <1>8, <1>9
  <2> HIDE DEF s
  <2>2. Holds(m1, Slot(1), s)
    BY <1>3, <1>7, <2>1, PutHolds
  <2>3. Holds(m2, Slot(1), s)
    BY <1>2, <1>5, <1>7, <2>1, <2>2, PutKeeps
  <2>4. Holds(m3, Slot(1), s)
    BY <1>4, <1>6, <1>7, <2>1, <2>3, PutKeeps
  <2> QED BY <2>4 DEF s
<1>10. ASSUME Storable(g[Order[2]])
       PROVE  Holds(m3, Slot(2), g[Order[2]])
  <2> DEFINE s == g[Order[2]]
  <2>1. s \in Seq(Chars) /\ Len(s) < BufLen /\ Terminated(w2, s)
    BY <1>8, <1>10
  <2> HIDE DEF s
  <2>2. Holds(m2, Slot(2), s)
    BY <1>2, <1>5, <1>7, <2>1, PutHolds
  <2>3. Holds(m3, Slot(2), s)
    BY <1>4, <1>6, <1>7, <2>1, <2>2, PutKeeps
  <2> QED BY <2>3 DEF s
<1>11. ASSUME Storable(g[Order[3]])
       PROVE  Holds(m3, Slot(3), g[Order[3]])
  <2> DEFINE s == g[Order[3]]
  <2>1. s \in Seq(Chars) /\ Len(s) < BufLen /\ Terminated(w3, s)
    BY <1>8, <1>11
  <2> HIDE DEF s
  <2>2. Holds(m3, Slot(3), s)
    BY <1>4, <1>6, <1>7, <2>1, PutHolds
  <2> QED BY <2>2 DEF s
<1>12. ASSUME NEW i \in 1..3, Storable(g[Order[i]])
       PROVE  Holds(m3, Slot(i), g[Order[i]])
  <2>1. i = 1 \/ i = 2 \/ i = 3
    OBVIOUS
  <2> QED BY <1>9, <1>10, <1>11, <1>12, <2>1
<1>13. m3 = Put(Put(Put(m0, Slot(1), w1), Slot(2), w2), Slot(3), w3)
  BY <1>3, <1>5, <1>6
<1> QED BY <1>12, <1>13, Zenon DEF Kept

\* parse_wifi_credentials: every string is followed by its terminator.
LEMMA CopiedKept ==
  ASSUME TextInv, NEW r \in Requests
  PROVE  Kept(Copied(Copied(Copied(mem, Order[1], r[Order[1]]), Order[2], r[Order[2]]),
                     Order[3], r[Order[3]]), r)
<1>1. r \in [Keys -> Seq(Chars)] /\ mem \in [Bytes -> Chars \cup {Nul}]
  BY CredentialsAssumptions DEF TextInv, TypeOK
<1>2. /\ Order[1] \in Keys /\ Order[2] \in Keys /\ Order[3] \in Keys
      /\ Base(Order[1]) = Slot(1) /\ Base(Order[2]) = Slot(2) /\ Base(Order[3]) = Slot(3)
  BY SlotIs
<1>3. ASSUME NEW s \in Seq(Chars)
      PROVE  s \o <<Nul>> \in Seq(Chars \cup {Nul}) /\ Terminated(s \o <<Nul>>, s)
  <2> DEFINE w == s \o <<Nul>>
  <2>1. /\ w \in Seq(Chars \cup {Nul})
        /\ Len(w) = Len(s) + 1
        /\ \A i \in 1..Len(s) : w[i] = s[i]
        /\ w[Len(s) + 1] = Nul
    BY EndedByOne
  <2>2. Len(s) \in Nat
    BY LenProperties
  <2> HIDE DEF w
  <2>3. Len(w) \in Nat /\ Len(s) < Len(w)
    BY <2>1, <2>2
  <2>4. w \in Seq(Chars \cup {Nul}) /\ Terminated(w, s)
    BY <2>1, <2>3 DEF Terminated
  <2> QED BY <2>4 DEF w
<1>4. r[Order[1]] \in Seq(Chars) /\ r[Order[2]] \in Seq(Chars) /\ r[Order[3]] \in Seq(Chars)
  BY <1>1, <1>2
<1> DEFINE w1 == r[Order[1]] \o <<Nul>>
           w2 == r[Order[2]] \o <<Nul>>
           w3 == r[Order[3]] \o <<Nul>>
<1>5. /\ w1 \in Seq(Chars \cup {Nul}) /\ Terminated(w1, r[Order[1]])
      /\ w2 \in Seq(Chars \cup {Nul}) /\ Terminated(w2, r[Order[2]])
      /\ w3 \in Seq(Chars \cup {Nul}) /\ Terminated(w3, r[Order[3]])
  BY <1>3, <1>4
<1>6. Copied(Copied(Copied(mem, Order[1], r[Order[1]]), Order[2], r[Order[2]]),
             Order[3], r[Order[3]])
        = Put(Put(Put(mem, Slot(1), w1), Slot(2), w2), Slot(3), w3)
  BY <1>2, Zenon DEF Copied
<1> HIDE DEF w1, w2, w3
<1>7. Kept(Put(Put(Put(mem, Slot(1), w1), Slot(2), w2), Slot(3), w3), r)
  BY <1>1, <1>5, ThreePuts
<1> QED BY <1>6, <1>7

\* flash_init_handler: when all three keys are found, every buffer holds what its key
\* reads as.
LEMMA RestoredKept ==
  ASSUME TextInv, Found = Keys,
         \A k \in Keys : Storable(source[k]) => read(k) = source[k]
  PROVE  Kept(Restored(Restored(Restored(Booted, Order[1]), Order[2]), Order[3]), source)
<1>1. /\ Order[1] \in Keys /\ Order[2] \in Keys /\ Order[3] \in Keys
      /\ Base(Order[1]) = Slot(1) /\ Base(Order[2]) = Slot(2) /\ Base(Order[3]) = Slot(3)
  BY SlotIs
<1>2. ASSUME NEW k \in Keys
      PROVE  /\ Reread(k) \in Seq(Chars \cup {Nul})
             /\ Storable(source[k]) => Terminated(Reread(k), source[k])
             /\ \A m : Restored(m, k) = Put(m, Base(k), Reread(k))
  <2>1. /\ Reread(k) \in Seq(Chars \cup {Nul}) /\ read(k) \in Seq(Chars)
        /\ Len(Reread(k)) > Len(read(k)) /\ Len(Reread(k)) \in Nat
        /\ \A i \in 1..Len(read(k)) : Reread(k)[i] = read(k)[i]
        /\ Reread(k)[Len(read(k)) + 1] = Nul
    BY RereadIs
  <2>2. Len(read(k)) \in Nat
    BY <2>1, LenProperties
  <2>3. Len(read(k)) < Len(Reread(k))
    <3> DEFINE a == Len(read(k))
               b == Len(Reread(k))
    <3>1. a \in Nat /\ b \in Nat /\ b > a
      BY <2>1, <2>2
    <3> HIDE DEF a, b
    <3>2. a < b
      BY <3>1
    <3> QED BY <3>2 DEF a, b
  <2>4. Terminated(Reread(k), read(k))
    BY <2>1, <2>3, Zenon DEF Terminated
  <2>5. \A m : Restored(m, k) = Put(m, Base(k), Reread(k))
    BY DEF Restored, Reread
  <2> QED BY <2>1, <2>4, <2>5
<1> DEFINE w1 == Reread(Order[1])
           w2 == Reread(Order[2])
           w3 == Reread(Order[3])
<1>3. /\ w1 \in Seq(Chars \cup {Nul}) /\ w2 \in Seq(Chars \cup {Nul}) /\ w3 \in Seq(Chars \cup {Nul})
      /\ Storable(source[Order[1]]) => Terminated(w1, source[Order[1]])
      /\ Storable(source[Order[2]]) => Terminated(w2, source[Order[2]])
      /\ Storable(source[Order[3]]) => Terminated(w3, source[Order[3]])
  BY <1>1, <1>2
<1>4. Restored(Restored(Restored(Booted, Order[1]), Order[2]), Order[3])
        = Put(Put(Put(Booted, Slot(1), w1), Slot(2), w2), Slot(3), w3)
  BY <1>1, <1>2, Zenon
<1> HIDE DEF w1, w2, w3
<1>5. Kept(Put(Put(Put(Booted, Slot(1), w1), Slot(2), w2), Slot(3), w3), source)
  BY <1>3, BootedType, ThreePuts
<1> QED BY <1>4, <1>5

\* What esc_chars has read so far is what the buffer holds.
SeenIs == \A i \in 1..Len(seen) : seen[i] = mem[Field + i - 1]

\* The copy is allocated for the string that the buffer holds.
RoomIs ==
  \E s \in Seq(Chars) :
    /\ room = Len(esc_chars(s)) + 1
    /\ Len(seen) <= Len(s)
    /\ \A i \in 1..Len(s) : s[i] = mem[Field + i - 1]
    /\ Field + Len(s) \in Bytes => mem[Field + Len(s)] = Nul

StoredInv == ~full => \A k \in Keys : Storable(source[k]) => read(k) = source[k]

\* The memory holds what was given and the text what was stored, but for what the code
\* does not promise to keep; and a write that no request has met reads the buffer.
KeptInv ==
  /\ TextInv
  /\ loop # "none" => configd
  /\ loop = "none" => seen = <<>>
  /\ configd /\ ~full => Kept(mem, given)
  /\ StoredInv
  /\ loop # "none" /\ ~torn => SeenIs
  /\ loop = "copy" /\ ~torn => RoomIs

LEMMA KeptInit == Init => KeptInv
<1> SUFFICES ASSUME Init PROVE KeptInv
  OBVIOUS
<1>1. TextInv
  BY TextInit
<1>2. loop = "none" /\ configd = FALSE /\ seen = <<>> /\ source = [k \in Keys |-> NotFound]
  BY DEF Init, Idle
<1>3. StoredInv
  <2>1. NotFound \notin Seq(Chars)
    BY CodecAssumptions
  <2> QED BY <1>2, <2>1 DEF StoredInv, Storable
<1> QED BY <1>1, <1>2, <1>3 DEF KeptInv

LEMMA FieldIs ==
  ASSUME TextInv
  PROVE  nth \in 1..3 /\ Field = Slot(nth) /\ Field \in Nat /\ Field + BufLen <= 3 * BufLen
         /\ BufLen \in Nat /\ Len(seen) \in Nat /\ seen \in Seq(Chars)
<1>1. nth \in 1..3 /\ seen \in Seq(Chars)
  BY DEF TextInv, TypeOK
<1>2. Field = Slot(nth) /\ Slot(nth) \in Nat /\ Slot(nth) + BufLen <= 3 * BufLen /\ BufLen \in Nat
  BY <1>1, SlotIs DEF Field
<1>3. Len(seen) \in Nat
  BY <1>1, LenProperties
<1> QED BY <1>1, <1>2, <1>3

LEMMA BeginKept == ASSUME KeptInv, flash_write_handler PROVE KeptInv'
<1>1. /\ flash' = flash /\ full' = full /\ source' = source /\ mem' = mem /\ configd' = configd
      /\ seen' = seen /\ room' = room /\ torn' = torn /\ given' = given /\ configd /\ loop = "none"
      /\ loop' = "none" \/ loop' = "count"
  BY DEF flash_write_handler
<1>2. TextInv' /\ seen = <<>>
  BY <1>1, BeginText DEF KeptInv
<1>3. Kept(mem', given') = Kept(mem, given)
  BY <1>1, Zenon
<1>4. StoredInv'
  <2>1. \A k : read(k)' = read(k)
    BY <1>1 DEF read, Escaped
  <2> QED BY <1>1, <2>1 DEF KeptInv, StoredInv
<1>5. SeenIs'
  <2>1. 1..Len(seen') = {}
    BY <1>1, <1>2
  <2> QED BY <2>1 DEF SeenIs
<1>6. configd' /\ ~full' => Kept(mem', given')
  BY <1>1, <1>3 DEF KeptInv
<1> QED BY <1>1, <1>2, <1>4, <1>5, <1>6 DEF KeptInv

\* esc_chars: as long as it goes on, it has not reached the end of the string.
LEMMA TurnWithin ==
  ASSUME TextInv, ~Ends, NEW s \in Seq(Chars), Len(seen) <= Len(s),
         Field + Len(s) \in Bytes => mem[Field + Len(s)] = Nul
  PROVE  Len(seen) + 1 <= Len(s)
<1>1. At \in Bytes /\ mem[At] # Nul /\ At = Field + Len(seen)
  BY TurnIs DEF At
<1>2. Len(seen) # Len(s)
  <2> SUFFICES ASSUME Len(seen) = Len(s) PROVE FALSE
    OBVIOUS
  <2>1. At = Field + Len(s)
    BY <1>1
  <2> QED BY <1>1, <2>1
<1>3. Len(seen) \in Nat /\ Len(s) \in Nat
  BY FieldIs, LenProperties
<1> DEFINE a == Len(seen)
           b == Len(s)
<1>4. a \in Nat /\ b \in Nat /\ a <= b /\ a # b
  BY <1>2, <1>3
<1> HIDE DEF a, b
<1>5. a + 1 <= b
  BY <1>4
<1> QED BY <1>5 DEF a, b

LEMMA TurnKept == ASSUME KeptInv, Turn PROVE KeptInv'
<1>1. /\ flash' = flash /\ full' = full /\ source' = source /\ mem' = mem
      /\ configd' = configd /\ nth' = nth /\ loop' = loop /\ room' = room /\ torn' = torn
      /\ given' = given /\ seen' = Append(seen, mem[At]) /\ ~Ends /\ loop # "none"
  BY DEF Turn
<1>2. TextInv' /\ TextInv
  BY TurnText DEF KeptInv
<1>3. StoredInv'
  <2>1. \A k : read(k)' = read(k)
    BY <1>1 DEF read, Escaped
  <2> QED BY <1>1, <2>1 DEF KeptInv, StoredInv
<1>4. Kept(mem', given') = Kept(mem, given)
  BY <1>1, Zenon
<1>5. configd' /\ ~full' => Kept(mem', given')
  BY <1>1, <1>4 DEF KeptInv
<1>6. Field' = Field /\ seen \in Seq(Chars) /\ Len(seen) \in Nat /\ Field \in Nat
  BY <1>1, <1>2, FieldIs DEF Field
<1> DEFINE c == mem[At]
           N == Len(seen)
<1>7. c \in Chars /\ At = Field + N
  BY <1>1, <1>2, TurnIs DEF At
<1> HIDE DEF c
<1>8. /\ Len(seen') = N + 1
      /\ \A i \in 1..N : seen'[i] = seen[i]
      /\ seen'[N + 1] = c
  <2>1. seen' = Append(seen, c)
    BY <1>1 DEF c
  <2> QED BY <1>6, <1>7, <2>1, AppendProperties
<1> HIDE DEF N
<1>9. ASSUME loop # "none" /\ ~torn
      PROVE  SeenIs'
  <2>1. \A i \in 1..N : seen[i] = mem[Field + i - 1]
    BY <1>9 DEF KeptInv, SeenIs, N
  <2>2. ASSUME NEW i \in 1..N + 1
        PROVE  seen'[i] = mem[Field + i - 1]
    <3>1. CASE i \in 1..N
      BY <1>8, <2>1, <3>1
    <3>2. CASE i = N + 1
      <4>1. Field + (N + 1) - 1 = At
        BY <1>6, <1>7 DEF N
      <4> QED BY <1>8, <3>2, <4>1 DEF c
    <3>3. i \in 1..N \/ i = N + 1
      BY <1>6 DEF N
    <3> QED BY <3>1, <3>2, <3>3
  <2>3. SeenIs' <=> \A i \in 1..Len(seen') : seen'[i] = mem'[Field' + i - 1]
    BY DEF SeenIs
  <2> QED BY <1>1, <1>6, <1>8, <2>2, <2>3
<1>10. ASSUME loop = "copy" /\ ~torn
       PROVE  RoomIs'
  <2>1. PICK s \in Seq(Chars) :
          /\ room = Len(esc_chars(s)) + 1
          /\ Len(seen) <= Len(s)
          /\ \A i \in 1..Len(s) : s[i] = mem[Field + i - 1]
          /\ Field + Len(s) \in Bytes => mem[Field + Len(s)] = Nul
    BY <1>10 DEF KeptInv, RoomIs
  <2>2. Len(seen) + 1 <= Len(s)
    BY <1>1, <1>2, <2>1, TurnWithin
  <2>3. Len(seen') <= Len(s)
    BY <1>8, <2>2 DEF N
  <2>4. RoomIs' <=> \E q \in Seq(Chars) :
                      /\ room' = Len(esc_chars(q)) + 1
                      /\ Len(seen') <= Len(q)
                      /\ \A i \in 1..Len(q) : q[i] = mem'[Field' + i - 1]
                      /\ Field' + Len(q) \in Bytes => mem'[Field' + Len(q)] = Nul
    BY DEF RoomIs, Bytes
  <2>5. /\ room' = Len(esc_chars(s)) + 1
        /\ \A i \in 1..Len(s) : s[i] = mem'[Field' + i - 1]
        /\ Field' + Len(s) \in Bytes => mem'[Field' + Len(s)] = Nul
    BY <1>1, <1>6, <2>1
  <2> QED BY <2>3, <2>4, <2>5, Zenon
<1>11. loop' # "none" => configd'
  BY <1>1 DEF KeptInv
<1> QED BY <1>1, <1>2, <1>3, <1>5, <1>9, <1>10, <1>11 DEF KeptInv

LEMMA CountKept == ASSUME KeptInv, Count PROVE KeptInv'
<1>1. /\ flash' = flash /\ full' = full /\ source' = source /\ mem' = mem
      /\ configd' = configd /\ nth' = nth /\ torn' = torn /\ given' = given /\ loop = "count"
      /\ loop' = "copy" /\ seen' = <<>> /\ room' = Len(esc_chars(seen)) + 1 /\ Ends
  BY DEF Count, Allocated
<1>2. TextInv' /\ TextInv
  BY CountText DEF KeptInv
<1>3. StoredInv'
  <2>1. \A k : read(k)' = read(k)
    BY <1>1 DEF read, Escaped
  <2> QED BY <1>1, <2>1 DEF KeptInv, StoredInv
<1>4. Kept(mem', given') = Kept(mem, given)
  BY <1>1, Zenon
<1>5. configd' /\ ~full' => Kept(mem', given')
  BY <1>1, <1>4 DEF KeptInv
<1>6. Field' = Field /\ seen \in Seq(Chars) /\ Len(seen) \in Nat
  BY <1>1, <1>2, FieldIs DEF Field
<1>7. Len(seen') = 0 /\ 1..Len(seen') = {}
  BY <1>1
<1>8. SeenIs'
  BY <1>7 DEF SeenIs
<1>9. ASSUME ~torn
      PROVE  RoomIs'
  <2>1. \A i \in 1..Len(seen) : seen[i] = mem[Field + i - 1]
    BY <1>1, <1>9 DEF KeptInv, SeenIs
  <2>2. Field + Len(seen) \in Bytes => mem[Field + Len(seen)] = Nul
    BY <1>1 DEF Ends, At
  <2>3. Len(seen') <= Len(seen)
    BY <1>6, <1>7
  <2>4. RoomIs' <=> \E q \in Seq(Chars) :
                      /\ room' = Len(esc_chars(q)) + 1
                      /\ Len(seen') <= Len(q)
                      /\ \A i \in 1..Len(q) : q[i] = mem'[Field' + i - 1]
                      /\ Field' + Len(q) \in Bytes => mem'[Field' + Len(q)] = Nul
    BY DEF RoomIs, Bytes
  <2>5. /\ room' = Len(esc_chars(seen)) + 1
        /\ \A i \in 1..Len(seen) : seen[i] = mem'[Field' + i - 1]
        /\ Field' + Len(seen) \in Bytes => mem'[Field' + Len(seen)] = Nul
    BY <1>1, <1>6, <2>1, <2>2
  <2>6. PICK q \in Seq(Chars) : q = seen
    BY <1>6
  <2> QED BY <2>3, <2>4, <2>5, <2>6
<1>10. loop' # "none" => configd'
  BY <1>1 DEF KeptInv
<1> QED BY <1>1, <1>2, <1>3, <1>5, <1>8, <1>9, <1>10 DEF KeptInv

\* esc_chars: where it ends, it has read the string that its buffer holds.
LEMMA SeenWhole ==
  ASSUME TextInv, Ends, SeenIs, NEW g \in Seq(Chars), Len(g) < BufLen, Holds(mem, Field, g)
  PROVE  seen = g
<1> DEFINE N == Len(seen)
           G == Len(g)
<1>1. N \in Nat /\ G \in Nat /\ Field \in Nat /\ Field + BufLen <= 3 * BufLen /\ BufLen \in Nat
      /\ G < BufLen /\ seen \in Seq(Chars)
  BY FieldIs, LenProperties
<1>2. \A i \in 1..N : seen[i] = mem[Field + i - 1] /\ seen[i] # Nul
  <2>1. \A i \in 1..N : seen[i] \in Chars
    BY <1>1, LenProperties
  <2> QED BY <2>1, CredentialsAssumptions DEF SeenIs
<1>3. (\A i \in 1..G : mem[Field + i - 1] = g[i]) /\ mem[Field + G] = Nul
  BY DEF Holds
<1>4. Field + N \in Bytes => mem[Field + N] = Nul
  BY DEF Ends, At
<1>5. \A i \in 1..G : g[i] # Nul
  <2>1. \A i \in 1..G : g[i] \in Chars
    BY LenProperties
  <2> QED BY <2>1, CredentialsAssumptions
<1> HIDE DEF N, G
<1>6. ~(N < G)
  <2> SUFFICES ASSUME N < G PROVE FALSE
    OBVIOUS
  <2>1. N + 1 \in 1..G /\ Field + (N + 1) - 1 = Field + N /\ Field + N \in Bytes
    BY <1>1 DEF Bytes
  <2> QED BY <1>3, <1>4, <1>5, <2>1
<1>7. ~(N > G)
  <2> SUFFICES ASSUME N > G PROVE FALSE
    OBVIOUS
  <2>1. G + 1 \in 1..N /\ Field + (G + 1) - 1 = Field + G
    BY <1>1
  <2> QED BY <1>2, <1>3, <2>1
<1>8. N = G
  BY <1>1, <1>6, <1>7
<1>9. \A i \in 1..G : seen[i] = g[i]
  BY <1>2, <1>3, <1>8
<1> QED BY <1>1, <1>8, <1>9, SeqEqual DEF N, G

LEMMA CopyKept == ASSUME KeptInv, Copy PROVE KeptInv'
<1>1. /\ loop' = "none" /\ seen' = <<>> /\ room' = 0 /\ torn' = FALSE
      /\ mem' = mem /\ configd' = configd /\ given' = given /\ loop = "copy" /\ Ends
  BY DEF Copy
<1>2. TextInv' /\ TextInv
  BY CopyText DEF KeptInv
<1>3. PICK k \in Keys, v \in Seq(Chars) :
        /\ k = Order[nth] /\ v = seen
        /\ write_copied(k, v)
        /\ call'.ok => source' = [source EXCEPT ![k] = IF torn THEN Mixed ELSE given[k]]
        /\ ~call'.ok => source' = source
  BY <1>2, CopyIs
<1>4. /\ call'.ok \in BOOLEAN
      /\ full' \in BOOLEAN /\ (full => full')
      /\ ~call'.ok => flash' = flash /\ full' = full
      /\ call'.ok /\ ~full' =>
           /\ read(k)' = BeforeComma(v)
           /\ \A x \in Keys \ {k} : read(x)' = read(x)
  BY <1>2, <1>3, WriteCopied
<1>5. Kept(mem', given') = Kept(mem, given)
  BY <1>1, Zenon
<1>6. configd' /\ ~full' => Kept(mem', given')
  BY <1>1, <1>4, <1>5 DEF KeptInv
<1>7. ASSUME ~full', NEW x \in Keys, Storable(source'[x])
      PROVE  read(x)' = source'[x]
  <2>1. ~full /\ \A y \in Keys : Storable(source[y]) => read(y) = source[y]
    BY <1>4, <1>7 DEF KeptInv, StoredInv
  <2>2. CASE ~call'.ok
    <3>1. read(x)' = read(x)
      BY <1>4, <2>2 DEF read, Escaped
    <3> QED BY <1>3, <1>7, <2>1, <2>2, <3>1
  <2>3. source \in [Keys -> Seq(Chars) \cup {Mixed, NotFound}]
    BY <1>2 DEF TextInv, TypeOK
  <2>4. CASE call'.ok /\ x # k
    <3>1. source'[x] = source[x]
      BY <1>3, <2>3, <2>4
    <3>2. read(x)' = read(x)
      BY <1>4, <1>7, <2>4
    <3> QED BY <1>7, <2>1, <3>1, <3>2
  <2>5. CASE call'.ok /\ x = k
    <3>1. source'[x] = IF torn THEN Mixed ELSE given[k]
      BY <1>3, <2>3, <2>5
    <3>2. Mixed \notin Seq(Chars)
      BY CredentialsAssumptions
    <3>3. ~torn /\ source'[x] = given[k] /\ Storable(given[k])
      BY <1>7, <3>1, <3>2 DEF Storable
    <3>4. configd /\ Kept(mem, given) /\ SeenIs
      BY <1>1, <2>1, <3>3 DEF KeptInv
    <3>5. nth \in 1..3 /\ Field = Slot(nth)
      BY <1>2, FieldIs
    <3>6. given[k] \in Seq(Chars) /\ Len(given[k]) < BufLen
          /\ \A i \in DOMAIN given[k] : given[k][i] # ","
      BY <3>3 DEF Storable
    <3>7. Holds(mem, Field, given[k])
      BY <1>3, <3>3, <3>4, <3>5 DEF Kept
    <3>8. PICK g \in Seq(Chars) : g = given[k]
      BY <3>6
    <3>9. seen = g
      <4>1. Len(g) < BufLen /\ Holds(mem, Field, g)
        BY <3>6, <3>7, <3>8
      <4> QED BY <1>1, <1>2, <3>4, <4>1, SeenWhole
    <3>10. BeforeComma(g) = g
      <4>1. \A i \in 1..Len(g) : g[i] # ","
        BY <3>6, <3>8, LenProperties
      <4>2. PICK m \in 0..Len(g) :
              /\ BeforeComma(g) \in Seq(Chars) /\ Len(BeforeComma(g)) = m
              /\ \A i \in 1..m : BeforeComma(g)[i] = g[i]
              /\ m < Len(g) => g[m + 1] = ","
        BY BeforeIs
      <4>3. Len(g) \in Nat /\ m \in 0..Len(g)
        BY LenProperties
      <4>4. m = Len(g)
        <5> SUFFICES ASSUME m # Len(g) PROVE FALSE
          OBVIOUS
        <5>1. m < Len(g) /\ m + 1 \in 1..Len(g)
          BY <4>3
        <5> QED BY <4>1, <4>2, <5>1
      <4> HIDE DEF BeforeComma
      <4> QED BY <4>2, <4>4, SeqEqual
    <3>11. read(k)' = BeforeComma(v) /\ v = g
      BY <1>3, <1>4, <1>7, <2>5, <3>9
    <3>12. read(k)' = given[k]
      BY <3>8, <3>10, <3>11
    <3> QED BY <2>5, <3>3, <3>12
  <2> QED BY <1>4, <2>2, <2>4, <2>5
<1>8. StoredInv'
  <2>1. StoredInv' <=> (~full' => \A x \in Keys : Storable(source'[x]) => read(x)' = source'[x])
    BY DEF StoredInv, Storable
  <2> QED BY <1>7, <2>1
<1> QED BY <1>1, <1>2, <1>6, <1>8 DEF KeptInv

LEMMA InitKept == ASSUME KeptInv, flash_init_handler PROVE KeptInv'
<1>1. /\ flash' = flash /\ full' = full /\ source' = source
      /\ mem' = Restored(Restored(Restored(Booted, Order[1]), Order[2]), Order[3])
      /\ configd' = (Found = Keys)
      /\ given' = [k \in Keys |-> IF k \in Found THEN source[k] ELSE <<>>]
      /\ loop' = "none" /\ seen' = <<>> /\ torn' = FALSE
  BY DEF flash_init_handler
<1>2. TextInv' /\ TextInv
  BY InitText DEF KeptInv
<1>3. StoredInv'
  <2>1. \A k : read(k)' = read(k)
    BY <1>1 DEF read, Escaped
  <2> QED BY <1>1, <2>1 DEF KeptInv, StoredInv
<1>4. ASSUME configd', ~full'
      PROVE  Kept(mem', given')
  <2>1. Found = Keys /\ ~full
    BY <1>1, <1>4
  <2>2. \A k \in Keys : Storable(source[k]) => read(k) = source[k]
    BY <2>1 DEF KeptInv, StoredInv
  <2>3. Kept(mem', source)
    BY <1>1, <1>2, <2>1, <2>2, RestoredKept
  <2>4. ASSUME NEW i \in 1..3
        PROVE  given'[Order[i]] = source[Order[i]]
    <3>1. Order[i] \in Keys
      BY SlotIs
    <3> QED BY <1>1, <2>1, <3>1
  <2> QED BY <2>3, <2>4 DEF Kept
<1> QED BY <1>1, <1>2, <1>3, <1>4 DEF KeptInv

LEMMA ParseKept == ASSUME KeptInv, NEW r \in Requests, parse_wifi_credentials(r) PROVE KeptInv'
<1>1. /\ flash' = flash /\ full' = full /\ source' = source
      /\ mem' = Copied(Copied(Copied(mem, Order[1], r[Order[1]]), Order[2], r[Order[2]]),
                       Order[3], r[Order[3]])
      /\ configd' = TRUE /\ given' = r /\ torn' = (loop # "none")
      /\ nth' = nth /\ loop' = loop /\ seen' = seen /\ room' = room
  BY DEF parse_wifi_credentials
<1>2. TextInv' /\ TextInv
  BY ParseText DEF KeptInv
<1>3. StoredInv'
  <2>1. \A k : read(k)' = read(k)
    BY <1>1 DEF read, Escaped
  <2> QED BY <1>1, <2>1 DEF KeptInv, StoredInv
<1>4. Kept(mem', given')
  BY <1>1, <1>2, CopiedKept
<1>5. loop' # "none" => torn'
  BY <1>1
<1>6. loop' = "none" => seen' = <<>>
  BY <1>1 DEF KeptInv
<1>7. loop' = "copy" => torn'
  BY <1>5
<1> QED BY <1>1, <1>2, <1>3, <1>4, <1>5, <1>6, <1>7 DEF KeptInv

LEMMA KeptStep == KeptInv /\ [Next]_vars => KeptInv'
<1> SUFFICES ASSUME KeptInv, [Next]_vars PROVE KeptInv'
  OBVIOUS
<1>1. CASE flash_write_handler
  BY <1>1, BeginKept
<1>2. CASE Turn
  BY <1>2, TurnKept
<1>3. CASE Count
  BY <1>3, CountKept
<1>4. CASE Copy
  BY <1>4, CopyKept
<1>5. CASE flash_init_handler
  BY <1>5, InitKept
<1>6. ASSUME NEW r \in Requests, parse_wifi_credentials(r)
      PROVE  KeptInv'
  BY <1>6, ParseKept
<1>7. CASE UNCHANGED vars
  <2>1. TextInv'
    BY <1>7, TextStep DEF KeptInv
  <2>2. /\ flash' = flash /\ full' = full /\ source' = source /\ mem' = mem /\ configd' = configd
        /\ nth' = nth /\ loop' = loop /\ seen' = seen /\ room' = room /\ torn' = torn /\ given' = given
    BY <1>7 DEF vars, reading
  <2>3. StoredInv' = StoredInv
    BY <2>2 DEF StoredInv, read, Escaped
  <2>4. Kept(mem', given') = Kept(mem, given)
    BY <2>2, Zenon
  <2>5. SeenIs' = SeenIs
    BY <2>2 DEF SeenIs, Field
  <2>6. RoomIs' = RoomIs
    BY <2>2 DEF RoomIs, Field
  <2> QED BY <2>1, <2>2, <2>3, <2>4, <2>5, <2>6 DEF KeptInv
<1> QED BY <1>1, <1>2, <1>3, <1>4, <1>5, <1>6, <1>7 DEF Next

LEMMA KeptAlways == Spec => []KeptInv
BY KeptInit, KeptStep, PTL DEF Spec

\* host.c, parse_wifi_credentials, and flashmem.c, write and read: a string that ends in
\* its buffer and has no comma is in memory as it was sent, after any requests, writes
\* and restarts, and whatever the other strings are, unless a request has come while it
\* was written or the text was full.
THEOREM StringsAreKept == Spec => []CredentialsKept
<1>1. KeptInv => CredentialsKept
  <2> SUFFICES ASSUME KeptInv, configd, ~full, NEW k \in Keys, Storable(given[k])
               PROVE  String(Base(k)) = given[k]
    BY DEF CredentialsKept
  <2>1. PICK i \in 1..3 : k = Order[i]
    BY SlotIs
  <2>2. Kept(mem, given)
    BY DEF KeptInv
  <2>3. Holds(mem, Slot(i), given[k])
    BY <2>1, <2>2 DEF Kept
  <2>4. Base(k) = Slot(i) /\ Slot(i) \in Nat /\ Slot(i) + BufLen <= 3 * BufLen /\ BufLen \in Nat
    BY <2>1, SlotIs
  <2>5. given[k] \in Seq(Chars) /\ Len(given[k]) < BufLen
    BY DEF Storable
  <2>6. PICK g \in Seq(Chars) : g = given[k]
    BY <2>5
  <2>7. Len(g) \in Nat /\ Len(g) < BufLen
    BY <2>5, <2>6, LenProperties
  <2>8. Slot(i) + Len(g) <= 4 * BufLen
    BY <2>4, <2>7
  <2>9. String(Slot(i)) = g
    BY <2>3, <2>4, <2>6, <2>8, StringIs
  <2> QED BY <2>4, <2>6, <2>9
<1> QED BY <1>1, KeptAlways, PTL

\* flashmem.c, esc_chars: the copy of a string fits in what was allocated for it, if no
\* request has come between the count and the copy.
THEOREM CopyStaysWithin == Spec => []CopyFits
<1>1. KeptInv => CopyFits
  <2> SUFFICES ASSUME KeptInv, loop = "copy", ~torn
               PROVE  Len(esc_chars(seen)) + 1 <= room
    BY DEF CopyFits
  <2>1. PICK s \in Seq(Chars) :
          /\ room = Len(esc_chars(s)) + 1
          /\ Len(seen) <= Len(s)
          /\ \A i \in 1..Len(s) : s[i] = mem[Field + i - 1]
    BY DEF KeptInv, RoomIs
  <2>2. \A i \in 1..Len(seen) : seen[i] = mem[Field + i - 1]
    BY DEF KeptInv, SeenIs
  <2>3. seen \in Seq(Chars) /\ Len(seen) \in Nat /\ Len(s) \in Nat
    BY FieldIs, LenProperties DEF KeptInv
  <2>4. PICK u \in Seq(Chars) : u = seen
    BY <2>3
  <2>5. Len(u) \in 0..Len(s)
    <3>1. Len(u) \in Nat /\ Len(s) \in Nat /\ Len(u) <= Len(s)
      BY <2>1, <2>3, <2>4
    <3> QED BY <3>1
  <2>6. \A i \in 1..Len(u) : u[i] = s[i]
    <3>1. \A i \in 1..Len(u) : i \in 1..Len(s)
      BY <2>5
    <3> QED BY <2>1, <2>2, <2>4, <3>1
  <2>7. Len(esc_chars(u)) \in Nat /\ Len(esc_chars(s)) \in Nat /\ Len(esc_chars(u)) <= Len(esc_chars(s))
    <3>1. \A i \in 1..Len(u) : s[i] = u[i]
      BY <2>6
    <3> QED BY <2>5, <2>6, EscPrefix
  <2> DEFINE a == Len(esc_chars(u))
             b == Len(esc_chars(s))
  <2>8. a \in Nat /\ b \in Nat /\ a <= b /\ room = b + 1
    BY <2>1, <2>7
  <2> HIDE DEF a, b
  <2>9. a + 1 <= room
    BY <2>8
  <2> QED BY <2>4, <2>9 DEF a
<1> QED BY <1>1, KeptAlways, PTL
=============================================================================
