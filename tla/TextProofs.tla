------------------------------ MODULE TextProofs ------------------------------
(***************************************************************************)
(* Proofs that what Text and Address write can be read back, for texts,    *)
(* host names and addresses of any length and value.                       *)
(*                                                                         *)
(* The functions concerned go through a text place by place.  Induction    *)
(* over the places is done with sets: one that has x whenever it has all   *)
(* of lower rank has everything, since the places it misses would have a   *)
(* least one (ByRank; FromTheEnd for texts).  A recursive function is its  *)
(* equation only if there is a function that satisfies it: PieceWiseExists *)
(* makes it for all readers and writers of this shape, TableExists for the *)
(* text of an address.                                                     *)
(*                                                                         *)
(* Texts: an encoded text splits into the codes of its characters          *)
(* (Encoding), each of which is read as that character (Decoding,          *)
(* CodeRead), so the whole is (RoundTrip).  The pairs of a query are read  *)
(* from the last to the first: each starts where the one before it ended   *)
(* (PairRead), so that they are the pairs of the places listed in          *)
(* ascending order (Ascends, ReadsOn), which is how the property has them  *)
(* (SegmentsHold).                                                         *)
(*                                                                         *)
(* Addresses: the text of an IPv6 address is that of the groups before the *)
(* gap, the gap, and that of the groups behind it (Leading, Follows); it   *)
(* has one gap at most (OneGap), which the reader fills with as many zeros *)
(* as were left out (GapFilled, ReadBack).  The order is that of the first *)
(* byte that differs, or else of the lengths (LessIs), of which two        *)
(* addresses have one and the same (BytesDiffer), so it is strict          *)
(* (OrderHolds).                                                           *)
(***************************************************************************)
EXTENDS MCStores, FiniteSetTheorems, SequenceTheorems, WellFoundedInduction, TLAPS

-----------------------------------------------------------------------------
(* Induction over data, as a fact about sets.                              *)

(* A set of numbers has a least one.                                       *)
LEMMA LeastNumber ==
  ASSUME NEW S \in SUBSET Nat, S # {}
  PROVE  \E n \in S : \A m \in S : n <= m
PROOF
<1> DEFINE R == OpToRel(<, Nat)
<1>1. PICK n \in S : \A m \in S : <<m, n>> \notin R
  BY NatLessThanWellFounded, WFMin, Zenon
<1>2. ASSUME NEW m \in S PROVE n <= m
  <2>1. n \in Nat /\ m \in Nat /\ ~(m < n)
    BY <1>1 DEF OpToRel
  <2> QED
    BY <2>1
<1> QED
  BY <1>2

(* A set that has x whenever it has all of lower rank has everything.      *)
LEMMA ByRank ==
  ASSUME NEW D, NEW rank \in [D -> Nat], NEW good,
         \A x \in D : (\A y \in D : rank[y] < rank[x] => y \in good) => x \in good
  PROVE  D \subseteq good
PROOF
<1> DEFINE bad == {x \in D : x \notin good}
           ranks == {rank[x] : x \in bad}
<1>1. SUFFICES ASSUME bad # {} PROVE FALSE
  OBVIOUS
<1>2. ranks \in SUBSET Nat /\ ranks # {}
  BY <1>1
<1>3. PICK n \in ranks : \A m \in ranks : n <= m
  <2> HIDE DEF ranks
  <2> QED
    BY <1>2, LeastNumber
<1>4. PICK x \in bad : rank[x] = n
  BY <1>3
<1>5. ASSUME NEW y \in D, rank[y] < rank[x] PROVE y \in good
  <2> SUFFICES ASSUME y \notin good PROVE FALSE
    OBVIOUS
  <2>1. rank[y] \in ranks
    BY <1>5
  <2>2. n <= rank[y] /\ rank[y] \in Nat /\ n \in Nat
    BY <1>2, <1>3, <2>1
  <2> QED
    BY <1>4, <1>5, <2>2
<1> QED
  BY <1>4, <1>5

(* The same for the places of a sequence, from the one behind it down.     *)
LEMMA FromTheEnd ==
  ASSUME NEW N \in Nat, NEW good,
         \A k \in 1 .. N + 1 : (\A m \in 1 .. N + 1 : k < m => m \in good) => k \in good
  PROVE  1 .. N + 1 \subseteq good
PROOF
<1> DEFINE D == 1 .. N + 1
           rank == [x \in D |-> N + 1 - x]
<1>1. rank \in [D -> Nat]
  OBVIOUS
<1>2. ASSUME NEW x \in D, \A y \in D : rank[y] < rank[x] => y \in good PROVE x \in good
  <2>1. ASSUME NEW m \in 1 .. N + 1, x < m PROVE m \in good
    <3>1. rank[m] < rank[x]
      BY <2>1
    <3> QED
      BY <1>2, <3>1
  <2> QED
    BY <2>1
<1> QED
  <2> HIDE DEF rank, D
  <2>1. D \subseteq good
    BY <1>1, <1>2, ByRank, Zenon
  <2> QED
    BY <2>1 DEF D

(* The functions that write or read a text piece by piece: at a place x    *)
(* one ends, passes on, or has a piece before what follows from the next.  *)
PieceWise(f, D, stop, pass, last, piece, next) ==
  f = [x \in D |-> IF x \in stop THEN last[x]
                   ELSE IF x \in pass THEN f[next[x]]
                   ELSE piece[x] \o f[next[x]]]

(* Such a function exists if next always leads to a lower rank.            *)
LEMMA PieceWiseExists ==
  ASSUME NEW D, NEW B \in Nat, NEW rank \in [D -> 0 .. B],
         NEW stop, NEW pass, NEW last, NEW piece, NEW next,
         \A x \in D : x \notin stop => next[x] \in D /\ rank[next[x]] < rank[x]
  PROVE  \E f : PieceWise(f, D, stop, pass, last, piece, next)
PROOF
<1> DEFINE Below(n) == {x \in D : rank[x] < n}
           Has(n) == \E f : PieceWise(f, Below(n), stop, pass, last, piece, next)
           good == {n \in Nat : Has(n)}
<1>1. ASSUME NEW n \in Nat, \A m \in Nat : m < n => Has(m) PROVE Has(n)
  <2>1. CASE n = 0
    <3>1. Below(n) = {}
      BY <2>1
    <3>2. PieceWise([x \in {} |-> x], {}, stop, pass, last, piece, next)
      BY Zenon DEF PieceWise
    <3> QED
      BY <3>1, <3>2, Zenon
  <2>2. CASE n # 0
    <3>1. n - 1 \in Nat /\ n - 1 < n
      BY <2>2
    <3>2. PICK f : PieceWise(f, Below(n - 1), stop, pass, last, piece, next)
      BY <1>1, <3>1
    <3> DEFINE Row(h, x) == IF x \in stop THEN last[x]
                            ELSE IF x \in pass THEN h[next[x]]
                            ELSE piece[x] \o h[next[x]]
               g == [x \in Below(n) |-> Row(f, x)]
    <3>3. ASSUME NEW x \in Below(n - 1) PROVE x \in Below(n) /\ f[x] = Row(f, x)
      <4>1. x \in Below(n)
        BY <3>1
      <4>2. f[x] = Row(f, x)
        <5> HIDE DEF Below
        <5> QED
          BY <3>2, Zenon DEF PieceWise
      <4> QED
        BY <4>1, <4>2
    <3>4. \A x \in Below(n - 1) : g[x] = f[x]
      <4> HIDE DEF Row, Below
      <4> QED
        BY <3>3
    <3>5. ASSUME NEW x \in Below(n) PROVE Row(f, x) = Row(g, x)
      <4>1. CASE x \in stop
        BY <4>1
      <4>2. CASE x \notin stop
        <5>1. next[x] \in D /\ rank[next[x]] < rank[x] /\ rank[x] < n
          BY <4>2
        <5>2. next[x] \in Below(n - 1)
          BY <5>1, <3>1
        <5>3. g[next[x]] = f[next[x]]
          <6> HIDE DEF g, Below
          <6> QED
            BY <5>2, <3>4
        <5> QED
          <6> HIDE DEF g
          <6> QED
            BY <5>3
      <4> QED
        BY <4>1, <4>2
    <3>6. g = [x \in Below(n) |-> Row(g, x)]
      <4>1. g = [x \in Below(n) |-> Row(f, x)]
        OBVIOUS
      <4> HIDE DEF Row, Below, g
      <4> QED
        BY <3>5, <4>1
    <3> HIDE DEF g, Below
    <3> QED
      BY <3>6, Zenon DEF PieceWise
  <2> QED
    BY <2>1, <2>2
<1>2. Nat \subseteq good
  <2> DEFINE rk == [x \in Nat |-> x]
  <2>1. rk \in [Nat -> Nat]
    OBVIOUS
  <2>2. ASSUME NEW n \in Nat, \A m \in Nat : rk[m] < rk[n] => m \in good PROVE n \in good
    <3>1. ASSUME NEW m \in Nat, m < n PROVE Has(m)
      <4> HIDE DEF Has
      <4> QED
        BY <2>2, <3>1
    <3>2. Has(n)
      <4> HIDE DEF Has
      <4> QED
        BY <1>1, <3>1
    <3> HIDE DEF Has
    <3> QED
      BY <3>2
  <2> HIDE DEF rk, good
  <2> QED
    BY <2>1, <2>2, ByRank, ZenonT(60)
<1>3. Below(B + 1) = D
  BY SMT
<1>4. B + 1 \in Nat
  OBVIOUS
<1>5. Has(B + 1)
  <2> HIDE DEF Has
  <2> QED
    BY <1>2, <1>4
<1> QED
  <2> HIDE DEF Below
  <2> QED
    BY <1>3, <1>5, Zenon

(* Next leads to lower ranks; the pieces are made of signs in T.           *)
Leads(D, rank, stop, next) ==
  /\ rank \in [D -> Nat]
  /\ \A x \in D : x \notin stop => next[x] \in D /\ rank[next[x]] < rank[x]
Made(D, stop, pass, last, piece, T) ==
  \A x \in D : IF x \in stop THEN last[x] \in Seq(T) ELSE x \in pass \/ piece[x] \in Seq(T)

(* Its texts are made of the signs of its pieces.                          *)
LEMMA PieceWiseTyped ==
  ASSUME NEW D, NEW rank, NEW stop, NEW pass, NEW last, NEW piece, NEW next, NEW T,
         NEW f, PieceWise(f, D, stop, pass, last, piece, next),
         Leads(D, rank, stop, next), Made(D, stop, pass, last, piece, T)
  PROVE  \A x \in D : f[x] \in Seq(T)
PROOF
<1> DEFINE good == {x \in D : f[x] \in Seq(T)}
<1>1. ASSUME NEW x \in D, \A y \in D : rank[y] < rank[x] => y \in good PROVE x \in good
  <2>1. f[x] = IF x \in stop THEN last[x]
               ELSE IF x \in pass THEN f[next[x]] ELSE piece[x] \o f[next[x]]
    BY Zenon DEF PieceWise
  <2>2. CASE x \in stop
    BY <2>1, <2>2 DEF Made
  <2>3. CASE x \notin stop
    <3>1. f[next[x]] \in Seq(T)
      BY <1>1, <2>3 DEF Leads
    <3>2. CASE x \in pass
      BY <2>1, <2>3, <3>1, <3>2
    <3>3. CASE x \notin pass
      <4>1. piece[x] \in Seq(T) /\ f[x] = piece[x] \o f[next[x]]
        BY <2>1, <2>3, <3>3 DEF Made
      <4>2. piece[x] \o f[next[x]] \in Seq(T)
        BY <3>1, <4>1, ConcatProperties, Zenon
      <4> QED
        BY <4>1, <4>2
    <3> QED
      BY <3>2, <3>3
  <2> QED
    BY <2>2, <2>3
<1>2. D \subseteq good
  <2>1. rank \in [D -> Nat]
    BY DEF Leads
  <2> HIDE DEF good
  <2> QED
    BY <1>1, <2>1, ByRank, Zenon
<1> QED
  BY <1>2

-----------------------------------------------------------------------------
(* Encoding and decoding.                                                  *)

Byte == 0 .. 255

Encoded(c, plus) ==
  IF c \in Unreserved THEN <<c>>
  ELSE IF c = Space /\ plus THEN <<Plus>>
  ELSE <<Percent, Hex(c \div 16), Hex(c % 16)>>

EncodedFrom(s, plus, f) ==
  f = [k \in 1 .. Len(s) + 1 |-> IF k > Len(s) THEN <<>> ELSE Encoded(s[k], plus) \o f[k + 1]]

DecodedFrom(s, plus, f) ==
  f = [k \in 1 .. Len(s) + 1 |->
         IF k > Len(s) THEN <<>>
         ELSE IF s[k] = Plus /\ plus THEN <<Space>> \o f[k + 1]
         ELSE IF EscapeAt(s, k)
           THEN <<16 * HexValue(s[k + 1]) + HexValue(s[k + 2])>> \o f[k + 3]
         ELSE <<s[k]>> \o f[k + 1]]

(* The character two digits stand for.                                     *)
HexPair(h, l) == 16 * HexValue(h) + HexValue(l)

(* What one character becomes.                                             *)
LEMMA CodesOf ==
  ASSUME NEW c \in Byte, NEW plus
  PROVE  \/ Encoded(c, plus) = <<c>> /\ c # Percent /\ c # Plus
         \/ Encoded(c, plus) = <<Plus>> /\ c = Space /\ plus
         \/ \E h, l \in Byte :
              /\ Encoded(c, plus) = <<Percent, h, l>>
              /\ IsHex(h) /\ IsHex(l) /\ HexPair(h, l) = c
PROOF
<1>1. CASE c \in Unreserved
  <2>1. c # Percent /\ c # Plus
    BY <1>1 DEF Byte, Unreserved, Equals, Percent, Plus, Digits, Letters
  <2> QED
    BY <1>1, <2>1, Zenon DEF Encoded
<1>2. CASE c \notin Unreserved /\ c = Space /\ plus
  BY <1>2 DEF Encoded
<1>3. CASE c \notin Unreserved /\ ~(c = Space /\ plus)
  <2> DEFINE q == c \div 16
             r == c % 16
  <2>1. r \in 0 .. 15 /\ q \in Int /\ c \in Int /\ 0 <= c /\ c <= 255
    BY DEF Byte
  <2>2. r = c - 16 * q
    BY <2>1
  <2>3. Encoded(c, plus) = <<Percent, Hex(q), Hex(r)>>
    BY <1>3, Zenon DEF Encoded
  <2> HIDE DEF q, r
  <2>4. q \in 0 .. 15 /\ 16 * q + r = c
    BY <2>1, <2>2
  <2>5. ASSUME NEW n \in 0 .. 15
        PROVE  Hex(n) \in Byte /\ IsHex(Hex(n)) /\ HexValue(Hex(n)) = n
    BY DEF Byte, Hex, IsHex, HexValue, Digits
  <2>6. Hex(q) \in Byte /\ IsHex(Hex(q)) /\ HexValue(Hex(q)) = q
    BY <2>4, <2>5
  <2>7. Hex(r) \in Byte /\ IsHex(Hex(r)) /\ HexValue(Hex(r)) = r
    BY <2>1, <2>5
  <2>8. HexPair(Hex(q), Hex(r)) = c
    BY <2>4, <2>6, <2>7 DEF HexPair
  <2> QED
    BY <2>3, <2>6, <2>7, <2>8, Zenon
<1> QED
  BY <1>1, <1>2, <1>3

(* The code of a character is a text of bytes.                             *)
LEMMA EncodedTyped ==
  ASSUME NEW c \in Byte, NEW plus
  PROVE  Encoded(c, plus) \in Seq(Byte)
PROOF
<1>1. CASE Encoded(c, plus) = <<c>>
  BY <1>1
<1>2. CASE Encoded(c, plus) = <<Plus>>
  BY <1>2 DEF Byte, Plus
<1>3. CASE \E h, l \in Byte : Encoded(c, plus) = <<Percent, h, l>>
  BY <1>3 DEF Byte, Percent
<1> QED
  <2>1. \/ Encoded(c, plus) = <<c>>
        \/ Encoded(c, plus) = <<Plus>>
        \/ \E h, l \in Byte : Encoded(c, plus) = <<Percent, h, l>>
    <3> HIDE DEF Encoded
    <3> QED
      BY CodesOf, Zenon
  <2> QED
    BY <1>1, <1>2, <1>3, <2>1

(* The recursions of UrlEncode() and UrlDecode() have a solution, which    *)
(* CHOOSE then takes.                                                      *)
LEMMA Encoding ==
  ASSUME NEW s \in Seq(Byte), NEW plus
  PROVE  \E f : /\ EncodedFrom(s, plus, f) /\ UrlEncode(s, plus) = f[1]
                /\ \A k \in 1 .. Len(s) + 1 : f[k] \in Seq(Byte)
PROOF
<1> DEFINE N == Len(s)
           D == 1 .. N + 1
           rank == [k \in D |-> N + 1 - k]
           piece == [k \in 1 .. N |-> Encoded(s[k], plus)]
           next == [k \in 1 .. N |-> k + 1]
           last == [k \in D |-> <<>>]
           e == CHOOSE f : EncodedFrom(s, plus, f)
<1>1. N \in Nat /\ rank \in [D -> 0 .. N] /\ rank \in [D -> Nat]
  OBVIOUS
<1>2. \A k \in D : k \notin {N + 1} => next[k] \in D /\ rank[next[k]] < rank[k]
  OBVIOUS
<1>3. ASSUME NEW f
      PROVE  EncodedFrom(s, plus, f) <=> PieceWise(f, D, {N + 1}, {}, last, piece, next)
  <2>1. ASSUME NEW k \in D
        PROVE  (IF k > N THEN <<>> ELSE Encoded(s[k], plus) \o f[k + 1]) =
               (IF k \in {N + 1} THEN last[k] ELSE IF k \in {} THEN f[next[k]]
                ELSE piece[k] \o f[next[k]])
    OBVIOUS
  <2> HIDE DEF last, piece, next
  <2>2. [k \in D |-> IF k > N THEN <<>> ELSE Encoded(s[k], plus) \o f[k + 1]] =
        [k \in D |-> IF k \in {N + 1} THEN last[k] ELSE IF k \in {} THEN f[next[k]]
                     ELSE piece[k] \o f[next[k]]]
    BY <2>1
  <2> QED
    BY <2>2, Zenon DEF EncodedFrom, PieceWise
<1>4. \E f : PieceWise(f, D, {N + 1}, {}, last, piece, next)
  <2> HIDE DEF D, rank, last, piece, next
  <2> QED
    BY <1>1, <1>2, PieceWiseExists
<1>5. EncodedFrom(s, plus, e)
  BY <1>3, <1>4, Zenon
<1>6. UrlEncode(s, plus) = e[1]
  BY Zenon DEF UrlEncode, EncodedFrom, Encoded
<1>7. Made(D, {N + 1}, {}, last, piece, Byte)
  <2>1. ASSUME NEW k \in D, k \notin {N + 1} PROVE piece[k] \in Seq(Byte)
    <3>1. k \in 1 .. N
      BY <2>1
    <3>2. piece[k] = Encoded(s[k], plus)
      BY <3>1
    <3>3. s[k] \in Byte
      BY <3>1, ElementOfSeq
    <3> QED
      BY <3>2, <3>3, EncodedTyped
  <2>2. \A k \in D : last[k] \in Seq(Byte)
    OBVIOUS
  <2> HIDE DEF D, piece, last
  <2> QED
    BY <2>1, <2>2 DEF Made
<1>8. Leads(D, rank, {N + 1}, next)
  BY <1>1, <1>2 DEF Leads
<1>9. \A k \in D : e[k] \in Seq(Byte)
  <2>1. PieceWise(e, D, {N + 1}, {}, last, piece, next)
    BY <1>3, <1>5
  <2> HIDE DEF D, rank, last, piece, next, e
  <2> QED
    BY <1>7, <1>8, <2>1, PieceWiseTyped, Zenon
<1> QED
  BY <1>5, <1>6, <1>9, Zenon

(* The reader is a function that there is, and UrlDecode is its value at 1.*)
LEMMA Decoding ==
  ASSUME NEW s \in Seq(Byte), NEW plus
  PROVE  \E f : DecodedFrom(s, plus, f) /\ UrlDecode(s, plus) = f[1]
PROOF
<1> DEFINE N == Len(s)
           D == 1 .. N + 1
           rank == [k \in D |-> N + 1 - k]
           blank == {k \in D : k <= N /\ s[k] = Plus /\ plus}
           escape == {k \in D : k <= N /\ ~(s[k] = Plus /\ plus) /\ EscapeAt(s, k)}
           piece == [k \in 1 .. N |->
                       IF k \in blank THEN <<Space>>
                       ELSE IF k \in escape
                         THEN <<16 * HexValue(s[k + 1]) + HexValue(s[k + 2])>>
                       ELSE <<s[k]>>]
           next == [k \in 1 .. N |-> IF k \in escape THEN k + 3 ELSE k + 1]
           last == [k \in D |-> <<>>]
           d == CHOOSE f : DecodedFrom(s, plus, f)
<1>1. N \in Nat /\ rank \in [D -> 0 .. N]
  OBVIOUS
<1>2. ASSUME NEW k \in D, k \notin {N + 1} PROVE next[k] \in D /\ rank[next[k]] < rank[k]
  <2>1. k \in 1 .. N
    BY <1>2
  <2>2. CASE k \in escape
    <3>1. next[k] = k + 3 /\ k + 2 <= N
      BY <2>1, <2>2 DEF EscapeAt
    <3> QED
      BY <2>1, <3>1
  <2>3. CASE k \notin escape
    <3>1. next[k] = k + 1
      BY <2>1, <2>3
    <3> QED
      BY <2>1, <3>1
  <2> QED
    BY <2>2, <2>3
<1>3. ASSUME NEW f
      PROVE  DecodedFrom(s, plus, f) <=> PieceWise(f, D, {N + 1}, {}, last, piece, next)
  <2> DEFINE Row(k) == IF k > N THEN <<>>
                       ELSE IF s[k] = Plus /\ plus THEN <<Space>> \o f[k + 1]
                       ELSE IF EscapeAt(s, k)
                         THEN <<16 * HexValue(s[k + 1]) + HexValue(s[k + 2])>> \o f[k + 3]
                       ELSE <<s[k]>> \o f[k + 1]
             Row2(k) == IF k \in {N + 1} THEN last[k] ELSE IF k \in {} THEN f[next[k]]
                        ELSE piece[k] \o f[next[k]]
  <2>1. ASSUME NEW k \in D PROVE Row(k) = Row2(k)
    <3>1. CASE k > N
      <4>1. k = N + 1 /\ last[k] = <<>>
        BY <3>1
      <4> QED
        BY <3>1, <4>1
    <3>2. CASE k <= N /\ k \in blank
      <4>1. piece[k] = <<Space>> /\ next[k] = k + 1
        BY <3>2
      <4> QED
        BY <3>2, <4>1
    <3>3. CASE k <= N /\ k \in escape
      <4>1. /\ piece[k] = <<16 * HexValue(s[k + 1]) + HexValue(s[k + 2])>>
            /\ next[k] = k + 3
        BY <3>3
      <4> QED
        BY <3>3, <4>1
    <3>4. CASE k <= N /\ k \notin blank /\ k \notin escape
      <4>1. piece[k] = <<s[k]>> /\ next[k] = k + 1
        BY <3>4
      <4> QED
        BY <3>4, <4>1
    <3> QED
      BY <3>1, <3>2, <3>3, <3>4
  <2>2. [k \in D |-> Row(k)] = [k \in D |-> Row2(k)]
    <3> HIDE DEF Row, Row2
    <3> QED
      BY <2>1
  <2> HIDE DEF last, piece, next
  <2> QED
    BY <2>2, Zenon DEF DecodedFrom, PieceWise
<1>4. \E f : PieceWise(f, D, {N + 1}, {}, last, piece, next)
  <2> HIDE DEF D, rank, last, piece, next
  <2> QED
    BY <1>1, <1>2, PieceWiseExists
<1>5. DecodedFrom(s, plus, d)
  BY <1>3, <1>4, Zenon
<1>6. UrlDecode(s, plus) = d[1]
  BY Zenon DEF UrlDecode, DecodedFrom
<1> QED
  BY <1>5, <1>6, Zenon

(* t is what e has from p on.                                              *)
RestIs(e, p, t) ==
  /\ p \in 1 .. Len(e) + 1 /\ Len(e) = p - 1 + Len(t)
  /\ \A j \in 1 .. Len(t) : e[p - 1 + j] = t[j]

(* Where u and then v is left to read, u is, and v behind it.              *)
LEMMA RestSplits ==
  ASSUME NEW T, NEW e \in Seq(T), NEW u \in Seq(T), NEW v \in Seq(T), NEW p,
         RestIs(e, p, u \o v)
  PROVE  /\ p + Len(u) - 1 <= Len(e)
         /\ \A j \in 1 .. Len(u) : e[p - 1 + j] = u[j]
         /\ RestIs(e, p + Len(u), v)
PROOF
<1>1. /\ Len(u \o v) = Len(u) + Len(v) /\ Len(u) \in Nat /\ Len(v) \in Nat /\ Len(e) \in Nat
      /\ \A j \in 1 .. Len(u) + Len(v) :
           (u \o v)[j] = IF j <= Len(u) THEN u[j] ELSE v[j - Len(u)]
  BY ConcatProperties
<1>2. p \in 1 .. Len(e) + 1 /\ Len(e) = p - 1 + Len(u) + Len(v)
  BY <1>1 DEF RestIs
<1>3. ASSUME NEW j \in 1 .. Len(u) PROVE e[p - 1 + j] = u[j]
  <2>1. j \in 1 .. Len(u \o v)
    BY <1>1
  <2>2. e[p - 1 + j] = (u \o v)[j]
    BY <2>1 DEF RestIs
  <2> QED
    BY <1>1, <2>2
<1>4. ASSUME NEW j \in 1 .. Len(v) PROVE e[p + Len(u) - 1 + j] = v[j]
  <2> DEFINE m == Len(u) + j
  <2>1. m \in 1 .. Len(u \o v) /\ m \in 1 .. Len(u) + Len(v) /\ ~(m <= Len(u)) /\ m - Len(u) = j
    BY <1>1
  <2>2. p - 1 + m = p + Len(u) - 1 + j
    BY <1>1, <1>2
  <2> HIDE DEF m
  <2>3. e[p - 1 + m] = (u \o v)[m]
    BY <2>1 DEF RestIs
  <2> QED
    BY <1>1, <2>1, <2>2, <2>3
<1> QED
  BY <1>1, <1>2, <1>3, <1>4 DEF RestIs

Continues(e, d, p, c, v) ==
  \E q \in 1 .. Len(e) + 1 : d[p] = <<c>> \o d[q] /\ RestIs(e, q, v)

(* A code at p is read as its character, and reading goes on behind it.    *)
LEMMA CodeRead ==
  ASSUME NEW e \in Seq(Byte), NEW plus, NEW d, DecodedFrom(e, plus, d),
         NEW c \in Byte, NEW v \in Seq(Byte), NEW p, RestIs(e, p, Encoded(c, plus) \o v)
  PROVE  Continues(e, d, p, c, v)
PROOF
<1> DEFINE u == Encoded(c, plus)
           q == p + Len(u)
<1>1. u \in Seq(Byte)
  BY EncodedTyped
<1> HIDE DEF u
<1>2. /\ RestIs(e, q, v)
      /\ \A j \in 1 .. Len(u) : e[p - 1 + j] = u[j]
  <2>1. /\ RestIs(e, p + Len(u), v)
        /\ \A j \in 1 .. Len(u) : e[p - 1 + j] = u[j]
    <3>1. RestIs(e, p, u \o v)
      BY DEF u
    <3> QED
      BY <1>1, <3>1, RestSplits
  <2> QED
    BY <2>1, Zenon DEF q
<1>3. /\ q \in 1 .. Len(e) + 1 /\ p \in 1 .. Len(e) + 1
      /\ Len(e) \in Nat /\ Len(u) \in Nat /\ q = p + Len(u)
  BY <1>1, <1>2 DEF RestIs, q
<1> HIDE DEF q
<1>4. d[p] = IF p > Len(e) THEN <<>>
             ELSE IF e[p] = Plus /\ plus THEN <<Space>> \o d[p + 1]
             ELSE IF EscapeAt(e, p)
               THEN <<16 * HexValue(e[p + 1]) + HexValue(e[p + 2])>> \o d[p + 3]
             ELSE <<e[p]>> \o d[p + 1]
  BY <1>3, Zenon DEF DecodedFrom
<1>5. CASE u = <<c>> /\ c # Percent /\ c # Plus
  <2>1. q = p + 1 /\ e[p] = c /\ p <= Len(e)
    <3>1. Len(u) = 1 /\ u[1] = c /\ p - 1 + 1 = p
      BY <1>3, <1>5
    <3> QED
      BY <1>2, <1>3, <3>1
  <2>2. ~EscapeAt(e, p)
    BY <1>5, <2>1 DEF EscapeAt
  <2>3. d[p] = <<c>> \o d[q]
    BY <1>3, <1>4, <1>5, <2>1, <2>2
  <2> QED
    BY <1>2, <1>3, <2>3, Zenon DEF Continues
<1>6. CASE u = <<Plus>> /\ c = Space /\ plus
  <2>1. q = p + 1 /\ e[p] = Plus /\ p <= Len(e)
    <3>1. u = <<Plus>>
      BY <1>6, Zenon
    <3>2. Len(u) = 1 /\ u[1] = Plus
      BY <3>1
    <3>3. p - 1 + 1 = p
      BY <1>3
    <3> QED
      BY <1>2, <1>3, <3>2, <3>3
  <2>2. ~(p > Len(e))
    BY <1>3, <2>1
  <2>3. d[p] = <<c>> \o d[q]
    BY <1>4, <1>6, <2>1, <2>2, Zenon
  <2> QED
    BY <1>2, <1>3, <2>3, Zenon DEF Continues
<1>7. CASE \E h, l \in Byte :
             u = <<Percent, h, l>> /\ IsHex(h) /\ IsHex(l) /\ HexPair(h, l) = c
  <2>1. PICK h, l \in Byte :
          u = <<Percent, h, l>> /\ IsHex(h) /\ IsHex(l) /\ HexPair(h, l) = c
    BY <1>7
  <2>2. Len(u) = 3 /\ u[1] = Percent /\ u[2] = h /\ u[3] = l
    BY <2>1
  <2>3. q = p + 3 /\ e[p - 1 + 1] = Percent /\ e[p - 1 + 2] = h /\ e[p - 1 + 3] = l
    BY <1>2, <1>3, <2>2
  <2>4. e[p] = Percent /\ e[p + 1] = h /\ e[p + 2] = l /\ p <= Len(e) /\ p + 2 <= Len(e)
    <3>1. p - 1 + 1 = p /\ p - 1 + 2 = p + 1 /\ p - 1 + 3 = p + 2
      BY <1>3
    <3> QED
      BY <1>2, <1>3, <2>3, <3>1
  <2>5. EscapeAt(e, p) /\ e[p] # Plus /\ ~(p > Len(e))
    BY <1>3, <2>1, <2>4 DEF EscapeAt, Percent, Plus
  <2>6. d[p] = <<16 * HexValue(h) + HexValue(l)>> \o d[q]
    BY <1>4, <2>3, <2>4, <2>5, Zenon
  <2>7. d[p] = <<c>> \o d[q]
    BY <2>1, <2>6 DEF HexPair
  <2> QED
    BY <1>2, <1>3, <2>7, Zenon DEF Continues
<1> QED
  BY <1>5, <1>6, <1>7, CodesOf, Zenon DEF u

(* What an encoded text is made of.                                        *)
Stays == Documented \cup {Percent, Plus, Equals}

LEMMA ElementOfDomain ==
  ASSUME NEW S, NEW s \in Seq(S), NEW k \in DOMAIN s PROVE s[k] \in S
  OBVIOUS

LEMMA CodeStays ==
  ASSUME NEW c \in Byte, NEW plus
  PROVE  Encoded(c, plus) \in Seq(Stays)
PROOF
<1>1. Percent \in Stays /\ Plus \in Stays
  BY DEF Stays
<1>2. CASE c \in Unreserved
  <2>1. c \in Stays
    BY <1>2 DEF Stays, Documented, Unreserved
  <2>2. Encoded(c, plus) = <<c>>
    BY <1>2, Zenon DEF Encoded
  <2> QED
    BY <2>1, <2>2
<1>3. CASE c \notin Unreserved /\ c = Space /\ plus
  <2>1. Encoded(c, plus) = <<Plus>>
    BY <1>3, Zenon DEF Encoded
  <2> QED
    BY <1>1, <2>1
<1>4. CASE c \notin Unreserved /\ ~(c = Space /\ plus)
  <2>1. PICK q, r : q = c \div 16 /\ r = c % 16
    OBVIOUS
  <2>2. q \in 0 .. 15 /\ r \in 0 .. 15
    BY <2>1 DEF Byte
  <2>3. ASSUME NEW n \in 0 .. 15 PROVE Hex(n) \in Stays
    BY DEF Hex, Stays, Documented, Digits, Letters
  <2>4. Encoded(c, plus) = <<Percent, Hex(q), Hex(r)>>
    BY <1>4, <2>1, Zenon DEF Encoded
  <2>5. Hex(q) \in Stays /\ Hex(r) \in Stays
    BY <2>2, <2>3
  <2> QED
    BY <1>1, <2>4, <2>5
<1> QED
  BY <1>2, <1>3, <1>4

LEMMA EncodedStays ==
  ASSUME NEW s \in Seq(Byte), NEW plus
  PROVE  UrlEncode(s, plus) \in Seq(Stays)
PROOF
<1> DEFINE N == Len(s)
<1>1. PICK f : EncodedFrom(s, plus, f) /\ UrlEncode(s, plus) = f[1]
  BY Encoding
<1>2. N \in Nat /\ 1 \in 1 .. N + 1
  OBVIOUS
<1> DEFINE good == {k \in 1 .. N + 1 : f[k] \in Seq(Stays)}
<1>3. ASSUME NEW k \in 1 .. N + 1, \A m \in 1 .. N + 1 : k < m => m \in good
      PROVE  k \in good
  <2>1. f[k] = IF k > N THEN <<>> ELSE Encoded(s[k], plus) \o f[k + 1]
    BY <1>1, Zenon DEF EncodedFrom
  <2>2. CASE k > N
    <3>1. f[k] = <<>>
      BY <2>1, <2>2
    <3>2. f[k] \in Seq(Stays)
      BY <3>1
    <3> QED
      BY <3>2
  <2>3. CASE k <= N
    <3>1. k \in 1 .. N /\ k + 1 \in 1 .. N + 1 /\ k < k + 1 /\ ~(k > N)
      BY <1>2, <2>3
    <3>2. s[k] \in Byte /\ f[k + 1] \in Seq(Stays)
      BY <1>3, <3>1, ElementOfSeq
    <3>3. Encoded(s[k], plus) \in Seq(Stays)
      BY <3>2, CodeStays
    <3>4. f[k] = Encoded(s[k], plus) \o f[k + 1]
      BY <2>1, <3>1
    <3>5. f[k] \in Seq(Stays)
      <4> HIDE DEF Encoded
      <4> QED
        BY <3>2, <3>3, <3>4, ConcatProperties
    <3> QED
      BY <3>5
  <2> QED
    BY <1>2, <2>2, <2>3
<1>4. 1 .. N + 1 \subseteq good
  <2> HIDE DEF good, N
  <2> QED
    BY <1>2, <1>3, FromTheEnd, Zenon
<1>5. 1 \in good
  <2> HIDE DEF good
  <2> QED
    BY <1>2, <1>4
<1> QED
  BY <1>1, <1>5

(* What is encoded is decoded again.                                       *)
LEMMA RoundTrip ==
  ASSUME NEW s \in Seq(Byte), NEW plus
  PROVE  UrlDecode(UrlEncode(s, plus), plus) = s
PROOF
<1> DEFINE N == Len(s)
<1>1. PICK f : /\ EncodedFrom(s, plus, f) /\ UrlEncode(s, plus) = f[1]
               /\ \A k \in 1 .. N + 1 : f[k] \in Seq(Byte)
  BY Encoding
<1> DEFINE e == f[1]
<1>2. N \in Nat /\ 1 \in 1 .. N + 1 /\ e \in Seq(Byte)
  BY <1>1
<1> HIDE DEF e
<1>3. PICK d : DecodedFrom(e, plus, d) /\ UrlDecode(e, plus) = d[1]
  BY <1>2, Decoding
<1> DEFINE good == {k \in 1 .. N + 1 :
                      \A p \in 1 .. Len(e) + 1 : RestIs(e, p, f[k]) => d[p] = SubSeq(s, k, N)}
<1>4. ASSUME NEW k \in 1 .. N + 1, \A m \in 1 .. N + 1 : k < m => m \in good
      PROVE  k \in good
  <2> SUFFICES ASSUME NEW p \in 1 .. Len(e) + 1, RestIs(e, p, f[k])
               PROVE  d[p] = SubSeq(s, k, N)
    OBVIOUS
  <2>1. f[k] = IF k > N THEN <<>> ELSE Encoded(s[k], plus) \o f[k + 1]
    BY <1>1, Zenon DEF EncodedFrom
  <2>2. CASE k > N
    <3>1. f[k] = <<>> /\ SubSeq(s, k, N) = <<>>
      BY <1>2, <2>1, <2>2, SubSeqEmpty
    <3>2. p > Len(e) /\ Len(e) \in Nat
      BY <1>2, <3>1 DEF RestIs
    <3>3. d[p] = <<>>
      BY <1>3, <3>2, Zenon DEF DecodedFrom
    <3> QED
      BY <3>1, <3>3
  <2>3. CASE k <= N
    <3>1. k \in 1 .. N /\ k + 1 \in 1 .. N + 1 /\ k < k + 1 /\ ~(k > N)
      BY <1>2, <2>3
    <3>2. s[k] \in Byte /\ f[k + 1] \in Seq(Byte)
      BY <1>1, <3>1, ElementOfSeq
    <3>3. PICK q \in 1 .. Len(e) + 1 : d[p] = <<s[k]>> \o d[q] /\ RestIs(e, q, f[k + 1])
      <4>1. RestIs(e, p, Encoded(s[k], plus) \o f[k + 1])
        BY <2>1, <3>1
      <4>2. e \in Seq(Byte) /\ DecodedFrom(e, plus, d)
        BY <1>2, <1>3
      <4>3. Continues(e, d, p, s[k], f[k + 1])
        BY <3>2, <4>1, <4>2, CodeRead, Zenon
      <4> QED
        BY <4>3, Zenon DEF Continues
    <3>4. d[q] = SubSeq(s, k + 1, N)
      BY <1>4, <3>1, <3>3
    <3>5. SubSeq(s, k, N) = <<s[k]>> \o SubSeq(s, k + 1, N)
      <4>1. N \in k .. N
        BY <3>1, <1>2
      <4> QED
        BY <3>1, <4>1, SubSeqRecursiveFirst
    <3> QED
      BY <3>3, <3>4, <3>5
  <2> QED
    BY <1>2, <2>2, <2>3
<1>5. 1 .. N + 1 \subseteq good
  <2> HIDE DEF good, N
  <2> QED
    BY <1>2, <1>4, FromTheEnd, Zenon
<1>6. RestIs(e, 1, f[1])
  BY <1>2 DEF RestIs, e
<1>7. d[1] = SubSeq(s, 1, N)
  <2>1. 1 \in 1 .. Len(e) + 1
    BY <1>2
  <2>2. 1 \in good
    <3> HIDE DEF good
    <3> QED
      BY <1>2, <1>5
  <2> QED
    BY <1>6, <2>1, <2>2
<1>8. SubSeq(s, 1, N) = s
  BY SubSeqFull
<1> QED
  BY <1>1, <1>3, <1>7, <1>8 DEF e

-----------------------------------------------------------------------------
(* The first and the last of a set of places.                              *)

(* First() gives the least place of a set ...                              *)
LEMMA FirstIs ==
  ASSUME NEW S \in SUBSET Nat, S # {}
  PROVE  First(S) \in S /\ \A m \in S : First(S) <= m
  BY LeastNumber, Zenon DEF First

(* ... and nothing else.                                                   *)
LEMMA FirstIsOnly ==
  ASSUME NEW S \in SUBSET Nat, NEW n \in S, \A m \in S : n <= m
  PROVE  First(S) = n
PROOF
<1>1. First(S) \in S /\ First(S) <= n
  BY FirstIs
<1>2. n <= First(S) /\ First(S) \in Nat /\ n \in Nat
  BY <1>1
<1> QED
  BY <1>1, <1>2

(* Last() gives the greatest place of a set ...                            *)
LEMMA LastIs ==
  ASSUME NEW N \in Nat, NEW S \in SUBSET (0 .. N), S # {}
  PROVE  Last(S) \in S /\ \A m \in S : m <= Last(S)
PROOF
<1> DEFINE R == {N - m : m \in S}
<1>1. R \in SUBSET Nat /\ R # {}
  <2>1. \A m \in S : m \in 0 .. N
    OBVIOUS
  <2>2. \A m \in S : N - m \in Nat
    BY <2>1
  <2>3. R # {}
    OBVIOUS
  <2> QED
    BY <2>2, <2>3
<1>2. PICK r \in R : \A q \in R : r <= q
  <2> HIDE DEF R
  <2> QED
    BY <1>1, LeastNumber
<1>3. PICK n \in S : r = N - n
  BY <1>2
<1>4. ASSUME NEW m \in S PROVE m <= n
  <2>1. N - m \in R
    OBVIOUS
  <2>2. r <= N - m /\ n \in 0 .. N /\ m \in 0 .. N
    BY <1>2, <2>1
  <2> QED
    BY <1>3, <2>2
<1> QED
  BY <1>4, Zenon DEF Last

(* ... and nothing else.                                                   *)
LEMMA LastIsOnly ==
  ASSUME NEW N \in Nat, NEW S \in SUBSET (0 .. N), NEW n \in S, \A m \in S : m <= n
  PROVE  Last(S) = n
PROOF
<1>1. Last(S) \in S /\ n <= Last(S)
  BY LastIs
<1>2. Last(S) <= n /\ Last(S) \in 0 .. N /\ n \in 0 .. N
  BY <1>1
<1> QED
  BY <1>1, <1>2

-----------------------------------------------------------------------------
(* Trimming.                                                               *)

(* The places of a part of s are those of s, shifted.                      *)
LEMMA PartOf ==
  ASSUME NEW T, NEW s \in Seq(T), NEW a \in 1 .. Len(s) + 1, NEW b \in a - 1 .. Len(s)
  PROVE  /\ SubSeq(s, a, b) \in Seq(T) /\ Len(SubSeq(s, a, b)) = b - a + 1
         /\ DOMAIN SubSeq(s, a, b) = 1 .. b - a + 1
         /\ \A m \in 1 .. b - a + 1 : SubSeq(s, a, b)[m] = s[a + m - 1]
PROOF
<1>1. a \in Int /\ b \in Int /\ Len(s) \in Nat /\ 1 <= a /\ a - 1 <= b /\ b <= Len(s)
  OBVIOUS
<1>2. \A m \in a .. b : s[m] \in T
  <2>1. a .. b \subseteq 1 .. Len(s)
    BY <1>1
  <2> QED
    BY <2>1, ElementOfSeq
<1> DEFINE u == SubSeq(s, a, b)
<1>3. u \in Seq(T) /\ Len(u) = (IF a <= b THEN b - a + 1 ELSE 0)
      /\ \A m \in 1 .. b - a + 1 : u[m] = s[a + m - 1]
  BY <1>1, <1>2, SubSeqProperties
<1> HIDE DEF u
<1>4. Len(u) = b - a + 1
  BY <1>1, <1>3
<1>5. DOMAIN u = 1 .. Len(u)
  BY <1>3, LenProperties
<1> QED
  BY <1>3, <1>4, <1>5 DEF u

(* Of a text of blanks, trimming leaves nothing.                           *)
LEMMA TrimBlank ==
  ASSUME NEW T, NEW s \in Seq(T), Solid(s) = {}
  PROVE  Trim(s) = <<>> /\ Trim(<<>>) = <<>> /\ TrimLeft(s) = <<>> /\ TrimRight(<<>>) = <<>>
PROOF
<1>1. Solid(<<>>) = {}
  BY DEF Solid
<1> QED
  BY <1>1 DEF Trim, TrimLeft, TrimRight

(* Of another, what TrimRight() leaves is one character short.             *)
LEMMA TrimSolid ==
  ASSUME NEW T, NEW s \in Seq(T), Solid(s) # {}
  PROVE  /\ Trim(Trim(s)) = Trim(s) /\ Trim(s) # <<>>
         /\ TrimRight(TrimLeft(s)) = SubSeq(Trim(s), 1, Len(Trim(s)) - 1)
PROOF
<1> DEFINE N == Len(s)
           a == First(Solid(s))
           b == Last(Solid(s))
           c == b - a + 1
           t == SubSeq(s, a, b)
           l == SubSeq(s, a, N)
<1>1. N \in Nat /\ Solid(s) \subseteq 0 .. N /\ Solid(s) \subseteq Nat /\ Solid(s) \subseteq 1 .. N
  BY DEF Solid
<1>2. /\ a \in 1 .. N /\ b \in a .. N /\ s[a] \notin Blank /\ s[b] \notin Blank
      /\ \A m \in 1 .. N : s[m] \notin Blank => a <= m /\ m <= b
  <2>1. a \in Solid(s) /\ \A m \in Solid(s) : a <= m
    BY <1>1, FirstIs
  <2>2. b \in Solid(s) /\ \A m \in Solid(s) : m <= b
    BY <1>1, LastIs
  <2>3. a <= b /\ a \in 1 .. N /\ b \in 1 .. N
    BY <1>1, <2>1, <2>2
  <2>4. ASSUME NEW m \in 1 .. N, s[m] \notin Blank PROVE m \in Solid(s)
    BY <2>4 DEF Solid
  <2> HIDE DEF a, b, N
  <2> QED
    BY <2>1, <2>2, <2>3, <2>4 DEF Solid
<1>3. Trim(s) = t /\ TrimLeft(s) = l
  BY Zenon DEF Trim, TrimLeft
<1> HIDE DEF a, b, N
<1>4. c \in 1 .. N /\ b - a + 1 \in Nat /\ a + c - 1 = b /\ b <= N /\ a + 1 - 1 = a
  BY <1>1, <1>2
<1>5. /\ t \in Seq(T) /\ Len(t) = c /\ DOMAIN t = 1 .. c
      /\ \A m \in 1 .. c : t[m] = s[a + m - 1]
  <2>1. a \in 1 .. Len(s) + 1 /\ b \in a - 1 .. Len(s)
    BY <1>1, <1>2 DEF N
  <2> QED
    BY <2>1, PartOf
<1>6. /\ l \in Seq(T) /\ Len(l) = N - a + 1 /\ DOMAIN l = 1 .. N - a + 1
      /\ \A m \in 1 .. N - a + 1 : l[m] = s[a + m - 1]
  <2>1. a \in 1 .. Len(s) + 1 /\ N \in a - 1 .. Len(s)
    BY <1>1, <1>2 DEF N
  <2> QED
    BY <2>1, PartOf
<1> HIDE DEF c, t, l
<1>7. Trim(t) = t
  <2>1. 1 \in Solid(t) /\ c \in Solid(t) /\ Solid(t) \subseteq 1 .. c
    BY <1>2, <1>4, <1>5 DEF Solid
  <2>2. Solid(t) \subseteq Nat /\ Solid(t) \subseteq 0 .. c /\ c \in Nat
    BY <1>4, <2>1
  <2>3. First(Solid(t)) = 1
    <3>1. \A m \in Solid(t) : 1 <= m
      BY <1>4, <2>1
    <3> QED
      BY <2>1, <2>2, <3>1, FirstIsOnly
  <2>4. Last(Solid(t)) = c
    <3>1. \A m \in Solid(t) : m <= c
      BY <1>4, <2>1
    <3> QED
      BY <2>1, <2>2, <3>1, LastIsOnly
  <2>5. SubSeq(t, 1, Len(t)) = t
    BY <1>5, SubSeqFull
  <2> QED
    BY <1>5, <2>1, <2>3, <2>4, <2>5 DEF Trim
<1>8. TrimRight(l) = SubSeq(l, 1, c - 1)
  <2>1. c \in Solid(l) /\ Solid(l) \subseteq 1 .. N - a + 1
    <3>1. c \in 1 .. N - a + 1
      BY <1>1, <1>2, <1>4 DEF c
    <3>2. l[c] \notin Blank
      BY <1>2, <1>4, <1>6, <3>1
    <3> QED
      BY <1>6, <3>1, <3>2 DEF Solid
  <2>2. ASSUME NEW m \in Solid(l) PROVE m <= c
    <3>1. m \in 1 .. N - a + 1 /\ s[a + m - 1] \notin Blank
      BY <1>6, <2>1 DEF Solid
    <3>2. a + m - 1 \in 1 .. N
      BY <1>1, <1>2, <3>1
    <3>3. a + m - 1 <= b
      BY <1>2, <3>1, <3>2
    <3> QED
      BY <1>1, <1>2, <3>1, <3>3 DEF c
  <2>3. Solid(l) \subseteq 0 .. N
    BY <1>1, <1>2, <2>1
  <2>4. Last(Solid(l)) = c
    BY <1>1, <2>1, <2>2, <2>3, LastIsOnly
  <2> QED
    BY <2>1, <2>4 DEF TrimRight
<1>9. SubSeq(l, 1, c - 1) = SubSeq(t, 1, c - 1)
  <2>1. /\ 1 \in 1 .. Len(l) + 1 /\ c - 1 \in 1 - 1 .. Len(l)
        /\ 1 \in 1 .. Len(t) + 1 /\ c - 1 \in 1 - 1 .. Len(t) /\ c \in Int
    BY <1>1, <1>2, <1>4, <1>5, <1>6 DEF c
  <2>2. /\ SubSeq(l, 1, c - 1) \in Seq(T) /\ Len(SubSeq(l, 1, c - 1)) = c - 1 - 1 + 1
        /\ \A m \in 1 .. c - 1 - 1 + 1 : SubSeq(l, 1, c - 1)[m] = l[1 + m - 1]
    BY <1>6, <2>1, PartOf
  <2>3. /\ SubSeq(t, 1, c - 1) \in Seq(T) /\ Len(SubSeq(t, 1, c - 1)) = c - 1 - 1 + 1
        /\ \A m \in 1 .. c - 1 - 1 + 1 : SubSeq(t, 1, c - 1)[m] = t[1 + m - 1]
    BY <1>5, <2>1, PartOf
  <2>4. ASSUME NEW m \in 1 .. c - 1 - 1 + 1 PROVE l[1 + m - 1] = t[1 + m - 1]
    <3>1. 1 + m - 1 = m /\ m \in 1 .. c /\ m \in 1 .. N - a + 1
      BY <1>1, <1>2, <2>1 DEF c
    <3> QED
      BY <1>5, <1>6, <3>1
  <2> QED
    BY <2>2, <2>3, <2>4, SeqEqual
<1>10. t # <<>>
  BY <1>4, <1>5
<1> QED
  BY <1>3, <1>5, <1>7, <1>8, <1>9, <1>10

(* The trims agree as the property says, for every text.                   *)
LEMMA TrimsHold ==
  ASSUME NEW T, text \in Seq(T)
  PROVE  TrimsAgree
PROOF
<1>1. CASE Solid(text) = {}
  BY <1>1, TrimBlank DEF TrimsAgree
<1>2. CASE Solid(text) # {}
  BY <1>2, TrimSolid DEF TrimsAgree
<1> QED
  BY <1>1, <1>2

-----------------------------------------------------------------------------
(* Counting along an ascending list.                                       *)

(* q lists the m numbers of S upwards.                                     *)
Ascends(q, m, S) ==
  /\ q \in [1 .. m -> S]
  /\ \A x \in S : \E n \in 1 .. m : q[n] = x
  /\ \A j, n \in 1 .. m : j < n => q[j] < q[n]

(* There are as many places in S as the list is long.                      *)
LEMMA AscendsCount ==
  ASSUME NEW m \in Nat, NEW S \in SUBSET Int, NEW q, Ascends(q, m, S)
  PROVE  IsFiniteSet(S) /\ Cardinality(S) = m
PROOF
<1>1. q \in Bijection(1 .. m, S)
  <2>1. ASSUME NEW j \in 1 .. m, NEW n \in 1 .. m, q[j] = q[n] PROVE j = n
    <3>1. q[j] \in Int /\ \A x, y \in 1 .. m : x < y => q[x] < q[y]
      BY Zenon DEF Ascends
    <3>2. ~(j < n) /\ ~(n < j)
      BY <2>1, <3>1
    <3> QED
      BY <3>2
  <2> QED
    BY <2>1 DEF Ascends, Bijection, Injection, Surjection, IsInjective
<1>2. IsFiniteSet(1 .. m) /\ Cardinality(1 .. m) = m
  BY FS_Interval
<1> QED
  BY <1>1, <1>2, FS_Bijection DEF ExistsBijection

(* The member of S with n members up to it.                                *)
NthOf(S, n) == CHOOSE b \in S : Cardinality({c \in S : c <= b}) = n

(* The n-th of the list is the one with n numbers up to it.                *)
LEMMA AscendsNth ==
  ASSUME NEW m \in Nat, NEW S \in SUBSET Int, NEW q, Ascends(q, m, S), NEW n \in 1 .. m
  PROVE  NthOf(S, n) = q[n]
PROOF
<1> DEFINE UpTo(b) == {c \in S : c <= b}
<1>1. ASSUME NEW j \in 1 .. m PROVE Cardinality(UpTo(q[j])) = j
  <2> DEFINE p == [x \in 1 .. j |-> q[x]]
  <2>1. 1 .. j \subseteq 1 .. m /\ j \in Nat /\ UpTo(q[j]) \in SUBSET Int
    <3>1. j \in Nat
      OBVIOUS
    <3>2. ASSUME NEW x \in 1 .. j PROVE x \in 1 .. m
      OBVIOUS
    <3>3. UpTo(q[j]) \in SUBSET Int
      BY Zenon
    <3> QED
      BY <3>1, <3>2, <3>3
  <2>2. ASSUME NEW x \in 1 .. j PROVE q[x] \in UpTo(q[j])
    <3>1. /\ \A y \in 1 .. m : q[y] \in S
          /\ \A y, z \in 1 .. m : y < z => q[y] < q[z]
      BY Zenon DEF Ascends
    <3>2. x \in 1 .. m /\ (x < j \/ x = j)
      BY <2>1
    <3>3. q[x] \in S /\ q[j] \in S /\ (q[x] < q[j] \/ x = j)
      BY <3>1, <3>2
    <3>4. q[x] \in Int /\ q[j] \in Int
      BY <3>3
    <3>5. q[x] <= q[j]
      BY <3>3, <3>4
    <3> QED
      BY <3>3, <3>5
  <2>3. ASSUME NEW c \in UpTo(q[j]) PROVE \E x \in 1 .. j : q[x] = c
    <3>1. PICK x \in 1 .. m : q[x] = c
      BY DEF Ascends
    <3>2. ~(j < x)
      <4>1. q[j] \in Int /\ c \in Int /\ c <= q[j]
        BY DEF Ascends
      <4> QED
        BY <3>1, <4>1 DEF Ascends
    <3>3. x \in 1 .. j
      BY <3>2
    <3> QED
      BY <3>1, <3>3
  <2>4. Ascends(p, j, UpTo(q[j]))
    <3>1. p \in [1 .. j -> UpTo(q[j])]
      BY <2>2
    <3>2. \A x \in UpTo(q[j]) : \E y \in 1 .. j : p[y] = x
      BY <2>3
    <3>3. \A x, y \in 1 .. j : x < y => p[x] < p[y]
      BY <2>1 DEF Ascends
    <3> HIDE DEF p, UpTo
    <3> QED
      BY <3>1, <3>2, <3>3 DEF Ascends
  <2> HIDE DEF p, UpTo
  <2> QED
    BY <2>1, <2>4, AscendsCount
<1>2. q[n] \in S
  BY DEF Ascends
<1>3. ASSUME NEW b \in S, Cardinality(UpTo(b)) = n PROVE b = q[n]
  <2>1. PICK j \in 1 .. m : q[j] = b
    BY DEF Ascends
  <2>2. j = n
    BY <1>1, <1>3, <2>1
  <2> QED
    BY <2>1, <2>2
<1>4. \A b \in S : Cardinality(UpTo(b)) = n <=> b = q[n]
  BY <1>1, <1>3
<1> QED
  BY <1>2, <1>4 DEF NthOf

(* A smaller number may be put before the list.                            *)
LEMMA AscendsMore ==
  ASSUME NEW m \in Nat, NEW S \in SUBSET Int, NEW q, Ascends(q, m, S),
         NEW b \in Int, \A c \in S : b < c
  PROVE  Ascends([n \in 1 .. m + 1 |-> IF n = 1 THEN b ELSE q[n - 1]], m + 1, S \cup {b})
PROOF
<1> DEFINE r == [n \in 1 .. m + 1 |-> IF n = 1 THEN b ELSE q[n - 1]]
<1>1. r[1] = b /\ 1 \in 1 .. m + 1
  OBVIOUS
<1>2. ASSUME NEW n \in 1 .. m
      PROVE  n + 1 \in 1 .. m + 1 /\ r[n + 1] = q[n] /\ q[n] \in S
  BY DEF Ascends
<1>3. ASSUME NEW n \in 1 .. m + 1 PROVE n = 1 \/ \E j \in 1 .. m : n = j + 1
  <2>1. CASE n # 1
    <3>1. n - 1 \in 1 .. m /\ n = n - 1 + 1
      BY <2>1
    <3> QED
      BY <3>1, Zenon
  <2> QED
    BY <2>1
<1>4. ASSUME NEW n \in 1 .. m + 1 PROVE r[n] \in S \cup {b}
  BY <1>1, <1>2, <1>3
<1>5. ASSUME NEW x \in S \cup {b} PROVE \E n \in 1 .. m + 1 : r[n] = x
  <2>1. CASE x = b
    BY <1>1, <2>1
  <2>2. CASE x # b
    <3>1. PICK n \in 1 .. m : q[n] = x
      BY <2>2 DEF Ascends
    <3> HIDE DEF r
    <3> QED
      BY <1>2, <3>1
  <2> QED
    BY <2>1, <2>2
<1>6. ASSUME NEW j \in 1 .. m + 1, NEW n \in 1 .. m + 1, j < n PROVE r[j] < r[n]
  <2>1. PICK k \in 1 .. m : n = k + 1
    BY <1>3, <1>6
  <2>2. r[n] = q[k] /\ q[k] \in S
    BY <1>2, <2>1
  <2>3. CASE j = 1
    BY <1>1, <2>2, <2>3
  <2>4. CASE j # 1
    <3>1. PICK x \in 1 .. m : j = x + 1
      BY <1>3, <2>4
    <3>2. r[j] = q[x] /\ x < k
      BY <1>2, <1>6, <2>1, <3>1
    <3> HIDE DEF r
    <3> QED
      BY <2>2, <3>2 DEF Ascends
  <2> QED
    BY <2>3, <2>4
<1>7. r \in [1 .. m + 1 -> S \cup {b}]
  BY <1>4
<1> HIDE DEF r
<1>8. Ascends(r, m + 1, S \cup {b})
  BY <1>5, <1>6, <1>7 DEF Ascends
<1> QED
  BY <1>8 DEF r

-----------------------------------------------------------------------------
(* The pairs of a list.                                                    *)

(* Where a sign c stands from place k on.                                  *)
From(s, c, k) == {j \in k .. Len(s) : s[j] = c}

PairsFrom(s, separator, trim, f) ==
  f = [k \in 1 .. Len(s) + 1 |->
         IF From(s, Equals, k) = {} THEN <<>>
         ELSE LET key == First(From(s, Equals, k))
                  ends == From(s, separator, key)
                  pos == IF ends = {} THEN Len(s) + 1 ELSE First(ends)
                  name == SubSeq(s, k, key - 1)
                  pair == << IF trim THEN Trim(name) ELSE name,
                             UrlDecode(SubSeq(s, key + 1, pos - 1), TRUE) >>
              IN  <<pair>> \o (IF ends = {} THEN <<>> ELSE f[pos + 1])]

(* find() from k gives the first place of c at k or behind it.             *)
LEMMA FromIs ==
  ASSUME NEW T, NEW s \in Seq(T), NEW c, NEW k \in 1 .. Len(s) + 1, From(s, c, k) # {}
  PROVE  /\ First(From(s, c, k)) \in k .. Len(s) /\ s[First(From(s, c, k))] = c
         /\ \A j \in k .. Len(s) : s[j] = c => First(From(s, c, k)) <= j
PROOF
<1>1. From(s, c, k) \in SUBSET Nat
  BY DEF From
<1>2. First(From(s, c, k)) \in From(s, c, k) /\ \A j \in From(s, c, k) : First(From(s, c, k)) <= j
  BY <1>1, FirstIs
<1> QED
  BY <1>2 DEF From

(* The recursion of PARSE_PARAM has a solution.                            *)
LEMMA PairsHave ==
  ASSUME NEW T, NEW s \in Seq(T), NEW separator, NEW trim
  PROVE  \E f : PairsFrom(s, separator, trim, f) /\ Pairs(s, separator, trim) = f[1]
PROOF
<1> DEFINE N == Len(s)
           D == 1 .. N + 1
           EqualsAt(k) == First(From(s, Equals, k))
           Ends(k) == From(s, separator, EqualsAt(k))
           Pos(k) == IF Ends(k) = {} THEN N + 1 ELSE First(Ends(k))
           NameAt(k) == SubSeq(s, k, EqualsAt(k) - 1)
           Pair(k) == << IF trim THEN Trim(NameAt(k)) ELSE NameAt(k),
                         UrlDecode(SubSeq(s, EqualsAt(k) + 1, Pos(k) - 1), TRUE) >>
           rank == [k \in D |-> N + 1 - k]
           stop == {k \in D : From(s, Equals, k) = {} \/ Ends(k) = {}}
           last == [k \in D |-> IF From(s, Equals, k) = {} THEN <<>> ELSE <<Pair(k)>> \o <<>>]
           piece == [k \in D |-> <<Pair(k)>>]
           next == [k \in D |-> Pos(k) + 1]
           p == CHOOSE f : PairsFrom(s, separator, trim, f)
<1>1. N \in Nat /\ rank \in [D -> 0 .. N]
  OBVIOUS
<1>2. ASSUME NEW k \in D, k \notin stop PROVE next[k] \in D /\ rank[next[k]] < rank[k]
  <2>1. From(s, Equals, k) # {} /\ Ends(k) # {} /\ next[k] = First(Ends(k)) + 1
    BY <1>2
  <2>2. EqualsAt(k) \in k .. N
    BY <2>1, FromIs
  <2>3. EqualsAt(k) \in 1 .. Len(s) + 1
    BY <1>1, <2>2
  <2>4. First(Ends(k)) \in EqualsAt(k) .. N
    <3> HIDE DEF EqualsAt
    <3> QED
      BY <2>1, <2>3, FromIs
  <2> HIDE DEF EqualsAt, Ends, next, N
  <2>5. next[k] \in D /\ k < next[k]
    BY <1>1, <2>1, <2>2, <2>4
  <2> QED
    BY <1>1, <2>5
<1>3. ASSUME NEW f
      PROVE  PairsFrom(s, separator, trim, f) <=> PieceWise(f, D, stop, {}, last, piece, next)
  <2> DEFINE Row(k) == IF From(s, Equals, k) = {} THEN <<>>
                       ELSE <<Pair(k)>> \o (IF Ends(k) = {} THEN <<>> ELSE f[Pos(k) + 1])
             Row2(k) == IF k \in stop THEN last[k] ELSE IF k \in {} THEN f[next[k]]
                        ELSE piece[k] \o f[next[k]]
  <2>1. ASSUME NEW k \in D PROVE Row(k) = Row2(k)
    <3> HIDE DEF D, Pair, Pos, Ends
    <3>1. CASE From(s, Equals, k) = {}
      BY <3>1
    <3>2. CASE From(s, Equals, k) # {} /\ Ends(k) = {}
      BY <3>2
    <3>3. CASE From(s, Equals, k) # {} /\ Ends(k) # {}
      BY <3>3
    <3> QED
      BY <3>1, <3>2, <3>3
  <2>2. [k \in D |-> Row(k)] = [k \in D |-> Row2(k)]
    <3> HIDE DEF Row, Row2, D
    <3> QED
      BY <2>1
  <2>3. PairsFrom(s, separator, trim, f) <=> f = [k \in D |-> Row(k)]
    BY Zenon DEF PairsFrom
  <2>4. PieceWise(f, D, stop, {}, last, piece, next) <=> f = [k \in D |-> Row2(k)]
    <3> HIDE DEF D, stop, last, piece, next
    <3> QED
      BY Zenon DEF PieceWise
  <2> HIDE DEF Row, Row2, D, stop, last, piece, next
  <2> QED
    BY <2>2, <2>3, <2>4, Zenon
<1>4. \E f : PieceWise(f, D, stop, {}, last, piece, next)
  <2> HIDE DEF D, rank, stop, last, piece, next
  <2> QED
    BY <1>1, <1>2, PieceWiseExists
<1>5. PairsFrom(s, separator, trim, p)
  <2> HIDE DEF D, stop, last, piece, next
  <2> QED
    BY <1>3, <1>4, Zenon
<1>6. Pairs(s, separator, trim) = p[1]
  BY Zenon DEF Pairs, PairsFrom, From
<1> QED
  BY <1>5, <1>6, Zenon

-----------------------------------------------------------------------------
(* The segments between the separators.                                    *)

(* A part of a part is a part.                                             *)
LEMMA PartOfPart ==
  ASSUME NEW T, NEW s \in Seq(T), NEW a \in 1 .. Len(s) + 1, NEW b \in a - 1 .. Len(s),
         NEW m \in 1 .. b - a + 2, NEW n \in m - 1 .. b - a + 1
  PROVE  SubSeq(SubSeq(s, a, b), m, n) = SubSeq(s, a + m - 1, a + n - 1)
PROOF
<1> DEFINE u == SubSeq(s, a, b)
           x == a + m - 1
           y == a + n - 1
<1>1. Len(s) \in Nat /\ a \in Int /\ b \in Int /\ m \in Int /\ n \in Int
  OBVIOUS
<1>2. /\ u \in Seq(T) /\ Len(u) = b - a + 1
      /\ \A j \in 1 .. b - a + 1 : u[j] = s[a + j - 1]
  BY PartOf
<1>3. x \in 1 .. Len(s) + 1 /\ y \in x - 1 .. Len(s) /\ y - x + 1 = n - m + 1
  BY <1>1
<1>4. m \in 1 .. Len(u) + 1 /\ n \in m - 1 .. Len(u)
  BY <1>1, <1>2
<1> HIDE DEF u
<1>5. /\ SubSeq(u, m, n) \in Seq(T) /\ Len(SubSeq(u, m, n)) = n - m + 1
      /\ \A j \in 1 .. n - m + 1 : SubSeq(u, m, n)[j] = u[m + j - 1]
  BY <1>2, <1>4, PartOf, ZenonT(60)
<1>6. ASSUME NEW j \in 1 .. n - m + 1 PROVE u[m + j - 1] = s[x + j - 1]
  <2>1. m + j - 1 \in 1 .. b - a + 1 /\ a + (m + j - 1) - 1 = x + j - 1
    BY <1>1
  <2> HIDE DEF x
  <2> QED
    BY <1>2, <2>1
<1> HIDE DEF x, y
<1>7. /\ SubSeq(s, x, y) \in Seq(T) /\ Len(SubSeq(s, x, y)) = y - x + 1
      /\ \A j \in 1 .. y - x + 1 : SubSeq(s, x, y)[j] = s[x + j - 1]
  BY <1>3, PartOf
<1>8. SubSeq(u, m, n) = SubSeq(s, x, y)
  <2>1. Len(SubSeq(u, m, n)) = Len(SubSeq(s, x, y))
    BY <1>3, <1>5, <1>7
  <2>2. ASSUME NEW j \in 1 .. Len(SubSeq(u, m, n))
        PROVE  SubSeq(u, m, n)[j] = SubSeq(s, x, y)[j]
    <3>1. j \in 1 .. n - m + 1 /\ j \in 1 .. y - x + 1
      BY <1>3, <1>5
    <3> QED
      BY <1>5, <1>6, <1>7, <3>1
  <2> QED
    BY <1>5, <1>7, <2>1, <2>2, SeqEqual
<1> QED
  BY <1>8 DEF u, x, y

(* A segment lies between two bounds, with no separator inside.            *)
LEMMA SegmentIs ==
  ASSUME NEW T, text \in Seq(T), NEW b \in Starts
  PROVE  /\ b \in 0 .. Len(text) /\ EndOf(b) \in Bounds /\ EndOf(b) \in b + 1 .. Len(text) + 1
         /\ \A c \in Bounds : c <= b \/ EndOf(b) <= c
         /\ Segment(b) \in Seq(T) /\ DOMAIN Segment(b) = 1 .. EndOf(b) - b - 1
         /\ Len(Segment(b)) = EndOf(b) - b - 1
         /\ \A m \in 1 .. EndOf(b) - b - 1 : Segment(b)[m] = text[b + m]
PROOF
<1> DEFINE N == Len(text)
           S == {c \in Bounds : c > b}
           e == EndOf(b)
<1>1. N \in Nat /\ Bounds \subseteq 0 .. N + 1 /\ N + 1 \in Bounds /\ b \in Bounds /\ b # N + 1
  BY DEF Bounds, Starts
<1>2. b \in 0 .. N
  BY <1>1
<1>3. S \in SUBSET Nat /\ N + 1 \in S
  <2>1. \A c \in Bounds : c \in Nat
    BY <1>1
  <2>2. N + 1 > b
    BY <1>1, <1>2
  <2> QED
    BY <1>1, <2>1, <2>2
<1>4. e \in S /\ \A c \in S : e <= c
  BY <1>3, FirstIs DEF EndOf
<1> HIDE DEF e
<1>5. e \in Bounds /\ e \in b + 1 .. N + 1
  BY <1>1, <1>2, <1>4
<1>6. \A c \in Bounds : c <= b \/ e <= c
  BY <1>1, <1>2, <1>4
<1>7. b + 1 \in 1 .. N + 1 /\ e - 1 \in b + 1 - 1 .. N /\ e - 1 - (b + 1) + 1 = e - b - 1
  BY <1>1, <1>2, <1>5
<1>8. /\ Segment(b) \in Seq(T) /\ Len(Segment(b)) = e - b - 1
      /\ DOMAIN Segment(b) = 1 .. e - b - 1
      /\ \A m \in 1 .. e - b - 1 : Segment(b)[m] = text[b + 1 + m - 1]
  <2>1. Segment(b) = SubSeq(text, b + 1, e - 1)
    BY DEF Segment, e
  <2> QED
    <3> DEFINE a == b + 1
               z == e - 1
    <3>1. a \in 1 .. Len(text) + 1 /\ z \in a - 1 .. Len(text) /\ z - a + 1 = e - b - 1
      BY <1>1, <1>2, <1>5
    <3>2. Segment(b) = SubSeq(text, a, z)
      BY <2>1
    <3>3. \A m \in 1 .. e - b - 1 : b + 1 + m - 1 = a + m - 1
      OBVIOUS
    <3> HIDE DEF a, z
    <3>4. /\ SubSeq(text, a, z) \in Seq(T) /\ Len(SubSeq(text, a, z)) = z - a + 1
          /\ DOMAIN SubSeq(text, a, z) = 1 .. z - a + 1
          /\ \A m \in 1 .. z - a + 1 : SubSeq(text, a, z)[m] = text[a + m - 1]
      BY <3>1, PartOf
    <3> QED
      BY <3>1, <3>2, <3>3, <3>4
<1>9. \A m \in 1 .. e - b - 1 : b + 1 + m - 1 = b + m
  BY <1>2
<1> QED
  BY <1>2, <1>5, <1>6, <1>8, <1>9 DEF e

(* What is read from the start of a segment that has a '=' is its pair,    *)
(* and reading goes on at the next segment, if there is one.               *)
LEMMA PairRead ==
  ASSUME NEW T, text \in Seq(T), NEW f, PairsFrom(text, Amp, FALSE, f), NEW b \in Paired
  PROVE  f[b + 1] = <<PairOf(Segment(b))>> \o
                    (IF EndOf(b) = Len(text) + 1 THEN <<>> ELSE f[EndOf(b) + 1])
PROOF
<1> DEFINE N == Len(text)
           e == EndOf(b)
           g == Segment(b)
           i0 == First(EqualsIn(g))
           key == First(From(text, Equals, b + 1))
           ends == From(text, Amp, key)
           pos == IF ends = {} THEN N + 1 ELSE First(ends)
<1>1. /\ b \in Starts /\ EqualsIn(g) # {} /\ N \in Nat
      /\ b \in 0 .. N /\ e \in Bounds /\ e \in b + 1 .. N + 1
      /\ \A c \in Bounds : c <= b \/ e <= c
      /\ g \in Seq(T) /\ DOMAIN g = 1 .. e - b - 1 /\ Len(g) = e - b - 1
      /\ \A m \in 1 .. e - b - 1 : g[m] = text[b + m]
  <2>1. b \in Starts /\ EqualsIn(g) # {} /\ N \in Nat
    BY DEF Paired
  <2> QED
    BY <2>1, SegmentIs
<1> HIDE DEF e, g
<1>2. /\ i0 \in 1 .. e - b - 1 /\ text[b + i0] = Equals
      /\ \A m \in 1 .. e - b - 1 : text[b + m] = Equals => i0 <= m
  <2>1. EqualsIn(g) \in SUBSET Nat
    BY <1>1 DEF EqualsIn
  <2>2. i0 \in EqualsIn(g) /\ \A m \in EqualsIn(g) : i0 <= m
    BY <1>1, <2>1, FirstIs
  <2> HIDE DEF i0
  <2>3. i0 \in 1 .. e - b - 1 /\ g[i0] = Equals
    BY <1>1, <2>2 DEF EqualsIn
  <2>4. ASSUME NEW m \in 1 .. e - b - 1, text[b + m] = Equals PROVE i0 <= m
    BY <1>1, <2>2, <2>4 DEF EqualsIn
  <2> QED
    BY <1>1, <2>3, <2>4
<1> HIDE DEF i0
<1>3. From(text, Equals, b + 1) # {} /\ key = b + i0
  <2>1. b + 1 \in 1 .. N + 1 /\ b + i0 \in b + 1 .. N
    BY <1>1, <1>2
  <2>2. From(text, Equals, b + 1) # {}
    BY <1>2, <2>1 DEF From
  <2>3. /\ key \in b + 1 .. N /\ text[key] = Equals
        /\ \A j \in b + 1 .. N : text[j] = Equals => key <= j
    BY <2>1, <2>2, FromIs
  <2> HIDE DEF key
  <2>4. key <= b + i0
    BY <1>2, <2>1, <2>3
  <2>5. key - b \in 1 .. e - b - 1 /\ b + (key - b) = key
    BY <1>1, <1>2, <2>3, <2>4
  <2>6. i0 <= key - b
    BY <1>2, <2>3, <2>5
  <2> QED
    BY <1>1, <1>2, <2>2, <2>3, <2>4, <2>6
<1>4. key \in b + 1 .. e - 1 /\ key \in 1 .. N + 1
  BY <1>1, <1>2, <1>3
<1> HIDE DEF key
<1>5. \A j \in key .. N : text[j] = Amp => e <= j
  <2> TAKE j \in key .. N
  <2> HAVE text[j] = Amp
  <2>1. j \in 1 .. N /\ ~(j <= b)
    BY <1>1, <1>4
  <2>2. j \in Bounds
    BY <2>1 DEF Bounds
  <2> QED
    BY <1>1, <2>1, <2>2
<1>6. pos = e /\ (ends = {} <=> e = N + 1)
  <2>1. CASE e = N + 1
    <3>1. ends = {}
      BY <1>4, <1>5, <2>1 DEF From
    <3> QED
      BY <2>1, <3>1
  <2>2. CASE e # N + 1
    <3>1. e \in key .. N /\ e # 0
      BY SMTT(30), <1>1, <1>4, <2>2
    <3>2. text[e] = Amp
      BY <1>1, <2>2, <3>1 DEF Bounds
    <3>3. ends # {}
      BY <3>1, <3>2 DEF From
    <3>4. First(ends) \in key .. N /\ text[First(ends)] = Amp /\ First(ends) <= e
      BY <1>4, <3>1, <3>2, <3>3, FromIs
    <3>5. e <= First(ends)
      BY <1>5, <3>4
    <3>6. First(ends) = e
      <4> HIDE DEF ends
      <4> QED
        BY <1>1, <1>4, <3>4, <3>5
    <3> QED
      BY <2>2, <3>3, <3>6
  <2> QED
    BY <2>1, <2>2
<1>7. f[b + 1] = << <<SubSeq(text, b + 1, key - 1),
                      UrlDecode(SubSeq(text, key + 1, pos - 1), TRUE)>> >> \o
                 (IF ends = {} THEN <<>> ELSE f[pos + 1])
  <2>1. b + 1 \in 1 .. N + 1
    BY <1>1
  <2>2. f[b + 1] =
          IF From(text, Equals, b + 1) = {} THEN <<>>
          ELSE << << IF FALSE THEN Trim(SubSeq(text, b + 1, key - 1))
                     ELSE SubSeq(text, b + 1, key - 1),
                     UrlDecode(SubSeq(text, key + 1, pos - 1), TRUE)>> >> \o
               (IF ends = {} THEN <<>> ELSE f[pos + 1])
    BY <2>1, Zenon DEF PairsFrom, key
  <2> HIDE DEF pos, ends
  <2> QED
    BY <1>3, <2>2
<1>8. SubSeq(text, b + 1, key - 1) = SubSeq(g, 1, i0 - 1)
  <2>1. /\ b + 1 \in 1 .. Len(text) + 1 /\ e - 1 \in b + 1 - 1 .. Len(text)
        /\ 1 \in 1 .. e - 1 - (b + 1) + 2 /\ i0 - 1 \in 1 - 1 .. e - 1 - (b + 1) + 1
        /\ b + 1 + 1 - 1 = b + 1 /\ b + 1 + (i0 - 1) - 1 = key - 1
    <3>1. /\ N \in Nat /\ b \in 0 .. N /\ e \in b + 1 .. N + 1
          /\ i0 \in 1 .. e - b - 1 /\ key = b + i0 /\ Len(text) = N
      BY <1>1, <1>2, <1>3, Zenon
    <3> HIDE DEF N
    <3> QED
      BY <3>1
  <2>2. g = SubSeq(text, b + 1, e - 1)
    BY DEF Segment, g, e
  <2>3. SubSeq(g, 1, i0 - 1) = SubSeq(text, b + 1 + 1 - 1, b + 1 + (i0 - 1) - 1)
    <3> DEFINE a == b + 1
               z == e - 1
               n == i0 - 1
    <3>1. /\ a \in 1 .. Len(text) + 1 /\ z \in a - 1 .. Len(text)
          /\ 1 \in 1 .. z - a + 2 /\ n \in 1 - 1 .. z - a + 1 /\ g = SubSeq(text, a, z)
      BY <2>1, <2>2
    <3> HIDE DEF a, z, n
    <3>2. SubSeq(SubSeq(text, a, z), 1, n) = SubSeq(text, a + 1 - 1, a + n - 1)
      BY <3>1, PartOfPart
    <3> QED
      BY <3>1, <3>2 DEF a, n
  <2> QED
    BY <2>1, <2>3
<1>9. SubSeq(text, key + 1, e - 1) = SubSeq(g, i0 + 1, Len(g))
  <2>1. /\ b + 1 \in 1 .. Len(text) + 1 /\ e - 1 \in b + 1 - 1 .. Len(text)
        /\ i0 + 1 \in 1 .. e - 1 - (b + 1) + 2
        /\ Len(g) \in i0 + 1 - 1 .. e - 1 - (b + 1) + 1
        /\ b + 1 + (i0 + 1) - 1 = key + 1 /\ b + 1 + Len(g) - 1 = e - 1
    <3>1. /\ b \in Int /\ e \in Int /\ i0 \in Int /\ Len(g) = e - b - 1 /\ 0 <= b /\ b < e
          /\ 1 <= i0 /\ i0 <= e - b - 1 /\ key = b + i0 /\ e <= Len(text) + 1 /\ Len(text) \in Int
      BY <1>1, <1>2, <1>3
    <3> QED
      BY <3>1
  <2>2. g = SubSeq(text, b + 1, e - 1)
    BY DEF Segment, g, e
  <2>3. SubSeq(g, i0 + 1, Len(g)) = SubSeq(text, b + 1 + (i0 + 1) - 1, b + 1 + Len(g) - 1)
    <3> DEFINE a == b + 1
               z == e - 1
               m == i0 + 1
               n == Len(g)
    <3>1. /\ a \in 1 .. Len(text) + 1 /\ z \in a - 1 .. Len(text)
          /\ m \in 1 .. z - a + 2 /\ n \in m - 1 .. z - a + 1 /\ g = SubSeq(text, a, z)
      BY SMTT(30), <2>1, <2>2
    <3> HIDE DEF a, z, m, n
    <3>2. SubSeq(SubSeq(text, a, z), m, n) = SubSeq(text, a + m - 1, a + n - 1)
      BY <3>1, PartOfPart
    <3> QED
      BY <3>1, <3>2 DEF a, m, n
  <2> QED
    BY <2>1, <2>3
<1>10. PairOf(g) = <<SubSeq(g, 1, i0 - 1), UrlDecode(SubSeq(g, i0 + 1, Len(g)), TRUE)>>
  BY Zenon DEF PairOf, i0
<1> HIDE DEF pos, ends
<1>11. f[b + 1] = <<PairOf(g)>> \o (IF e = N + 1 THEN <<>> ELSE f[e + 1])
  BY <1>6, <1>7, <1>8, <1>9, <1>10
<1> QED
  BY <1>11 DEF g, e

(* Nothing is read from a start behind which no segment has a '='.         *)
LEMMA NothingRead ==
  ASSUME NEW T, text \in Seq(T), NEW f, PairsFrom(text, Amp, FALSE, f), NEW b \in Starts,
         \A c \in Paired : c < b
  PROVE  f[b + 1] = <<>>
PROOF
<1> DEFINE N == Len(text)
<1>1. N \in Nat /\ b \in 0 .. N /\ Starts \subseteq 0 .. N /\ Starts \subseteq Bounds
  BY SMTT(30), SegmentIs DEF Starts, Bounds
<1>2. ASSUME NEW j \in From(text, Equals, b + 1) PROVE FALSE
  <2> DEFINE S == {c \in Starts : c < j}
             c == Last(S)
             e == EndOf(c)
  <2>1. j \in b + 1 .. N /\ text[j] = Equals /\ j \notin Bounds
    <3>1. j \in b + 1 .. N /\ text[j] = Equals
      BY DEF From
    <3> QED
      BY <1>1, <3>1 DEF Bounds, Amp, Equals
  <2>2. S \in SUBSET (0 .. N) /\ b \in S
    <3>1. S \subseteq 0 .. N
      BY <1>1, Zenon
    <3>2. b < j
      BY <1>1, <2>1
    <3>3. b \in S
      BY <3>2
    <3> QED
      BY <3>1, <3>3
  <2>3. c \in S /\ \A x \in S : x <= c
    <3> HIDE DEF S
    <3> QED
      BY <1>1, <2>2, LastIs
  <2>4. c \in Starts /\ c < j /\ b <= c
    BY <2>2, <2>3
  <2> HIDE DEF c
  <2>5. /\ c \in 0 .. N /\ e \in Bounds /\ e \in c + 1 .. N + 1
        /\ DOMAIN Segment(c) = 1 .. e - c - 1
        /\ \A m \in 1 .. e - c - 1 : Segment(c)[m] = text[c + m]
    BY <2>4, SegmentIs
  <2> HIDE DEF e
  <2>6. j < e
    <3>1. CASE e <= j
      <4>1. e # N + 1
        BY <1>1, <2>1, <3>1
      <4>2. e \in Starts /\ e # j
        BY <2>1, <2>5, <4>1 DEF Starts
      <4>3. e < j
        BY <1>1, <2>1, <2>5, <3>1, <4>2
      <4>4. e \in S
        BY <4>2, <4>3
      <4> QED
        BY <2>3, <2>5, <4>4
    <3> QED
      BY <1>1, <2>1, <2>5, <3>1
  <2>7. j - c \in 1 .. e - c - 1 /\ c + (j - c) = j
    BY <1>1, <2>1, <2>4, <2>5, <2>6
  <2>8. j - c \in EqualsIn(Segment(c))
    BY <2>1, <2>5, <2>7 DEF EqualsIn
  <2>9. c \in Paired
    BY <2>4, <2>8 DEF Paired
  <2> QED
    BY <1>1, <2>4, <2>5, <2>9
<1>3. From(text, Equals, b + 1) = {} /\ b + 1 \in 1 .. N + 1
  BY <1>1, <1>2
<1> QED
  BY <1>3, Zenon DEF PairsFrom

(* A sequence with one more before it.                                     *)
LEMMA PutBefore ==
  ASSUME NEW m \in Nat, NEW g, g = [n \in 1 .. m |-> g[n]], NEW x
  PROVE  <<x>> \o g = [n \in 1 .. m + 1 |-> IF n = 1 THEN x ELSE g[n - 1]]
PROOF
<1> DEFINE U == {x} \cup {g[n] : n \in 1 .. m}
           h == [n \in 1 .. m + 1 |-> IF n = 1 THEN x ELSE g[n - 1]]
<1>1. g \in Seq(U) /\ Len(g) = m
  <2>1. \A n \in 1 .. m : g[n] \in U
    OBVIOUS
  <2>2. g \in [1 .. m -> U]
    <3> HIDE DEF U
    <3> QED
      BY <2>1, Zenon
  <2> HIDE DEF U
  <2>3. g \in Seq(U)
    BY <2>2
  <2> QED
    BY <2>2, <2>3
<1>2. <<x>> \in Seq(U) /\ Len(<<x>>) = 1 /\ <<x>>[1] = x
  OBVIOUS
<1>3. h \in Seq(U) /\ Len(h) = m + 1
  <2>1. ASSUME NEW n \in 1 .. m + 1 PROVE (IF n = 1 THEN x ELSE g[n - 1]) \in U
    OBVIOUS
  <2>2. h \in [1 .. m + 1 -> U]
    <3> DEFINE D == 1 .. m + 1
    <3>1. \A n \in D : (IF n = 1 THEN x ELSE g[n - 1]) \in U
      BY <2>1
    <3> HIDE DEF U, D
    <3>2. [n \in D |-> IF n = 1 THEN x ELSE g[n - 1]] \in [D -> U]
      BY <3>1
    <3> QED
      BY <3>2 DEF D
  <2> HIDE DEF U, h
  <2>3. m + 1 \in Nat /\ h \in Seq(U)
    BY <2>2
  <2> QED
    BY <2>2, <2>3
<1> HIDE DEF U
<1>4. /\ <<x>> \o g \in Seq(U) /\ Len(<<x>> \o g) = 1 + m
      /\ \A n \in 1 .. 1 + m : (<<x>> \o g)[n] = IF n <= 1 THEN <<x>>[n] ELSE g[n - 1]
  BY <1>1, <1>2, ConcatProperties
<1>5. ASSUME NEW n \in 1 .. Len(<<x>> \o g) PROVE (<<x>> \o g)[n] = h[n]
  <2>1. n \in 1 .. m + 1 /\ n \in 1 .. 1 + m /\ (n <= 1 <=> n = 1)
    BY <1>4
  <2> QED
    BY <1>2, <1>4, <2>1
<1> HIDE DEF h
<1>6. Len(<<x>> \o g) = Len(h)
  BY <1>3, <1>4
<1>7. <<x>> \o g = h
  BY <1>3, <1>4, <1>5, <1>6, SeqEqual
<1> QED
  BY <1>7 DEF h

(* What is read from a start: the pairs of the segments from there on.     *)
Reads(f, b, q, m) ==
  /\ Ascends(q, m, {c \in Paired : b <= c})
  /\ f[b + 1] = [n \in 1 .. m |-> PairOf(Segment(q[n]))]
ReadFrom(f, b) == \E m \in Nat : \E q : Reads(f, b, q, m)

(* The empty list.                                                         *)
LEMMA NoneAscends == Ascends(<<>>, 0, {}) /\ \A h : <<>> = [n \in 1 .. 0 |-> h[n]]
PROOF
<1>1. 1 .. 0 = {}
  OBVIOUS
<1>2. <<>> \in [{} -> {}]
  OBVIOUS
<1>3. ASSUME NEW h PROVE <<>> = [n \in 1 .. 0 |-> h[n]]
  BY <1>1
<1> QED
  BY <1>1, <1>2, <1>3 DEF Ascends

(* One place more: what is read from b is b's pair, if any, and the rest.  *)
LEMMA ReadsOn ==
  ASSUME NEW T, text \in Seq(T), NEW f, PairsFrom(text, Amp, FALSE, f), NEW b \in Starts,
         \A c \in Paired : b < c => b \in Paired,
         \A c \in Starts : b < c => ReadFrom(f, c)
  PROVE  ReadFrom(f, b)
PROOF
<1> DEFINE N == Len(text)
           e == EndOf(b)
           S == {c \in Paired : e <= c}
<1>1. /\ N \in Nat /\ b \in 0 .. N /\ e \in Bounds /\ e \in b + 1 .. N + 1
      /\ \A c \in Bounds : c <= b \/ e <= c
      /\ Starts \subseteq 0 .. N /\ Paired \subseteq Starts /\ Starts = Bounds \ {N + 1}
  BY SMTT(60), SegmentIs DEF Starts, Bounds, Paired
<1> HIDE DEF N, e
<1>2. CASE b \notin Paired
  <2>1. ASSUME NEW c \in Paired PROVE c < b
    <3>1. c \in 0 .. N /\ ~(b < c) /\ c # b
      BY <1>1, <1>2
    <3> QED
      BY <1>1, <3>1
  <2>2. f[b + 1] = <<>>
    BY <2>1, NothingRead
  <2>3. {c \in Paired : b <= c} = {}
    <3>1. \A c \in Paired : ~(b <= c)
      BY <1>1, <2>1
    <3> QED
      BY <3>1
  <2>4. <<>> = [n \in 1 .. 0 |-> PairOf(Segment(<<>>[n]))]
    OBVIOUS
  <2>5. Reads(f, b, <<>>, 0)
    BY <2>2, <2>3, <2>4, NoneAscends DEF Reads
  <2> QED
    BY <2>5 DEF ReadFrom
<1>3. CASE b \in Paired
  <2>1. \E m \in Nat : \E q : /\ Ascends(q, m, S)
                              /\ (IF e = N + 1 THEN <<>> ELSE f[e + 1])
                                    = [n \in 1 .. m |-> PairOf(Segment(q[n]))]
    <3>1. CASE e = N + 1
      <4>1. S = {}
        <5>1. \A c \in S : c \in 0 .. N /\ e <= c
          BY <1>1
        <5> HIDE DEF S
        <5> QED
          BY <1>1, <3>1, <5>1
      <4>2. <<>> = [n \in 1 .. 0 |-> PairOf(Segment(<<>>[n]))]
        OBVIOUS
      <4>3. Ascends(<<>>, 0, S)
        BY <4>1, NoneAscends
      <4> QED
        BY <3>1, <4>2, <4>3
    <3>2. CASE e # N + 1
      <4>1. e \in Starts /\ b < e
        BY <1>1, <3>2
      <4>2. PICK m \in Nat : \E q : Reads(f, e, q, m)
        BY <4>1 DEF ReadFrom
      <4>3. PICK q : Reads(f, e, q, m)
        BY <4>2
      <4>4. /\ Ascends(q, m, S)
            /\ (IF e = N + 1 THEN <<>> ELSE f[e + 1]) = [n \in 1 .. m |-> PairOf(Segment(q[n]))]
        BY <3>2, <4>3 DEF Reads
      <4> HIDE DEF S
      <4> QED
        BY <4>4
    <3> QED
      BY <3>1, <3>2
  <2>2. PICK m \in Nat :
          \E q : /\ Ascends(q, m, S)
                 /\ (IF e = N + 1 THEN <<>> ELSE f[e + 1])
                       = [n \in 1 .. m |-> PairOf(Segment(q[n]))]
    BY <2>1
  <2>3. PICK q : /\ Ascends(q, m, S)
                 /\ (IF e = N + 1 THEN <<>> ELSE f[e + 1])
                       = [n \in 1 .. m |-> PairOf(Segment(q[n]))]
    BY <2>2
  <2> DEFINE r == [n \in 1 .. m + 1 |-> IF n = 1 THEN b ELSE q[n - 1]]
             g == [n \in 1 .. m |-> PairOf(Segment(q[n]))]
             x == PairOf(Segment(b))
  <2>4. S \in SUBSET Int /\ b \in Int /\ \A c \in S : b < c
    <3>1. \A c \in S : c \in 0 .. N /\ e <= c
      BY <1>1
    <3> HIDE DEF S
    <3> QED
      BY <1>1, <3>1
  <2>5. S \cup {b} = {c \in Paired : b <= c}
    <3>1. ASSUME NEW c \in Paired PROVE c \in S \cup {b} <=> b <= c
      <4>1. c \in 0 .. N /\ (c <= b \/ e <= c)
        BY <1>1
      <4> QED
        BY <1>1, <4>1
    <3> QED
      BY <1>3, <3>1
  <2>6. Ascends(r, m + 1, S \cup {b})
    <3> HIDE DEF S
    <3> QED
      BY <2>3, <2>4, AscendsMore
  <2>7. f[b + 1] = <<x>> \o g
    <3>1. f[b + 1] = <<PairOf(Segment(b))>> \o
                     (IF EndOf(b) = Len(text) + 1 THEN <<>> ELSE f[EndOf(b) + 1])
      BY <1>3, PairRead
    <3> QED
      BY <2>3, <3>1, Zenon DEF e, N
  <2>8. <<x>> \o g = [n \in 1 .. m + 1 |-> IF n = 1 THEN x ELSE g[n - 1]]
    <3>1. g = [n \in 1 .. m |-> g[n]]
      OBVIOUS
    <3> HIDE DEF g, x
    <3> QED
      BY <3>1, PutBefore
  <2>9. ASSUME NEW n \in 1 .. m + 1
        PROVE  (IF n = 1 THEN x ELSE g[n - 1]) = PairOf(Segment(r[n]))
    <3>1. CASE n = 1
      BY <3>1
    <3>2. CASE n # 1
      <4>1. n - 1 \in 1 .. m
        BY <3>2
      <4> QED
        BY <3>2, <4>1
    <3> QED
      BY <3>1, <3>2
  <2>10. f[b + 1] = [n \in 1 .. m + 1 |-> PairOf(Segment(r[n]))]
    <3> HIDE DEF x, g, r
    <3> QED
      BY <2>7, <2>8, <2>9
  <2> HIDE DEF r, S
  <2>11. Reads(f, b, r, m + 1)
    BY <2>5, <2>6, <2>10, Zenon DEF Reads
  <2>12. m + 1 \in Nat
    OBVIOUS
  <2> QED
    BY <2>11, <2>12, Zenon DEF ReadFrom
<1> QED
  BY <1>2, <1>3

(* PARSE_PARAM reads each segment as the property says, in every text.     *)
LEMMA SegmentsHold ==
  ASSUME NEW T, text \in Seq(T)
  PROVE  SegmentsParsed
PROOF
<1> SUFFICES ASSUME \A b \in Starts, c \in Paired : b < c => b \in Paired
             PROVE  Pairs(text, Amp, FALSE) =
                      [n \in 1 .. Cardinality(Paired) |-> PairOf(Segment(NthPaired(n)))]
  BY Zenon DEF SegmentsParsed
<1> DEFINE N == Len(text)
<1>1. PICK f : PairsFrom(text, Amp, FALSE, f) /\ Pairs(text, Amp, FALSE) = f[1]
  BY PairsHave
<1> DEFINE good == {k \in 1 .. N + 1 : k - 1 \in Starts => ReadFrom(f, k - 1)}
<1>2. N \in Nat /\ 0 \in Starts /\ Starts \subseteq 0 .. N /\ Paired \subseteq 0 .. N
  BY DEF Starts, Bounds, Paired
<1>3. ASSUME NEW k \in 1 .. N + 1, \A m \in 1 .. N + 1 : k < m => m \in good
      PROVE  k \in good
  <2> SUFFICES ASSUME k - 1 \in Starts PROVE ReadFrom(f, k - 1)
    OBVIOUS
  <2> DEFINE b == k - 1
  <2>1. ASSUME NEW c \in Starts, b < c PROVE ReadFrom(f, c)
    <3>1. c + 1 \in 1 .. N + 1 /\ k < c + 1 /\ (c + 1) - 1 = c
      BY <1>2, <2>1
    <3>2. c + 1 \in good
      BY <1>3, <3>1
    <3>3. (c + 1) - 1 \in Starts => ReadFrom(f, (c + 1) - 1)
      BY <3>2
    <3> QED
      BY <3>1, <3>3
  <2>2. b \in Starts /\ \A c \in Paired : b < c => b \in Paired
    OBVIOUS
  <2> HIDE DEF b
  <2>3. ReadFrom(f, b)
    BY <1>1, <2>1, <2>2, ReadsOn
  <2> QED
    BY <2>3 DEF b
<1>4. 1 \in good
  <2>1. 1 .. N + 1 \subseteq good
    <3> HIDE DEF good
    <3> QED
      BY <1>2, <1>3, FromTheEnd
  <2> HIDE DEF good
  <2> QED
    BY <1>2, <2>1
<1>5. ReadFrom(f, 0)
  <2>1. 1 - 1 = 0
    OBVIOUS
  <2> QED
    BY <1>2, <1>4, <2>1
<1>6. PICK m \in Nat : \E q : Reads(f, 0, q, m)
  BY <1>5 DEF ReadFrom
<1>7. PICK q : Reads(f, 0, q, m)
  BY <1>6
<1>8. {c \in Paired : 0 <= c} = Paired /\ 0 + 1 = 1
  <2>1. \A c \in Paired : 0 <= c
    BY <1>2
  <2> QED
    BY <2>1
<1>9. Ascends(q, m, Paired) /\ f[1] = [n \in 1 .. m |-> PairOf(Segment(q[n]))]
  BY <1>7, <1>8 DEF Reads
<1>10. Paired \in SUBSET Int
  BY <1>2
<1>11. Cardinality(Paired) = m
  BY <1>9, <1>10, AscendsCount
<1>12. ASSUME NEW n \in 1 .. m PROVE NthPaired(n) = q[n]
  <2>1. NthOf(Paired, n) = q[n]
    BY <1>9, <1>10, AscendsNth
  <2> QED
    BY <2>1, Zenon DEF NthPaired, NthOf
<1> QED
  BY <1>1, <1>9, <1>11, <1>12

-----------------------------------------------------------------------------
(* Strings.                                                                *)

TextInv == text \in Seq(Char)

(* The text stays a text.                                                  *)
LEMMA TextInductive == TextInv /\ [StoresNext]_storesVars => TextInv'
PROOF
<1> SUFFICES ASSUME TextInv, [StoresNext]_storesVars PROVE TextInv'
  OBVIOUS
<1>1. CASE text' = text
  BY <1>1 DEF TextInv
<1>2. CASE TextNext
  BY <1>2 DEF TextNext, TextInv
<1> QED
  BY <1>1, <1>2 DEF StoresNext, storesVars

(* What is encoded is decoded again, the trims agree but for the character *)
(* TrimRight() loses, and a list of pairs is read segment by segment, as   *)
(* long as none without '=' comes before one with it (util.cpp:129-214,    *)
(* http.cpp:217).  UrlEncode() leaves what its comment lists, and the '='. *)
THEOREM TextHoldsAlways == StoresSpec => []TextHolds
PROOF
<1>1. StoresInit => TextInv
  BY DEF StoresInit, TextInit, TextInv
<1>2. TextInv => TextHolds
  <2> SUFFICES ASSUME TextInv PROVE TextSound
    BY DEF TextHolds
  <2>1. text \in Seq(Char) /\ text \in Seq(Byte)
    <3>1. Char \subseteq Byte
      BY TextAssumption DEF Byte
    <3> QED
      BY <3>1, SeqMonotonic DEF TextInv
  <2>2. UrlRoundTrip
    BY <2>1, RoundTrip, Zenon DEF UrlRoundTrip
  <2>4. OnlyListedStay
    <3>1. ASSUME NEW plus \in BOOLEAN, NEW k \in DOMAIN UrlEncode(text, plus)
          PROVE  UrlEncode(text, plus)[k] \in Stays
      <4>1. UrlEncode(text, plus) \in Seq(Stays)
        BY <2>1, EncodedStays
      <4> QED
        BY <4>1, ElementOfDomain
    <3> QED
      BY <3>1, Zenon DEF OnlyListedStay, Stays
  <2>3. TrimsAgree /\ SegmentsParsed
    BY <2>1, TrimsHold, SegmentsHold
  <2> QED
    BY <2>2, <2>3, <2>4 DEF TextSound
<1> QED
  BY <1>1, <1>2, TextInductive, PTL DEF StoresSpec

-----------------------------------------------------------------------------
(* Host strings.                                                           *)

(* find() gives m when c is at m and not before.                           *)
LEMMA FindIs ==
  ASSUME NEW T, NEW h \in Seq(T), NEW c, NEW m \in 1 .. Len(h), h[m] = c,
         \A n \in 1 .. m - 1 : h[n] # c
  PROVE  Find(h, c) = m
PROOF
<1> DEFINE at == {n \in DOMAIN h : h[n] = c}
<1>1. at \in SUBSET Nat /\ m \in at
  OBVIOUS
<1>2. ASSUME NEW n \in at PROVE m <= n
  <2>1. n \in 1 .. Len(h) /\ ~(n \in 1 .. m - 1)
    OBVIOUS
  <2> QED
    BY <2>1
<1>3. Find(h, c) = First(at)
  <2>1. at # {}
    BY <1>1
  <2> QED
    BY <2>1, Zenon DEF Find, First
<1> HIDE DEF at
<1> QED
  BY <1>1, <1>2, <1>3, FirstIsOnly

(* Hosts are split as the property says, whatever their length.            *)
LEMMA HostsHold ==
  ASSUME NEW T, host \in Seq(T)
  PROVE  HostSplit
PROOF
<1> SUFFICES ASSUME NEW n \in 1 .. Len(host)
             PROVE  LET node == SubSeq(host, 1, n)
                        rest == SubSeq(host, n + 1, Len(host))
                        service == SubSeq(rest, 3, Len(rest) - 1)
                        Plain(t, signs) == \A m \in DOMAIN t : t[m] \notin signs
                    IN  /\ Len(rest) >= 3 /\ rest[1] = "[" /\ rest[2] = ":"
                        /\ rest[Len(rest)] = "]"
                        /\ Plain(node, {"[", ":", "]"}) /\ Plain(service, {"]"})
                        => Split(host) = [node |-> node, service |-> service]
  BY Zenon DEF HostSplit
<1> DEFINE N == Len(host)
           node == SubSeq(host, 1, n)
           rest == SubSeq(host, n + 1, N)
           z == Len(rest) - 1
           service == SubSeq(rest, 3, z)
<1> SUFFICES ASSUME Len(rest) >= 3, rest[1] = "[", rest[2] = ":", rest[Len(rest)] = "]",
                    \A m \in DOMAIN node : node[m] \notin {"[", ":", "]"},
                    \A m \in DOMAIN service : service[m] \notin {"]"}
             PROVE  Split(host) = [node |-> node, service |-> service]
  BY Zenon
<1>1. N \in Nat /\ n \in 1 .. N
  OBVIOUS
<1>2. DOMAIN node = 1 .. n /\ \A m \in 1 .. n : node[m] = host[m]
  <2>1. 1 \in 1 .. Len(host) + 1 /\ n \in 1 - 1 .. Len(host)
    BY <1>1
  <2>2. /\ DOMAIN node = 1 .. n - 1 + 1
        /\ \A m \in 1 .. n - 1 + 1 : node[m] = host[1 + m - 1]
    BY <2>1, PartOf
  <2>3. n - 1 + 1 = n /\ \A m \in 1 .. n : 1 + m - 1 = m
    BY <1>1
  <2> HIDE DEF node
  <2> QED
    BY <2>2, <2>3
<1>3. /\ rest \in Seq(T) /\ Len(rest) = N - n
      /\ \A m \in 1 .. N - n : rest[m] = host[n + m]
  <2> DEFINE a == n + 1
  <2>1. a \in 1 .. Len(host) + 1 /\ N \in a - 1 .. Len(host)
    BY <1>1
  <2>2. N - a + 1 = N - n /\ \A m \in 1 .. N - n : a + m - 1 = n + m
    <3> HIDE DEF N
    <3> QED
      BY <1>1
  <2> HIDE DEF a, N
  <2>3. /\ SubSeq(host, a, N) \in Seq(T) /\ Len(SubSeq(host, a, N)) = N - a + 1
        /\ \A m \in 1 .. N - a + 1 : SubSeq(host, a, N)[m] = host[a + m - 1]
    BY <2>1, PartOf
  <2> QED
    BY <2>2, <2>3 DEF a
<1>4. z = N - n - 1 /\ N - n >= 3
  BY <1>1, <1>3
<1>5. /\ DOMAIN service = 1 .. N - n - 3
      /\ \A m \in 1 .. N - n - 3 : service[m] = host[n + 2 + m]
  <2>1. 3 \in 1 .. Len(rest) + 1 /\ z \in 3 - 1 .. Len(rest) /\ z - 3 + 1 = N - n - 3
    <3> HIDE DEF z, rest, N
    <3> QED
      BY SMTT(30), <1>1, <1>3, <1>4
  <2> HIDE DEF rest, z, N
  <2>2. \A m \in 1 .. N - n - 3 : 3 + m - 1 \in 1 .. N - n /\ n + (3 + m - 1) = n + 2 + m
    <3> TAKE m \in 1 .. N - n - 3
    <3>1. N \in Int /\ n \in Int /\ m \in Int /\ 1 <= m /\ m <= N - n - 3
      BY <1>1
    <3> QED
      BY <3>1
  <2>3. /\ DOMAIN service = 1 .. z - 3 + 1
        /\ \A m \in 1 .. z - 3 + 1 : service[m] = rest[3 + m - 1]
    BY <1>3, <2>1, PartOf
  <2> HIDE DEF service
  <2> QED
    BY <1>3, <2>1, <2>2, <2>3
<1>6. service = SubSeq(host, n + 3, N - 1)
  <2> DEFINE a == n + 1
  <2>1. /\ a \in 1 .. Len(host) + 1 /\ N \in a - 1 .. Len(host)
        /\ 3 \in 1 .. N - a + 2 /\ z \in 3 - 1 .. N - a + 1
        /\ a + 3 - 1 = n + 3 /\ a + z - 1 = N - 1
    <3>1. N <= Len(host)
      OBVIOUS
    <3> HIDE DEF z, N
    <3> QED
      BY <1>1, <1>3, <1>4, <3>1
  <2> DEFINE m == 3
  <2>2. m \in 1 .. N - a + 2 /\ z \in m - 1 .. N - a + 1
    BY <2>1
  <2> HIDE DEF a, z, N, m
  <2>3. SubSeq(SubSeq(host, a, N), m, z) = SubSeq(host, a + m - 1, a + z - 1)
    BY <2>1, <2>2, PartOfPart
  <2> QED
    BY <2>1, <2>3 DEF a, m
<1>7. /\ host[n + 1] = "[" /\ host[n + 2] = ":" /\ host[N] = "]"
      /\ \A m \in 1 .. n : host[m] # "[" /\ host[m] # ":" /\ host[m] # "]"
      /\ \A m \in n + 3 .. N - 1 : host[m] # "]"
  <2>1. 1 \in 1 .. N - n /\ 2 \in 1 .. N - n /\ N - n \in 1 .. N - n /\ n + (N - n) = N
    BY <1>1, <1>4
  <2>2. ASSUME NEW m \in n + 3 .. N - 1 PROVE host[m] # "]"
    <3>1. m - n - 2 \in 1 .. N - n - 3 /\ n + 2 + (m - n - 2) = m
      BY <1>1, <1>4
    <3> HIDE DEF service, N
    <3> QED
      BY <1>5, <3>1
  <2> HIDE DEF node, rest, service, N
  <2> QED
    BY <1>2, <1>3, <2>1, <2>2
<1> HIDE DEF node, rest, service, z
<1>8. Find(host, "[") = n + 1
  <2>1. n + 1 \in 1 .. Len(host) /\ \A m \in 1 .. (n + 1) - 1 : m \in 1 .. n
    BY <1>1, <1>4
  <2> QED
    BY <1>7, <2>1, FindIs
<1>9. Find(host, ":") = n + 2
  <2>1. n + 2 \in 1 .. Len(host) /\ \A m \in 1 .. (n + 2) - 1 : m \in 1 .. n \/ m = n + 1
    BY <1>1, <1>4
  <2>2. \A m \in 1 .. (n + 2) - 1 : host[m] # ":"
    BY <1>7, <2>1
  <2> QED
    BY <1>7, <2>1, <2>2, FindIs
<1>10. Find(host, "]") = N
  <2>1. /\ N \in 1 .. Len(host)
        /\ \A m \in 1 .. N - 1 : m \in 1 .. n \/ m = n + 1 \/ m = n + 2 \/ m \in n + 3 .. N - 1
    BY <1>1, <1>4
  <2>2. \A m \in 1 .. N - 1 : host[m] # "]"
    BY <1>7, <2>1
  <2> QED
    BY <1>7, <2>1, <2>2, FindIs
<1>11. /\ n + 1 # 1 /\ n + 1 # 0 /\ n + 2 # 0 /\ N # 0 /\ ~(N <= n + 2)
       /\ (n + 1) - 1 = n /\ (n + 2) + 1 = n + 3
  BY <1>1, <1>4
<1> HIDE DEF N
<1>12. Split(host) = [node |-> SubSeq(host, 1, (n + 1) - 1),
                      service |-> SubSeq(host, (n + 2) + 1, N - 1)]
  BY <1>8, <1>9, <1>10, <1>11 DEF Split
<1> QED
  BY <1>6, <1>11, <1>12 DEF node

-----------------------------------------------------------------------------
(* Ports.                                                                  *)

(* Swapping the bytes of a port twice gives it back.                       *)
LEMMA SwappedTwice ==
  ASSUME NEW v \in Word
  PROVE  ByteSwap(ByteSwap(v)) = v
PROOF
<1> DEFINE q == v \div 256
           r == v % 256
           w == ByteSwap(v)
           q2 == w \div 256
           r2 == w % 256
<1>1. v \in Int /\ 0 <= v /\ v < 65536
  BY SMTT(30) DEF Word
<1>2. r = v - 256 * q /\ r \in 0 .. 255 /\ q \in Int
  <2>1. v % 256 = v - 256 * (v \div 256)
    BY <1>1
  <2>2. v % 256 \in 0 .. 255
    BY <1>1
  <2>3. v \div 256 \in Int
    BY <1>1
  <2> QED
    BY <2>1, <2>2, <2>3
<1>3. w = 256 * r + q
  BY <1>2 DEF ByteSwap
<1> HIDE DEF q, r
<1>4. w \in Int /\ q \in 0 .. 255
  BY <1>1, <1>2, <1>3
<1> HIDE DEF w
<1>5. r2 = w - 256 * q2 /\ r2 \in 0 .. 255 /\ q2 \in Int
  <2>1. w % 256 = w - 256 * (w \div 256)
    BY <1>4
  <2>2. w % 256 \in 0 .. 255
    BY <1>4
  <2>3. w \div 256 \in Int
    BY <1>4
  <2> QED
    BY <2>1, <2>2, <2>3
<1>6. ByteSwap(w) = 256 * r2 + q2
  BY <1>4, <1>5 DEF ByteSwap
<1> HIDE DEF q2, r2
<1>7. q2 = r /\ r2 = q
  <2>1. /\ 256 * q2 + r2 = 256 * r + q /\ q \in Int /\ r \in Int /\ q2 \in Int /\ r2 \in Int
        /\ 0 <= q /\ q < 256 /\ 0 <= r2 /\ r2 < 256
    <3>1. q \in Int /\ 0 <= q /\ q < 256 /\ r \in Int
      BY <1>2, <1>4
    <3>2. r2 \in Int /\ 0 <= r2 /\ r2 < 256 /\ q2 \in Int /\ w \in Int
      BY <1>4, <1>5
    <3>3. r2 = w - 256 * q2
      BY <1>5
    <3>4. 256 * q2 + r2 = w
      BY <3>2, <3>3
    <3> QED
      BY <1>3, <3>1, <3>2, <3>4
  <2>2. q2 <= r /\ r <= q2
    BY <2>1
  <2> QED
    BY <2>1, <2>2
<1>8. ByteSwap(w) = v
  BY <1>1, <1>2, <1>6, <1>7
<1> QED
  BY <1>8 DEF w

(* What is set as a port is read as that port.                             *)
LEMMA PortsHold == PortsKept
PROOF
<1>1. ASSUME NEW p \in Ports PROVE GetPort(ByteSwap(p)) = p
  <2>1. p \in Word
    <3>1. Ports \subseteq Word
      BY AddrAssumption, Zenon
    <3> QED
      BY <3>1
  <2>2. ByteSwap(ByteSwap(p)) = p
    BY <2>1, SwappedTwice, Zenon
  <2> QED
    BY <2>2 DEF GetPort
<1> QED
  BY <1>1 DEF PortsKept

-----------------------------------------------------------------------------
(* The order of addresses.                                                 *)

(* The first p bytes are the same.                                         *)
SameUpTo(x, y, p) == \A m \in 1 .. p : x[m] = y[m]

(* x and y differ first at p, where x is lower.                            *)
LowerAt(x, y, p) ==
  /\ p \in 1 .. Len(x) /\ p \in 1 .. Len(y)
  /\ x[p] < y[p] /\ \A m \in 1 .. p - 1 : x[m] = y[m]

(* x is where y begins.                                                    *)
Begins(x, y) == Len(x) < Len(y) /\ SameUpTo(x, y, Len(x))

(* memcmp() finds a byte that is lower, or higher, or none that differs.   *)
LEMMA BytesDiffer ==
  ASSUME NEW x \in Seq(Nat), NEW y \in Seq(Nat),
         NEW n \in Nat, n <= Len(x), n <= Len(y)
  PROVE  /\ ~(Before(x, y, n) /\ Before(y, x, n))
         /\ Before(x, y, n) \/ Before(y, x, n) \/ SameUpTo(x, y, n)
         /\ SameUpTo(x, y, n) => ~Before(x, y, n) /\ ~Before(y, x, n)
PROOF
<1>1. \A m \in 1 .. n : x[m] \in Nat /\ y[m] \in Nat
  <2>1. \A m \in 1 .. n : m \in 1 .. Len(x) /\ m \in 1 .. Len(y)
    OBVIOUS
  <2> QED
    BY <2>1, ElementOfSeq
<1>2. ASSUME NEW p \in 1 .. n, x[p] < y[p], \A m \in 1 .. p - 1 : x[m] = y[m],
             NEW q \in 1 .. n, y[q] < x[q], \A m \in 1 .. q - 1 : y[m] = x[m]
      PROVE  FALSE
  <2>1. CASE p < q
    <3>1. p \in 1 .. q - 1
      BY <2>1
    <3> QED
      BY SMTT(30), <1>1, <1>2, <3>1
  <2>2. CASE q < p
    <3>1. q \in 1 .. p - 1
      BY <2>2
    <3> QED
      BY <1>1, <1>2, <3>1
  <2>3. CASE p = q
    BY <1>1, <1>2, <2>3
  <2> QED
    BY <2>1, <2>2, <2>3
<1>3. ASSUME ~SameUpTo(x, y, n) PROVE Before(x, y, n) \/ Before(y, x, n)
  <2> DEFINE S == {m \in 1 .. n : x[m] # y[m]}
             p == First(S)
  <2>1. S \in SUBSET Nat /\ S # {}
    BY <1>3 DEF SameUpTo
  <2>2. p \in S /\ \A m \in S : p <= m
    <3> HIDE DEF S
    <3> QED
      BY <2>1, FirstIs
  <2> HIDE DEF p
  <2>3. p \in 1 .. n /\ x[p] # y[p]
    BY <2>2
  <2>4. ASSUME NEW m \in 1 .. p - 1 PROVE x[m] = y[m]
    <3>1. m \in 1 .. n /\ ~(p <= m)
      BY SMTT(60), <2>3
    <3>2. m \notin S
      <4> HIDE DEF S
      <4> QED
        BY <2>2, <3>1
    <3> QED
      BY <3>1, <3>2
  <2>5. x[p] < y[p] \/ y[p] < x[p]
    BY <1>1, <2>3
  <2> QED
    BY <2>3, <2>4, <2>5 DEF Before
<1>4. ASSUME SameUpTo(x, y, n) PROVE ~Before(x, y, n) /\ ~Before(y, x, n)
  BY <1>1, <1>4 DEF SameUpTo, Before
<1>5. ~(Before(x, y, n) /\ Before(y, x, n))
  BY <1>2 DEF Before
<1> QED
  BY <1>3, <1>4, <1>5

(* What operator< says.                                                    *)
LEMMA LessIs ==
  ASSUME NEW x \in Seq(Nat), NEW y \in Seq(Nat)
  PROVE  /\ Less(x, y) <=> (\E p \in Nat : LowerAt(x, y, p)) \/ Begins(x, y)
         /\ ~(Less(x, y) /\ Less(y, x))
         /\ x # y => Less(x, y) \/ Less(y, x)
PROOF
<1> DEFINE n == IF Len(x) < Len(y) THEN Len(x) ELSE Len(y)
<1>1. /\ Len(x) \in Nat /\ Len(y) \in Nat /\ n \in Nat /\ n <= Len(x) /\ n <= Len(y)
      /\ n = IF Len(y) < Len(x) THEN Len(y) ELSE Len(x)
      /\ Len(x) < Len(y) => n = Len(x)
  OBVIOUS
<1>2. Less(x, y) <=> Before(x, y, n) \/ (~Before(y, x, n) /\ Len(x) < Len(y))
  BY Zenon DEF Less
<1>3. Less(y, x) <=> Before(y, x, n) \/ (~Before(x, y, n) /\ Len(y) < Len(x))
  BY <1>1 DEF Less
<1>4. Before(x, y, n) <=> \E p \in Nat : LowerAt(x, y, p)
  <2>1. ASSUME Before(x, y, n) PROVE \E p \in Nat : LowerAt(x, y, p)
    <3>1. PICK p \in 1 .. n : x[p] < y[p] /\ \A m \in 1 .. p - 1 : x[m] = y[m]
      BY <2>1 DEF Before
    <3>2. p \in 1 .. Len(x) /\ p \in 1 .. Len(y) /\ p \in Nat
      BY <1>1
    <3> QED
      BY <3>1, <3>2 DEF LowerAt
  <2>2. ASSUME NEW p \in Nat, LowerAt(x, y, p) PROVE Before(x, y, n)
    <3>1. p \in 1 .. n
      BY <2>2 DEF LowerAt
    <3> QED
      BY <2>2, <3>1 DEF LowerAt, Before
  <2> QED
    BY <2>1, <2>2
<1> HIDE DEF n
<1>5. /\ ~(Before(x, y, n) /\ Before(y, x, n))
      /\ Before(x, y, n) \/ Before(y, x, n) \/ SameUpTo(x, y, n)
      /\ SameUpTo(x, y, n) => ~Before(x, y, n) /\ ~Before(y, x, n)
  BY <1>1, BytesDiffer
<1>6. Less(x, y) <=> Before(x, y, n) \/ Begins(x, y)
  BY <1>1, <1>2, <1>5 DEF Begins
<1>7. ~(Less(x, y) /\ Less(y, x))
  BY <1>1, <1>2, <1>3, <1>5
<1>8. ASSUME x # y PROVE Less(x, y) \/ Less(y, x)
  <2>1. CASE SameUpTo(x, y, n)
    <3>1. Len(x) # Len(y)
      <4>1. CASE Len(x) = Len(y)
        <5>1. n = Len(x) /\ \A m \in 1 .. Len(x) : x[m] = y[m]
          BY <1>1, <2>1, <4>1 DEF SameUpTo
        <5> QED
          BY <1>8, <4>1, <5>1, SeqEqual
      <4> QED
        BY <4>1
    <3> QED
      BY <1>1, <1>2, <1>3, <1>5, <2>1, <3>1
  <2> QED
    BY <1>2, <1>3, <1>5, <2>1
<1> QED
  BY <1>4, <1>6, <1>7, <1>8

(* operator< is transitive.                                                *)
LEMMA LessOn ==
  ASSUME NEW x \in Seq(Nat), NEW y \in Seq(Nat), NEW z \in Seq(Nat),
         Less(x, y), Less(y, z)
  PROVE  Less(x, z)
PROOF
<1>1. /\ Len(x) \in Nat /\ Len(y) \in Nat /\ Len(z) \in Nat
      /\ \A m \in 1 .. Len(x) : x[m] \in Nat
      /\ \A m \in 1 .. Len(y) : y[m] \in Nat
      /\ \A m \in 1 .. Len(z) : z[m] \in Nat
  BY ElementOfSeq
<1>2. (\E p \in Nat : LowerAt(x, y, p)) \/ Begins(x, y)
  BY LessIs
<1>3. (\E p \in Nat : LowerAt(y, z, p)) \/ Begins(y, z)
  BY LessIs
<1>4. SUFFICES (\E p \in Nat : LowerAt(x, z, p)) \/ Begins(x, z)
  BY LessIs
<1>5. ASSUME NEW p \in Nat, LowerAt(x, y, p), NEW q \in Nat, LowerAt(y, z, q)
      PROVE  \E r \in Nat : LowerAt(x, z, r)
  <2>1. CASE p < q
    <3>1. p \in 1 .. q - 1 /\ p \in 1 .. Len(x) /\ p \in 1 .. Len(z)
      BY <1>1, <1>5, <2>1 DEF LowerAt
    <3>2. x[p] < z[p]
      BY <1>5, <3>1 DEF LowerAt
    <3>3. \A m \in 1 .. p - 1 : x[m] = y[m] /\ m \in 1 .. q - 1
      BY <1>5, <2>1 DEF LowerAt
    <3>4. \A m \in 1 .. p - 1 : x[m] = z[m]
      BY <1>5, <3>3 DEF LowerAt
    <3> QED
      BY <3>1, <3>2, <3>4 DEF LowerAt
  <2>2. CASE q <= p
    <3>1. q \in 1 .. Len(x) /\ q \in 1 .. Len(y) /\ q \in 1 .. Len(z) /\ (q = p \/ q \in 1 .. p - 1)
      BY SMTT(60), <1>1, <1>5, <2>2 DEF LowerAt
    <3>2. /\ y[q] < z[q] /\ (q = p => x[q] < y[q])
          /\ (q \in 1 .. p - 1 => x[q] = y[q])
      BY <1>5, Zenon DEF LowerAt
    <3>3. x[q] < z[q]
      <4>1. x[q] \in Nat /\ y[q] \in Nat /\ z[q] \in Nat
        BY <1>1, <3>1
      <4> QED
        BY SMTT(60), <3>1, <3>2, <4>1
    <3>4. \A m \in 1 .. q - 1 : y[m] = z[m] /\ m \in 1 .. p - 1
      BY <1>5, <2>2 DEF LowerAt
    <3>5. \A m \in 1 .. q - 1 : x[m] = z[m]
      BY <1>5, <3>4 DEF LowerAt
    <3> QED
      BY <3>1, <3>3, <3>5 DEF LowerAt
  <2> QED
    BY <2>1, <2>2
<1>6. ASSUME NEW p \in Nat, LowerAt(x, y, p), Begins(y, z)
      PROVE  LowerAt(x, z, p)
  <2>1. /\ p \in 1 .. Len(x) /\ p \in 1 .. Len(y) /\ p \in 1 .. Len(z)
        /\ \A m \in 1 .. p - 1 : m \in 1 .. Len(y)
    BY SMTT(30), <1>1, <1>6 DEF LowerAt, Begins
  <2> QED
    BY <1>6, <2>1 DEF LowerAt, Begins, SameUpTo
<1>7. ASSUME Begins(x, y), NEW q \in Nat, LowerAt(y, z, q)
      PROVE  LowerAt(x, z, q) \/ Begins(x, z)
  <2>1. CASE q <= Len(x)
    <3>1. q \in 1 .. Len(x) /\ q \in 1 .. Len(z) /\ \A m \in 1 .. q - 1 : m \in 1 .. Len(x)
      BY <1>1, <1>7, <2>1 DEF LowerAt
    <3> QED
      BY <1>7, <3>1 DEF LowerAt, Begins, SameUpTo
  <2>2. CASE Len(x) < q
    <3>1. Len(x) < Len(z) /\ \A m \in 1 .. Len(x) : m \in 1 .. q - 1
      BY <1>1, <1>7, <2>2 DEF LowerAt
    <3> QED
      BY <1>7, <3>1 DEF LowerAt, Begins, SameUpTo
  <2> QED
    BY <1>1, <2>1, <2>2
<1>8. ASSUME Begins(x, y), Begins(y, z) PROVE Begins(x, z)
  <2>1. Len(x) < Len(z) /\ \A m \in 1 .. Len(x) : m \in 1 .. Len(y)
    BY <1>1, <1>8 DEF Begins
  <2> QED
    BY <1>8, <2>1 DEF Begins, SameUpTo
<1> QED
  BY <1>2, <1>3, <1>5, <1>6, <1>7, <1>8

(* The order of the addresses that the property looks at is strict.       *)
LEMMA OrderHolds == StrictOrder
PROOF
<1> DEFINE Addr == UNION {[1 .. n -> 0 .. 1] : n \in 1 .. 2}
<1>1. ASSUME NEW x \in Addr PROVE x \in Seq(Nat)
  <2>1. PICK n \in 1 .. 2 : x \in [1 .. n -> 0 .. 1]
    OBVIOUS
  <2>2. n \in Nat /\ x \in [1 .. n -> Nat]
    BY <2>1
  <2> QED
    BY <2>2
<1> HIDE DEF Addr
<1>2. \A x, y \in Addr :
        /\ Less(x, y) => ~Less(y, x)
        /\ x # y => Less(x, y) \/ Less(y, x)
        /\ \A z \in Addr : Less(x, y) /\ Less(y, z) => Less(x, z)
  BY <1>1, LessIs, LessOn
<1> QED
  BY <1>2, Zenon DEF StrictOrder, Addr

-----------------------------------------------------------------------------
(* The text of an IPv6 address.                                            *)

Groups == [1 .. 8 -> Nat]
Cells == (1 .. 9) \X BOOLEAN

(* What the writer adds at group m, and what it knows then.                *)
Opens(a, m, used) == m > 1 /\ a[m - 1] = 0 /\ ~used
Row6(a, f, m, used) ==
  IF m = 9 THEN IF ~used /\ a[8] = 0 THEN <<Colon, Colon>> ELSE <<>>
  ELSE IF Skips(a, m, used) THEN f[<<m + 1, used>>]
  ELSE (IF Opens(a, m, used) THEN <<Colon>> ELSE <<>>) \o (IF m > 1 THEN <<Colon>> ELSE <<>>)
         \o <<a[m]>> \o f[<<m + 1, used \/ Opens(a, m, used)>>]
Table6(a, f) == f = [p \in Cells |-> Row6(a, f, p[1], p[2])]

(* A cell and its two halves.                                              *)
LEMMA CellIs ==
  ASSUME NEW m \in 1 .. 9, NEW used \in BOOLEAN
  PROVE  <<m, used>> \in Cells /\ <<m, used>>[1] = m /\ <<m, used>>[2] = used
PROOF
<1>1. <<m, used>> \in (1 .. 9) \X BOOLEAN
  BY Zenon
<1> QED
  BY <1>1 DEF Cells

(* The recursion of insert() has a solution.                               *)
LEMMA TableExists == ASSUME NEW a PROVE \E f : Table6(a, f)
PROOF
<1> DEFINE rank == [p \in Cells |-> 9 - p[1]]
           stop == {p \in Cells : p[1] = 9}
           pass == {p \in Cells : Skips(a, p[1], p[2])}
           last == [p \in Cells |-> IF ~p[2] /\ a[8] = 0 THEN <<Colon, Colon>> ELSE <<>>]
           Gap(p) == Opens(a, p[1], p[2])
           piece == [p \in Cells |-> (IF Gap(p) THEN <<Colon>> ELSE <<>>)
                                       \o (IF p[1] > 1 THEN <<Colon>> ELSE <<>>) \o <<a[p[1]]>>]
           next == [p \in Cells |-> <<p[1] + 1, IF p \in pass THEN p[2] ELSE p[2] \/ Gap(p)>>]
<1>1. ASSUME NEW p \in Cells PROVE p[1] \in 1 .. 9 /\ p[2] \in BOOLEAN
  BY DEF Cells
<1>2. rank \in [Cells -> 0 .. 8] /\ 8 \in Nat
  BY <1>1
<1>3. ASSUME NEW p \in Cells, p \notin stop PROVE next[p] \in Cells /\ rank[next[p]] < rank[p]
  <2> DEFINE n == p[1] + 1
             on == IF p \in pass THEN p[2] ELSE p[2] \/ Gap(p)
  <2>1. n \in 1 .. 9 /\ next[p] = <<n, on>>
    BY <1>1, <1>3
  <2>2. on \in BOOLEAN
    <3> HIDE DEF pass
    <3> QED
      BY <1>1, Zenon DEF Opens
  <2> HIDE DEF n, on, next
  <2>3. next[p] \in Cells /\ next[p][1] = n
    BY <2>1, <2>2, CellIs
  <2> QED
    BY <1>1, <2>1, <2>3 DEF n
<1>4. ASSUME NEW f
      PROVE  Table6(a, f) <=> PieceWise(f, Cells, stop, pass, last, piece, next)
  <2> DEFINE Row2(p) == IF p \in stop THEN last[p] ELSE IF p \in pass THEN f[next[p]]
                        ELSE piece[p] \o f[next[p]]
  <2>1. ASSUME NEW p \in Cells PROVE Row6(a, f, p[1], p[2]) = Row2(p)
    <3>1. CASE p \in stop
      BY <3>1, Zenon DEF Row6
    <3>2. CASE p \notin stop /\ p \in pass
      <4>1. p[1] # 9 /\ Skips(a, p[1], p[2])
        BY <3>2
      <4>2. next[p] = <<p[1] + 1, p[2]>>
        <5> HIDE DEF pass
        <5> QED
          BY <3>2, Zenon
      <4> HIDE DEF stop, pass, next
      <4> QED
        BY <3>2, <4>1, <4>2, Zenon DEF Row6
    <3>3. CASE p \notin stop /\ p \notin pass
      <4>1. p[1] # 9 /\ ~Skips(a, p[1], p[2])
        BY <3>3
      <4>2. next[p] = <<p[1] + 1, p[2] \/ Gap(p)>>
        <5> HIDE DEF pass
        <5> QED
          BY <3>3, Zenon
      <4>3. piece[p] = (IF Gap(p) THEN <<Colon>> ELSE <<>>)
                         \o (IF p[1] > 1 THEN <<Colon>> ELSE <<>>) \o <<a[p[1]]>>
        BY Zenon
      <4> HIDE DEF stop, pass, next, piece
      <4> QED
        BY <3>3, <4>1, <4>2, <4>3, Zenon DEF Row6
    <3> QED
      BY <3>1, <3>2, <3>3
  <2>2. [p \in Cells |-> Row6(a, f, p[1], p[2])] = [p \in Cells |-> Row2(p)]
    <3> HIDE DEF Row2
    <3> QED
      BY <2>1
  <2>3. PieceWise(f, Cells, stop, pass, last, piece, next) <=> f = [p \in Cells |-> Row2(p)]
    <3> HIDE DEF stop, pass, last, piece, next
    <3> QED
      BY Zenon DEF PieceWise
  <2> HIDE DEF Row2, stop, pass, last, piece, next
  <2> QED
    BY <2>2, <2>3, Zenon DEF Table6
<1> HIDE DEF rank, stop, pass, last, piece, next
<1>5. \E f : PieceWise(f, Cells, stop, pass, last, piece, next)
  BY <1>2, <1>3, PieceWiseExists
<1> QED
  BY <1>4, <1>5, Zenon

(* The text of an address is what its table has for the first group.       *)
LEMMA TableHas == ASSUME NEW a PROVE \E f : Table6(a, f) /\ Text6(a) = f[<<1, FALSE>>]
PROOF
<1> DEFINE f == CHOOSE t : Table6(a, t)
<1>1. Table6(a, f)
  BY TableExists, Zenon
<1>2. Text6(a) = f[<<1, FALSE>>]
  BY Zenon DEF Text6, Table6, Row6, Cells, Opens
<1> QED
  BY <1>1, <1>2, Zenon

(* A row of the table follows from the rows below it.                      *)
LEMMA RowIs ==
  ASSUME NEW a, NEW f, Table6(a, f), NEW m \in 1 .. 9, NEW used \in BOOLEAN
  PROVE  f[<<m, used>>] = Row6(a, f, m, used)
PROOF
<1> DEFINE p == <<m, used>>
<1>1. p \in Cells /\ p[1] = m /\ p[2] = used
  BY CellIs
<1> HIDE DEF p
<1>2. f[p] = Row6(a, f, p[1], p[2])
  BY <1>1, Zenon DEF Table6
<1> QED
  BY <1>1, <1>2 DEF p

(* A colon is a sign that no group is.                                     *)
LEMMA SignsOf == Colon \in Int /\ \A x \in Nat : x # Colon /\ x \in Int
  BY DEF Colon

(* Two signs in front of a text.                                           *)
LEMMA TwoBefore ==
  ASSUME NEW x \in Int, NEW y \in Int, NEW s \in Seq(Int)
  PROVE  /\ (<<x>> \o <<y>>) \o s \in Seq(Int) /\ Len((<<x>> \o <<y>>) \o s) = Len(s) + 2
         /\ ((<<x>> \o <<y>>) \o s)[1] = x /\ ((<<x>> \o <<y>>) \o s)[2] = y
         /\ \A n \in 1 .. Len(s) : ((<<x>> \o <<y>>) \o s)[n + 2] = s[n]
PROOF
<1> DEFINE u == <<x>>
           v == <<y>>
           t == u \o v
<1>1. /\ u \in Seq(Int) /\ Len(u) = 1 /\ u[1] = x
      /\ v \in Seq(Int) /\ Len(v) = 1 /\ v[1] = y /\ Len(s) \in Nat
  OBVIOUS
<1> HIDE DEF u, v
<1>2. t \in Seq(Int) /\ Len(t) = 2 /\ t[1] = x /\ t[2] = y
  <2>1. /\ t \in Seq(Int) /\ Len(t) = Len(u) + Len(v)
        /\ \A n \in 1 .. Len(u) + Len(v) : t[n] = IF n <= Len(u) THEN u[n] ELSE v[n - Len(u)]
    BY <1>1, ConcatProperties
  <2> HIDE DEF t
  <2> QED
    BY <1>1, <2>1
<1> HIDE DEF t
<1>3. /\ t \o s \in Seq(Int) /\ Len(t \o s) = Len(t) + Len(s)
      /\ \A n \in 1 .. Len(t) + Len(s) : (t \o s)[n] = IF n <= Len(t) THEN t[n] ELSE s[n - Len(t)]
  BY <1>2, ConcatProperties
<1>4. ASSUME NEW n \in 1 .. Len(s) PROVE (t \o s)[n + 2] = s[n]
  <2>1. n + 2 \in 1 .. Len(t) + Len(s) /\ ~(n + 2 <= Len(t)) /\ n + 2 - Len(t) = n
    BY <1>1, <1>2
  <2> QED
    BY <1>3, <2>1
<1>5. 1 \in 1 .. Len(t) + Len(s) /\ 2 \in 1 .. Len(t) + Len(s) /\ Len(t) + Len(s) = Len(s) + 2
  BY <1>1, <1>2
<1>6. (t \o s)[1] = x /\ (t \o s)[2] = y
  BY <1>2, <1>3, <1>5
<1> QED
  BY <1>3, <1>4, <1>5, <1>6 DEF t, u, v

(* One sign before a text.                                                 *)
LEMMA OneBefore ==
  ASSUME NEW x \in Int, NEW s \in Seq(Int)
  PROVE  /\ <<x>> \o s \in Seq(Int) /\ Len(<<x>> \o s) = Len(s) + 1 /\ (<<x>> \o s)[1] = x
         /\ \A n \in 1 .. Len(s) : (<<x>> \o s)[n + 1] = s[n]
PROOF
<1> DEFINE u == <<x>>
<1>1. u \in Seq(Int) /\ Len(u) = 1 /\ u[1] = x /\ Len(s) \in Nat
  OBVIOUS
<1> HIDE DEF u
<1>2. /\ u \o s \in Seq(Int) /\ Len(u \o s) = Len(u) + Len(s)
      /\ \A n \in 1 .. Len(u) + Len(s) : (u \o s)[n] = IF n <= Len(u) THEN u[n] ELSE s[n - Len(u)]
  BY <1>1, ConcatProperties
<1>3. ASSUME NEW n \in 1 .. Len(s) PROVE (u \o s)[n + 1] = s[n]
  <2>1. n + 1 \in 1 .. Len(u) + Len(s) /\ ~(n + 1 <= Len(u)) /\ n + 1 - Len(u) = n
    BY <1>1
  <2> QED
    BY <1>2, <2>1
<1>4. 1 \in 1 .. Len(u) + Len(s) /\ Len(u) + Len(s) = Len(s) + 1
  BY <1>1
<1>5. (u \o s)[1] = x
  BY <1>1, <1>2, <1>4
<1> QED
  BY <1>2, <1>3, <1>4, <1>5 DEF u

(* s is ":" and a group, for each group from b up to e, and R behind.      *)
Spells(a, s, b, e, R) ==
  /\ s \in Seq(Int) /\ Len(s) = 2 * (e - b) + Len(R)
  /\ \A m \in 1 .. e - b : s[2 * m - 1] = Colon /\ s[2 * m] = a[b + m - 1]
  /\ \A j \in 1 .. Len(R) : s[2 * (e - b) + j] = R[j]

(* One group more before a text that spells some.                          *)
LEMMA SpellsMore ==
  ASSUME NEW a \in Groups, NEW e \in 1 .. 9, NEW b \in 1 .. e - 1, NEW s, NEW R \in Seq(Int),
         Spells(a, s, b + 1, e, R)
  PROVE  Spells(a, (<<Colon>> \o <<a[b]>>) \o s, b, e, R)
PROOF
<1> DEFINE d == e - b
           t == (<<Colon>> \o <<a[b]>>) \o s
<1>1. d \in Nat /\ d >= 1 /\ e - (b + 1) = d - 1 /\ b \in 1 .. 8 /\ Len(R) \in Nat
  OBVIOUS
<1>2. a[b] \in Int /\ Colon \in Int
  BY <1>1, SignsOf DEF Groups
<1>3. /\ s \in Seq(Int) /\ Len(s) = 2 * (d - 1) + Len(R)
      /\ \A m \in 1 .. d - 1 : s[2 * m - 1] = Colon /\ s[2 * m] = a[(b + 1) + m - 1]
      /\ \A j \in 1 .. Len(R) : s[2 * (d - 1) + j] = R[j]
  <2> HIDE DEF d
  <2> QED
    BY <1>1, Zenon DEF Spells
<1>4. /\ t \in Seq(Int) /\ Len(t) = Len(s) + 2 /\ t[1] = Colon /\ t[2] = a[b]
      /\ \A n \in 1 .. Len(s) : t[n + 2] = s[n]
  <2>1. a[b] \in Int /\ Colon \in Int /\ s \in Seq(Int)
    BY <1>2, <1>3
  <2> QED
    BY <2>1, TwoBefore, SMTT(30)
<1> HIDE DEF d, t
<1>5. Len(t) = 2 * d + Len(R)
  BY <1>1, <1>3, <1>4
<1>6. ASSUME NEW m \in 1 .. d PROVE t[2 * m - 1] = Colon /\ t[2 * m] = a[b + m - 1]
  <2>1. CASE m = 1
    <3>1. 2 * m - 1 = 1 /\ 2 * m = 2 /\ b + m - 1 = b
      BY <1>1, <2>1
    <3> QED
      BY <1>4, <3>1
  <2>2. CASE m # 1
    <3> DEFINE n == m - 1
    <3>1. /\ n \in 1 .. d - 1 /\ 2 * n - 1 \in 1 .. Len(s) /\ 2 * n \in 1 .. Len(s)
          /\ 2 * m - 1 = 2 * n - 1 + 2 /\ 2 * m = 2 * n + 2 /\ b + m - 1 = (b + 1) + n - 1
      BY <1>1, <1>3, <2>2
    <3> HIDE DEF n
    <3> QED
      BY <1>3, <1>4, <3>1, ZenonT(60)
  <2> QED
    BY <2>1, <2>2
<1>7. ASSUME NEW j \in 1 .. Len(R) PROVE t[2 * d + j] = R[j]
  <2>1. 2 * (d - 1) + j \in 1 .. Len(s) /\ 2 * d + j = 2 * (d - 1) + j + 2
    <3>1. d \in Int /\ 1 <= d /\ j \in Int /\ 1 <= j /\ j <= Len(R) /\ Len(R) \in Int
      BY <1>1
    <3>2. Len(s) = 2 * (d - 1) + Len(R)
      BY <1>3
    <3>3. 2 * (d - 1) + j = (2 * d + j) - 2 /\ 2 * d + j \in Int
      BY <3>1
    <3>4. 2 * (d - 1) + j \in 1 .. Len(s)
      BY <3>1, <3>2
    <3> QED
      BY <3>3, <3>4
  <2> QED
    BY <1>3, <1>4, <2>1
<1>8. Spells(a, t, b, e, R)
  BY <1>4, <1>5, <1>6, <1>7 DEF Spells, d
<1> QED
  BY <1>8 DEF t

(* Where no row opens a gap, the table spells the groups from any b on.    *)
LEMMA SpellsFrom ==
  ASSUME NEW a \in Groups, NEW f, NEW used, NEW e \in 1 .. 9, f[<<e, used>>] \in Seq(Int),
         \A m \in 2 .. e - 1 : f[<<m, used>>] = (<<Colon>> \o <<a[m]>>) \o f[<<m + 1, used>>]
  PROVE  \A b \in 2 .. e : Spells(a, f[<<b, used>>], b, e, f[<<e, used>>])
PROOF
<1> DEFINE R == f[<<e, used>>]
           good == {b \in 1 .. 8 + 1 : b \in 2 .. e => Spells(a, f[<<b, used>>], b, e, R)}
<1>1. Spells(a, R, e, e, R)
  <2>1. e - e = 0 /\ 2 * 0 = 0 /\ 1 .. 0 = {} /\ Len(R) \in Nat /\ \A j \in 1 .. Len(R) : 0 + j = j
    OBVIOUS
  <2> HIDE DEF R
  <2>2. Len(R) = 0 + Len(R)
    BY <2>1
  <2> QED
    BY <2>1, <2>2 DEF Spells, R
<1>2. ASSUME NEW b \in 1 .. 8 + 1, \A m \in 1 .. 8 + 1 : b < m => m \in good
      PROVE  b \in good
  <2>1. SUFFICES ASSUME b \in 2 .. e PROVE Spells(a, f[<<b, used>>], b, e, R)
    <3> HIDE DEF R
    <3> QED
      BY Zenon
  <2>2. CASE b = e
    BY <1>1, <2>2
  <2>3. CASE b # e
    <3>1. b \in 1 .. e - 1 /\ b + 1 \in 2 .. e /\ b + 1 \in 1 .. 8 + 1 /\ b < b + 1 /\ b \in 2 .. e - 1
      BY <2>1, <2>3
    <3>2. Spells(a, f[<<b + 1, used>>], b + 1, e, R)
      <4>1. b + 1 \in good
        BY <1>2, <3>1
      <4> QED
        BY <3>1, <4>1
    <3>3. f[<<b, used>>] = (<<Colon>> \o <<a[b]>>) \o f[<<b + 1, used>>]
      BY <3>1
    <3> HIDE DEF R
    <3>4. Spells(a, (<<Colon>> \o <<a[b]>>) \o f[<<b + 1, used>>], b, e, R)
      BY <3>1, <3>2, SpellsMore DEF R
    <3> QED
      BY <3>3, <3>4
  <2> QED
    BY <2>2, <2>3
<1>3. 1 .. 8 + 1 \subseteq good
  <2>1. 8 \in Nat
    OBVIOUS
  <2> HIDE DEF good
  <2> QED
    BY <1>2, <2>1, FromTheEnd
<1>4. ASSUME NEW b \in 2 .. e PROVE Spells(a, f[<<b, used>>], b, e, R)
  <2>1. b \in 1 .. 8 + 1
    OBVIOUS
  <2>2. b \in good
    <3> HIDE DEF good
    <3> QED
      BY <1>3, <2>1
  <2> HIDE DEF R
  <2> QED
    BY <2>2
<1> QED
  BY <1>4

(* q lists the places of the m numbers in t.                               *)
Lists(q, m, t) ==
  DOMAIN t \in SUBSET Int /\ Ascends(q, m, {n \in DOMAIN t : t[n] # Colon})

(* The numbers of a text, when their places are listed.                    *)
LEMMA NumbersAre ==
  ASSUME NEW t, NEW m \in Nat, NEW q, Lists(q, m, t)
  PROVE  Numbers(t) = [n \in 1 .. m |-> t[q[n]]]
PROOF
<1> DEFINE at == {n \in DOMAIN t : t[n] # Colon}
<1>1. at \in SUBSET Int /\ Ascends(q, m, at)
  BY DEF Lists
<1>2. Numbers(t) = [n \in 1 .. Cardinality(at) |-> t[NthOf(at, n)]]
  BY Zenon DEF Numbers, NthOf
<1> HIDE DEF at
<1>3. Cardinality(at) = m
  BY <1>1, AscendsCount
<1>4. ASSUME NEW n \in 1 .. m PROVE NthOf(at, n) = q[n]
  BY <1>1, AscendsNth
<1> QED
  BY <1>2, <1>3, <1>4

(* A place is even or odd.                                                 *)
LEMMA Parity == \A n \in Nat : \E m \in Nat : n = 2 * m \/ n = 2 * m + 1
PROOF
<1> TAKE n \in Nat
<1> DEFINE m == n \div 2
           r == n % 2
<1>1. m \in Int /\ r \in 0 .. 1 /\ r = n - 2 * m
  <2>1. n % 2 = n - 2 * (n \div 2)
    OBVIOUS
  <2>2. n % 2 \in 0 .. 1
    OBVIOUS
  <2>3. n \div 2 \in Int
    OBVIOUS
  <2> QED
    BY <2>1, <2>2, <2>3
<1> HIDE DEF m, r
<1>2. n = 2 * m + r
  BY <1>1
<1>3. m \in Nat
  BY <1>1, <1>2
<1>4. n = 2 * m \/ n = 2 * m + 1
  BY <1>1, <1>2
<1> QED
  BY <1>3, <1>4

(* What stands before a run of zeros from u on: h signs, the groups at odd *)
(* places.  What stands from it on, with the groups from w on behind "::". *)
Leading(a, s, u, h, R) ==
  /\ s \in Seq(Int) /\ h \in Nat /\ Len(s) = h + Len(R)
  /\ h = IF u = 1 THEN 0 ELSE 2 * u - 3
  /\ \A n \in 1 .. u - 1 : s[2 * n - 1] = a[n] /\ s[2 * n] = Colon
  /\ \A j \in 1 .. Len(R) : s[h + j] = R[j]
Follows(a, R, w) ==
  /\ R \in Seq(Int) /\ R[1] = Colon /\ R[2] = Colon
  /\ Len(R) = IF w = 9 THEN 2 ELSE 2 * (9 - w) + 1
  /\ \A m \in 1 .. 9 - w : R[2 * m] = Colon /\ R[2 * m + 1] = a[w + m - 1]

(* No group is a colon.                                                    *)
LEMMA GroupsAre ==
  ASSUME NEW a \in Groups
  PROVE  \A m \in 1 .. 8 : a[m] \in Nat /\ a[m] \in Int /\ a[m] # Colon
  BY SignsOf DEF Groups

(* The numbers behind "::".                                                *)
LEMMA TailNumbers ==
  ASSUME NEW a \in Groups, NEW R, NEW w \in 2 .. 9, Follows(a, R, w)
  PROVE  Numbers(R) = [m \in 1 .. 9 - w |-> a[w + m - 1]]
PROOF
<1> DEFINE d == 9 - w
           q == [m \in 1 .. d |-> 2 * m + 1]
           at == {n \in DOMAIN R : R[n] # Colon}
<1>1. /\ d \in 0 .. 7 /\ R \in Seq(Int) /\ DOMAIN R = 1 .. Len(R) /\ R[1] = Colon /\ R[2] = Colon
      /\ Len(R) = (IF d = 0 THEN 2 ELSE 2 * d + 1) /\ Len(R) \in Nat
      /\ \A m \in 1 .. d : R[2 * m] = Colon /\ R[2 * m + 1] = a[w + m - 1]
  <2>1. d \in 0 .. 7 /\ (w = 9 <=> d = 0)
    OBVIOUS
  <2>2. /\ R \in Seq(Int) /\ R[1] = Colon /\ R[2] = Colon
        /\ Len(R) = (IF w = 9 THEN 2 ELSE 2 * d + 1)
        /\ \A m \in 1 .. d : R[2 * m] = Colon /\ R[2 * m + 1] = a[w + m - 1]
    BY Zenon DEF Follows
  <2>3. R \in Seq(Int)
    BY <2>2
  <2>4. DOMAIN R = 1 .. Len(R) /\ Len(R) \in Nat
    BY <2>3
  <2> HIDE DEF d
  <2> QED
    BY <2>1, <2>2, <2>4
<1>2. ASSUME NEW m \in 1 .. d
      PROVE  2 * m + 1 \in 1 .. Len(R) /\ a[w + m - 1] \in Nat /\ a[w + m - 1] # Colon
  <2> DEFINE x == w + m - 1
  <2>1. x \in 1 .. 8
    OBVIOUS
  <2> HIDE DEF d, x
  <2>2. a[x] \in Nat /\ a[x] # Colon
    BY <2>1, GroupsAre
  <2>3. 2 * m + 1 \in 1 .. Len(R)
    BY <1>1
  <2> QED
    BY <2>2, <2>3 DEF x
<1> HIDE DEF d
<1>3. ASSUME NEW n \in at PROVE \E m \in 1 .. d : q[m] = n
  <2>1. n \in 1 .. Len(R) /\ R[n] # Colon /\ n \in Nat
    BY <1>1
  <2>2. PICK m \in Nat : n = 2 * m \/ n = 2 * m + 1
    BY <2>1, Parity
  <2>3. CASE n = 2 * m
    <3>1. m = 1 \/ m \in 1 .. d
      BY <1>1, <2>1, <2>3
    <3> QED
      BY <1>1, <2>1, <2>3, <3>1
  <2>4. CASE n = 2 * m + 1
    <3>1. m = 0 \/ m \in 1 .. d
      BY <1>1, <2>1, <2>4
    <3>2. m # 0
      BY <1>1, <2>1, <2>4
    <3> QED
      BY <2>4, <3>1, <3>2
  <2> QED
    BY <2>2, <2>3, <2>4
<1>4. ASSUME NEW m \in 1 .. d PROVE q[m] \in at
  BY <1>1, <1>2
<1>5. ASSUME NEW m \in 1 .. d, NEW n \in 1 .. d, m < n PROVE q[m] < q[n]
  BY <1>1, <1>5
<1>6. Ascends(q, d, at)
  <2>1. q \in [1 .. d -> at]
    <3> HIDE DEF at
    <3> QED
      BY <1>4
  <2> HIDE DEF q, at
  <2> QED
    BY <1>3, <1>5, <2>1 DEF Ascends
<1>7. DOMAIN R \in SUBSET Int /\ d \in Nat
  BY <1>1
<1> HIDE DEF q
<1>8. Numbers(R) = [m \in 1 .. d |-> R[q[m]]]
  BY <1>6, <1>7, NumbersAre DEF Lists
<1>9. ASSUME NEW m \in 1 .. d PROVE R[q[m]] = a[w + m - 1]
  BY <1>1 DEF q
<1>10. Numbers(R) = [m \in 1 .. d |-> a[w + m - 1]]
  BY <1>8, <1>9
<1> QED
  BY <1>10 DEF d

(* The numbers before it.                                                  *)
LEMMA HeadNumbers ==
  ASSUME NEW a \in Groups, NEW s, NEW u \in 1 .. 8, NEW h, NEW R \in Seq(Int), Len(R) >= 2,
         R[1] = Colon, Leading(a, s, u, h, R)
  PROVE  Numbers(SubSeq(s, 1, h + 1)) = [m \in 1 .. u - 1 |-> a[m]]
PROOF
<1> DEFINE d == u - 1
           g == h + 1
           t == SubSeq(s, 1, g)
           q == [m \in 1 .. d |-> 2 * m - 1]
           at == {n \in DOMAIN t : t[n] # Colon}
<1>1. /\ d \in 0 .. 7 /\ s \in Seq(Int) /\ g \in Nat /\ g <= Len(s) /\ Len(s) \in Nat
      /\ g = (IF d = 0 THEN 1 ELSE 2 * d) /\ s[g] = Colon
      /\ \A m \in 1 .. d : s[2 * m - 1] = a[m] /\ s[2 * m] = Colon
  <2>1. /\ s \in Seq(Int) /\ h \in Nat /\ Len(s) = h + Len(R)
        /\ h = (IF u = 1 THEN 0 ELSE 2 * u - 3) /\ s[h + 1] = R[1]
        /\ \A m \in 1 .. u - 1 : s[2 * m - 1] = a[m] /\ s[2 * m] = Colon
    <3>1. /\ s \in Seq(Int) /\ h \in Nat /\ Len(s) = h + Len(R)
          /\ h = (IF u = 1 THEN 0 ELSE 2 * u - 3)
          /\ \A m \in 1 .. u - 1 : s[2 * m - 1] = a[m] /\ s[2 * m] = Colon
          /\ \A j \in 1 .. Len(R) : s[h + j] = R[j]
      BY Zenon DEF Leading
    <3>2. 1 \in 1 .. Len(R)
      OBVIOUS
    <3> QED
      BY <3>1, <3>2
  <2>2. d \in 0 .. 7 /\ (u = 1 <=> d = 0) /\ (u # 1 => 2 * u - 3 + 1 = 2 * d)
    OBVIOUS
  <2>3. Len(s) \in Nat /\ Len(R) \in Nat
    BY <2>1
  <2>4. g \in Nat /\ g <= Len(s) /\ g = (IF d = 0 THEN 1 ELSE 2 * d)
    <3> HIDE DEF d
    <3> QED
      BY SMTT(30), <2>1, <2>2, <2>3
  <2> QED
    BY <2>1, <2>2, <2>3, <2>4
<1> HIDE DEF g
<1>2. DOMAIN t = 1 .. g /\ \A n \in 1 .. g : t[n] = s[n]
  <2>1. 1 \in 1 .. Len(s) + 1 /\ g \in 1 - 1 .. Len(s) /\ g - 1 + 1 = g
    BY <1>1
  <2>2. \A n \in 1 .. g : 1 + n - 1 = n
    OBVIOUS
  <2>3. DOMAIN t = 1 .. g - 1 + 1 /\ \A n \in 1 .. g - 1 + 1 : t[n] = s[1 + n - 1]
    BY <1>1, <2>1, PartOf
  <2> HIDE DEF t
  <2> QED
    BY <2>1, <2>2, <2>3
<1> HIDE DEF t
<1>3. ASSUME NEW m \in 1 .. d
      PROVE  /\ 2 * m - 1 \in 1 .. g /\ t[2 * m - 1] = a[m]
             /\ a[m] \in Nat /\ a[m] # Colon
  <2>1. m \in 1 .. 8
    OBVIOUS
  <2> HIDE DEF d
  <2>2. 2 * m - 1 \in 1 .. g
    BY <1>1
  <2> QED
    BY <1>1, <1>2, <2>1, <2>2, GroupsAre
<1> HIDE DEF d
<1>4. ASSUME NEW n \in at PROVE \E m \in 1 .. d : q[m] = n
  <2>1. n \in 1 .. g /\ s[n] # Colon /\ n \in Nat
    BY <1>2
  <2>2. PICK m \in Nat : n = 2 * m \/ n = 2 * m + 1
    BY <2>1, Parity
  <2>3. CASE n = 2 * m
    <3>1. m \in 1 .. d
      BY <1>1, <2>1, <2>3
    <3> QED
      BY <1>1, <2>1, <2>3, <3>1
  <2>4. CASE n = 2 * m + 1
    <3>1. d # 0
      BY <1>1, <2>1, <2>4
    <3>2. m + 1 \in 1 .. d /\ 2 * (m + 1) - 1 = n
      BY <1>1, <2>1, <2>4, <3>1
    <3> QED
      BY <3>2
  <2> QED
    BY <2>2, <2>3, <2>4
<1>5. ASSUME NEW m \in 1 .. d PROVE q[m] \in at
  BY <1>2, <1>3
<1>6. ASSUME NEW m \in 1 .. d, NEW n \in 1 .. d, m < n PROVE q[m] < q[n]
  BY <1>1, <1>6
<1>7. Ascends(q, d, at)
  <2>1. q \in [1 .. d -> at]
    <3> HIDE DEF at
    <3> QED
      BY <1>5
  <2> HIDE DEF q, at
  <2> QED
    BY <1>4, <1>6, <2>1 DEF Ascends
<1>8. DOMAIN t \in SUBSET Int /\ d \in Nat
  BY <1>1, <1>2
<1> HIDE DEF q
<1>9. Numbers(t) = [m \in 1 .. d |-> t[q[m]]]
  BY <1>7, <1>8, NumbersAre DEF Lists
<1>10. ASSUME NEW m \in 1 .. d PROVE t[q[m]] = a[m]
  BY <1>3 DEF q
<1>11. Numbers(t) = [m \in 1 .. d |-> a[m]]
  BY <1>9, <1>10
<1> QED
  BY <1>11 DEF d, t, g

(* Only the signs around the run are two colons in a row.                  *)
LEMMA OneGap ==
  ASSUME NEW a \in Groups, NEW s, NEW u \in 1 .. 8, NEW w \in u + 1 .. 9, NEW h, NEW R,
         Leading(a, s, u, h, R), Follows(a, R, w)
  PROVE  {n \in 1 .. Len(s) - 1 : s[n] = Colon /\ s[n + 1] = Colon} = {h + 1}
PROOF
<1> DEFINE d == 9 - w
           L == Len(R)
<1>1. /\ s \in Seq(Int) /\ h \in Nat /\ Len(s) = h + L
      /\ h = (IF u = 1 THEN 0 ELSE 2 * u - 3)
      /\ \A n \in 1 .. u - 1 : s[2 * n - 1] = a[n] /\ s[2 * n] = Colon
      /\ \A j \in 1 .. L : s[h + j] = R[j]
  BY Zenon DEF Leading
<1>2. /\ R[1] = Colon /\ R[2] = Colon /\ L = (IF w = 9 THEN 2 ELSE 2 * d + 1)
      /\ \A m \in 1 .. d : R[2 * m] = Colon /\ R[2 * m + 1] = a[w + m - 1]
  BY Zenon DEF Follows
<1>3. d \in 0 .. 7 /\ (w = 9 <=> d = 0) /\ u \in Nat
  OBVIOUS
<1>4. ASSUME NEW m \in 1 .. d PROVE R[2 * m + 1] # Colon
  <2> DEFINE x == w + m - 1
  <2>1. x \in 1 .. 8
    OBVIOUS
  <2> HIDE DEF d, x
  <2>2. a[x] # Colon
    BY <2>1, GroupsAre
  <2> QED
    BY <1>2, <2>2 DEF x
<1>5. ASSUME NEW n \in 1 .. u - 1 PROVE s[2 * n - 1] # Colon
  <2>1. n \in 1 .. 8
    OBVIOUS
  <2> QED
    BY <1>1, <2>1, GroupsAre
<1> HIDE DEF d, L
<1>6. L \in Nat /\ L >= 2
  BY <1>2, <1>3
<1>7. h + 1 \in 1 .. Len(s) - 1 /\ s[h + 1] = Colon /\ s[(h + 1) + 1] = Colon
  <2>1. 1 \in 1 .. L /\ 2 \in 1 .. L /\ (h + 1) + 1 = h + 2 /\ h + 1 \in 1 .. Len(s) - 1
    BY <1>1, <1>6
  <2> QED
    BY <1>1, <1>2, <2>1, ZenonT(60)
<1>8. ASSUME NEW n \in 1 .. Len(s) - 1, s[n] = Colon, s[n + 1] = Colon PROVE n = h + 1
  <2>1. n \in Nat /\ n >= 1 /\ n < Len(s)
    BY <1>1, <1>6
  <2>2. CASE n <= h
    <3>1. u # 1 /\ n <= 2 * u - 3
      BY <1>1, <2>1, <2>2
    <3>2. PICK m \in Nat : n = 2 * m \/ n = 2 * m + 1
      BY <2>1, Parity
    <3> DEFINE x == m + 1
    <3>3. x \in 1 .. u - 1
      BY <1>3, <3>1, <3>2
    <3>4. (n = 2 * m => 2 * x - 1 = n + 1) /\ (n = 2 * m + 1 => 2 * x - 1 = n)
      BY <2>1
    <3> HIDE DEF x
    <3>5. s[2 * x - 1] # Colon
      BY <1>5, <3>3
    <3> QED
      BY <1>8, <3>2, <3>4, <3>5
  <2>3. CASE h + 1 < n
    <3> DEFINE j == n - h
    <3>1. /\ j \in Nat /\ j \in 2 .. L - 1 /\ j \in 1 .. L /\ j + 1 \in 1 .. L
          /\ h + j = n /\ h + (j + 1) = n + 1
      <4>1. h \in Int /\ n \in Int /\ L \in Int /\ h + 1 < n /\ n < h + L
        BY <1>1, <1>6, <2>1, <2>3
      <4>2. 2 <= j /\ j <= L - 1 /\ j \in Int
        BY <4>1
      <4> QED
        BY <4>1, <4>2
    <3> HIDE DEF j
    <3>2. R[j] = Colon /\ R[j + 1] = Colon
      BY <1>1, <1>8, <3>1
    <3>3. PICK m \in Nat : j = 2 * m \/ j = 2 * m + 1
      BY <3>1, Parity
    <3>4. L = 2 * d + 1
      BY <1>2, <1>3, <3>1
    <3>5. m \in 1 .. d
      BY <1>3, <3>1, <3>3, <3>4
    <3> QED
      BY <1>4, <3>2, <3>3, <3>5
  <2> QED
    BY <1>1, <2>1, <2>2, <2>3
<1> QED
  BY <1>7, <1>8

(* A function on 1 .. n is a sequence of length n.                         *)
LEMMA SeqOf ==
  ASSUME NEW T, NEW n \in Nat, NEW s \in [1 .. n -> T]
  PROVE  s \in Seq(T) /\ Len(s) = n
  OBVIOUS

(* The groups before a gap, those behind it, and both with the gap filled.  *)
UpTo(a, u) == [m \in 1 .. u - 1 |-> a[m]]
Behind(a, w) == [m \in 1 .. 9 - w |-> a[w + m - 1]]
Filled(x, y) == x \o [n \in 1 .. 8 - Len(x) - Len(y) |-> 0] \o y

(* Zeros in the place of the gap give the address back.                    *)
LEMMA GapFilled ==
  ASSUME NEW a \in Groups, NEW u \in 1 .. 8, NEW w \in u + 1 .. 9,
         \A m \in u .. w - 1 : a[m] = 0
  PROVE  Filled(UpTo(a, u), Behind(a, w)) = a
PROOF
<1> DEFINE x == UpTo(a, u)
           y == Behind(a, w)
           c == u - 1
           d == 9 - w
           e == w - u
           z == [n \in 1 .. e |-> 0]
<1>1. c \in Nat /\ d \in Nat /\ e \in Nat /\ u \in Nat /\ w \in Nat /\ c + e + d = 8 /\ 8 - c - d = e
  OBVIOUS
<1>2. x \in Seq(Nat) /\ Len(x) = c /\ \A m \in 1 .. c : x[m] = a[m]
  <2>1. \A m \in 1 .. c : m \in 1 .. 8
    OBVIOUS
  <2>2. x = [m \in 1 .. c |-> a[m]]
    BY DEF UpTo
  <2>3. \A m \in 1 .. c : a[m] \in Nat
    BY <2>1, GroupsAre
  <2> HIDE DEF c, x
  <2>4. x \in [1 .. c -> Nat]
    BY <2>2, <2>3
  <2>5. x \in Seq(Nat) /\ Len(x) = c
    BY <1>1, <2>4, SeqOf
  <2>6. \A m \in 1 .. c : x[m] = a[m]
    BY <2>2, Zenon
  <2> QED
    BY <2>5, <2>6
<1>3. y \in Seq(Nat) /\ Len(y) = d /\ \A m \in 1 .. d : y[m] = a[w + m - 1]
  <2>1. \A m \in 1 .. d : w + m - 1 \in 1 .. 8
    OBVIOUS
  <2>2. \A m \in 1 .. d : a[w + m - 1] \in Nat
    BY <2>1, GroupsAre
  <2>3. y = [m \in 1 .. d |-> a[w + m - 1]]
    BY DEF Behind
  <2> HIDE DEF d, y
  <2>4. y \in [1 .. d -> Nat]
    BY <2>2, <2>3
  <2>5. y \in Seq(Nat) /\ Len(y) = d
    BY <1>1, <2>4, SeqOf
  <2>6. \A m \in 1 .. d : y[m] = a[w + m - 1]
    BY <2>3, Zenon
  <2> QED
    BY <2>5, <2>6
<1>4. z \in Seq(Nat) /\ Len(z) = e /\ \A m \in 1 .. e : z[m] = 0
  <2> HIDE DEF e
  <2>1. z \in [1 .. e -> Nat]
    OBVIOUS
  <2> QED
    BY <1>1, <2>1
<1>5. [n \in 1 .. 8 - Len(x) - Len(y) |-> 0] = z
  <2>1. 8 - Len(x) - Len(y) = e
    <3> HIDE DEF c, d, e, x, y
    <3> QED
      BY <1>1, <1>2, <1>3
  <2> HIDE DEF e, x, y
  <2> QED
    BY <2>1
<1> HIDE DEF c, d, e, x, y, z
<1> DEFINE t == x \o z
           r == t \o y
<1>6. /\ t \in Seq(Nat) /\ Len(t) = c + e
      /\ \A m \in 1 .. c + e : t[m] = IF m <= c THEN x[m] ELSE z[m - c]
  BY <1>2, <1>4, ConcatProperties, ZenonT(60)
<1> HIDE DEF t
<1>7. /\ r \in Seq(Nat) /\ Len(r) = 8
      /\ \A m \in 1 .. 8 : r[m] = IF m <= c + e THEN t[m] ELSE y[m - (c + e)]
  <2>1. /\ r \in Seq(Nat) /\ Len(r) = Len(t) + Len(y)
        /\ \A m \in 1 .. Len(t) + Len(y) : r[m] = IF m <= Len(t) THEN t[m] ELSE y[m - Len(t)]
    BY <1>3, <1>6, ConcatProperties
  <2>2. Len(t) + Len(y) = 8
    BY <1>1, <1>3, <1>6
  <2> HIDE DEF r
  <2> QED
    BY <1>6, <2>1, <2>2
<1> HIDE DEF r
<1>8. ASSUME NEW m \in 1 .. 8 PROVE r[m] = a[m]
  <2>1. CASE m <= c
    <3>1. m \in 1 .. c + e /\ m \in 1 .. c
      BY <1>1, <2>1
    <3>2. m <= c + e
      BY <1>1, <2>1
    <3>3. r[m] = t[m]
      BY <1>7, <3>2
    <3>4. t[m] = x[m]
      BY <1>6, <2>1, <3>1
    <3> QED
      BY <1>2, <3>1, <3>3, <3>4
  <2>2. CASE c < m /\ m <= c + e
    <3>1. m \in 1 .. c + e /\ m - c \in 1 .. e /\ ~(m <= c)
      BY <1>1, <2>2
    <3>2. m \in u .. w - 1
      BY <1>1, <2>2 DEF c, e
    <3> QED
      BY <1>4, <1>6, <1>7, <2>2, <3>1, <3>2
  <2>3. CASE c + e < m
    <3> DEFINE n == m - (c + e)
    <3>1. n \in 1 .. d /\ w + n - 1 = m /\ ~(m <= c + e)
      BY <1>1, <2>3 DEF c, d, e
    <3> HIDE DEF n
    <3>2. r[m] = y[n]
      BY <1>7, <3>1 DEF n
    <3> QED
      BY <1>3, <3>1, <3>2
  <2> QED
    BY <1>1, <2>1, <2>2, <2>3
<1>9. a \in Seq(Nat) /\ Len(a) = 8
  <2>1. a \in [1 .. 8 -> Nat] /\ 8 \in Nat
    BY DEF Groups
  <2> QED
    BY <2>1, SeqOf, ZenonT(60)
<1>10. r = a
  BY <1>7, <1>8, <1>9, SeqEqual
<1> QED
  BY <1>5, <1>10, Zenon DEF Filled, r, t, x, y

(* A text with a gap is read as the address it is the text of ...          *)
LEMMA ParsedWithGap ==
  ASSUME NEW a \in Groups, NEW s, NEW u \in 1 .. 8, NEW w \in u + 1 .. 9, NEW h, NEW R,
         Leading(a, s, u, h, R), Follows(a, R, w), \A m \in u .. w - 1 : a[m] = 0
  PROVE  Parse6(s) = a
PROOF
<1> DEFINE g == h + 1
           gaps == {n \in 1 .. Len(s) - 1 : s[n] = Colon /\ s[n + 1] = Colon}
           before == Numbers(SubSeq(s, 1, g))
           after == Numbers(SubSeq(s, g, Len(s)))
<1>1. gaps = {g}
  BY OneGap
<1>2. /\ R \in Seq(Int) /\ R[1] = Colon /\ Len(R) \in Nat /\ Len(R) >= 2 /\ w \in 2 .. 9
  <2>1. R \in Seq(Int) /\ R[1] = Colon /\ Len(R) = (IF w = 9 THEN 2 ELSE 2 * (9 - w) + 1)
    BY Zenon DEF Follows
  <2>2. w \in 2 .. 9
    OBVIOUS
  <2> QED
    BY <2>1, <2>2
<1>3. before = UpTo(a, u)
  BY <1>2, HeadNumbers DEF UpTo
<1>4. SubSeq(s, g, Len(s)) = R
  <2> DEFINE t == SubSeq(s, g, Len(s))
  <2>1. /\ s \in Seq(Int) /\ h \in Nat /\ Len(s) = h + Len(R)
        /\ \A j \in 1 .. Len(R) : s[h + j] = R[j]
    BY Zenon DEF Leading
  <2>2. /\ g \in 1 .. Len(s) + 1 /\ Len(s) \in g - 1 .. Len(s) /\ Len(s) - g + 1 = Len(R)
        /\ \A j \in 1 .. Len(R) : g + j - 1 = h + j
    BY <1>2, <2>1
  <2> HIDE DEF g
  <2>3. /\ t \in Seq(Int) /\ Len(t) = Len(s) - g + 1
        /\ \A j \in 1 .. Len(s) - g + 1 : t[j] = s[g + j - 1]
    BY <2>1, <2>2, PartOf
  <2> HIDE DEF t
  <2>4. Len(t) = Len(R) /\ \A j \in 1 .. Len(t) : t[j] = R[j]
    BY <2>1, <2>2, <2>3
  <2>5. t = R
    BY <1>2, <2>3, <2>4, SeqEqual
  <2> QED
    BY <2>5 DEF t
<1>5. after = Behind(a, w)
  BY <1>2, <1>4, TailNumbers DEF Behind
<1>6. Filled(before, after) = a
  <2> HIDE DEF before, after
  <2> QED
    BY <1>3, <1>5, GapFilled
<1>7. gaps # {} /\ ~(Cardinality(gaps) > 1) /\ (CHOOSE n \in gaps : TRUE) = g
  <2> HIDE DEF gaps, g
  <2>1. Cardinality(gaps) = 1
    BY <1>1, FS_Singleton
  <2> QED
    BY <1>1, <2>1
<1>8. Parse6(s) = Filled(before, after)
  <2>1. Parse6(s) =
          IF gaps = {} THEN Numbers(s)
          ELSE IF Cardinality(gaps) > 1 THEN <<>>
          ELSE LET gap == CHOOSE n \in gaps : TRUE
                   x == Numbers(SubSeq(s, 1, gap))
                   y == Numbers(SubSeq(s, gap, Len(s)))
               IN  Filled(x, y)
    BY Zenon DEF Parse6, Filled
  <2> HIDE DEF gaps, g
  <2> QED
    BY <1>7, <2>1, Zenon
<1> QED
  BY <1>6, <1>8

(* All eight groups, with a colon between each two.                        *)
Whole(a, s) ==
  /\ s \in Seq(Int) /\ Len(s) = 15 /\ s[1] = a[1]
  /\ \A m \in 1 .. 7 : s[2 * m] = Colon /\ s[2 * m + 1] = a[m + 1]

(* ... and so is one without.                                              *)
LEMMA ParsedPlain ==
  ASSUME NEW a \in Groups, NEW s, Whole(a, s)
  PROVE  Parse6(s) = a
PROOF
<1> DEFINE gaps == {n \in 1 .. Len(s) - 1 : s[n] = Colon /\ s[n + 1] = Colon}
           q == [m \in 1 .. 8 |-> 2 * m - 1]
           at == {n \in DOMAIN s : s[n] # Colon}
<1>0. /\ s \in Seq(Int) /\ Len(s) = 15 /\ DOMAIN s = 1 .. 15 /\ s[1] = a[1]
      /\ \A m \in 1 .. 7 : s[2 * m] = Colon /\ s[2 * m + 1] = a[m + 1]
  BY DEF Whole
<1>1. ASSUME NEW m \in 1 .. 8 PROVE s[2 * m - 1] = a[m] /\ s[2 * m - 1] # Colon
  <2>1. CASE m = 1
    BY <1>0, <2>1, GroupsAre
  <2>2. CASE m # 1
    <3>1. m - 1 \in 1 .. 7 /\ 2 * m - 1 = 2 * (m - 1) + 1 /\ m - 1 + 1 = m
      BY <2>2
    <3>2. s[2 * m - 1] = a[m]
      BY <1>0, <3>1
    <3> QED
      BY <3>2, GroupsAre
  <2> QED
    BY <2>1, <2>2
<1>2. ASSUME NEW n \in 1 .. 15
      PROVE  (\E m \in 1 .. 7 : n = 2 * m) \/ \E m \in 1 .. 8 : n = 2 * m - 1
  <2>1. PICK m \in Nat : n = 2 * m \/ n = 2 * m + 1
    <3>1. n \in Nat
      OBVIOUS
    <3> QED
      BY <3>1, Parity
  <2>2. CASE n = 2 * m
    <3>1. m \in 1 .. 7
      BY <2>2
    <3> QED
      BY <2>2, <3>1
  <2>3. CASE n = 2 * m + 1
    <3>1. m + 1 \in 1 .. 8 /\ n = 2 * (m + 1) - 1
      BY <2>3
    <3> QED
      BY <3>1
  <2> QED
    BY <2>1, <2>2, <2>3
<1>3. gaps = {}
  <2> SUFFICES ASSUME NEW n \in gaps PROVE FALSE
    OBVIOUS
  <2>1. n \in 1 .. 14 /\ n \in 1 .. 15 /\ s[n] = Colon /\ s[n + 1] = Colon
    BY <1>0
  <2>2. CASE \E m \in 1 .. 7 : n = 2 * m
    <3>1. PICK m \in 1 .. 7 : n = 2 * m
      BY <2>2
    <3>2. m + 1 \in 1 .. 8 /\ 2 * (m + 1) - 1 = n + 1
      BY <3>1
    <3> QED
      BY <1>1, <2>1, <3>2
  <2>3. CASE \E m \in 1 .. 8 : n = 2 * m - 1
    BY <1>1, <2>1, <2>3
  <2> QED
    BY <1>2, <2>1, <2>2, <2>3
<1>4. Ascends(q, 8, at)
  <2>1. ASSUME NEW n \in at PROVE \E m \in 1 .. 8 : q[m] = n
    <3>1. n \in 1 .. 15 /\ s[n] # Colon
      BY <1>0
    <3>2. ~\E m \in 1 .. 7 : n = 2 * m
      BY <1>0, <3>1
    <3>3. PICK m \in 1 .. 8 : n = 2 * m - 1
      BY <1>2, <3>1, <3>2
    <3> QED
      BY <3>3
  <2>2. ASSUME NEW m \in 1 .. 8 PROVE q[m] \in at
    <3>1. 2 * m - 1 \in 1 .. 15
      OBVIOUS
    <3> QED
      BY <1>0, <1>1, <3>1
  <2>3. ASSUME NEW m \in 1 .. 8, NEW n \in 1 .. 8, m < n PROVE q[m] < q[n]
    BY <2>3
  <2>4. q \in [1 .. 8 -> at]
    <3> HIDE DEF at
    <3> QED
      BY <2>2
  <2> HIDE DEF q, at
  <2> QED
    BY <2>1, <2>3, <2>4 DEF Ascends
<1>5. DOMAIN s \in SUBSET Int /\ 8 \in Nat
  BY <1>0
<1>6. Numbers(s) = [m \in 1 .. 8 |-> s[q[m]]]
  <2> DEFINE c == 8
  <2>1. c \in Nat /\ Lists(q, c, s)
    BY <1>4, <1>5, Zenon DEF Lists
  <2> HIDE DEF q, c
  <2>2. Numbers(s) = [m \in 1 .. c |-> s[q[m]]]
    BY <2>1, NumbersAre
  <2> QED
    BY <2>2 DEF c
<1>7. Numbers(s) = [m \in 1 .. 8 |-> a[m]]
  <2>1. \A m \in 1 .. 8 : s[q[m]] = a[m]
    BY <1>1
  <2> HIDE DEF q
  <2> QED
    BY <1>6, <2>1
<1>8. Parse6(s) = Numbers(s)
  <2> HIDE DEF gaps
  <2>1. Parse6(s) =
          IF gaps = {} THEN Numbers(s)
          ELSE IF Cardinality(gaps) > 1 THEN <<>>
          ELSE LET gap == CHOOSE n \in gaps : TRUE
                   x == Numbers(SubSeq(s, 1, gap))
                   y == Numbers(SubSeq(s, gap, Len(s)))
               IN  Filled(x, y)
    BY Zenon DEF Parse6, Filled, gaps
  <2> QED
    BY <1>3, <2>1
<1> QED
  BY <1>7, <1>8 DEF Groups

(* The rows of the writer: a group as it is, zeros left out, the first     *)
(* group behind them, and the groups once zeros have been left out.        *)
LEMMA RowsOf ==
  ASSUME NEW a \in Groups, NEW f, Table6(a, f), NEW m \in 1 .. 8
  PROVE  /\ a[m] # 0 /\ m > 1 /\ a[m - 1] # 0 =>
              f[<<m, FALSE>>] = (<<Colon>> \o <<a[m]>>) \o f[<<m + 1, FALSE>>]
         /\ a[m] # 0 /\ m = 1 => f[<<m, FALSE>>] = <<a[m]>> \o f[<<m + 1, FALSE>>]
         /\ a[m] = 0 => f[<<m, FALSE>>] = f[<<m + 1, FALSE>>]
         /\ a[m] # 0 /\ m > 1 /\ a[m - 1] = 0 =>
              f[<<m, FALSE>>] = ((<<Colon>> \o <<Colon>>) \o <<a[m]>>) \o f[<<m + 1, TRUE>>]
         /\ m > 1 => f[<<m, TRUE>>] = (<<Colon>> \o <<a[m]>>) \o f[<<m + 1, TRUE>>]
PROOF
<1> DEFINE p == a[m]
           one == <<p>>
           c == <<Colon>>
<1>1. m \in 1 .. 9 /\ m # 9
  OBVIOUS
<1>2. f[<<m, FALSE>>] = Row6(a, f, m, FALSE) /\ f[<<m, TRUE>>] = Row6(a, f, m, TRUE)
  BY <1>1, RowIs
<1>3. c \in Seq(Int) /\ one \in Seq(Int)
  <2>1. Colon \in Int /\ p \in Int
    BY SignsOf, GroupsAre
  <2> HIDE DEF p
  <2> QED
    BY <2>1
<1> HIDE DEF c, one
<1>4. <<>> \o c = c /\ <<>> \o <<>> = <<>> /\ <<>> \o one = one
  BY <1>3, ConcatEmptySeq, EmptySeq
<1>5. Row6(a, f, m, FALSE) =
        IF a[m] = 0 THEN f[<<m + 1, FALSE>>]
        ELSE (IF m > 1 /\ a[m - 1] = 0 THEN c ELSE <<>>) \o (IF m > 1 THEN c ELSE <<>>)
               \o one \o f[<<m + 1, m > 1 /\ a[m - 1] = 0>>]
  BY <1>1, Zenon DEF Row6, Skips, Opens, c, one
<1>6. Row6(a, f, m, TRUE) =
        <<>> \o (IF m > 1 THEN c ELSE <<>>) \o one \o f[<<m + 1, TRUE>>]
  BY <1>1, Zenon DEF Row6, Skips, Opens, c, one
<1>7. ASSUME a[m] # 0, m > 1, a[m - 1] # 0
      PROVE  f[<<m, FALSE>>] = (c \o one) \o f[<<m + 1, FALSE>>]
  <2>1. (m > 1 /\ a[m - 1] = 0) = FALSE
    BY <1>7, Zenon
  <2> QED
    BY <1>2, <1>4, <1>5, <1>7, <2>1, Zenon
<1>8. ASSUME a[m] # 0, m = 1 PROVE f[<<m, FALSE>>] = one \o f[<<m + 1, FALSE>>]
  <2>1. (m > 1) = FALSE /\ (m > 1 /\ a[m - 1] = 0) = FALSE
    BY <1>8
  <2> QED
    BY <1>2, <1>4, <1>5, <1>8, <2>1, Zenon
<1>9. ASSUME a[m] = 0 PROVE f[<<m, FALSE>>] = f[<<m + 1, FALSE>>]
  BY <1>2, <1>5, <1>9, Zenon
<1>10. ASSUME a[m] # 0, m > 1, a[m - 1] = 0
       PROVE  f[<<m, FALSE>>] = ((c \o c) \o one) \o f[<<m + 1, TRUE>>]
  <2>1. (m > 1 /\ a[m - 1] = 0) = TRUE
    BY <1>10, Zenon
  <2> QED
    BY <1>2, <1>5, <1>10, <2>1, Zenon
<1>11. ASSUME m > 1 PROVE f[<<m, TRUE>>] = (c \o one) \o f[<<m + 1, TRUE>>]
  BY <1>2, <1>4, <1>6, <1>11, Zenon
<1> QED
  BY <1>7, <1>8, <1>9, <1>10, <1>11, Zenon DEF c, one, p

(* The first group, the groups up to u behind it, and R.                   *)
Starts6(a, s, u, R) ==
  /\ s \in Seq(Int) /\ Len(s) = (2 * u - 3) + Len(R) /\ s[1] = a[1]
  /\ \A m \in 1 .. u - 2 : s[2 * m] = Colon /\ s[2 * m + 1] = a[m + 1]
  /\ \A j \in 1 .. Len(R) : s[(2 * u - 3) + j] = R[j]

(* The first group has no colon before it.                                 *)
LEMMA FirstGroup ==
  ASSUME NEW a \in Groups, NEW u \in 2 .. 9, NEW t, NEW R \in Seq(Int), Spells(a, t, 2, u, R)
  PROVE  Starts6(a, <<a[1]>> \o t, u, R)
PROOF
<1> DEFINE d == u - 2
           s == <<a[1]>> \o t
           L == Len(R)
<1>1. d \in 0 .. 7 /\ 2 * u - 3 = 2 * d + 1 /\ L \in Nat
  OBVIOUS
<1>2. /\ t \in Seq(Int) /\ Len(t) = 2 * d + L
      /\ \A m \in 1 .. d : t[2 * m - 1] = Colon /\ t[2 * m] = a[2 + m - 1]
      /\ \A j \in 1 .. L : t[2 * d + j] = R[j]
  BY Zenon DEF Spells
<1>3. /\ s \in Seq(Int) /\ Len(s) = Len(t) + 1 /\ s[1] = a[1]
      /\ \A n \in 1 .. Len(t) : s[n + 1] = t[n]
  <2>1. 1 \in 1 .. 8
    OBVIOUS
  <2>2. a[1] \in Int
    BY <2>1, GroupsAre
  <2> QED
    BY <1>2, <2>2, OneBefore
<1> HIDE DEF d, s, L
<1>4. ASSUME NEW m \in 1 .. d PROVE s[2 * m] = Colon /\ s[2 * m + 1] = a[m + 1]
  <2> DEFINE n == 2 * m - 1
             x == 2 * m
  <2>1. /\ n \in 1 .. Len(t) /\ x \in 1 .. Len(t) /\ n + 1 = 2 * m /\ 2 + m - 1 = m + 1
    BY <1>1, <1>2
  <2>2. t[n] = Colon /\ t[x] = a[2 + m - 1]
    BY <1>2
  <2> HIDE DEF n, x
  <2>3. s[n + 1] = t[n] /\ s[x + 1] = t[x]
    BY <1>3, <2>1
  <2> QED
    BY <2>1, <2>2, <2>3 DEF x
<1>5. ASSUME NEW j \in 1 .. L PROVE s[(2 * d + 1) + j] = R[j]
  <2> DEFINE n == 2 * d + j
  <2>1. n \in 1 .. Len(t) /\ (2 * d + 1) + j = n + 1
    <3>1. d \in Int /\ 0 <= d /\ j \in Int /\ 1 <= j /\ j <= L /\ L \in Int /\ Len(t) = 2 * d + L
      BY <1>1, <1>2
    <3> QED
      BY <3>1
  <2>2. t[n] = R[j]
    BY <1>2
  <2> HIDE DEF n
  <2> QED
    BY <1>3, <2>1, <2>2
<1>6. Len(s) = (2 * d + 1) + L
  <2>1. Len(t) = 2 * d + L /\ Len(s) = Len(t) + 1
    BY <1>2, <1>3
  <2> QED
    BY <1>1, <2>1
<1>7. /\ Len(s) = (2 * u - 3) + Len(R)
      /\ \A m \in 1 .. u - 2 : s[2 * m] = Colon /\ s[2 * m + 1] = a[m + 1]
      /\ \A j \in 1 .. Len(R) : s[(2 * u - 3) + j] = R[j]
  BY <1>1, <1>4, <1>5, <1>6 DEF d, L
<1>8. Starts6(a, s, u, R)
  BY <1>3, <1>7, Zenon DEF Starts6
<1> QED
  BY <1>8 DEF s

(* The groups before a gap lead to it.                                     *)
LEMMA LeadingFrom ==
  ASSUME NEW a \in Groups, NEW u \in 2 .. 8, NEW s, NEW R \in Seq(Int), Len(R) >= 2,
         R[1] = Colon, Starts6(a, s, u, R)
  PROVE  Leading(a, s, u, 2 * u - 3, R)
PROOF
<1> DEFINE h == 2 * u - 3
<1>1. /\ s \in Seq(Int) /\ Len(s) = h + Len(R) /\ s[1] = a[1]
      /\ \A m \in 1 .. u - 2 : s[2 * m] = Colon /\ s[2 * m + 1] = a[m + 1]
      /\ \A j \in 1 .. Len(R) : s[h + j] = R[j]
  BY Zenon DEF Starts6
<1>2. h \in Nat /\ u # 1 /\ h + 1 = 2 * (u - 1) /\ 1 \in 1 .. Len(R)
  OBVIOUS
<1>3. s[2 * (u - 1)] = Colon
  <2> HIDE DEF h
  <2>1. s[h + 1] = R[1]
    BY <1>1, <1>2
  <2> QED
    BY <1>2, <2>1
<1>4. ASSUME NEW n \in 1 .. u - 1 PROVE s[2 * n - 1] = a[n] /\ s[2 * n] = Colon
  <2>1. s[2 * n - 1] = a[n]
    <3>1. CASE n = 1
      <4>1. 2 * n - 1 = 1
        BY <3>1
      <4> QED
        BY <1>1, <3>1, <4>1
    <3>2. CASE n # 1
      <4> DEFINE m == n - 1
      <4>1. m \in 1 .. u - 2 /\ 2 * n - 1 = 2 * m + 1 /\ n = m + 1
        BY <3>2
      <4> HIDE DEF m
      <4> QED
        BY <1>1, <4>1
    <3> QED
      BY <3>1, <3>2
  <2>2. s[2 * n] = Colon
    <3>1. CASE n = u - 1
      BY <1>3, <3>1
    <3>2. CASE n # u - 1
      <4>1. n \in 1 .. u - 2
        BY <3>2
      <4> QED
        BY <1>1, <4>1
    <3> QED
      BY <3>1, <3>2
  <2> QED
    BY <2>1, <2>2
<1>5. h = IF u = 1 THEN 0 ELSE 2 * u - 3
  BY <1>2, Zenon
<1> HIDE DEF h
<1>6. Leading(a, s, u, h, R)
  BY <1>1, <1>2, <1>4, <1>5, Zenon DEF Leading
<1> QED
  BY <1>6 DEF h

(* The groups behind a gap that does not end the text.                     *)
LEMMA FollowsFrom ==
  ASSUME NEW a \in Groups, NEW w \in 2 .. 8, NEW t, Spells(a, t, w + 1, 9, <<>>)
  PROVE  Follows(a, ((<<Colon>> \o <<Colon>>) \o <<a[w]>>) \o t, w)
PROOF
<1> DEFINE d == 8 - w
           p == a[w]
           v == (<<Colon>> \o <<Colon>>) \o <<p>>
           R == v \o t
<1>1. d \in 0 .. 6 /\ 9 - w = d + 1 /\ 9 - (w + 1) = d /\ w # 9
  OBVIOUS
<1>2. /\ t \in Seq(Int) /\ Len(t) = 2 * d
      /\ \A m \in 1 .. d : t[2 * m - 1] = Colon /\ t[2 * m] = a[(w + 1) + m - 1]
  <2>1. /\ t \in Seq(Int) /\ Len(t) = 2 * (9 - (w + 1)) + Len(<<>>)
        /\ \A m \in 1 .. 9 - (w + 1) : t[2 * m - 1] = Colon /\ t[2 * m] = a[(w + 1) + m - 1]
    BY Zenon DEF Spells
  <2> HIDE DEF d
  <2>2. /\ t \in Seq(Int) /\ Len(t) = 2 * d + Len(<<>>)
        /\ \A m \in 1 .. d : t[2 * m - 1] = Colon /\ t[2 * m] = a[(w + 1) + m - 1]
    BY <1>1, <2>1, Zenon
  <2>3. Len(<<>>) = 0 /\ d \in Int
    BY <1>1
  <2>4. Len(t) = 2 * d
    BY <2>2, <2>3
  <2> QED
    BY <2>2, <2>4, Zenon
<1>3. p \in Int /\ Colon \in Int
  BY GroupsAre, SignsOf
<1> HIDE DEF d, p
<1>4. v \in Seq(Int) /\ Len(v) = 3 /\ v[1] = Colon /\ v[2] = Colon /\ v[3] = p
  <2>1. <<p>> \in Seq(Int) /\ Len(<<p>>) = 1 /\ <<p>>[1] = p /\ 1 \in 1 .. 1
    BY <1>3
  <2> DEFINE o == <<p>>
  <2> HIDE DEF o
  <2>2. /\ v \in Seq(Int) /\ Len(v) = Len(o) + 2 /\ v[1] = Colon /\ v[2] = Colon
        /\ \A n \in 1 .. Len(o) : v[n + 2] = o[n]
    BY <1>3, <2>1, TwoBefore DEF o
  <2>3. v[1 + 2] = o[1] /\ Len(v) = 1 + 2
    <3> HIDE DEF v
    <3> QED
      BY <2>1, <2>2 DEF o
  <2>4. 1 + 2 = 3
    OBVIOUS
  <2> HIDE DEF v
  <2> QED
    BY <2>1, <2>2, <2>3, <2>4 DEF o
<1> HIDE DEF v
<1>5. /\ R \in Seq(Int) /\ Len(R) = 3 + Len(t)
      /\ \A n \in 1 .. 3 + Len(t) : R[n] = IF n <= 3 THEN v[n] ELSE t[n - 3]
  <2>1. /\ R \in Seq(Int) /\ Len(R) = Len(v) + Len(t)
        /\ \A n \in 1 .. Len(v) + Len(t) : R[n] = IF n <= Len(v) THEN v[n] ELSE t[n - Len(v)]
    BY <1>2, <1>4, ConcatProperties
  <2> HIDE DEF R
  <2> QED
    BY <1>4, <2>1
<1> HIDE DEF R
<1>6. Len(t) \in Nat /\ Len(R) = 2 * (d + 1) + 1
  BY <1>1, <1>2, <1>5
<1>7. R[1] = Colon /\ R[2] = Colon /\ R[3] = p
  <2>1. 1 \in 1 .. 3 + Len(t) /\ 2 \in 1 .. 3 + Len(t) /\ 3 \in 1 .. 3 + Len(t)
    BY <1>6
  <2> QED
    BY <1>4, <1>5, <2>1
<1>8. ASSUME NEW m \in 1 .. d + 1 PROVE R[2 * m] = Colon /\ R[2 * m + 1] = a[w + m - 1]
  <2>1. CASE m = 1
    <3>1. 2 * m = 2 /\ 2 * m + 1 = 3 /\ w + m - 1 = w
      BY <2>1
    <3> QED
      BY <1>7, <3>1 DEF p
  <2>2. CASE m # 1
    <3> DEFINE n == m - 1
               x == 2 * m
               y == 2 * m + 1
    <3>1. /\ n \in 1 .. d /\ x \in 1 .. 3 + Len(t) /\ y \in 1 .. 3 + Len(t)
          /\ ~(x <= 3) /\ ~(y <= 3) /\ x - 3 = 2 * n - 1 /\ y - 3 = 2 * n
          /\ w + m - 1 = (w + 1) + n - 1
      BY <1>1, <1>2, <2>2
    <3> HIDE DEF n, x, y
    <3>2. R[x] = t[x - 3] /\ R[y] = t[y - 3]
      BY <1>5, <3>1
    <3>3. t[2 * n - 1] = Colon /\ t[2 * n] = a[(w + 1) + n - 1]
      BY <1>2, <3>1
    <3>4. R[x] = Colon /\ R[y] = a[w + m - 1]
      BY <3>1, <3>2, <3>3
    <3> QED
      BY <3>4 DEF x, y
  <2> QED
    BY <2>1, <2>2
<1>9. /\ Len(R) = IF w = 9 THEN 2 ELSE 2 * (9 - w) + 1
      /\ \A m \in 1 .. 9 - w : R[2 * m] = Colon /\ R[2 * m + 1] = a[w + m - 1]
  BY <1>1, <1>6, <1>8
<1>10. Follows(a, R, w)
  BY <1>5, <1>7, <1>9, Zenon DEF Follows
<1> QED
  BY <1>10 DEF R, v, p

(* The text of an address is read as that address.                         *)
LEMMA ReadBack ==
  ASSUME NEW a \in Groups
  PROVE  Parse6(Text6(a)) = a
PROOF
<1>1. PICK f : Table6(a, f) /\ Text6(a) = f[<<1, FALSE>>]
  BY TableHas
<1> DEFINE zeros == {m \in 1 .. 8 : a[m] = 0}
<1>2. 9 \in 1 .. 9 /\ 1 \in 1 .. 8 /\ FALSE \in BOOLEAN /\ TRUE \in BOOLEAN
  OBVIOUS
<1>3. /\ f[<<9, FALSE>>] = IF a[8] = 0 THEN <<Colon, Colon>> ELSE <<>>
      /\ f[<<9, TRUE>>] = <<>>
  <2>1. f[<<9, FALSE>>] = Row6(a, f, 9, FALSE) /\ f[<<9, TRUE>>] = Row6(a, f, 9, TRUE)
    BY <1>1, <1>2, RowIs
  <2> QED
    BY <2>1, Zenon DEF Row6
<1>4. <<>> \in Seq(Int)
  OBVIOUS
<1>5. CASE zeros = {}
  <2>1. \A m \in 1 .. 8 : a[m] # 0
    BY <1>5
  <2>2. f[<<9, FALSE>>] = <<>>
    BY <1>3, <2>1
  <2>3. ASSUME NEW m \in 2 .. 9 - 1
        PROVE  f[<<m, FALSE>>] = (<<Colon>> \o <<a[m]>>) \o f[<<m + 1, FALSE>>]
    <3>1. m \in 1 .. 8 /\ m - 1 \in 1 .. 8 /\ m > 1
      OBVIOUS
    <3> QED
      BY <1>1, <2>1, <3>1, RowsOf, ZenonT(60)
  <2>4. Spells(a, f[<<2, FALSE>>], 2, 9, <<>>)
    <3>1. \A b \in 2 .. 9 : Spells(a, f[<<b, FALSE>>], b, 9, f[<<9, FALSE>>])
      BY <1>2, <1>4, <2>2, <2>3, SpellsFrom, Zenon
    <3>2. 2 \in 2 .. 9
      OBVIOUS
    <3> QED
      BY <2>2, <3>1, <3>2
  <2> DEFINE s == <<a[1]>> \o f[<<2, FALSE>>]
  <2>5. f[<<1, FALSE>>] = s
    <3>1. 1 + 1 = 2 /\ a[1] # 0
      BY <1>2, <2>1
    <3>2. f[<<1, FALSE>>] = <<a[1]>> \o f[<<1 + 1, FALSE>>]
      BY <1>1, <1>2, <3>1, RowsOf
    <3> QED
      BY <3>1, <3>2
  <2>6. Starts6(a, s, 9, <<>>)
    <3>1. 9 \in 2 .. 9
      OBVIOUS
    <3> QED
      BY <1>4, <2>4, <3>1, FirstGroup
  <2> HIDE DEF s
  <2>7. Whole(a, s)
    <3>1. /\ s \in Seq(Int) /\ Len(s) = (2 * 9 - 3) + Len(<<>>) /\ s[1] = a[1]
          /\ \A m \in 1 .. 9 - 2 : s[2 * m] = Colon /\ s[2 * m + 1] = a[m + 1]
      BY <2>6, Zenon DEF Starts6
    <3>2. (2 * 9 - 3) + Len(<<>>) = 15 /\ 9 - 2 = 7
      OBVIOUS
    <3> QED
      BY <3>1, <3>2 DEF Whole
  <2> QED
    BY <1>1, <2>5, <2>7, ParsedPlain
<1>6. CASE zeros # {}
  <2> DEFINE u == First(zeros)
             ends == {m \in u .. 8 : a[m] # 0}
             w == IF ends = {} THEN 9 ELSE First(ends)
             R == f[<<w, FALSE>>]
             s == Text6(a)
             h == IF u = 1 THEN 0 ELSE 2 * u - 3
  <2>1. u \in 1 .. 8 /\ a[u] = 0 /\ \A m \in 1 .. u - 1 : a[m] # 0
    <3>1. zeros \in SUBSET Nat
      OBVIOUS
    <3>2. u \in zeros /\ \A m \in zeros : u <= m
      <4> HIDE DEF zeros
      <4> QED
        BY <1>6, <3>1, FirstIs
    <3> HIDE DEF u
    <3>3. u \in 1 .. 8 /\ a[u] = 0
      BY <3>2
    <3>4. ASSUME NEW m \in 1 .. u - 1 PROVE a[m] # 0
      <4>1. m \in 1 .. 8 /\ ~(u <= m)
        BY <3>3
      <4> QED
        BY <3>2, <4>1
    <3> QED
      BY <3>3, <3>4
  <2> HIDE DEF u
  <2>2. /\ w \in u + 1 .. 9 /\ (w # 9 => a[w] # 0) /\ \A m \in u .. w - 1 : a[m] = 0
    <3>1. CASE ends = {}
      <4>1. \A m \in u .. 8 : a[m] = 0
        BY <3>1
      <4>2. w = 9
        BY <3>1
      <4> QED
        BY <2>1, <4>1, <4>2
    <3>2. CASE ends # {}
      <4>1. ends \in SUBSET Nat
        BY <2>1
      <4>2. w \in ends /\ \A m \in ends : w <= m
        <5> HIDE DEF ends
        <5> QED
          BY <3>2, <4>1, FirstIs
      <4> HIDE DEF w
      <4>3. w \in u .. 8 /\ a[w] # 0 /\ w # u
        BY <2>1, <4>2
      <4>4. ASSUME NEW m \in u .. w - 1 PROVE a[m] = 0
        <5>1. m \in u .. 8 /\ ~(w <= m)
          BY <2>1, <4>3
        <5> QED
          BY <4>2, <5>1
      <4> QED
        BY <2>1, <4>3, <4>4
    <3> QED
      BY <3>1, <3>2
  <2> HIDE DEF w
  <2>3. w \in 2 .. 9 /\ u \in Nat /\ w \in Nat /\ a[w - 1] = 0
    <3>1. w - 1 \in u .. w - 1
      BY <2>1, <2>2
    <3> QED
      BY <2>1, <2>2, <3>1
  <2>4. Follows(a, R, w)
    <3>1. CASE w = 9
      <4>1. R = <<Colon, Colon>>
        <5>1. a[8] = 0 /\ 9 - 1 = 8
          BY <2>3, <3>1
        <5> QED
          BY <1>3, <3>1, <5>1
      <4>2. /\ R \in Seq(Int) /\ R[1] = Colon /\ R[2] = Colon /\ Len(R) = 2
        <5>1. Colon \in Int
          BY SignsOf
        <5> HIDE DEF R
        <5> QED
          BY <4>1, <5>1
      <4>3. \A m \in 1 .. 9 - w : FALSE
        BY <3>1
      <4> HIDE DEF R
      <4> QED
        BY <3>1, <4>2, <4>3 DEF Follows
    <3>2. CASE w # 9
      <4> DEFINE t == f[<<w + 1, TRUE>>]
      <4>1. w \in 2 .. 8 /\ w \in 1 .. 8 /\ w > 1 /\ a[w] # 0
        BY <2>2, <2>3, <3>2
      <4>2. R = ((<<Colon>> \o <<Colon>>) \o <<a[w]>>) \o t
        BY <1>1, <2>3, <4>1, RowsOf
      <4>3. ASSUME NEW m \in 2 .. 9 - 1
            PROVE  f[<<m, TRUE>>] = (<<Colon>> \o <<a[m]>>) \o f[<<m + 1, TRUE>>]
        <5>1. m \in 1 .. 8 /\ m > 1
          OBVIOUS
        <5> QED
          BY <1>1, <5>1, RowsOf
      <4>4. Spells(a, t, w + 1, 9, <<>>)
        <5>1. \A b \in 2 .. 9 : Spells(a, f[<<b, TRUE>>], b, 9, f[<<9, TRUE>>])
          BY Zenon, <1>2, <1>3, <1>4, <4>3, SpellsFrom
        <5>2. w + 1 \in 2 .. 9
          BY <4>1
        <5> QED
          BY Zenon, <1>3, <5>1, <5>2
      <4> HIDE DEF t, R
      <4>5. Follows(a, ((<<Colon>> \o <<Colon>>) \o <<a[w]>>) \o t, w)
        BY <4>1, <4>4, FollowsFrom
      <4> QED
        BY <4>2, <4>5
    <3> QED
      BY <3>1, <3>2
  <2>5. R \in Seq(Int) /\ Len(R) >= 2 /\ R[1] = Colon /\ Len(R) \in Nat
    <3>1. R \in Seq(Int) /\ R[1] = Colon /\ Len(R) = IF w = 9 THEN 2 ELSE 2 * (9 - w) + 1
      BY <2>4, Zenon DEF Follows
    <3> HIDE DEF R
    <3> QED
      BY <2>3, <3>1
  <2>6. f[<<u, FALSE>>] = R
    <3> DEFINE good == {m \in 1 .. 8 + 1 : m \in u .. w => f[<<m, FALSE>>] = R}
    <3>1. ASSUME NEW m \in 1 .. 8 + 1, \A n \in 1 .. 8 + 1 : m < n => n \in good
          PROVE  m \in good
      <4>1. SUFFICES ASSUME m \in u .. w PROVE f[<<m, FALSE>>] = R
        <5> HIDE DEF R
        <5> QED
          BY Zenon
      <4>2. CASE m # w
        <5>1. m \in 1 .. 8 /\ m + 1 \in 1 .. 8 + 1 /\ m < m + 1 /\ m + 1 \in u .. w /\ m \in u .. w - 1
          BY <2>1, <2>3, <4>1, <4>2
        <5>2. f[<<m + 1, FALSE>>] = R
          <6> HIDE DEF R
          <6> QED
            BY <3>1, <5>1
        <5>3. a[m] = 0
          BY <2>2, <5>1
        <5>4. f[<<m, FALSE>>] = f[<<m + 1, FALSE>>]
          BY <1>1, <5>1, <5>3, RowsOf, ZenonT(60)
        <5> QED
          BY <5>2, <5>4
      <4> QED
        BY <4>2
    <3>2. u \in good
      <4>1. 8 \in Nat /\ u \in 1 .. 8 + 1
        BY <2>1
      <4> HIDE DEF good
      <4>2. 1 .. 8 + 1 \subseteq good
        BY <3>1, <4>1, FromTheEnd
      <4> QED
        BY <4>1, <4>2
    <3>3. u \in u .. w
      BY <2>1, <2>2, <2>3
    <3> HIDE DEF R
    <3> QED
      BY <3>2, <3>3
  <2>7. Leading(a, s, u, h, R)
    <3>1. CASE u = 1
      <4>1. s = R
        BY <1>1, <2>6, <3>1
      <4>2. h = 0 /\ \A n \in 1 .. u - 1 : FALSE
        BY <3>1
      <4> HIDE DEF R, s, h
      <4> QED
        BY <2>5, <3>1, <4>1, <4>2 DEF Leading
    <3>2. CASE u # 1
      <4>1. u \in 2 .. 8 /\ u \in 2 .. 9 /\ u \in 1 .. 9 /\ 2 \in 2 .. u
        BY <2>1, <3>2
      <4>2. ASSUME NEW m \in 2 .. u - 1
            PROVE  f[<<m, FALSE>>] = (<<Colon>> \o <<a[m]>>) \o f[<<m + 1, FALSE>>]
        <5>1. m \in 1 .. 8 /\ m > 1 /\ m \in 1 .. u - 1 /\ m - 1 \in 1 .. u - 1
          BY <4>1
        <5>2. a[m] # 0 /\ a[m - 1] # 0
          BY <2>1, <5>1
        <5> QED
          BY <1>1, <5>1, <5>2, RowsOf
      <4>3. Spells(a, f[<<2, FALSE>>], 2, u, R)
        <5>1. \A b \in 2 .. u : Spells(a, f[<<b, FALSE>>], b, u, f[<<u, FALSE>>])
          <6>1. f[<<u, FALSE>>] \in Seq(Int)
            BY <2>5, <2>6
          <6> QED
            BY Zenon, <4>1, <4>2, <6>1, SpellsFrom
        <5> HIDE DEF R
        <5> QED
          BY Zenon, <2>6, <4>1, <5>1
      <4>4. s = <<a[1]>> \o f[<<2, FALSE>>]
        <5>1. 1 + 1 = 2 /\ 1 \in 1 .. u - 1
          BY <4>1
        <5>2. a[1] # 0
          BY <2>1, <5>1
        <5>3. f[<<1, FALSE>>] = <<a[1]>> \o f[<<1 + 1, FALSE>>]
          BY <1>1, <1>2, <5>2, RowsOf
        <5> QED
          BY <1>1, <5>1, <5>3
      <4> HIDE DEF R, s
      <4>5. Starts6(a, s, u, R)
        BY <2>5, <4>1, <4>3, <4>4, FirstGroup
      <4>6. Leading(a, s, u, 2 * u - 3, R)
        BY <2>5, <4>1, <4>5, LeadingFrom
      <4> QED
        BY <3>2, <4>6
    <3> QED
      BY <3>1, <3>2
  <2> HIDE DEF R, s, h
  <2>8. Parse6(s) = a
    BY <2>1, <2>2, <2>4, <2>7, ParsedWithGap
  <2> QED
    BY <2>8 DEF s
<1> QED
  BY <1>5, <1>6

-----------------------------------------------------------------------------
(* Addresses.                                                              *)

AddrInv == host \in Seq(Sign) /\ groups \in Groups

(* The host stays a text and the address one of eight groups.              *)
LEMMA AddrInductive == AddrInv /\ [StoresNext]_storesVars => AddrInv'
PROOF
<1> SUFFICES ASSUME AddrInv, [StoresNext]_storesVars PROVE AddrInv'
  OBVIOUS
<1>1. CASE UNCHANGED addrVars
  BY <1>1 DEF AddrInv, addrVars
<1>2. CASE AddrNext
  <2>1. CASE UNCHANGED groups /\ \E c \in Sign : host' = Append(host, c)
    BY <2>1 DEF AddrInv
  <2>2. CASE UNCHANGED host /\ \E m \in 1 .. 8 : groups' = [groups EXCEPT ![m] = 1]
    BY <2>2, SMTT(30) DEF AddrInv, Groups
  <2> QED
    BY <1>2, <2>1, <2>2 DEF AddrNext
<1> QED
  BY <1>1, <1>2 DEF StoresNext, storesVars

(* A host string is split at its own signs, the text of an IPv6 address is *)
(* read as that address, a port survives the swapping of its bytes, and    *)
(* operator< is a strict total order (address.cpp:42-70, 118, 216, 267).   *)
THEOREM AddressHoldsAlways == StoresSpec => []AddressHolds
PROOF
<1>1. StoresInit => AddrInv
  BY DEF StoresInit, AddrInit, AddrInv, Groups
<1>2. AddrInv => AddressHolds
  BY HostsHold, ReadBack, PortsHold, OrderHolds
     DEF AddrInv, AddressHolds, AddressSound, TextRead6
<1> QED
  BY <1>1, <1>2, AddrInductive, PTL DEF StoresSpec

===============================================================================
