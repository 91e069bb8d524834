-------------------------- MODULE ReplyTextProofs --------------------------
(* NcReply does what ReplyText says: what a reply asks for takes effect, in  *)
(* whichever of the encodings of msgpack and wherever the reply was cut off. *)
EXTENDS NcReplyProofs

-----------------------------------------------------------------------------
(* A message m that is the beginning of a text w, and a cursor at place p.   *)

Begins(m, w) == /\ m \in Message /\ Len(m) \in Nat
                /\ w.bytes \in Seq(Byte) /\ Len(w.bytes) \in Nat
                /\ w.end \in 1 .. Len(w.bytes) + 1
                /\ BeginningOf(m, w)

Cursor(m, p) == [at |-> p, len |-> Len(m) + 1 - p]

LEMMA SameBytes ==
  ASSUME NEW m, NEW w, Begins(m, w)
  PROVE  /\ \A j \in 1 .. Len(m) : m[j] = w.bytes[j]
         /\ \A j \in 1 .. Len(w.bytes) : w.bytes[j] \in Nat /\ w.bytes[j] <= 255
  <1>1. \A j \in 1 .. Len(w.bytes) : w.bytes[j] \in Nat /\ w.bytes[j] <= 255
    BY MarkerRange DEF Begins
  <1>2. m = SubSeq(w.bytes, 1, Len(m)) /\ Len(m) \in Nat /\ Len(m) <= Len(w.bytes)
        /\ w.bytes \in Seq(Byte)
    BY DEF Begins, BeginningOf
  <1>3. \A j \in 1 .. Len(m) : SubSeq(w.bytes, 1, Len(m))[j] = w.bytes[j]
    BY <1>2
  <1>4. \A j \in 1 .. Len(m) : m[j] = w.bytes[j]
    BY <1>2, <1>3
  <1> QED BY <1>1, <1>4

LEMMA SameParts ==
  ASSUME NEW m, NEW w, Begins(m, w), NEW a \in Nat \ {0}, NEW b \in Int, b <= Len(m)
  PROVE  SubSeq(m, a, b) = SubSeq(w.bytes, a, b)
  <1>1. \A j \in 1 .. Len(m) : m[j] = w.bytes[j]
    BY SameBytes
  <1>2. m \in Seq(Byte) /\ Len(m) \in Nat /\ w.bytes \in Seq(Byte) /\ Len(m) <= Len(w.bytes)
        /\ Len(w.bytes) \in Nat
    BY DEF Begins, BeginningOf, Message
  <1> QED BY <1>1, <1>2

LEMMA Cursors ==
  ASSUME NEW m, NEW w, Begins(m, w), NEW p \in 1 .. Len(m) + 1
  PROVE  /\ Within(m, Cursor(m, p)) /\ Cursor(m, p).at = p
         /\ Cursor(m, p).len = Len(m) + 1 - p
         /\ \A n \in Nat : Advance(Cursor(m, p), n) = Cursor(m, p + n)
  BY DEF Begins, Within, Cursor, Advance

-----------------------------------------------------------------------------
(* Integers.                                                                 *)

LEMMA Powers == Power[1] = 1 /\ Power[2] = 256 /\ Power[3] = 65536 /\ Power[4] = 16777216
  BY SMT DEF Power

LEMMA Digits ==
  ASSUME NEW n \in Int
  PROVE  /\ (n % 256) \in Nat /\ (n % 256) < 256
         /\ ((n \div 256) % 256) \in Nat /\ ((n \div 65536) % 256) \in Nat
         /\ ((n \div 16777216) % 256) \in Nat /\ n \div 16777216 \in Int
         /\ n \div 256 \in Int /\ n \div 1 = n
  BY SMT

(* What the reader makes of the digits of a number of each width.            *)
Two(n) == 256 * ((n \div 256) % 256) + (n % 256)
Four(n) == 256 * (256 * (256 * Signed((n \div 16777216) % 256, 1) + ((n \div 65536) % 256))
                    + ((n \div 256) % 256)) + (n % 256)

LEMMA NumberOf ==
  ASSUME NEW m, NEW w, Begins(m, w), NEW width \in {1, 2, 4}, NEW p \in 1 .. Len(m),
         p + width <= Len(m) + 1, NEW n \in Int, BigEndian(w, p, width, n)
  PROVE  /\ width = 1 => Number(m, p, width) = (n % 256)
         /\ width = 2 => Number(m, p, width) = Two(n)
         /\ width = 4 => Number(m, p, width) = Four(n)
  <1>1. \A k \in 0 .. width - 1 : m[p + k] = (n \div Power[width - k]) % 256
    <2> SUFFICES ASSUME NEW k \in 0 .. width - 1
                 PROVE  m[p + k] = (n \div Power[width - k]) % 256
      OBVIOUS
    <2>1. p + k \in 1 .. Len(m)
      BY DEF Begins
    <2>2. m[p + k] = w.bytes[p + k]
      BY <2>1, SameBytes
    <2>3. w.bytes[p + k] = (n \div Power[width - k]) % 256
      BY DEF BigEndian
    <2> QED BY <2>2, <2>3
  <1>2. n \div 1 = n
    BY Digits
  <1>3. CASE width = 1
    <2>1. m[p + 0] = (n \div Power[1 - 0]) % 256
      BY <1>1, <1>3
    <2>2. m[p] = (n % 256)
      BY SMTT(30), <1>2, <2>1, Powers
    <2> QED BY <1>3, <2>2 DEF Number
  <1>4. CASE width = 2
    <2>1. m[p + 0] = (n \div Power[2 - 0]) % 256 /\ m[p + 1] = (n \div Power[2 - 1]) % 256
      BY <1>1, <1>4
    <2>2. m[p] = ((n \div 256) % 256) /\ m[p + 1] = (n % 256)
      BY SMTT(30), <1>2, <2>1, Powers
    <2> QED BY <1>4, <2>2 DEF Number, Two
  <1>5. CASE width = 4
    <2>1. /\ m[p + 0] = (n \div Power[4 - 0]) % 256 /\ m[p + 1] = (n \div Power[4 - 1]) % 256
          /\ m[p + 2] = (n \div Power[4 - 2]) % 256 /\ m[p + 3] = (n \div Power[4 - 3]) % 256
      BY <1>1, <1>5
    <2>2. /\ m[p] = (n \div Power[4]) % 256 /\ m[p + 1] = (n \div Power[3]) % 256
          /\ m[p + 2] = (n \div Power[2]) % 256 /\ m[p + 3] = (n \div Power[1]) % 256
      BY <2>1
    <2>3. /\ m[p] = ((n \div 16777216) % 256) /\ m[p + 1] = ((n \div 65536) % 256)
          /\ m[p + 2] = ((n \div 256) % 256) /\ m[p + 3] = (n % 256)
      BY <1>2, <2>2, Powers, SMT
    <2> QED BY <1>5, <2>3, SMT DEF Number, Four
  <1> QED BY <1>3, <1>4, <1>5

LEMMA Eight ==
  ASSUME NEW n \in Int
  PROVE  /\ 0 <= n /\ n < 256 => (n % 256) = n
         /\ -128 <= n /\ n < 128 => Signed(n % 256, 1) = n
  BY SMT DEF Signed

LEMMA Sixteen ==
  ASSUME NEW n \in Int
  PROVE  /\ 0 <= n /\ n < 65536 => Two(n) = n
         /\ -32768 <= n /\ n < 32768 => Signed(Two(n), 2) = n
  BY SMTT(30) DEF Signed, Two

LEMMA ThirtyTwo ==
  ASSUME NEW n \in Int, -128 <= n \div 16777216, n \div 16777216 < 128
  PROVE  Four(n) = n
  <1> DEFINE t == Signed((n \div 16777216) % 256, 1)
  <1>1. t = n \div 16777216
    BY SMT DEF Signed
  <1>2. Four(n) = 256 * (256 * (256 * t + ((n \div 65536) % 256)) + ((n \div 256) % 256))
                    + (n % 256)
    BY SMT DEF Four
  <1> HIDE DEF t
  <1>3. 256 * (256 * (256 * t + ((n \div 65536) % 256)) + ((n \div 256) % 256)) + (n % 256) = n
    BY <1>1, SMT
  <1> QED BY <1>2, <1>3, SMT

(* A number fits the marker it follows.                                      *)
IntFits(k, n) ==
  /\ k = 204 => 0 <= n /\ n < 256
  /\ k = 205 => 0 <= n /\ n < 65536
  /\ k = 208 => -128 <= n /\ n < 128 /\ (n < 0 => SignedChar)
  /\ k = 209 => -32768 <= n /\ n < 32768
  /\ k \in {206, 210} => -128 <= n \div 16777216 /\ n \div 16777216 < 128

LEMMA IntForms ==
  ASSUME NEW w, NEW p, NEW n, NEW q, IntAt(w, p, n, q)
  PROVE  /\ Part(w, p, q) /\ n \in Int
         /\ \/ /\ q = p + 1 /\ (w.bytes[p] < 128 \/ w.bytes[p] >= 224)
               /\ Signed(w.bytes[p], 1) = n
            \/ \E width \in {1, 2, 4} :
                 /\ w.bytes[p] \in DOMAIN Integer /\ Integer[w.bytes[p]] = width
                 /\ q = p + 1 + width /\ BigEndian(w, p + 1, width, n)
                 /\ IntFits(w.bytes[p], n)
  <1> DEFINE k == w.bytes[p]
  <1>1. Part(w, p, q) /\ n \in Int
    BY DEF IntAt
  <1>2. /\ 204 \in DOMAIN Integer /\ 205 \in DOMAIN Integer /\ 206 \in DOMAIN Integer
        /\ 208 \in DOMAIN Integer /\ 209 \in DOMAIN Integer /\ 210 \in DOMAIN Integer
        /\ Integer[204] = 1 /\ Integer[208] = 1 /\ Integer[205] = 2 /\ Integer[209] = 2
        /\ Integer[206] = 4 /\ Integer[210] = 4
    BY DEF Integer, Sized
  <1> DEFINE B(width) == BigEndian(w, p + 1, width, n)
  <1>3. \/ q = p + 1 /\ -32 <= n /\ n < 128 /\ k = n % 256
        \/ /\ q = p + 2 /\ B(1)
           /\ \/ k = 204 /\ 0 <= n /\ n < 256
              \/ k = 208 /\ -128 <= n /\ n < 128 /\ (n < 0 => SignedChar)
        \/ /\ q = p + 3 /\ B(2)
           /\ \/ k = 205 /\ 0 <= n /\ n < 65536
              \/ k = 209 /\ -32768 <= n /\ n < 32768
        \/ /\ q = p + 5 /\ B(4)
           /\ -128 <= n \div 16777216 /\ n \div 16777216 < 128 /\ k \in {206, 210}
    BY SMT DEF IntAt
  <1> HIDE DEF k, B
  <1>4. CASE q = p + 1 /\ -32 <= n /\ n < 128 /\ k = n % 256
    <2>1. (k < 128 \/ k >= 224) /\ Signed(k, 1) = n
      BY <1>1, <1>4, SMT DEF Signed
    <2> QED BY <1>1, <1>4, <2>1 DEF k
  <1>5. CASE /\ q = p + 2 /\ B(1)
             /\ \/ k = 204 /\ 0 <= n /\ n < 256
                \/ k = 208 /\ -128 <= n /\ n < 128 /\ (n < 0 => SignedChar)
    <2>1. k \in DOMAIN Integer /\ Integer[k] = 1
      BY <1>2, <1>5
    <2>2. q = p + 1 + 1
      BY <1>1, <1>5 DEF Part
    <2>3. IntFits(k, n)
      BY <1>5, SMT DEF IntFits
    <2>4. B(1)
      BY <1>5
    <2> QED BY <1>1, <2>1, <2>2, <2>3, <2>4 DEF k, B
  <1>6. CASE /\ q = p + 3 /\ B(2)
             /\ \/ k = 205 /\ 0 <= n /\ n < 65536
                \/ k = 209 /\ -32768 <= n /\ n < 32768
    <2>1. k \in DOMAIN Integer /\ Integer[k] = 2
      BY <1>2, <1>6, SMT
    <2>2. q = p + 1 + 2
      BY <1>1, <1>6, SMT DEF Part
    <2>3. IntFits(k, n)
      BY <1>6, SMT DEF IntFits
    <2>4. B(2)
      BY <1>6, SMT
    <2> QED BY <1>1, <2>1, <2>2, <2>3, <2>4 DEF k, B
  <1>7. CASE /\ q = p + 5 /\ B(4)
             /\ -128 <= n \div 16777216 /\ n \div 16777216 < 128 /\ k \in {206, 210}
    <2>1. k \in DOMAIN Integer /\ Integer[k] = 4
      BY <1>2, <1>7, SMT
    <2>2. q = p + 1 + 4
      BY <1>1, <1>7, SMT DEF Part
    <2>3. IntFits(k, n)
      BY <1>7, SMT DEF IntFits
    <2>4. B(4)
      BY <1>7, SMT
    <2> QED BY <1>1, <2>1, <2>2, <2>3, <2>4 DEF k, B
  <1> QED BY <1>3, <1>4, <1>5, <1>6, <1>7, SMT

(* The first byte tells integers, strings and arrays apart.                  *)
Marker(m, p) == IF p <= Len(m) THEN m[p] ELSE -1

IntLike(k) == k < 128 \/ k >= 224 \/ k \in DOMAIN Integer
StringLike(k) == k \in 160 .. 191 \/ k \in 217 .. 219
ArrayLike(k) == k \in 144 .. 159 \/ k \in 220 .. 221

LEMMA Apart ==
  ASSUME NEW k
  PROVE  /\ StringLike(k) => ~IntLike(k) /\ ~ArrayLike(k)
         /\ ArrayLike(k) => ~IntLike(k) /\ ~StringLike(k)
  <1>1. IntLike(k) <=> k < 128 \/ k >= 224 \/ k \in {204, 205, 206, 208, 209, 210}
    BY Widths DEF IntLike
  <1>2. ASSUME StringLike(k) PROVE ~IntLike(k) /\ ~ArrayLike(k)
    BY <1>1, <1>2 DEF StringLike, ArrayLike
  <1>3. ASSUME ArrayLike(k) PROVE ~IntLike(k) /\ ~StringLike(k)
    BY <1>1, <1>3 DEF StringLike, ArrayLike
  <1> QED BY <1>2, <1>3

LEMMA IntMarker ==
  ASSUME NEW m \in Message, NEW p \in 1 .. Len(m) + 1, nc_mp_parse_int(m, Cursor(m, p)).ok
  PROVE  /\ p <= Len(m)
         /\ IntLike(Marker(m, p))
  <1> DEFINE r == Cursor(m, p)
             k == m[p]
             w == Integer[k]
             n == Number(m, p + 1, w)
             v == IF k = 209 \/ (k = 208 /\ SignedChar) THEN Signed(n, w) ELSE n
             fix == k < 128 \/ k >= 224
             none == k \notin DOMAIN Integer
             u == Signed(k, 1)
             res == nc_mp_parse_int(m, r)
  <1>1. r.at = p /\ r.len = Len(m) + 1 - p
    BY DEF Cursor
  <1>2. res = IF r.len < 1 THEN Fail
              ELSE IF fix THEN Got(u, Advance(r, 1))
              ELSE IF none \/ r.len - 1 < w THEN Fail
              ELSE Got(v, Advance(r, 1 + w))
    BY <1>1 DEF nc_mp_parse_int
  <1>3. res.ok
    OBVIOUS
  <1> HIDE DEF fix, none, w, res, v, u, r
  <1>4. ~(r.len < 1) /\ (fix \/ ~none)
    BY <1>2, <1>3, FailReads
  <1>5. Len(m) \in Nat
    BY DEF Message
  <1>6. p <= Len(m)
    BY <1>1, <1>4, <1>5
  <1> QED BY <1>4, <1>6 DEF IntLike, Marker, fix, none

LEMMA LengthMarker ==
  ASSUME NEW m \in Message, NEW p \in 1 .. Len(m) + 1, NEW fix, NEW span, NEW Wide,
         Length(m, Cursor(m, p), fix, span, Wide).ok
  PROVE  /\ p <= Len(m)
         /\ Marker(m, p) \in fix .. fix + span - 1 \/ Marker(m, p) \in DOMAIN Wide
  <1> DEFINE r == Cursor(m, p)
  <1>1. r.at = p /\ r.len = Len(m) + 1 - p /\ Len(m) \in Nat /\ Within(m, r)
    BY DEF Cursor, Message, Within
  <1>2. ~(r.len < 1) /\ (m[r.at] \in fix .. fix + span - 1 \/ m[r.at] \in DOMAIN Wide)
    BY <1>1, LengthFrom
  <1> HIDE DEF r
  <1> QED BY <1>1, <1>2 DEF Marker

LEMMA StringMarker ==
  ASSUME NEW m \in Message, NEW p \in 1 .. Len(m) + 1, nc_mp_parse_string(m, Cursor(m, p)).ok
  PROVE  p <= Len(m) /\ StringLike(Marker(m, p))
  <1> DEFINE n == Length(m, Cursor(m, p), 160, 32, StringLen)
             str == SubSeq(m, n.next.at, n.next.at + n.val - 1)
             x == Advance(n.next, n.val)
             res == nc_mp_parse_string(m, Cursor(m, p))
  <1>1. res = IF ~n.ok THEN Fail ELSE IF n.next.len < n.val THEN Fail
              ELSE IF n.val < 0 THEN Astray ELSE Got(str, x)
    BY DEF nc_mp_parse_string
  <1>2. n.ok
    <2> HIDE DEF n, res, str, x
    <2>1. res.ok
      BY DEF res
    <2> QED BY <1>1, <2>1, FailReads
  <1>3. /\ p <= Len(m)
        /\ Marker(m, p) \in 160 .. 160 + 32 - 1 \/ Marker(m, p) \in DOMAIN StringLen
    BY ZenonT(30), <1>2, LengthMarker
  <1> QED BY <1>3, Widths DEF StringLike

LEMMA ArrayMarker ==
  ASSUME NEW m \in Message, NEW p \in 1 .. Len(m) + 1, nc_mp_parse_array(m, Cursor(m, p)).ok
  PROVE  p <= Len(m) /\ ArrayLike(Marker(m, p))
  <1>1. /\ p <= Len(m)
        /\ Marker(m, p) \in 144 .. 144 + 16 - 1 \/ Marker(m, p) \in DOMAIN ArrayLen
    BY LengthMarker DEF nc_mp_parse_array
  <1> QED BY <1>1, Widths DEF ArrayLike

LEMMA IntRead ==
  ASSUME NEW m, NEW w, Begins(m, w), NEW p \in 1 .. Len(m) + 1, NEW n, NEW q, IntAt(w, p, n, q)
  PROVE  /\ q <= Len(m) + 1 => nc_mp_parse_int(m, Cursor(m, p)) = Got(n, Cursor(m, q))
         /\ q > Len(m) + 1 => ~nc_mp_parse_int(m, Cursor(m, p)).ok
         /\ ~nc_mp_parse_string(m, Cursor(m, p)).ok
         /\ ~nc_mp_parse_array(m, Cursor(m, p)).ok
  <1> DEFINE r == Cursor(m, p)
             k == m[p]
             b == w.bytes[p]
             wd == Integer[k]
             num0 == Number(m, p + 1, wd)
             v == IF k = 209 \/ (k = 208 /\ SignedChar) THEN Signed(num0, wd) ELSE num0
             u == Signed(k, 1)
             fix == k < 128 \/ k >= 224
             none == k \notin DOMAIN Integer
             res == nc_mp_parse_int(m, r)
  <1>1. m \in Message /\ Len(m) \in Nat /\ p <= Len(w.bytes) /\ p \in Nat /\ q \in Nat /\ n \in Int
    BY IntForms DEF Begins, BeginningOf, Part
  <1>2. p <= Len(m) => k = b /\ k \in Nat /\ k <= 255
    BY <1>1, SameBytes
  <1>3. /\ r.at = p /\ r.len = Len(m) + 1 - p /\ Within(m, r)
        /\ \A a \in Nat : Advance(r, a) = Cursor(m, p + a)
    BY Cursors
  <1>4. \/ q = p + 1 /\ (b < 128 \/ b >= 224) /\ Signed(b, 1) = n
        \/ \E width \in {1, 2, 4} :
             /\ b \in DOMAIN Integer /\ Integer[b] = width
             /\ q = p + 1 + width /\ BigEndian(w, p + 1, width, n)
             /\ IntFits(b, n)
    BY IntForms
  <1>5. res = IF r.len < 1 THEN Fail
              ELSE IF fix THEN Got(u, Advance(r, 1))
              ELSE IF none \/ r.len - 1 < wd THEN Fail
              ELSE Got(v, Advance(r, 1 + wd))
    BY <1>3 DEF nc_mp_parse_int
  <1>6. p > Len(m) => ~res.ok /\ q > Len(m) + 1
    <2> SUFFICES ASSUME p > Len(m) PROVE ~res.ok /\ q > Len(m) + 1
      OBVIOUS
    <2>1. r.len < 1
      BY <1>1, <1>3
    <2>2. res = Fail
      BY <1>5, <2>1
    <2>3. q > p
      BY IntForms DEF Part
    <2> HIDE DEF res
    <2> QED BY <1>1, <2>2, <2>3, FailReads
  <1>7. ASSUME p <= Len(m), q = p + 1 /\ (b < 128 \/ b >= 224) /\ Signed(b, 1) = n
        PROVE  res = Got(n, Cursor(m, q)) /\ q <= Len(m) + 1
    <2>1. fix /\ u = n
      BY <1>2, <1>7
    <2>2. ~(r.len < 1) /\ Advance(r, 1) = Cursor(m, q)
      <3> HIDE DEF r
      <3> QED BY <1>1, <1>3, <1>7
    <2> HIDE DEF fix, u, res, r
    <2> QED BY <1>1, <1>5, <1>7, <2>1, <2>2
  <1>8. ASSUME p <= Len(m), NEW width \in {1, 2, 4}, b \in DOMAIN Integer, Integer[b] = width,
               q = p + 1 + width, BigEndian(w, p + 1, width, n), IntFits(b, n)
        PROVE  /\ q <= Len(m) + 1 => res = Got(n, Cursor(m, q))
               /\ q > Len(m) + 1 => ~res.ok
    <2>1. ~fix /\ ~none /\ wd = width /\ ~(r.len < 1) /\ b = k
      <3>1. b = k /\ ~(r.len < 1)
        <4> HIDE DEF r, b, k
        <4> QED BY <1>1, <1>2, <1>3, <1>8
      <3> HIDE DEF b, k
      <3>2. k \in {204, 205, 206, 208, 209, 210}
        BY <1>8, <3>1, Widths
      <3>3. ~fix
        BY <3>2
      <3> QED BY <1>8, <3>1, <3>3
    <2>2. CASE q > Len(m) + 1
      <3>1. r.len - 1 < wd
        BY SMTT(30), <1>1, <1>3, <1>8, <2>1, <2>2
      <3> HIDE DEF fix, none, wd, res, r, v, u
      <3>2. res = Fail
        BY <1>5, <2>1, <3>1
      <3> QED BY <1>1, <2>2, <3>2, FailReads
    <2>3. CASE q <= Len(m) + 1
      <3>1. ~(r.len - 1 < wd) /\ Advance(r, 1 + wd) = Cursor(m, q)
        <4> HIDE DEF r, wd
        <4>1. 1 + wd \in Nat /\ p + (1 + wd) = q
          BY SMTT(30), <1>1, <1>8, <2>1
        <4> QED BY SMTT(30), <1>1, <1>3, <1>8, <2>1, <2>3, <4>1
      <3>2. p + 1 \in 1 .. Len(m) /\ (p + 1) + width <= Len(m) + 1
        BY <1>1, <1>8, <2>3
      <3>3. /\ width = 1 => num0 = (n % 256)
            /\ width = 2 => num0 = Two(n)
            /\ width = 4 => num0 = Four(n)
        <4>1. num0 = Number(m, p + 1, width)
          BY <2>1
        <4> HIDE DEF num0
        <4> QED BY <1>1, <1>8, <3>2, <4>1, NumberOf, SMT
      <3>4. v = n
        <4>1. k \in {204, 205, 206, 208, 209, 210}
          BY <1>8, <2>1, Widths
        <4>2. width = IF k \in {204, 208} THEN 1 ELSE IF k \in {205, 209} THEN 2 ELSE 4
          BY <1>8, <2>1, <4>1 DEF Integer, Sized
        <4>3. IntFits(k, n) /\ wd = width
          BY <1>8, <2>1
        <4> HIDE DEF k, wd, num0
        <4>4. CASE k = 204
          <5>1. width = 1 /\ 0 <= n /\ n < 256
            BY <4>2, <4>3, <4>4, SMT DEF IntFits
          <5> QED BY <1>1, <3>3, <4>4, <5>1, Eight
        <4>5. CASE k = 205
          <5>1. width = 2 /\ 0 <= n /\ n < 65536
            BY <4>2, <4>3, <4>5, SMT DEF IntFits
          <5>2. num0 = Two(n)
            BY <3>3, <5>1, SMT
          <5> QED BY <1>1, <4>5, <5>1, <5>2, Sixteen, SMT
        <4>6. CASE k = 208
          <5>1. width = 1 /\ -128 <= n /\ n < 128 /\ (n < 0 => SignedChar)
            BY <4>2, <4>3, <4>6, SMT DEF IntFits
          <5>2. num0 = (n % 256)
            BY <3>3, <5>1, SMT
          <5>3. Signed(n % 256, 1) = n /\ (0 <= n => (n % 256) = n)
            BY <1>1, <5>1, Eight, SMT
          <5>4. Signed(num0, 1) = n /\ (0 <= n => num0 = n)
            BY <5>2, <5>3
          <5> QED BY <1>1, <4>3, <4>6, <5>1, <5>4
        <4>7. CASE k = 209
          <5>1. width = 2 /\ -32768 <= n /\ n < 32768
            BY <4>2, <4>3, <4>7, SMT DEF IntFits
          <5>2. num0 = Two(n)
            BY <3>3, <5>1, SMT
          <5>3. Signed(num0, 2) = n
            BY <1>1, <5>1, <5>2, Sixteen, SMT
          <5> QED BY <4>3, <4>7, <5>1, <5>3
        <4>8. CASE k \in {206, 210}
          <5>1. width = 4 /\ -128 <= n \div 16777216 /\ n \div 16777216 < 128
            BY <4>2, <4>3, <4>8, SMT DEF IntFits
          <5>2. num0 = n
            BY <1>1, <3>3, <5>1, ThirtyTwo, SMT
          <5> QED BY <4>8, <5>2
        <4> QED BY <4>1, <4>4, <4>5, <4>6, <4>7, <4>8
      <3> HIDE DEF fix, none, wd, res, r, v, u
      <3>5. res = Got(v, Advance(r, 1 + wd))
        BY <1>5, <2>1, <3>1
      <3> QED BY <1>1, <2>3, <3>1, <3>4, <3>5
    <2> QED BY <1>1, <2>2, <2>3
  <1>9. /\ q <= Len(m) + 1 => res = Got(n, Cursor(m, q))
        /\ q > Len(m) + 1 => ~res.ok
    <2> HIDE DEF res, r, b, k
    <2>1. CASE p > Len(m)
      BY <1>1, <1>6, <2>1
    <2>2. CASE p <= Len(m)
      BY <1>1, <1>4, <1>7, <1>8, <2>2
    <2> QED BY <1>1, <2>1, <2>2
  <1>10. p <= Len(m) => IntLike(Marker(m, p))
    <2> SUFFICES ASSUME p <= Len(m) PROVE IntLike(Marker(m, p))
      OBVIOUS
    <2>1. b < 128 \/ b >= 224 \/ b \in DOMAIN Integer
      BY <1>4
    <2>2. Marker(m, p) = b
      BY <1>2 DEF Marker
    <2> QED BY <2>1, <2>2 DEF IntLike
  <1>11. ~nc_mp_parse_string(m, r).ok
    BY <1>1, <1>10, StringMarker, Apart
  <1>12. ~nc_mp_parse_array(m, r).ok
    BY <1>1, <1>10, ArrayMarker, Apart
  <1> QED BY <1>9, <1>11, <1>12

-----------------------------------------------------------------------------
(* Lengths.                                                                  *)

LengthFits(width, n) ==
  /\ width = 1 => n < 256
  /\ width = 2 => 0 <= n /\ n < 65536
  /\ width = 4 => -128 <= n \div 16777216 /\ n \div 16777216 < 128

LEMMA LengthForms ==
  ASSUME NEW w, NEW p, NEW n, NEW fix, NEW span, NEW marks, NEW q,
         LengthAt(w, p, n, fix, span, marks, q)
  PROVE  /\ Part(w, p, q) /\ n \in Nat
         /\ \/ q = p + 1 /\ n < span /\ w.bytes[p] = fix + n
            \/ \E width \in {1, 2, 4} :
                 /\ q = p + 1 + width /\ w.bytes[p] = marks[width]
                 /\ BigEndian(w, p + 1, width, n) /\ LengthFits(width, n)
  <1>1. Part(w, p, q) /\ n \in Nat
    BY DEF LengthAt
  <1>2. CASE q = p + 1 /\ n < span /\ w.bytes[p] = fix + n
    BY <1>1, <1>2
  <1>3. ASSUME NEW width \in {1, 2, 4}, q = p + 1 + width, w.bytes[p] = marks[width],
               n \div Power[width] < (IF width = 4 THEN 128 ELSE 256),
               BigEndian(w, p + 1, width, n)
        PROVE  LengthFits(width, n)
    <2>1. CASE width = 1
      <3>1. n \div Power[1] < 256
        BY <1>3, <2>1
      <3>2. n \div 1 = n /\ Power[1] = 1
        BY <1>1, Digits, Powers
      <3> QED BY <2>1, <3>1, <3>2, SMT DEF LengthFits
    <2>2. CASE width = 2
      <3>1. n \div Power[2] < 256
        BY <1>3, <2>2
      <3>2. n \div 256 < 256
        BY <3>1, Powers, SMT
      <3>3. 0 <= n /\ n < 65536
        BY <1>1, <3>2, SMT
      <3> QED BY <2>2, <3>3, SMT DEF LengthFits
    <2>3. CASE width = 4
      <3>1. n \div Power[4] < 128
        BY <1>3, <2>3
      <3>2. n \div 16777216 < 128
        BY <3>1, Powers, SMT
      <3>3. -128 <= n \div 16777216
        BY <1>1, SMT
      <3> QED BY <2>3, <3>2, <3>3, SMT DEF LengthFits
    <2> QED BY <2>1, <2>2, <2>3
  <1> QED BY <1>1, <1>2, <1>3 DEF LengthAt

(* The markers of the format are those the reader knows.                     *)
Agree(marks, fix, span, Wide) ==
  \A width \in {1, 2, 4} :
    \/ marks[width] = -1
    \/ /\ marks[width] \in DOMAIN Wide /\ Wide[marks[width]] = width
       /\ marks[width] \notin fix .. fix + span - 1

LEMMA LengthNumber ==
  ASSUME NEW m, NEW w, Begins(m, w), NEW p \in 1 .. Len(m), NEW width \in {1, 2, 4},
         p + width <= Len(m) + 1, NEW n \in Nat, BigEndian(w, p, width, n), LengthFits(width, n)
  PROVE  Number(m, p, width) = n
  <1> DEFINE v == Number(m, p, width)
  <1>1. /\ width = 1 => v = (n % 256)
        /\ width = 2 => v = Two(n)
        /\ width = 4 => v = Four(n)
    BY NumberOf, SMT
  <1> HIDE DEF v
  <1>2. v = n
    <2>1. CASE width = 1
      BY <1>1, <2>1, Eight, SMT DEF LengthFits
    <2>2. CASE width = 2
      BY <1>1, <2>2, Sixteen, SMT DEF LengthFits
    <2>3. CASE width = 4
      BY <1>1, <2>3, ThirtyTwo, SMT DEF LengthFits
    <2> QED BY <2>1, <2>2, <2>3
  <1> QED BY <1>2 DEF v

LEMMA LengthRead ==
  ASSUME NEW m, NEW w, Begins(m, w), NEW p \in 1 .. Len(m) + 1, NEW n, NEW q,
         NEW fix \in Nat, NEW span \in Nat, NEW marks, NEW Wide, Agree(marks, fix, span, Wide),
         LengthAt(w, p, n, fix, span, marks, q)
  PROVE  /\ q <= Len(m) + 1 => Length(m, Cursor(m, p), fix, span, Wide) = Got(n, Cursor(m, q))
         /\ q > Len(m) + 1 => ~Length(m, Cursor(m, p), fix, span, Wide).ok
  <1> DEFINE r == Cursor(m, p)
             k == m[p]
             b == w.bytes[p]
             wd == Wide[k]
             v == Number(m, p + 1, wd)
             u == k - fix
             low == k \in fix .. fix + span - 1
             none == k \notin DOMAIN Wide
             res == Length(m, r, fix, span, Wide)
  <1>1. /\ m \in Message /\ Len(m) \in Nat /\ p <= Len(w.bytes) /\ p \in Nat /\ q \in Nat
        /\ n \in Nat /\ p < q
    BY LengthForms DEF Begins, BeginningOf, Part
  <1>2. p <= Len(m) => k = b /\ k \in Nat
    BY <1>1, SameBytes
  <1>3. /\ r.at = p /\ r.len = Len(m) + 1 - p
        /\ \A a \in Nat : Advance(r, a) = Cursor(m, p + a)
    BY Cursors
  <1>4. res = IF r.len < 1 THEN Fail
              ELSE IF low THEN Got(u, Advance(r, 1))
              ELSE IF none \/ r.len - 1 < wd THEN Fail
              ELSE Got(v, Advance(r, 1 + wd))
    BY <1>3 DEF Length
  <1>5. p > Len(m) => ~res.ok /\ q > Len(m) + 1
    <2> SUFFICES ASSUME p > Len(m) PROVE ~res.ok /\ q > Len(m) + 1
      OBVIOUS
    <2>1. r.len < 1
      BY <1>1, <1>3
    <2>2. res = Fail
      BY <1>4, <2>1
    <2> HIDE DEF res
    <2> QED BY <1>1, <2>2, FailReads
  <1>6. ASSUME p <= Len(m), q = p + 1, n < span, b = fix + n
        PROVE  res = Got(n, Cursor(m, q)) /\ q <= Len(m) + 1
    <2>1. low /\ u = n
      <3> HIDE DEF k, b
      <3> QED BY <1>1, <1>2, <1>6
    <2>2. ~(r.len < 1) /\ Advance(r, 1) = Cursor(m, q)
      <3> HIDE DEF r
      <3> QED BY SMTT(30), <1>1, <1>3, <1>6
    <2> HIDE DEF low, u, res, r
    <2> QED BY <1>1, <1>4, <1>6, <2>1, <2>2
  <1>7. ASSUME p <= Len(m), NEW width \in {1, 2, 4}, q = p + 1 + width, b = marks[width],
               BigEndian(w, p + 1, width, n), LengthFits(width, n)
        PROVE  /\ q <= Len(m) + 1 => res = Got(n, Cursor(m, q))
               /\ q > Len(m) + 1 => ~res.ok
    <2>1. ~low /\ ~none /\ wd = width /\ ~(r.len < 1)
      <3>1. b = k /\ k \in Nat /\ ~(r.len < 1)
        <4> HIDE DEF r, b, k
        <4>1. b = k /\ k \in Nat
          BY <1>2, <1>7
        <4> QED BY <1>1, <1>3, <1>7, <4>1
      <3>2. marks[width] = k /\ k # -1
        <4> HIDE DEF b, k
        <4> QED BY <1>7, <3>1, SMT
      <3> HIDE DEF b, k
      <3>3. k \in DOMAIN Wide /\ Wide[k] = width /\ k \notin fix .. fix + span - 1
        BY <3>2 DEF Agree
      <3> QED BY <3>1, <3>3
    <2>2. CASE q > Len(m) + 1
      <3>1. r.len - 1 < wd
        <4> HIDE DEF r, wd
        <4> QED BY <1>1, <1>3, <1>7, <2>1, <2>2, SMT
      <3> HIDE DEF low, none, wd, res, r, v, u
      <3>2. res = Fail
        BY <1>4, <2>1, <3>1
      <3> QED BY <1>1, <2>2, <3>2, FailReads
    <2>3. CASE q <= Len(m) + 1
      <3>1. ~(r.len - 1 < wd) /\ Advance(r, 1 + wd) = Cursor(m, q)
        <4> HIDE DEF r, wd
        <4>1. 1 + wd \in Nat /\ p + (1 + wd) = q
          BY <1>1, <1>7, <2>1, SMT
        <4>2. Advance(r, 1 + wd) = Cursor(m, p + (1 + wd))
          BY <1>3, <4>1
        <4>3. wd \in Nat /\ wd = width
          BY <2>1
        <4>4. ~(r.len - 1 < wd)
          BY <1>1, <1>3, <2>3, <4>1, <4>3
        <4> QED BY <4>1, <4>2, <4>4
      <3>2. p + 1 \in 1 .. Len(m) /\ (p + 1) + width <= Len(m) + 1
        BY <1>1, <1>7, <2>3, SMT
      <3>3. v = n
        <4>1. v = Number(m, p + 1, width)
          BY <2>1
        <4> HIDE DEF v
        <4> QED BY <1>1, <1>7, <3>2, <4>1, LengthNumber, SMTT(30)
      <3> HIDE DEF low, none, wd, res, r, v, u
      <3>4. res = Got(v, Advance(r, 1 + wd))
        BY <1>4, <2>1, <3>1
      <3> QED BY <1>1, <2>3, <3>1, <3>3, <3>4
    <2> QED BY <1>1, <2>2, <2>3
  <1>8. \/ q = p + 1 /\ n < span /\ b = fix + n
        \/ \E width \in {1, 2, 4} :
             /\ q = p + 1 + width /\ b = marks[width]
             /\ BigEndian(w, p + 1, width, n) /\ LengthFits(width, n)
    BY LengthForms
  <1>9. /\ q <= Len(m) + 1 => res = Got(n, Cursor(m, q))
        /\ q > Len(m) + 1 => ~res.ok
    <2> HIDE DEF res, r, b, k
    <2>1. CASE p > Len(m)
      BY <1>1, <1>5, <2>1
    <2>2. CASE p <= Len(m)
      BY <1>1, <1>6, <1>7, <1>8, <2>2
    <2> QED BY <1>1, <2>1, <2>2
  <1> QED BY <1>9

LEMMA FormatMarkers ==
  \A width \in {1, 2, 4} : /\ StrMarks[width] \in {217, 218, 219}
                           /\ ArrMarks[width] \in {-1, 220, 221}
  BY DEF StrMarks, ArrMarks, Marks

LEMMA FormatsAgree ==
  /\ Agree(StrMarks, 160, 32, StringLen) /\ Agree(ArrMarks, 144, 16, ArrayLen)
  /\ Agree(MapMarks, 128, 16, MapLen)
  <1>1. /\ StrMarks[1] = 217 /\ StrMarks[2] = 218 /\ StrMarks[4] = 219
        /\ ArrMarks[1] = -1 /\ ArrMarks[2] = 220 /\ ArrMarks[4] = 221
        /\ MapMarks[1] = -1 /\ MapMarks[2] = 222 /\ MapMarks[4] = 223
    BY DEF StrMarks, ArrMarks, MapMarks, Marks
  <1>2. /\ 217 \in DOMAIN StringLen /\ 218 \in DOMAIN StringLen /\ 219 \in DOMAIN StringLen
        /\ StringLen[217] = 1 /\ StringLen[218] = 2 /\ StringLen[219] = 4
        /\ 220 \in DOMAIN ArrayLen /\ 221 \in DOMAIN ArrayLen
        /\ ArrayLen[220] = 2 /\ ArrayLen[221] = 4
        /\ 222 \in DOMAIN MapLen /\ 223 \in DOMAIN MapLen
        /\ MapLen[222] = 2 /\ MapLen[223] = 4
    BY DEF StringLen, ArrayLen, MapLen, Sized
  <1>3. Agree(StrMarks, 160, 32, StringLen)
    BY <1>1, <1>2 DEF Agree
  <1>4. Agree(ArrMarks, 144, 16, ArrayLen)
    BY <1>1, <1>2 DEF Agree
  <1>5. Agree(MapMarks, 128, 16, MapLen)
    BY <1>1, <1>2 DEF Agree
  <1> QED BY <1>3, <1>4, <1>5

LEMMA ArrMarked ==
  ASSUME NEW m, NEW w, Begins(m, w), NEW p \in 1 .. Len(m) + 1, NEW n, NEW d,
         LengthAt(w, p, n, 144, 16, ArrMarks, d), p <= Len(m)
  PROVE  ArrayLike(Marker(m, p))
  <1> DEFINE b == w.bytes[p]
  <1>0. Marker(m, p) = b /\ n \in Nat
    BY LengthForms, SameBytes DEF Marker, Begins
  <1>1. \/ n < 16 /\ b = 144 + n
        \/ \E width \in {1, 2, 4} : b = ArrMarks[width]
    BY LengthForms
  <1> HIDE DEF b
  <1>2. CASE n < 16 /\ b = 144 + n
    BY <1>0, <1>2 DEF ArrayLike
  <1>3. ASSUME NEW width \in {1, 2, 4}, Marker(m, p) = ArrMarks[width]
        PROVE  ArrayLike(Marker(m, p))
    <2>1. p \in 1 .. Len(m) /\ p \in 1 .. Len(w.bytes)
      BY DEF Begins, BeginningOf
    <2>2. m[p] \in Nat
      BY <2>1, SameBytes
    <2>3. Marker(m, p) \in Nat
      BY <2>2 DEF Marker
    <2>4. Marker(m, p) \in {-1, 220, 221}
      BY <1>3, FormatMarkers
    <2> QED BY <2>3, <2>4 DEF ArrayLike
  <1> QED BY <1>0, <1>1, <1>2, <1>3

LEMMA ArrRead ==
  ASSUME NEW m, NEW w, Begins(m, w), NEW p \in 1 .. Len(m) + 1, NEW n, NEW q, ArrAt(w, p, n, q)
  PROVE  /\ q <= Len(m) + 1 => nc_mp_parse_array(m, Cursor(m, p)) = Got(n, Cursor(m, q))
         /\ q > Len(m) + 1 => ~nc_mp_parse_array(m, Cursor(m, p)).ok
         /\ ~nc_mp_parse_int(m, Cursor(m, p)).ok
         /\ ~nc_mp_parse_string(m, Cursor(m, p)).ok
  <1>1. LengthAt(w, p, n, 144, 16, ArrMarks, q) /\ m \in Message
    BY DEF ArrAt, Begins
  <1>2. /\ q <= Len(m) + 1 => Length(m, Cursor(m, p), 144, 16, ArrayLen) = Got(n, Cursor(m, q))
        /\ q > Len(m) + 1 => ~Length(m, Cursor(m, p), 144, 16, ArrayLen).ok
    <2> DEFINE fix == 144
               span == 16
    <2>1. /\ fix \in Nat /\ span \in Nat /\ LengthAt(w, p, n, fix, span, ArrMarks, q)
          /\ Agree(ArrMarks, fix, span, ArrayLen)
      BY <1>1, FormatsAgree
    <2> HIDE DEF fix, span
    <2>2. /\ q <= Len(m) + 1 => Length(m, Cursor(m, p), fix, span, ArrayLen) = Got(n, Cursor(m, q))
          /\ q > Len(m) + 1 => ~Length(m, Cursor(m, p), fix, span, ArrayLen).ok
      BY <2>1, LengthRead
    <2> QED BY <2>2 DEF fix, span
  <1>3. p <= Len(m) => ArrayLike(Marker(m, p))
    BY <1>1, ArrMarked
  <1>5. ~nc_mp_parse_int(m, Cursor(m, p)).ok
    BY <1>1, <1>3, IntMarker, Apart
  <1>6. ~nc_mp_parse_string(m, Cursor(m, p)).ok
    BY <1>1, <1>3, StringMarker, Apart
  <1> QED BY <1>2, <1>5, <1>6 DEF nc_mp_parse_array

LEMMA MapRead ==
  ASSUME NEW m, NEW w, Begins(m, w), NEW p \in 1 .. Len(m) + 1, NEW n, NEW q, MapAt(w, p, n, q)
  PROVE  /\ q <= Len(m) + 1 => nc_mp_parse_mapping(m, Cursor(m, p)) = Got(n, Cursor(m, q))
         /\ q > Len(m) + 1 => ~nc_mp_parse_mapping(m, Cursor(m, p)).ok
  <1>1. LengthAt(w, p, n, 128, 16, MapMarks, q)
    BY DEF MapAt
  <1> DEFINE fix == 128
             span == 16
  <1>2. /\ fix \in Nat /\ span \in Nat /\ LengthAt(w, p, n, fix, span, MapMarks, q)
        /\ Agree(MapMarks, fix, span, MapLen)
    BY <1>1, FormatsAgree
  <1> HIDE DEF fix, span
  <1>3. /\ q <= Len(m) + 1 => Length(m, Cursor(m, p), fix, span, MapLen) = Got(n, Cursor(m, q))
        /\ q > Len(m) + 1 => ~Length(m, Cursor(m, p), fix, span, MapLen).ok
    BY <1>2, LengthRead
  <1> QED BY <1>3 DEF fix, span, nc_mp_parse_mapping

LEMMA StrMarked ==
  ASSUME NEW m, NEW w, Begins(m, w), NEW p \in 1 .. Len(m) + 1, NEW n, NEW d,
         LengthAt(w, p, n, 160, 32, StrMarks, d), p <= Len(m)
  PROVE  StringLike(Marker(m, p))
  <1> DEFINE b == w.bytes[p]
  <1>0. Marker(m, p) = b /\ n \in Nat
    BY LengthForms, SameBytes DEF Marker, Begins
  <1>1. \/ n < 32 /\ b = 160 + n
        \/ \E width \in {1, 2, 4} : b = StrMarks[width]
    BY LengthForms
  <1> HIDE DEF b
  <1>2. CASE n < 32 /\ b = 160 + n
    BY <1>0, <1>2 DEF StringLike
  <1>3. ASSUME NEW width \in {1, 2, 4}, Marker(m, p) = StrMarks[width]
        PROVE  StringLike(Marker(m, p))
    <2>1. Marker(m, p) \in {217, 218, 219}
      BY <1>3, FormatMarkers
    <2> QED BY <2>1 DEF StringLike
  <1> QED BY <1>0, <1>1, <1>2, <1>3

LEMMA StrRead ==
  ASSUME NEW m, NEW w, Begins(m, w), NEW p \in 1 .. Len(m) + 1, NEW s, NEW q, StrAt(w, p, s, q)
  PROVE  /\ q <= Len(m) + 1 => nc_mp_parse_string(m, Cursor(m, p)) = Got(s, Cursor(m, q))
         /\ q > Len(m) + 1 => ~nc_mp_parse_string(m, Cursor(m, p)).ok
         /\ ~nc_mp_parse_int(m, Cursor(m, p)).ok
         /\ ~nc_mp_parse_array(m, Cursor(m, p)).ok
  <1>1. PICK d \in p + 1 .. q : /\ LengthAt(w, p, q - d, 160, 32, StrMarks, d)
                               /\ Part(w, p, q) /\ s = SubSeq(w.bytes, d, q - 1)
    BY DEF StrAt
  <1>2. m \in Message /\ Len(m) \in Nat /\ p \in Nat /\ q \in Nat /\ d \in Nat /\ p < d /\ d <= q
    BY <1>1 DEF Begins, Part
  <1> DEFINE n == Length(m, Cursor(m, p), 160, 32, StringLen)
             str == SubSeq(m, n.next.at, n.next.at + n.val - 1)
             x == Advance(n.next, n.val)
             res == nc_mp_parse_string(m, Cursor(m, p))
  <1>3. /\ d <= Len(m) + 1 => n = Got(q - d, Cursor(m, d))
        /\ d > Len(m) + 1 => ~n.ok
    <2> DEFINE fix == 160
               span == 32
               v == q - d
    <2>1. /\ fix \in Nat /\ span \in Nat /\ LengthAt(w, p, v, fix, span, StrMarks, d)
          /\ Agree(StrMarks, fix, span, StringLen)
      BY <1>1, FormatsAgree
    <2> HIDE DEF n, v, fix, span
    <2>2. /\ d <= Len(m) + 1 => Length(m, Cursor(m, p), fix, span, StringLen) = Got(v, Cursor(m, d))
          /\ d > Len(m) + 1 => ~Length(m, Cursor(m, p), fix, span, StringLen).ok
      BY <2>1, LengthRead
    <2> QED BY <2>2 DEF n, v, fix, span
  <1>4. res = IF ~n.ok THEN Fail ELSE IF n.next.len < n.val THEN Fail
              ELSE IF n.val < 0 THEN Astray ELSE Got(str, x)
    BY DEF nc_mp_parse_string
  <1>5. ASSUME d <= Len(m) + 1
        PROVE  /\ n.ok /\ n.next = Cursor(m, d) /\ n.val = q - d
               /\ n.next.at = d /\ n.next.len = Len(m) + 1 - d
    <2>1. n = Got(q - d, Cursor(m, d))
      BY <1>3, <1>5
    <2> HIDE DEF n
    <2> QED BY <2>1 DEF Got, Cursor
  <1>6. ASSUME q <= Len(m) + 1
        PROVE  res = Got(s, Cursor(m, q))
    <2>1. d <= Len(m) + 1
      BY <1>2, <1>6
    <2>2. str = s
      <3>1. str = SubSeq(m, d, q - 1)
        <4>1. n.next.at = d /\ n.val = q - d
          BY <1>5, <2>1
        <4>2. d + (q - d) - 1 = q - 1
          BY <1>2
        <4> HIDE DEF n
        <4> QED BY <4>1, <4>2
      <3>2. SubSeq(m, d, q - 1) = SubSeq(w.bytes, d, q - 1)
        BY <1>2, <1>6, SameParts
      <3> QED BY <1>1, <3>1, <3>2
    <2>3. x = Cursor(m, q)
      <3>1. \A a \in Nat : Advance(Cursor(m, d), a) = Cursor(m, d + a)
        <4>1. d \in 1 .. Len(m) + 1
          BY <1>2, <2>1
        <4> QED BY <4>1, Cursors
      <3>2. q - d \in Nat /\ d + (q - d) = q
        BY <1>2
      <3>3. x = Advance(Cursor(m, d), q - d)
        BY <1>5, <2>1
      <3> HIDE DEF x
      <3> QED BY <3>1, <3>2, <3>3
    <2>4. n.ok /\ ~(n.next.len < n.val) /\ ~(n.val < 0)
      <3>1. n.next.len = Len(m) + 1 - d /\ n.val = q - d /\ n.ok
        BY <1>5, <2>1
      <3> HIDE DEF n
      <3> QED BY <1>2, <1>6, <3>1
    <2> HIDE DEF res, n, str, x
    <2> QED BY <1>4, <2>2, <2>3, <2>4
  <1>7. ASSUME q > Len(m) + 1
        PROVE  ~res.ok
    <2>1. ~n.ok \/ n.next.len < n.val
      <3>1. CASE d > Len(m) + 1
        BY <1>3, <3>1
      <3>2. CASE d <= Len(m) + 1
        <4>1. n.next.len = Len(m) + 1 - d /\ n.val = q - d
          BY <1>5, <3>2
        <4> HIDE DEF n
        <4> QED BY <1>2, <1>7, <4>1
      <3> QED BY <1>2, <3>1, <3>2
    <2> HIDE DEF res, n, str, x
    <2>2. res = Fail
      BY <1>4, <2>1
    <2> QED BY <2>2, FailReads
  <1>8. p <= Len(m) => StringLike(Marker(m, p))
    BY <1>1, StrMarked
  <1>9. ~nc_mp_parse_int(m, Cursor(m, p)).ok
    BY <1>2, <1>8, IntMarker, Apart
  <1>10. ~nc_mp_parse_array(m, Cursor(m, p)).ok
    BY <1>2, <1>8, ArrayMarker, Apart
  <1> QED BY <1>6, <1>7, <1>9, <1>10

-----------------------------------------------------------------------------
(* Skipped values.                                                           *)

LEMMA SkipEnds ==
  ASSUME NEW m, NEW w, Begins(m, w), NEW p \in 1 .. Len(m), NEW n, NEW q \in Nat,
         SkipContent(m, m[p], Cursor(m, p + 1)) = Got(n, Cursor(m, q))
  PROVE  /\ q <= Len(m) + 1 => nc_mp_skip_value(m, Cursor(m, p)) = Got(n, Cursor(m, q))
         /\ q > Len(m) + 1 => ~nc_mp_skip_value(m, Cursor(m, p)).ok
  <1> DEFINE r == Cursor(m, p)
             body == SkipContent(m, m[p], Cursor(m, p + 1))
             res == nc_mp_skip_value(m, r)
  <1>1. Len(m) \in Nat /\ p \in 1 .. Len(m) + 1
    BY DEF Begins
  <1>2. r.at = p /\ r.len = Len(m) + 1 - p /\ Advance(r, 1) = Cursor(m, p + 1)
    BY <1>1, Cursors
  <1>3. ~(r.len < 1)
    <2> HIDE DEF r
    <2> QED BY <1>1, <1>2
  <1>4. res = IF ~body.ok THEN body ELSE IF body.next.len < 0 THEN Fail ELSE body
    BY <1>2, <1>3 DEF nc_mp_skip_value
  <1>5. body.ok /\ body.next.len = Len(m) + 1 - q /\ body = Got(n, Cursor(m, q))
    <2>1. Cursor(m, q).len = Len(m) + 1 - q
      BY DEF Cursor
    <2> QED BY <2>1, GotReads
  <1> HIDE DEF body, res
  <1>6. /\ q <= Len(m) + 1 => res = Got(n, Cursor(m, q))
        /\ q > Len(m) + 1 => res = Fail
    BY <1>1, <1>4, <1>5
  <1> QED BY <1>6, FailReads DEF res

LEMMA SkipFails ==
  ASSUME NEW m, NEW w, Begins(m, w), NEW p \in 1 .. Len(m) + 1,
         p > Len(m) \/ SkipContent(m, m[p], Cursor(m, p + 1)) = Fail
  PROVE  ~nc_mp_skip_value(m, Cursor(m, p)).ok
  <1> DEFINE r == Cursor(m, p)
             body == SkipContent(m, m[p], Cursor(m, p + 1))
             res == nc_mp_skip_value(m, r)
  <1>1. Len(m) \in Nat
    BY DEF Begins
  <1>2. r.at = p /\ r.len = Len(m) + 1 - p /\ Advance(r, 1) = Cursor(m, p + 1)
    BY Cursors
  <1>3. res = IF r.len < 1 THEN Fail
              ELSE IF ~body.ok THEN body ELSE IF body.next.len < 0 THEN Fail ELSE body
    BY <1>2 DEF nc_mp_skip_value
  <1>4. r.len < 1 \/ (~body.ok /\ body = Fail)
    <2>1. CASE p > Len(m)
      <3> HIDE DEF r
      <3> QED BY <1>1, <1>2, <2>1
    <2>2. CASE body = Fail
      BY <2>2, FailReads
    <2> QED BY <2>1, <2>2
  <1> HIDE DEF body, res, r
  <1>5. res = Fail
    BY <1>3, <1>4
  <1> QED BY <1>5, FailReads DEF res, r

(* A blob whose length has a marker of its own.                              *)
LEMMA BlobRead ==
  ASSUME NEW m, NEW w, Begins(m, w), NEW p \in 1 .. Len(m), NEW width \in {1, 2, 4},
         NEW n \in Nat, BigEndian(w, p + 1, width, n), LengthFits(width, n),
         m[p] \in DOMAIN Blob, Blob[m[p]] = width, NEW q, q = p + 1 + width + n
  PROVE  /\ q <= Len(m) + 1 => nc_mp_skip_value(m, Cursor(m, p)) = Got(0, Cursor(m, q))
         /\ q > Len(m) + 1 => ~nc_mp_skip_value(m, Cursor(m, p)).ok
  <1> DEFINE h == Cursor(m, p + 1)
             k == m[p]
  <1>1. /\ Len(m) \in Nat /\ p \in Nat /\ p \in 1 .. Len(m) + 1 /\ p + 1 \in 1 .. Len(m) + 1
        /\ q \in Nat /\ width \in Nat
    BY DEF Begins
  <1>2. h.at = p + 1 /\ h.len = Len(m) + 1 - (p + 1) /\ \A a \in Nat : Advance(h, a) = Cursor(m, p + 1 + a)
    BY ZenonT(30), <1>1, Cursors
  <1>3. k \in Nat
    BY <1>1, Bytes DEF Begins, Message
  <1>4. SkipContent(m, k, h) = SkipBlob(m, h, width)
    <2> HIDE DEF k
    <2>1. k \in DOMAIN Blob /\ Blob[k] = width
      BY DEF k
    <2> QED BY <1>3, <2>1, Contents
  <1>5. CASE h.len < width
    <2>1. SkipContent(m, k, h) = Fail
      BY <1>4, <1>5 DEF SkipBlob
    <2>2. q > Len(m) + 1
      <3>1. h.len = Len(m) + 1 - (p + 1)
        BY <1>2
      <3> HIDE DEF h
      <3> QED BY SMTT(30), <1>1, <1>5, <3>1
    <2> QED BY <1>1, <2>1, <2>2, SkipFails
  <1>6. CASE ~(h.len < width)
    <2>1. p + 1 \in 1 .. Len(m) /\ (p + 1) + width <= Len(m) + 1
      <3>1. h.len = Len(m) + 1 - (p + 1)
        BY <1>2
      <3> HIDE DEF h
      <3> QED BY <1>1, <1>6, <3>1
    <2>2. Number(m, p + 1, width) = n
      BY <2>1, LengthNumber
    <2>3. Number(m, h.at, width) = n
      BY <1>2, <2>2
    <2>4. width + n \in Nat /\ p + 1 + (width + n) = q
      BY SMTT(30), <1>1
    <2>5. Advance(h, width + n) = Cursor(m, q)
      <3> HIDE DEF h
      <3> QED BY <1>2, <2>4
    <2> HIDE DEF h
    <2>6. SkipContent(m, k, h) = Got(0, Cursor(m, q))
      <3>1. width + n >= 0
        BY <2>4
      <3> QED BY <1>4, <1>6, <2>3, <2>5, <3>1 DEF SkipBlob
    <2> QED BY <1>1, <2>6, SkipEnds DEF h
  <1> QED BY <1>5, <1>6

(* The two bytes of the length of an array or mapping.                       *)
LEMMA CountRead ==
  ASSUME NEW m, NEW w, Begins(m, w), NEW p \in 1 .. Len(m), NEW each \in {1, 2},
         NEW n \in Nat, BigEndian(w, p + 1, 2, n), LengthFits(2, n),
         SkipContent(m, m[p], Cursor(m, p + 1)) = SkipCount(m, Cursor(m, p + 1), 2, each),
         NEW q, q = p + 3
  PROVE  /\ q <= Len(m) + 1 => nc_mp_skip_value(m, Cursor(m, p)) = Got(each * n, Cursor(m, q))
         /\ q > Len(m) + 1 => ~nc_mp_skip_value(m, Cursor(m, p)).ok
  <1> DEFINE h == Cursor(m, p + 1)
             k == m[p]
  <1>1. /\ Len(m) \in Nat /\ p \in Nat /\ p \in 1 .. Len(m) + 1 /\ p + 1 \in 1 .. Len(m) + 1
        /\ q \in Nat
    BY DEF Begins
  <1>2. h.at = p + 1 /\ h.len = Len(m) + 1 - (p + 1) /\ \A a \in Nat : Advance(h, a) = Cursor(m, p + 1 + a)
    BY ZenonT(30), <1>1, Cursors
  <1>3. CASE h.len < 2
    <2>1. SkipContent(m, k, h) = Fail
      BY <1>3 DEF SkipCount
    <2>2. q > Len(m) + 1
      <3>1. h.len = Len(m) + 1 - (p + 1)
        BY <1>2
      <3> HIDE DEF h
      <3> QED BY <1>1, <1>3, <3>1
    <2> QED BY <1>1, <2>1, <2>2, SkipFails
  <1>4. CASE ~(h.len < 2)
    <2>1. p + 1 \in 1 .. Len(m) /\ (p + 1) + 2 <= Len(m) + 1
      <3>1. h.len = Len(m) + 1 - (p + 1)
        BY <1>2
      <3> HIDE DEF h
      <3> QED BY <1>1, <1>4, <3>1
    <2>2. Number(m, p + 1, 2) = n
      BY <2>1, LengthNumber
    <2>3. Count(m, h.at, 2) = n
      BY <1>2, <2>2 DEF Count
    <2>4. Advance(h, 2) = Cursor(m, q)
      <3>1. p + 1 + 2 = q /\ 2 \in Nat
        BY <1>1
      <3> HIDE DEF h
      <3> QED BY <1>2, <3>1
    <2>5. SkipContent(m, k, h) = Got(each * n, Cursor(m, q))
      <3>1. SkipContent(m, k, h) = SkipCount(m, h, 2, each)
        OBVIOUS
      <3> HIDE DEF h
      <3> QED BY <1>4, <2>3, <2>4, <3>1 DEF SkipCount
    <2> DEFINE all == each * n
    <2>6. SkipContent(m, m[p], Cursor(m, p + 1)) = Got(all, Cursor(m, q))
      BY <2>5
    <2> HIDE DEF all
    <2>7. /\ q <= Len(m) + 1 => nc_mp_skip_value(m, Cursor(m, p)) = Got(all, Cursor(m, q))
          /\ q > Len(m) + 1 => ~nc_mp_skip_value(m, Cursor(m, p)).ok
      BY <1>1, <2>6, SkipEnds
    <2> QED BY <2>7 DEF all
  <1> QED BY <1>3, <1>4

Sizes == <<4, 8, 1, 2, 4, 8, 1, 2, 4, 8, 2, 3, 5, 9, 17>>

LEMMA SizeOf ==
  /\ \A k \in 202 .. 216 : k \in DOMAIN Fixed /\ Fixed[k] = Sizes[k - 201] /\ Fixed[k] \in Nat
  /\ \A k \in Nat : k <= 255 /\ (k < 128 \/ k >= 224 \/ k \in {192, 194, 195})
                  => k \in DOMAIN Fixed /\ Fixed[k] = 0
  <1>1. \A k \in 202 .. 216 : k \in DOMAIN Fixed /\ Fixed[k] = Sizes[k - 201]
    BY DEF Fixed, Sizes
  <1>2. \A k \in Nat : k <= 255 /\ (k < 128 \/ k >= 224 \/ k \in {192, 194, 195})
                   => k \in DOMAIN Fixed /\ Fixed[k] = 0
    BY DEF Fixed
  <1> QED BY <1>1, <1>2, FixedSizes

(* A string or binary data.                                                  *)
LEMMA ContentRead ==
  ASSUME NEW m, NEW w, Begins(m, w), NEW p \in 1 .. Len(m), NEW q \in Nat, NEW d \in Nat, d <= q,
         \/ LengthAt(w, p, q - d, 160, 32, StrMarks, d)
         \/ LengthAt(w, p, q - d, 0, 0, BinMarks, d)
  PROVE  /\ q <= Len(m) + 1 => nc_mp_skip_value(m, Cursor(m, p)) = Got(0, Cursor(m, q))
         /\ q > Len(m) + 1 => ~nc_mp_skip_value(m, Cursor(m, p)).ok
  <1> DEFINE k == m[p]
             h == Cursor(m, p + 1)
             n == q - d
  <1>1. /\ Len(m) \in Nat /\ p \in Nat /\ p + 1 \in 1 .. Len(m) + 1 /\ n \in Nat /\ d + n = q
    BY DEF Begins
  <1>2. k = w.bytes[p] /\ k \in Nat
    BY SMTT(30), SameBytes, Bytes DEF Begins, Message
  <1>3. \A a \in Nat : Advance(h, a) = Cursor(m, p + 1 + a)
    BY <1>1, Cursors
  <1>4. /\ StrMarks[1] = 217 /\ StrMarks[2] = 218 /\ StrMarks[4] = 219
        /\ BinMarks[1] = 196 /\ BinMarks[2] = 197 /\ BinMarks[4] = 198
    BY DEF StrMarks, BinMarks, Marks
  <1>5. /\ {196, 197, 198, 217, 218, 219} \subseteq DOMAIN Blob
        /\ Blob[217] = 1 /\ Blob[218] = 2 /\ Blob[219] = 4
        /\ Blob[196] = 1 /\ Blob[197] = 2 /\ Blob[198] = 4
    BY DEF Blob, Sized
  <1> HIDE DEF n, k
  <1>6. \/ d = p + 1 /\ n < 32 /\ k = 160 + n
        \/ d = p + 1 /\ n < 0
        \/ \E width \in {1, 2, 4} :
             /\ d = p + 1 + width /\ (k = StrMarks[width] \/ k = BinMarks[width])
             /\ BigEndian(w, p + 1, width, n) /\ LengthFits(width, n)
    <2>1. CASE LengthAt(w, p, n, 160, 32, StrMarks, d)
      BY SMTT(30), <1>2, <2>1, LengthForms
    <2>2. CASE LengthAt(w, p, n, 0, 0, BinMarks, d)
      BY SMTT(30), <1>2, <2>2, LengthForms
    <2> QED BY <2>1, <2>2 DEF n
  <1>7. CASE d = p + 1 /\ n < 32 /\ k = 160 + n
    <2>1. k \in 160 .. 191 /\ k - 160 = n /\ p + 1 + n = q
      BY <1>1, <1>7
    <2>2. SkipContent(m, k, h) = Got(0, Advance(h, k - 160))
      <3>1. k \in Nat /\ k \in 160 .. 191
        BY <1>2, <2>1
      <3> HIDE DEF h
      <3> QED BY <3>1, Contents
    <2>3. Advance(h, k - 160) = Cursor(m, q)
      BY <1>1, <1>3, <2>1
    <2> HIDE DEF h
    <2>4. SkipContent(m, k, h) = Got(0, Cursor(m, q))
      BY <2>2, <2>3
    <2> QED BY <2>4, SkipEnds DEF h, k
  <1>8. ASSUME NEW width \in {1, 2, 4}, d = p + 1 + width,
               k = StrMarks[width] \/ k = BinMarks[width],
               BigEndian(w, p + 1, width, n), LengthFits(width, n)
        PROVE  /\ q <= Len(m) + 1 => nc_mp_skip_value(m, Cursor(m, p)) = Got(0, Cursor(m, q))
               /\ q > Len(m) + 1 => ~nc_mp_skip_value(m, Cursor(m, p)).ok
    <2>1. k \in DOMAIN Blob /\ Blob[k] = width
      BY <1>4, <1>5, <1>8
    <2>2. q = p + 1 + width + n
      BY <1>1, <1>8
    <2>3. m[p] \in DOMAIN Blob /\ Blob[m[p]] = width
      BY <2>1 DEF k
    <2>4. n \in Nat /\ BigEndian(w, p + 1, width, n) /\ LengthFits(width, n)
      BY <1>1, <1>8
    <2> QED BY ZenonT(60), <2>2, <2>3, <2>4, BlobRead
  <1> QED BY <1>1, <1>6, <1>7, <1>8

LEMMA ValueRead ==
  ASSUME NEW m, NEW w, Begins(m, w), NEW p \in 1 .. Len(m) + 1, NEW n, NEW q, ValueAt(w, p, n, q)
  PROVE  /\ q <= Len(m) + 1 => nc_mp_skip_value(m, Cursor(m, p)) = Got(n, Cursor(m, q))
         /\ q > Len(m) + 1 => ~nc_mp_skip_value(m, Cursor(m, p)).ok
  <1> DEFINE k == m[p]
             b == w.bytes[p]
             h == Cursor(m, p + 1)
             Read == /\ q <= Len(m) + 1 => nc_mp_skip_value(m, Cursor(m, p)) = Got(n, Cursor(m, q))
                     /\ q > Len(m) + 1 => ~nc_mp_skip_value(m, Cursor(m, p)).ok
  <1>1. Len(m) \in Nat /\ p \in Nat /\ q \in Nat /\ p < q
    BY DEF ValueAt, Part, Begins
  <1>2. CASE p > Len(m)
    <2>1. q > Len(m) + 1 /\ ~(q <= Len(m) + 1)
      BY <1>1, <1>2
    <2> QED BY <1>2, <2>1, SkipFails
  <1>3. CASE p <= Len(m)
    <2>0. p \in 1 .. Len(m)
      BY <1>3
    <2>1. k = b /\ k \in Nat /\ k <= 255
      BY <2>0, SameBytes, MarkerRange DEF Begins, Message
    <2>2. \A a \in Nat : Advance(h, a) = Cursor(m, p + 1 + a)
      <3>1. p + 1 \in 1 .. Len(m) + 1
        BY <1>1, <1>3
      <3> QED BY <3>1, Cursors
    <2> DEFINE Ends(v) == SkipContent(m, k, h) = Got(v, Cursor(m, q))
    <2>3. ASSUME n = 0, q = p + 1, b < 128 \/ b >= 224 \/ b \in {192, 194, 195}
          PROVE  Read
      <3>1. k \in DOMAIN Fixed /\ Fixed[k] = 0
        <4> HIDE DEF k, b
        <4> QED BY ZenonT(30), <2>1, <2>3, SizeOf
      <3>2. Advance(h, 0) = Cursor(m, q)
        <4>1. p + 1 + 0 = q
          BY <1>1, <2>3
        <4> HIDE DEF h
        <4> QED BY <2>2, <4>1
      <3> HIDE DEF h, k
      <3>3. SkipContent(m, k, h) = Got(n, Cursor(m, q))
        BY <2>1, <2>3, <3>1, <3>2, Contents
      <3> QED BY <1>1, <2>0, <3>3, SkipEnds DEF h, k
    <2>4. ASSUME n = 0, 202 <= b, b <= 216, q = p + 1 + Sizes[b - 201]
          PROVE  Read
      <3>1. k \in DOMAIN Fixed /\ Fixed[k] = Sizes[b - 201] /\ Fixed[k] \in Nat
        <4> HIDE DEF k, b
        <4>1. k = b /\ k \in 202 .. 216
          BY <2>1, <2>4
        <4> QED BY ZenonT(30), <4>1, SizeOf
      <3>2. Advance(h, Fixed[k]) = Cursor(m, q)
        <4> DEFINE f == Fixed[k]
        <4>1. f \in Nat /\ p + 1 + f = q
          BY <2>4, <3>1
        <4> HIDE DEF h, f
        <4>2. Advance(h, f) = Cursor(m, q)
          BY <2>2, <4>1
        <4> QED BY <4>2 DEF f
      <3> HIDE DEF h, k
      <3>3. SkipContent(m, k, h) = Got(n, Cursor(m, q))
        BY <2>1, <2>4, <3>1, <3>2, Contents
      <3> QED BY <1>1, <2>0, <3>3, SkipEnds DEF h, k
    <2>5. ASSUME n = 0, NEW d \in p + 1 .. q,
                 \/ LengthAt(w, p, q - d, 160, 32, StrMarks, d)
                 \/ LengthAt(w, p, q - d, 0, 0, BinMarks, d)
          PROVE  Read
      <3>1. d \in Nat /\ d <= q
        BY <1>1
      <3> QED BY <1>1, <2>0, <2>5, <3>1, ContentRead
    <2>6. ASSUME LengthAt(w, p, n, 144, 16, ShortArrMarks, q)
          PROVE  Read
      <3>1. /\ n \in Nat
            /\ \/ q = p + 1 /\ n < 16 /\ k = 144 + n
               \/ q = p + 3 /\ k = 220 /\ BigEndian(w, p + 1, 2, n) /\ LengthFits(2, n)
        <4>1. /\ ShortArrMarks[1] = -1 /\ ShortArrMarks[2] = 220 /\ ShortArrMarks[4] = -1
          BY DEF ShortArrMarks, Marks
        <4>2. /\ n \in Nat
              /\ \/ q = p + 1 /\ n < 16 /\ k = 144 + n
                 \/ \E width \in {1, 2, 4} :
                      /\ q = p + 1 + width /\ k = ShortArrMarks[width]
                      /\ BigEndian(w, p + 1, width, n) /\ LengthFits(width, n)
          BY <2>1, <2>6, LengthForms
        <4> HIDE DEF k
        <4> QED BY SMTT(30), <1>1, <2>1, <4>1, <4>2
      <3>2. CASE q = p + 1 /\ n < 16 /\ k = 144 + n
        <4>1. k \in 144 .. 159 /\ k - 144 = n
          BY <3>1, <3>2
        <4> HIDE DEF h, k
        <4>2. SkipContent(m, k, h) = Got(k - 144, h)
          <5>1. k \in Nat /\ k \in 144 .. 159
            BY <2>1, <4>1
          <5> QED BY <5>1, Contents
        <4>3. SkipContent(m, k, h) = Got(n, Cursor(m, q))
          BY <3>2, <4>1, <4>2 DEF h
        <4> QED BY <1>1, <2>0, <4>3, SkipEnds DEF h, k
      <3>3. CASE q = p + 3 /\ k = 220 /\ BigEndian(w, p + 1, 2, n) /\ LengthFits(2, n)
        <4>1. 220 \in DOMAIN ArrayLen /\ ArrayLen[220] = 2
          BY DEF ArrayLen, Sized
        <4>2. SkipContent(m, k, h) = SkipCount(m, h, 2, 1)
          <5> HIDE DEF h, k
          <5> QED BY <2>1, <3>3, <4>1, Contents
        <4>3. /\ q <= Len(m) + 1 => nc_mp_skip_value(m, Cursor(m, p)) = Got(1 * n, Cursor(m, q))
              /\ q > Len(m) + 1 => ~nc_mp_skip_value(m, Cursor(m, p)).ok
          BY <2>0, <3>1, <3>3, <4>2, CountRead
        <4>4. 1 * n = n
          BY <3>1
        <4> QED BY <4>3, <4>4
      <3> QED BY <3>1, <3>2, <3>3
    <2>7. ASSUME NEW pairs \in 0 .. n, n = 2 * pairs, LengthAt(w, p, pairs, 128, 16, ShortMapMarks, q)
          PROVE  Read
      <3>1. /\ pairs \in Nat
            /\ \/ q = p + 1 /\ pairs < 16 /\ k = 128 + pairs
               \/ q = p + 3 /\ k = 222 /\ BigEndian(w, p + 1, 2, pairs) /\ LengthFits(2, pairs)
        <4>1. /\ ShortMapMarks[1] = -1 /\ ShortMapMarks[2] = 222 /\ ShortMapMarks[4] = -1
          BY DEF ShortMapMarks, Marks
        <4>2. /\ pairs \in Nat
              /\ \/ q = p + 1 /\ pairs < 16 /\ k = 128 + pairs
                 \/ \E width \in {1, 2, 4} :
                      /\ q = p + 1 + width /\ k = ShortMapMarks[width]
                      /\ BigEndian(w, p + 1, width, pairs) /\ LengthFits(width, pairs)
          BY <2>1, <2>7, LengthForms
        <4> HIDE DEF k
        <4> QED BY SMTT(30), <1>1, <2>1, <4>1, <4>2
      <3>2. CASE q = p + 1 /\ pairs < 16 /\ k = 128 + pairs
        <4>1. k \in 128 .. 143 /\ 2 * (k - 128) = n
          BY <2>7, <3>1, <3>2
        <4> HIDE DEF h, k
        <4>2. SkipContent(m, k, h) = Got(2 * (k - 128), h)
          <5>1. k \in Nat /\ k \in 128 .. 143
            BY <2>1, <4>1
          <5> QED BY <5>1, Contents
        <4>3. SkipContent(m, k, h) = Got(n, Cursor(m, q))
          BY <3>2, <4>1, <4>2 DEF h
        <4> QED BY <1>1, <2>0, <4>3, SkipEnds DEF h, k
      <3>3. CASE q = p + 3 /\ k = 222 /\ BigEndian(w, p + 1, 2, pairs) /\ LengthFits(2, pairs)
        <4>1. 222 \in DOMAIN MapLen /\ MapLen[222] = 2
          BY DEF MapLen, Sized
        <4>2. SkipContent(m, k, h) = SkipCount(m, h, 2, 2)
          <5> HIDE DEF h, k
          <5> QED BY <2>1, <3>3, <4>1, Contents
        <4>3. /\ q <= Len(m) + 1 => nc_mp_skip_value(m, Cursor(m, p)) = Got(2 * pairs, Cursor(m, q))
              /\ q > Len(m) + 1 => ~nc_mp_skip_value(m, Cursor(m, p)).ok
          BY <2>0, <3>1, <3>3, <4>2, CountRead
        <4> QED BY <2>7, <4>3
      <3> QED BY <3>1, <3>2, <3>3
    <2>8. \/ n = 0 /\ q = p + 1 /\ (b < 128 \/ b >= 224 \/ b \in {192, 194, 195})
          \/ n = 0 /\ 202 <= b /\ b <= 216 /\ q = p + 1 + Sizes[b - 201]
          \/ n = 0 /\ \E d \in p + 1 .. q : \/ LengthAt(w, p, q - d, 160, 32, StrMarks, d)
                                            \/ LengthAt(w, p, q - d, 0, 0, BinMarks, d)
          \/ LengthAt(w, p, n, 144, 16, ShortArrMarks, q)
          \/ \E pairs \in 0 .. n : n = 2 * pairs /\ LengthAt(w, p, pairs, 128, 16, ShortMapMarks, q)
      BY DEF ValueAt, Sizes
    <2> HIDE DEF b, Read
    <2>9. Read
      BY <2>3, <2>4, <2>5, <2>6, <2>7, <2>8
    <2> QED BY <2>9 DEF Read
  <1> QED BY <1>1, <1>2, <1>3

-----------------------------------------------------------------------------
(* What nc_parse_and_apply reads: values of options, names of transports.    *)

LEMMA ScalarRead ==
  ASSUME NEW w, Begins(M, w), NEW p \in 1 .. Len(M) + 1, NEW v, NEW q, ScalarAt(w, p, v, q)
  PROVE  /\ q <= Len(M) + 1 => Scalar(Cursor(M, p)) = Got(v, Cursor(M, q))
         /\ q > Len(M) + 1 => /\ ~Scalar(Cursor(M, p)).ok
                             /\ ~nc_mp_parse_int(M, Cursor(M, p)).ok
                             /\ ~nc_mp_parse_string(M, Cursor(M, p)).ok
         /\ ~nc_mp_parse_array(M, Cursor(M, p)).ok
  <1> DEFINE int == nc_mp_parse_int(M, Cursor(M, p))
             str == nc_mp_parse_string(M, Cursor(M, p))
             arr == nc_mp_parse_array(M, Cursor(M, p))
             one == Scalar(Cursor(M, p))
  <1>1. one = IF int.ok THEN Got([int |-> int.val], int.next)
              ELSE IF str.ok THEN Got([str |-> str.val], str.next)
              ELSE str
    BY DEF Scalar
  <1>2. CASE v = [int |-> v.int] /\ IntAt(w, p, v.int, q)
    <2>1. /\ q <= Len(M) + 1 => int = Got(v.int, Cursor(M, q))
          /\ q > Len(M) + 1 => ~int.ok
          /\ ~str.ok /\ ~arr.ok
      BY <1>2, IntRead
    <2> HIDE DEF int, str, arr, one
    <2>2. q <= Len(M) + 1 => int.ok /\ int.val = v.int /\ int.next = Cursor(M, q)
      BY <2>1, GotReads
    <2>3. q <= Len(M) + 1 => one = Got(v, Cursor(M, q))
      BY <1>1, <1>2, <2>2
    <2>4. q > Len(M) + 1 => ~one.ok
      BY <1>1, <2>1, FailReads
    <2> QED BY <2>1, <2>3, <2>4 DEF int, str, arr, one
  <1>3. CASE v = [str |-> v.str] /\ StrAt(w, p, v.str, q)
    <2>1. /\ q <= Len(M) + 1 => str = Got(v.str, Cursor(M, q))
          /\ q > Len(M) + 1 => ~str.ok
          /\ ~int.ok /\ ~arr.ok
      BY <1>3, StrRead
    <2> HIDE DEF int, str, arr, one
    <2>2. q <= Len(M) + 1 => str.ok /\ str.val = v.str /\ str.next = Cursor(M, q)
      BY <2>1, GotReads
    <2>3. q <= Len(M) + 1 => one = Got(v, Cursor(M, q))
      BY <1>1, <1>3, <2>1, <2>2
    <2>4. q > Len(M) + 1 => ~one.ok
      BY <1>1, <2>1, FailReads
    <2> QED BY <2>1, <2>3, <2>4 DEF int, str, arr, one
  <1> QED BY <1>2, <1>3 DEF ScalarAt

(* A string that ends before q begins at start.                              *)
Spans(start, s, q) == start \in Int /\ start + Len(s) = q

LEMMA StringPlace ==
  ASSUME NEW m, NEW w, Begins(m, w), NEW p, NEW s, NEW q, StrAt(w, p, s, q), q <= Len(m) + 1,
         NEW start, Spans(start, s, q)
  PROVE  /\ Len(s) \in Nat /\ start \in 1 .. Len(m) + 1 /\ q \in 1 .. Len(m) + 1
         /\ s = SubSeq(m, start, q - 1)
  <1>1. PICK d \in p + 1 .. q : /\ LengthAt(w, p, q - d, 160, 32, StrMarks, d)
                               /\ Part(w, p, q) /\ s = SubSeq(w.bytes, d, q - 1)
    BY DEF StrAt
  <1>2. Len(m) \in Nat /\ p \in Nat /\ q \in Nat /\ d \in Nat /\ 1 <= d /\ d <= q /\ p >= 1
    BY <1>1 DEF Begins, Part
  <1>3. s = SubSeq(m, d, q - 1)
    <2>1. d \in Nat \ {0} /\ q - 1 \in Int /\ q - 1 <= Len(m)
      BY <1>2
    <2>2. SubSeq(m, d, q - 1) = SubSeq(w.bytes, d, q - 1)
      BY <2>1, SameParts
    <2> QED BY <1>1, <2>2
  <1>4. Len(s) = q - d
    <2>1. m \in Seq(Byte) /\ d \in 1 .. Len(m) + 1 /\ q - 1 \in d - 1 .. Len(m)
      BY <1>2 DEF Begins, Message
    <2> QED BY <1>2, <1>3, <2>1
  <1> HIDE DEF Begins
  <1>5. start = d
    BY <1>2, <1>4 DEF Spans
  <1> QED BY <1>2, <1>3, <1>4, <1>5

LEMMA Least ==
  ASSUME NEW S, S \subseteq Nat, NEW x \in S, \A y \in S : x <= y
  PROVE  Min(S) = x
  <1> DEFINE z == CHOOSE e \in S : \A y \in S : e =< y
  <1>1. \E e \in S : \A y \in S : e =< y
    OBVIOUS
  <1>2. z \in S /\ \A y \in S : z =< y
    BY <1>1
  <1>3. Min(S) = z
    BY DEF Min
  <1> HIDE DEF z
  <1>4. z <= x /\ x <= z /\ z \in Nat /\ x \in Nat
    BY <1>2
  <1> QED BY <1>3, <1>4

LEMMA ColonFound ==
  ASSUME M \in Message, NEW q \in 1 .. Len(M) + 1, NEW s, Len(s) \in Nat,
         NEW start \in 1 .. Len(M) + 1, Spans(start, s, q), s = SubSeq(M, start, q - 1),
         NEW a, a.addr = s, HasTransport(a)
  PROVE  \E at \in Nat \ {0} : /\ ColonAt(start) = {at}
                               /\ SubSeq(M, start, at - 1) = a.transport
                               /\ a.transport \in Transports
  <1>1. PICK j \in 1 .. Len(s) :
          /\ s[j] = Colon /\ \A b \in 1 .. j - 1 : s[b] \notin {0, Colon}
          /\ a.transport = SubSeq(s, 1, j - 1) /\ a.transport \in Transports
    BY DEF HasTransport
  <1> DEFINE at == start + j - 1
  <1>2. /\ M \in Seq(Byte) /\ Len(M) \in Nat /\ start \in Nat /\ 1 <= start /\ start <= Len(M) + 1
        /\ q \in Nat /\ start + Len(s) = q /\ s = SubSeq(M, start, q - 1)
    BY DEF Message, Spans
  <1>3. at \in Nat \ {0} /\ start <= at /\ at <= Len(M) /\ at < q
    BY <1>1, <1>2
  <1>4. \A b \in 1 .. Len(s) : s[b] = M[start + b - 1]
    <2> QED BY <1>2
  <1>5. at \in Stops(start) /\ \A k \in Stops(start) : at <= k /\ k \in Nat
    <2>1. M[at] = Colon
      BY <1>1, <1>4
    <2>2. ASSUME NEW k \in Stops(start) PROVE at <= k /\ k \in Nat
      <3>1. k \in start .. Len(M) /\ M[k] \in {Colon, 0}
        BY DEF Stops
      <3>2. k \in Nat
        BY <1>2, <3>1
      <3>3. SUFFICES ASSUME k < at PROVE FALSE
        BY <1>3, <3>1, <3>2
      <3> DEFINE b == k - start + 1
      <3>4. b \in 1 .. j - 1 /\ b \in 1 .. Len(s) /\ start + b - 1 = k
        <4>1. start <= k /\ k < start + j - 1 /\ j \in Nat /\ j <= Len(s)
          BY <1>2, <3>1, <3>2, <3>3
        <4> QED BY <3>2, <4>1
      <3> HIDE DEF b, at
      <3>5. s[b] = M[k]
        BY <1>4, <3>4
      <3> QED BY <1>1, <3>1, <3>4, <3>5
    <2>3. at \in start .. Len(M)
      BY <1>2, <1>3
    <2> QED BY <2>1, <2>2, <2>3 DEF Stops
  <1>6. Min(Stops(start)) = at
    <2> HIDE DEF at
    <2>1. Stops(start) \subseteq Nat
      BY <1>5
    <2> QED BY <1>5, <2>1, Least
  <1>7. ColonAt(start) = {at}
    <2>1. M[at] = Colon
      BY <1>1, <1>4
    <2> HIDE DEF at
    <2> QED BY <1>5, <1>6, <2>1 DEF ColonAt
  <1>8. SubSeq(M, start, at - 1) = SubSeq(s, 1, j - 1)
    <2>1. \A k \in 1 .. Len(M) : M[k] \in Byte
      BY <1>2
    <2>2. at - 1 = start + (j - 1) - 1 /\ j - 1 \in Nat /\ j - 1 <= Len(s)
      BY <1>1, <1>2
    <2> HIDE DEF at
    <2> QED BY <1>2, <1>3, <1>4, <2>1, <2>2
  <1> QED BY <1>1, <1>3, <1>7, <1>8

(* The transport of an address is found where the address was read.          *)
LEMMA TransportFound ==
  ASSUME M \in Message, NEW w, Begins(M, w), NEW p, NEW s, NEW q, StrAt(w, p, s, q),
         q <= Len(M) + 1, NEW a, a.addr = s, HasTransport(a),
         NEW start, Spans(start, s, q)
  PROVE  \E at \in Nat \ {0} : /\ ColonAt(start) = {at}
                               /\ SubSeq(M, start, at - 1) = a.transport
                               /\ a.transport \in Transports
  <1>1. /\ Len(s) \in Nat /\ start \in 1 .. Len(M) + 1 /\ q \in 1 .. Len(M) + 1
        /\ s = SubSeq(M, start, q - 1)
    BY StringPlace
  <1> QED BY <1>1, ColonFound

-----------------------------------------------------------------------------
(* Where the reader is in text w, phase by phase.                            *)

(* The calls of text w up to the first d.                                    *)
UpTo(w, d) == d \in 0 .. Len(w.meant) /\ log = SubSeq(w.meant, 1, d)

Here(p) == c = Cursor(M, p) /\ p \in 1 .. Len(M) + 1

AtHead == phase = "head" /\ Here(1) /\ tuple = NoTuple /\ log = <<>>

(* Before option k + 1 of the socket.                                        *)
AtOptions(w, k) ==
  LET l == w.options IN
  /\ phase = "options" /\ tuple = NoTuple /\ ralen = w.ralen
  /\ k \in 0 .. Len(l.items) /\ left = Len(l.items) - k
  /\ Here(l.at[k]) /\ UpTo(w, l.mark[k])

(* Before element j + 1 of the value of option k.                            *)
AtElements(w, k, j) ==
  LET l == w.options
      o == l.items[k] IN
  /\ phase = "values" /\ tuple = NoTuple /\ ralen = w.ralen
  /\ k \in 1 .. Len(l.items) /\ left = Len(l.items) - (k - 1)
  /\ Several(w, l, k, Protocol) /\ optid = o.name /\ optlev = Level(o)
  /\ j \in 0 .. Len(o.vals) /\ rest = Len(o.vals) - j
  /\ Here(o.at[j]) /\ UpTo(w, l.mark[k - 1] + j)

(* Before value j + 1 of those in the unknown option k.                      *)
AtSkipped(w, k, j) ==
  LET l == w.options
      o == l.items[k] IN
  /\ phase = "skip" /\ tuple = NoTuple /\ ralen = w.ralen
  /\ k \in 1 .. Len(l.items) /\ left = Len(l.items) - (k - 1)
  /\ Unknown(w, l, k) /\ j \in 0 .. o.values /\ rest = o.todo[j]
  /\ Here(o.at[j]) /\ UpTo(w, l.mark[k - 1])

AtAddresses(w, k) ==
  LET l == w.addresses IN
  /\ phase = "addresses" /\ tuple = NoTuple /\ ralen = w.ralen
  /\ k \in 0 .. Len(l.items) /\ num = Len(l.items) /\ i = k
  /\ Here(l.at[k]) /\ UpTo(w, l.mark[k])

(* Before option j + 1 of address k.                                         *)
AtAddressOptions(w, k, j) ==
  LET l == w.addresses
      a == l.items[k]
      os == a.options IN
  /\ phase = "address options" /\ ralen = w.ralen
  /\ k \in 1 .. Len(l.items) /\ num = Len(l.items) /\ i = k - 1 /\ ~a.bare
  /\ tuple = [kind |-> a.kind, addr |-> a.addr, transport |-> a.transport]
  /\ j \in 0 .. Len(os.items) /\ left = Len(os.items) - j
  /\ Here(os.at[j]) /\ UpTo(w, os.mark[j])

AtTopics(w, k) ==
  LET l == w.topics IN
  /\ phase = "topics" /\ w.ralen # 3
  /\ k \in 0 .. Len(l.items) /\ left = Len(l.items) - k
  /\ Here(l.at[k]) /\ UpTo(w, l.mark[k])

(* Element j + 1 of the value of option k was cut off. It is not taken off   *)
(* the message, and the loops go on to read what is left of it.              *)
AtCut(w, k, j) ==
  LET o == w.options.items[k] IN
  /\ phase \in {"values", "options"} /\ tuple = NoTuple
  /\ k \in 1 .. Len(w.options.items) /\ Several(w, w.options, k, Protocol)
  /\ j \in 0 .. Len(o.vals) - 1 /\ Here(o.at[j]) /\ o.at[j + 1] > Len(M) + 1
  /\ \E d \in 0 .. Len(w.meant) : UpTo(w, d)

Applied(w) == phase = "applied" /\ msg.whole /\ log = w.meant
Refused(w) == phase \in {"refused", "astray"} /\ ~msg.whole /\ \E d \in 0 .. Len(w.meant) : UpTo(w, d)

Follows(w) ==
  \/ AtHead \/ Applied(w) \/ Refused(w)
  \/ \E k, j \in Nat : \/ AtOptions(w, k) \/ AtElements(w, k, j) \/ AtCut(w, k, j)
                       \/ AtSkipped(w, k, j) \/ AtAddresses(w, k)
                       \/ AtAddressOptions(w, k, j) \/ AtTopics(w, k)

Source(w) == /\ w \in Texts /\ BeginningOf(M, w) /\ msg.meant = w.meant
             /\ msg.whole <=> Complete(M, w)

Tracked == msg.plain => \E w \in Texts : Source(w) /\ Follows(w)

-----------------------------------------------------------------------------
(* The steps of the reader in a message that is, or is the beginning of, the *)
(* text w.                                                                   *)

Sourced(w) == msg \in Replies /\ msg.plain /\ Source(w)

LEMMA Sources ==
  ASSUME NEW w, Sourced(w)
  PROVE  /\ WellWritten(w) /\ Begins(M, w) /\ Len(M) \in Nat /\ M \in Message
         /\ Len(w.meant) \in Nat
         /\ Places(w.options) /\ Places(w.addresses) /\ Places(w.topics)
         /\ \A q \in 1 .. w.end : q > Len(M) + 1 => ~msg.whole
         /\ w.end <= Len(M) + 1 => msg.whole
  <1>1. WellWritten(w) /\ BeginningOf(M, w) /\ (msg.whole <=> Complete(M, w))
    BY ReplyAssumption DEF ReplyAssumption, Sourced, Source
  <1>2. M \in Message /\ Len(M) \in Nat
    BY HeldMessage DEF Sourced, Message
  <1>3. /\ w.bytes \in Seq(Byte) /\ w.end \in 1 .. Len(w.bytes) + 1
        /\ w.meant \in Seq(ToSet(w.meant))
        /\ Places(w.options) /\ Places(w.addresses) /\ Places(w.topics)
    BY <1>1 DEF WellWritten
  <1>4. Len(w.bytes) \in Nat /\ Len(w.meant) \in Nat
    BY <1>3
  <1>5. Begins(M, w)
    BY <1>1, <1>2, <1>3, <1>4 DEF Begins
  <1>6. w.end \in Nat /\ (msg.whole <=> Len(M) + 1 >= w.end)
    BY <1>1, <1>3, <1>4 DEF Complete
  <1>7. \A q \in 1 .. w.end : q > Len(M) + 1 => ~msg.whole
    BY <1>2, <1>6
  <1>8. w.end <= Len(M) + 1 => msg.whole
    BY <1>2, <1>6
  <1> QED BY <1>1, <1>2, <1>3, <1>4, <1>5, <1>7, <1>8

LEMMA HereAfter ==
  ASSUME msg' = msg, NEW p, p \in 1 .. Len(M) + 1, c' = Cursor(M, p)
  PROVE  Here(p)'
  BY DEF Here, M, Cursor

LEMMA UpToAfter ==
  ASSUME NEW w, NEW d, d \in 0 .. Len(w.meant), log' = SubSeq(w.meant, 1, d)
  PROVE  UpTo(w, d)'
  BY DEF UpTo

LEMMA UpToKept ==
  ASSUME NEW w, NEW d, UpTo(w, d), log' = log
  PROVE  UpTo(w, d)'
  BY DEF UpTo

(* One more call is made.                                                    *)
LEMMA Called ==
  ASSUME NEW w, Sourced(w), NEW d, NEW e, NEW x, UpTo(w, d), Asks(w, d, e, x),
         log' = Append(log, x)
  PROVE  UpTo(w, e)'
  <1>1. w.meant \in Seq(ToSet(w.meant)) /\ Len(w.meant) \in Nat
    BY Sources DEF WellWritten
  <1>2. d \in Nat /\ e = d + 1 /\ e <= Len(w.meant) /\ w.meant[d + 1] = x
        /\ log = SubSeq(w.meant, 1, d)
    BY DEF Asks, UpTo
  <1>3. Append(SubSeq(w.meant, 1, d), w.meant[d + 1]) = SubSeq(w.meant, 1, d + 1)
    BY <1>1, <1>2
  <1>4. log' = SubSeq(w.meant, 1, e) /\ e \in 0 .. Len(w.meant)
    BY <1>1, <1>2, <1>3
  <1> QED BY <1>4, UpToAfter

(* What the text has at q did not arrive.                                    *)
LEMMA CutRefused ==
  ASSUME NEW w, Sourced(w), NEW q \in 1 .. w.end, q > Len(M) + 1, NEW d, UpTo(w, d),
         Refuse \/ \E res : Reject(res)
  PROVE  Refused(w)'
  <1>1. ~msg.whole
    BY Sources
  <1>2. UpTo(w, d)' /\ phase' \in {"refused", "astray"} /\ msg' = msg
    BY UpToKept DEF Refuse, Reject, Stop
  <1>3. d \in 0 .. Len(w.meant)
    BY DEF UpTo
  <1> QED BY <1>1, <1>2, <1>3 DEF Refused

LEMMA BeginFollows ==
  ASSUME NEW w, Sourced(w), AtHead, Begin
  PROVE  Refused(w)' \/ AtOptions(w, 0)'
  <1> DEFINE l == w.options
             n == Len(l.items)
             arr == nc_mp_parse_array(M, c)
             code == nc_mp_parse_int(M, arr.next)
             opts == nc_mp_parse_mapping(M, code.next)
             E == Len(M) + 1
  <1>1. PICK p \in 1 .. w.end, q \in 1 .. w.end :
          ArrAt(w, 1, w.ralen, p) /\ IntAt(w, p, 1, q) /\ MapAt(w, q, n, l.at[0])
    BY Sources DEF WellWritten
  <1>2. w.ralen >= 3 /\ l.mark[0] = 0 /\ l.at[0] \in 1 .. w.end /\ n \in Nat /\ w.ralen \in Nat
    <2>1. WellWritten(w) /\ Places(l)
      BY Sources
    <2>2. Part(w, q, l.at[0]) /\ w.ralen \in Nat
      BY <1>1, LengthForms DEF MapAt, ArrAt
    <2> QED BY <2>1, <2>2 DEF WellWritten, Places, Part
  <1>3. Begins(M, w) /\ Len(M) \in Nat /\ Len(w.meant) \in Nat
    BY Sources
  <1>4. c = Cursor(M, 1) /\ log = <<>> /\ tuple = NoTuple /\ 1 \in 1 .. E
    BY <1>3 DEF AtHead, Here
  <1>5. UpTo(w, 0)
    BY <1>3, <1>4 DEF UpTo
  <1>6. ASSUME NEW s \in 1 .. w.end, s > E, Refuse PROVE Refused(w)'
    BY <1>5, <1>6, CutRefused
  <1>7. ~arr.ok => Refuse
    BY DEF Begin
  <1>8. arr.ok /\ ~code.ok => Refuse
    BY DEF Begin
  <1>9. arr.ok /\ code.ok /\ code.val = 1 /\ arr.val = w.ralen /\ ~opts.ok => Refuse
    BY <1>2 DEF Begin
  <1>10. arr.ok /\ code.ok /\ code.val = 1 /\ arr.val = w.ralen /\ opts.ok
            => /\ phase' = "options" /\ ralen' = w.ralen /\ left' = opts.val /\ c' = opts.next
               /\ msg' = msg /\ tuple' = tuple /\ log' = log
    BY <1>2 DEF Begin
  <1>11. /\ p <= E => arr.ok /\ arr.val = w.ralen /\ arr.next = Cursor(M, p)
         /\ p > E => ~arr.ok
    BY <1>1, <1>3, <1>4, ArrRead, GotReads
  <1>12. ASSUME p <= E
         PROVE  /\ q <= E => code.ok /\ code.val = 1 /\ code.next = Cursor(M, q)
                /\ q > E => ~code.ok
    <2>1. arr.next = Cursor(M, p) /\ p \in 1 .. E
      BY <1>3, <1>11, <1>12
    <2> HIDE DEF arr
    <2> QED BY <1>1, <1>3, <2>1, IntRead, GotReads
  <1>13. ASSUME p <= E, q <= E
         PROVE  /\ l.at[0] <= E => opts.ok /\ opts.val = n /\ opts.next = Cursor(M, l.at[0])
                /\ l.at[0] > E => ~opts.ok
    <2>1. code.next = Cursor(M, q) /\ q \in 1 .. E
      BY <1>3, <1>12, <1>13
    <2> HIDE DEF code
    <2> QED BY <1>1, <1>3, <2>1, MapRead, GotReads
  <1> HIDE DEF arr, code, opts
  <1>14. CASE p > E
    BY <1>6, <1>7, <1>11, <1>14
  <1>15. CASE p <= E /\ q > E
    BY <1>6, <1>8, <1>11, <1>12, <1>15
  <1>16. CASE p <= E /\ q <= E /\ l.at[0] > E
    BY <1>2, <1>6, <1>9, <1>11, <1>12, <1>13, <1>16
  <1>17. CASE p <= E /\ q <= E /\ l.at[0] <= E
    <2>1. /\ phase' = "options" /\ ralen' = w.ralen /\ left' = n /\ c' = Cursor(M, l.at[0])
          /\ msg' = msg /\ tuple' = NoTuple /\ log' = log
      BY <1>4, <1>10, <1>11, <1>12, <1>13, <1>17
    <2>2. l.at[0] \in 1 .. E
      BY <1>2, <1>3, <1>17
    <2>3. Here(l.at[0])' /\ UpTo(w, l.mark[0])'
      BY <1>2, <1>5, <2>1, <2>2, HereAfter, UpToKept
    <2>4. 0 \in 0 .. n /\ left' = n - 0
      BY <1>2, <2>1
    <2> QED BY <2>1, <2>3, <2>4 DEF AtOptions
  <1>18. l.at[0] \in Nat /\ E \in Nat
    BY <1>2, <1>3
  <1> QED BY <1>14, <1>15, <1>16, <1>17, <1>18

LEMMA ScalarPart ==
  ASSUME NEW w, NEW p, NEW v, NEW q, ScalarAt(w, p, v, q)
  PROVE  Part(w, p, q)
  BY DEF ScalarAt, IntAt, StrAt

LEMMA LevelOf ==
  ASSUME NEW o, NEW owner, Fits(o, owner)
  PROVE  /\ Known(o.name)
         /\ (IF Owned(o.name, owner) THEN owner ELSE SolSocket) = Level(o)
  BY DEF Fits, Known, Owned, Level

(* A single value is set.                                                    *)
LEMMA OneSet ==
  ASSUME NEW w, Sourced(w), NEW v \in 1 .. w.end, v <= Len(M) + 1,
         NEW val, NEW q, ScalarAt(w, v, val, q), NEW lev, NEW id, NEW d, NEW e,
         UpTo(w, d), Asks(w, d, e, SetCall(lev, id, val)),
         nc_parse_and_set_option(lev, id, Cursor(M, v))
  PROVE  \/ Refused(w)'
         \/ /\ Here(q)' /\ UpTo(w, e)' /\ NextOption
            /\ msg' = msg /\ ralen' = ralen /\ num' = num /\ i' = i /\ tuple' = tuple
  <1> DEFINE E == Len(M) + 1
             one == Scalar(Cursor(M, v))
             arr == nc_mp_parse_array(M, Cursor(M, v))
  <1>1. Begins(M, w) /\ Len(M) \in Nat /\ q \in 1 .. w.end /\ v \in 1 .. E /\ q \in Nat
    BY Sources, ScalarPart DEF Part
  <1>2. /\ q <= E => one.ok /\ one.val = val /\ one.next = Cursor(M, q)
        /\ q > E => ~one.ok
        /\ ~arr.ok
    BY <1>1, ScalarRead, GotReads
  <1>3. /\ one.ok => /\ log' = Append(log, SetCall(lev, id, one.val)) /\ c' = one.next /\ NextOption
                     /\ msg' = msg /\ ralen' = ralen /\ num' = num /\ i' = i /\ tuple' = tuple
        /\ ~one.ok /\ ~arr.ok => Reject(one)
    BY DEF nc_parse_and_set_option
  <1> HIDE DEF one, arr
  <1>4. CASE q > E
    BY <1>1, <1>2, <1>3, <1>4, CutRefused
  <1>5. CASE q <= E
    <2>1. /\ log' = Append(log, SetCall(lev, id, val)) /\ c' = Cursor(M, q) /\ NextOption
          /\ msg' = msg /\ ralen' = ralen /\ num' = num /\ i' = i /\ tuple' = tuple
      BY <1>2, <1>3, <1>5
    <2>2. q \in 1 .. E
      BY <1>1, <1>5
    <2>3. Here(q)' /\ UpTo(w, e)'
      BY <2>1, <2>2, HereAfter, Called
    <2> QED BY <2>1, <2>3
  <1> QED BY <1>1, <1>4, <1>5

LEMMA KeyRead ==
  ASSUME NEW w, Sourced(w), NEW k, AtOptions(w, k), SocketOption,
         NEW name, NEW v, StrAt(w, w.options.at[k], name, v)
  PROVE  \/ Refused(w)'
         \/ /\ v \in 1 .. w.end /\ v <= Len(M) + 1
            /\ \/ Known(name) /\ nc_parse_and_set_option(SocketLevel(name), name, Cursor(M, v))
               \/ ~Known(name) /\ StartSkip(1, Cursor(M, v))
  <1> DEFINE p == w.options.at[k]
             key == nc_mp_parse_string(M, c)
  <1>1. /\ Begins(M, w) /\ Len(M) \in Nat /\ v \in 1 .. w.end /\ v \in Nat
        /\ c = Cursor(M, p) /\ p \in 1 .. Len(M) + 1 /\ UpTo(w, w.options.mark[k])
    BY Sources DEF AtOptions, Here, StrAt, Part
  <1>2. /\ v <= Len(M) + 1 => key.ok /\ key.val = name /\ key.next = Cursor(M, v)
        /\ v > Len(M) + 1 => ~key.ok
    BY <1>1, StrRead, GotReads
  <1>3. /\ ~key.ok => Reject(key)
        /\ key.ok /\ Known(key.val)
             => nc_parse_and_set_option(SocketLevel(key.val), key.val, key.next)
        /\ key.ok /\ ~Known(key.val) => StartSkip(1, key.next)
    BY DEF SocketOption
  <1> HIDE DEF key, p
  <1>4. CASE v > Len(M) + 1
    BY <1>1, <1>2, <1>3, <1>4, CutRefused
  <1>5. CASE v <= Len(M) + 1
    <2>1. key.ok /\ key.val = name /\ key.next = Cursor(M, v)
      BY <1>2, <1>5
    <2>2. CASE Known(name)
      BY <1>1, <1>3, <1>5, <2>1, <2>2
    <2>3. CASE ~Known(name)
      BY <1>1, <1>3, <1>5, <2>1, <2>3
    <2> QED BY <2>2, <2>3
  <1> QED BY <1>1, <1>4, <1>5

LEMMA OneFollows ==
  ASSUME NEW w, Sourced(w), NEW k, AtOptions(w, k), k < Len(w.options.items),
         OptionOf(w, w.options, k + 1, Protocol), SocketOption
  PROVE  Refused(w)' \/ AtOptions(w, k + 1)'
  <1> DEFINE l == w.options
             o == l.items[k + 1]
  <1>1. /\ Len(l.items) \in Nat /\ k \in Nat /\ (k + 1) - 1 = k /\ k + 1 \in 0 .. Len(l.items)
        /\ tuple = NoTuple /\ ralen = w.ralen /\ left = Len(l.items) - k /\ UpTo(w, l.mark[k])
    BY SMTT(30), Sources DEF AtOptions, Places
  <1>2. PICK v \in 1 .. w.end : StrAt(w, l.at[k], o.name, v) /\ ScalarAt(w, v, o.val, l.at[k + 1])
    BY <1>1 DEF OptionOf
  <1>3. /\ Fits(o, Protocol)
        /\ Asks(w, l.mark[k], l.mark[k + 1], SetCall(Level(o), o.name, o.val))
    BY <1>1 DEF OptionOf
  <1>4. Known(o.name) /\ SocketLevel(o.name) = Level(o)
    BY <1>3, LevelOf DEF SocketLevel
  <1> HIDE DEF l, o
  <1>5. CASE v <= Len(M) + 1 /\ nc_parse_and_set_option(Level(o), o.name, Cursor(M, v))
    <2>1. \/ Refused(w)'
          \/ /\ Here(l.at[k + 1])' /\ UpTo(w, l.mark[k + 1])' /\ NextOption
             /\ msg' = msg /\ ralen' = ralen /\ num' = num /\ i' = i /\ tuple' = tuple
      BY <1>1, <1>2, <1>3, <1>5, OneSet
    <2>2. NextOption => phase' = "options" /\ left' = left - 1
      BY <1>1 DEF NextOption
    <2>3. left - 1 = Len(l.items) - (k + 1)
      BY <1>1
    <2> QED BY <1>1, <2>1, <2>2, <2>3 DEF AtOptions, l
  <1> QED BY <1>2, <1>4, <1>5, KeyRead DEF l

LEMMA SeveralParts ==
  ASSUME NEW w, NEW l, NEW h \in Nat, NEW k, k = h + 1, NEW owner, Several(w, l, k, owner),
         NEW o, o = l.items[k]
  PROVE  /\ Len(o.vals) \in Nat /\ Fits(o, owner)
         /\ \E v \in 1 .. w.end : /\ StrAt(w, l.at[h], o.name, v)
                                  /\ ArrAt(w, v, Len(o.vals), o.at[0])
         /\ o.at[Len(o.vals)] = l.at[k]
         /\ l.mark[k] = l.mark[h] + Len(o.vals)
  <1>1. k - 1 = h
    OBVIOUS
  <1> QED BY <1>1 DEF Several

LEMMA SeveralElements ==
  ASSUME NEW w, NEW l, NEW h \in Nat, NEW k, k = h + 1, NEW owner, Several(w, l, k, owner),
         NEW o, o = l.items[k], NEW j \in Nat, j < Len(o.vals)
  PROVE  /\ ScalarAt(w, o.at[j], o.vals[j + 1], o.at[j + 1])
         /\ Asks(w, l.mark[h] + j, l.mark[h] + (j + 1), SetCall(Level(o), o.name, o.vals[j + 1]))
  <1> DEFINE n == Len(o.vals)
  <1>1. k - 1 = h
    OBVIOUS
  <1>2. n \in Nat
    BY SeveralParts
  <1>3. \A e \in 1 .. n :
          /\ ScalarAt(w, o.at[e - 1], o.vals[e], o.at[e])
          /\ Asks(w, l.mark[h] + (e - 1), l.mark[h] + e, SetCall(Level(o), o.name, o.vals[e]))
    BY <1>1 DEF Several
  <1>4. j + 1 \in 1 .. n /\ (j + 1) - 1 = j
    BY <1>2
  <1> HIDE DEF n
  <1> QED BY <1>3, <1>4

LEMMA SeveralFollows ==
  ASSUME NEW w, Sourced(w), NEW k, AtOptions(w, k), k < Len(w.options.items),
         Several(w, w.options, k + 1, Protocol), SocketOption
  PROVE  Refused(w)' \/ AtElements(w, k + 1, 0)'
  <1> DEFINE l == w.options
             o == l.items[k + 1]
             n == Len(o.vals)
             E == Len(M) + 1
  <1>1. /\ Len(l.items) \in Nat /\ k \in Nat /\ (k + 1) - 1 = k /\ k + 1 \in 1 .. Len(l.items)
        /\ tuple = NoTuple /\ ralen = w.ralen /\ left = Len(l.items) - k /\ UpTo(w, l.mark[k])
        /\ Len(M) \in Nat /\ Begins(M, w) /\ Places(l)
    BY Sources DEF AtOptions, Places
  <1>2. PICK v \in 1 .. w.end : StrAt(w, l.at[k], o.name, v) /\ ArrAt(w, v, n, o.at[0])
    BY <1>1, SeveralParts
  <1>3. n \in Nat /\ Fits(o, Protocol)
    BY ZenonT(30), <1>1, SeveralParts
  <1>4. Known(o.name) /\ SocketLevel(o.name) = Level(o)
    BY <1>3, LevelOf DEF SocketLevel
  <1>5. o.at[0] \in 1 .. w.end /\ o.at[0] \in Nat
    BY <1>2, LengthForms DEF ArrAt, Part
  <1>6. ASSUME v <= E, nc_parse_and_set_option(Level(o), o.name, Cursor(M, v))
        PROVE  Refused(w)' \/ AtElements(w, k + 1, 0)'
    <2> DEFINE int == nc_mp_parse_int(M, Cursor(M, v))
               str == nc_mp_parse_string(M, Cursor(M, v))
               one == Scalar(Cursor(M, v))
               arr == nc_mp_parse_array(M, Cursor(M, v))
    <2>1. /\ o.at[0] <= E => arr.ok /\ arr.val = n /\ arr.next = Cursor(M, o.at[0])
          /\ o.at[0] > E => ~arr.ok
          /\ ~int.ok /\ ~str.ok
      <3>1. v \in 1 .. E
        BY <1>1, <1>6
      <3> QED BY SMTT(30), <1>1, <1>2, <3>1, ArrRead, GotReads
    <2>2. ~one.ok
      <3>1. one = IF int.ok THEN Got([int |-> int.val], int.next)
                  ELSE IF str.ok THEN Got([str |-> str.val], str.next) ELSE str
        BY DEF Scalar
      <3> HIDE DEF int, str, one
      <3> QED BY <2>1, <3>1, FailReads
    <2>3. /\ ~one.ok /\ ~arr.ok => Reject(one)
          /\ ~one.ok /\ arr.ok => /\ phase' = "values" /\ rest' = arr.val /\ c' = arr.next
                                  /\ optid' = o.name /\ optlev' = Level(o)
                                  /\ msg' = msg /\ ralen' = ralen /\ left' = left
                                  /\ tuple' = tuple /\ log' = log
      BY <1>6 DEF nc_parse_and_set_option
    <2> HIDE DEF int, str, one, arr
    <2>4. CASE o.at[0] > E
      <3>1. \E res : Reject(res)
        BY <2>1, <2>2, <2>3, <2>4
      <3>2. UpTo(w, l.mark[k])
        BY <1>1
      <3> QED BY <1>5, <2>4, <3>1, <3>2, CutRefused
    <2>5. CASE o.at[0] <= E
      <3>1. /\ phase' = "values" /\ rest' = n /\ c' = Cursor(M, o.at[0])
            /\ optid' = o.name /\ optlev' = Level(o)
            /\ msg' = msg /\ ralen' = w.ralen /\ left' = Len(l.items) - k
            /\ tuple' = NoTuple /\ log' = log
        BY <1>1, <2>1, <2>2, <2>3, <2>5
      <3>2. o.at[0] \in 1 .. E /\ n - 0 = n /\ l.mark[k] + 0 = l.mark[k] /\ 0 \in 0 .. n
        <4>1. l.mark[k] \in Nat
          BY <1>1 DEF Places
        <4> HIDE DEF o, l, n
        <4>2. n - 0 = n /\ 0 \in 0 .. n
          BY <1>3
        <4>3. l.mark[k] + 0 = l.mark[k]
          BY <4>1
        <4>4. o.at[0] \in 1 .. E
          BY <1>1, <1>5, <2>5
        <4> QED BY <4>2, <4>3, <4>4
      <3>3. Here(o.at[0])' /\ UpTo(w, l.mark[k])'
        BY <1>1, <3>1, <3>2, HereAfter, UpToKept
      <3> QED BY <1>1, <3>1, <3>2, <3>3 DEF AtElements
    <2> QED BY SMTT(30), <1>1, <1>5, <2>4, <2>5
  <1> HIDE DEF o
  <1> QED BY <1>2, <1>4, <1>6, KeyRead

(* An element, or what is left of one.                                       *)
LEMMA ElementFollows ==
  ASSUME NEW w, Sourced(w), NEW k, NEW j, AtElements(w, k, j), Element
  PROVE  Refused(w)' \/ AtElements(w, k, j + 1)' \/ AtCut(w, k, j)'
  <1> DEFINE l == w.options
             o == l.items[k]
             n == Len(o.vals)
             E == Len(M) + 1
             v == Scalar(c)
  <1>1. /\ Len(l.items) \in Nat /\ k \in 1 .. Len(l.items) /\ k - 1 \in Nat /\ (k - 1) + 1 = k
        /\ phase = "values" /\ tuple = NoTuple /\ ralen = w.ralen
        /\ left = Len(l.items) - (k - 1) /\ Several(w, l, k, Protocol)
        /\ optid = o.name /\ optlev = Level(o)
        /\ j \in 0 .. n /\ rest = n - j /\ Here(o.at[j]) /\ UpTo(w, l.mark[k - 1] + j)
        /\ Len(M) \in Nat /\ Begins(M, w) /\ Places(l)
    BY Sources DEF AtElements, Places
  <1>0. k = (k - 1) + 1 /\ o = l.items[k]
    BY <1>1
  <1>20. rest > 0 /\ n \in Nat /\ j \in 0 .. n - 1
    <2>1. rest > 0 /\ n \in Nat
      BY Zenon, <1>1 DEF Element, Several
    <2> HIDE DEF n
    <2> QED BY <1>1, <2>1
  <1>3. /\ ScalarAt(w, o.at[j], o.vals[j + 1], o.at[j + 1])
        /\ Asks(w, l.mark[k - 1] + j, l.mark[k - 1] + (j + 1),
                SetCall(Level(o), o.name, o.vals[j + 1]))
    <2>1. j \in Nat /\ j < Len(o.vals)
      BY <1>20
    <2> HIDE DEF o
    <2> QED BY <1>0, <1>1, <2>1, SeveralElements
  <1>4. o.at[j + 1] \in 1 .. w.end /\ o.at[j + 1] \in Nat /\ c = Cursor(M, o.at[j]) /\ o.at[j] \in 1 .. E
    <2>1. Part(w, o.at[j], o.at[j + 1])
      BY <1>3, ScalarPart
    <2>2. c = Cursor(M, o.at[j]) /\ o.at[j] \in 1 .. E
      BY <1>1 DEF Here
    <2> QED BY SMTT(30), <2>1, <2>2, Sources DEF Part, Begins
  <1>5. /\ o.at[j + 1] <= E => v.ok /\ v.val = o.vals[j + 1] /\ v.next = Cursor(M, o.at[j + 1])
                               /\ v # Astray
        /\ o.at[j + 1] > E => ~v.ok
    <2>1. Begins(M, w) /\ o.at[j] \in 1 .. Len(M) + 1 /\ ScalarAt(w, o.at[j], o.vals[j + 1], o.at[j + 1])
      BY Zenon, <1>1, <1>3, <1>4
    <2>2. v = Scalar(Cursor(M, o.at[j]))
      BY <1>4
    <2> HIDE DEF v, o
    <2>3. /\ o.at[j + 1] <= E => v = Got(o.vals[j + 1], Cursor(M, o.at[j + 1]))
          /\ o.at[j + 1] > E => ~v.ok
      BY <2>1, <2>2, ScalarRead
    <2> QED BY <2>3, GotReads
  <1>50. CASE v = Astray
    <2>1. Reject(v)
      BY <1>50 DEF Element
    <2> HIDE DEF v, o
    <2>2. ~(o.at[j + 1] <= E)
      BY <1>5, <1>50
    <2>3. o.at[j + 1] > E
      BY <1>1, <1>4, <2>2
    <2>4. \E d : UpTo(w, d)
      BY <1>1
    <2> QED BY <1>4, <2>1, <2>3, <2>4, CutRefused
  <1>51. SUFFICES ASSUME v # Astray
                  PROVE  AtElements(w, k, j + 1)' \/ AtCut(w, k, j)'
    <2> HIDE DEF v
    <2> QED BY <1>50
  <1>2. n \in Nat /\ j \in 0 .. n - 1 /\ rest' = rest - 1 /\ msg' = msg /\ phase' = phase
        /\ ralen' = ralen /\ left' = left /\ tuple' = tuple /\ optid' = optid /\ optlev' = optlev
    <2> HIDE DEF n
    <2> QED BY <1>20, <1>51 DEF Element
  <1>6. /\ v.ok => c' = v.next /\ log' = Append(log, SetCall(optlev, optid, v.val))
        /\ ~v.ok => c' = c /\ log' = log
    BY <1>51 DEF Element
  <1>7. j + 1 \in 0 .. n /\ rest' = n - (j + 1)
    BY SMTT(30), <1>1, <1>2
  <1> HIDE DEF v, n, o
  <1>8. CASE o.at[j + 1] <= E
    <2>1. c' = Cursor(M, o.at[j + 1]) /\ log' = Append(log, SetCall(Level(o), o.name, o.vals[j + 1]))
      BY <1>1, <1>5, <1>6, <1>8
    <2>2. o.at[j + 1] \in 1 .. E
      BY <1>1, <1>4, <1>8
    <2>3. Here(o.at[j + 1])' /\ UpTo(w, l.mark[k - 1] + (j + 1))'
      <3> DEFINE e == l.mark[k - 1] + (j + 1)
                 d == l.mark[k - 1] + j
      <3>1. UpTo(w, d) /\ Asks(w, d, e, SetCall(Level(o), o.name, o.vals[j + 1]))
        BY <1>1, <1>3
      <3> HIDE DEF e, d
      <3>2. UpTo(w, e)'
        BY SMTT(30), <2>1, <3>1, Called
      <3> QED BY <1>2, <2>1, <2>2, <3>2, HereAfter DEF e
    <2> QED BY <1>1, <1>2, <1>7, <2>3 DEF AtElements, n, o
  <1>9. CASE o.at[j + 1] > E
    <2>1. c' = Cursor(M, o.at[j]) /\ log' = log
      BY <1>4, <1>5, <1>6, <1>9
    <2>2. Here(o.at[j])'
      BY <1>2, <1>4, <2>1, HereAfter
    <2> DEFINE d == l.mark[k - 1] + j
    <2>3. d \in 0 .. Len(w.meant) /\ UpTo(w, d)'
      BY <1>1, <2>1, UpToKept DEF UpTo
    <2>4. (o.at[j + 1] > Len(M) + 1)'
      BY <1>2, <1>9 DEF M
    <2> HIDE DEF d
    <2> QED BY <1>1, <1>2, <2>2, <2>3, <2>4 DEF AtCut, n, o
  <1> DEFINE t == o.at[j + 1]
  <1>11. t \in Nat /\ E \in Nat
    BY <1>1, <1>4
  <1> HIDE DEF t
  <1>12. t <= E \/ t > E
    BY <1>11
  <1> QED BY <1>8, <1>9, <1>12 DEF t

LEMMA ElementsEndFollows ==
  ASSUME NEW w, Sourced(w), NEW k, NEW j, AtElements(w, k, j), ElementsEnd
  PROVE  AtOptions(w, k)'
  <1> DEFINE l == w.options
             o == l.items[k]
             n == Len(o.vals)
  <1>1. /\ Len(l.items) \in Nat /\ k \in 1 .. Len(l.items) /\ k - 1 \in Nat /\ (k - 1) + 1 = k
        /\ tuple = NoTuple /\ ralen = w.ralen
        /\ left = Len(l.items) - (k - 1) /\ Several(w, l, k, Protocol)
        /\ j \in 0 .. n /\ rest = n - j /\ Here(o.at[j]) /\ UpTo(w, l.mark[k - 1] + j)
        /\ Places(l)
    BY Sources DEF AtElements, Places
  <1>2. n \in Nat /\ o.at[n] = l.at[k] /\ l.mark[k] = l.mark[k - 1] + n
    BY Zenon, <1>1 DEF Several
  <1>3. rest <= 0 /\ phase' = "options" /\ left' = left - 1 /\ c' = c /\ msg' = msg
        /\ ralen' = ralen /\ tuple' = tuple /\ log' = log
    BY <1>1 DEF ElementsEnd, NextOption
  <1>4. j = n
    <2> HIDE DEF n
    <2> QED BY SMTT(30), <1>1, <1>2, <1>3
  <1>5. Here(l.at[k]) /\ UpTo(w, l.mark[k])
    BY <1>1, <1>2, <1>4
  <1>6. Here(l.at[k])' /\ UpTo(w, l.mark[k])'
    BY <1>3, <1>5, HereAfter, UpToKept DEF Here
  <1>7. left' = Len(l.items) - k /\ k \in 0 .. Len(l.items)
    BY <1>1, <1>3
  <1> QED BY <1>1, <1>3, <1>6, <1>7 DEF AtOptions

LEMMA CutFollows ==
  ASSUME NEW w, Sourced(w), NEW k, NEW j, AtCut(w, k, j),
         Element \/ ElementsEnd \/ SocketOption \/ AddressList
  PROVE  Refused(w)' \/ AtCut(w, k, j)'
  <1> DEFINE l == w.options
             o == l.items[k]
             E == Len(M) + 1
             p == o.at[j]
             q == o.at[j + 1]
  <1>1. /\ k \in 1 .. Len(l.items) /\ Several(w, l, k, Protocol) /\ tuple = NoTuple
        /\ phase \in {"values", "options"} /\ j \in 0 .. Len(o.vals) - 1
        /\ Here(p) /\ q > E /\ c = Cursor(M, p) /\ p \in 1 .. E
        /\ Len(l.items) \in Nat /\ Len(M) \in Nat /\ Begins(M, w) /\ Len(o.vals) \in Nat
    BY Zenon, Sources DEF AtCut, Places, Here, Several
  <1>2. PICK d \in 0 .. Len(w.meant) : UpTo(w, d)
    BY SMTT(30) DEF AtCut
  <1>3. ScalarAt(w, p, o.vals[j + 1], q)
    <2>1. k - 1 \in Nat /\ k = (k - 1) + 1 /\ o = l.items[k] /\ j \in Nat /\ j < Len(o.vals)
      <3> DEFINE a == Len(l.items)
                 b == Len(o.vals)
      <3>1. a \in Nat /\ b \in Nat /\ k \in 1 .. a /\ j \in 0 .. b - 1
        BY <1>1
      <3> HIDE DEF a, b
      <3>2. k - 1 \in Nat /\ k = (k - 1) + 1 /\ j \in Nat /\ j < b
        BY <3>1
      <3> QED BY <3>2 DEF b
    <2> HIDE DEF o
    <2> QED BY <1>1, <2>1, SeveralElements
  <1>4. q \in 1 .. w.end
    BY <1>3, ScalarPart DEF Part
  <1> HIDE DEF p, q
  <1>5. /\ ~Scalar(c).ok /\ ~nc_mp_parse_string(M, c).ok /\ ~nc_mp_parse_array(M, c).ok
    BY <1>1, <1>3, ScalarRead
  <1>6. Refuse \/ (\E res : Reject(res)) => Refused(w)'
    BY <1>1, <1>2, <1>4, CutRefused
  <1>7. CASE SocketOption \/ AddressList \/ (Element /\ Scalar(c) = Astray)
    <2>1. Refuse \/ \E res : Reject(res)
      BY <1>5, <1>7 DEF SocketOption, AddressList, Element
    <2> QED BY <1>6, <2>1
  <1>8. ASSUME (Element /\ Scalar(c) # Astray) \/ ElementsEnd
        PROVE  /\ phase' \in {"values", "options"} /\ tuple' = NoTuple /\ c' = c
               /\ log' = log /\ msg' = msg
    <2>1. CASE Element /\ Scalar(c) # Astray
      BY <1>1, <1>5, <2>1 DEF Element
    <2>2. CASE ElementsEnd
      BY SMTT(30), <1>1, <2>2 DEF ElementsEnd, NextOption
    <2> QED BY <1>8, <2>1, <2>2
  <1>9. CASE (Element /\ Scalar(c) # Astray) \/ ElementsEnd
    <2>1. Here(p)'
      BY <1>1, <1>8, <1>9, HereAfter
    <2>2. UpTo(w, d)'
      BY <1>2, <1>8, <1>9, UpToKept
    <2>3. (q > Len(M) + 1)'
      BY <1>1, <1>8, <1>9 DEF M
    <2> QED BY <1>1, <1>2, <1>8, <1>9, <2>1, <2>2, <2>3 DEF AtCut, p, q
  <1> QED BY <1>7, <1>9

LEMMA UnknownFollows ==
  ASSUME NEW w, Sourced(w), NEW k, AtOptions(w, k), k < Len(w.options.items),
         Unknown(w, w.options, k + 1), SocketOption
  PROVE  Refused(w)' \/ AtSkipped(w, k + 1, 0)'
  <1> DEFINE l == w.options
             o == l.items[k + 1]
  <1>1. /\ Len(l.items) \in Nat /\ k \in Nat /\ (k + 1) - 1 = k /\ k + 1 \in 1 .. Len(l.items)
        /\ tuple = NoTuple /\ ralen = w.ralen /\ left = Len(l.items) - k /\ UpTo(w, l.mark[k])
    BY Sources DEF AtOptions, Places
  <1>2. /\ StrAt(w, l.at[k], o.name, o.at[0]) /\ o.todo[0] = 1 /\ ~Known(o.name)
        /\ o.values \in Nat
    BY ZenonT(30), <1>1 DEF Unknown, Known
  <1>3. ASSUME o.at[0] \in 1 .. w.end, o.at[0] <= Len(M) + 1, StartSkip(1, Cursor(M, o.at[0]))
        PROVE  AtSkipped(w, k + 1, 0)'
    <2>1. /\ phase' = "skip" /\ rest' = 1 /\ c' = Cursor(M, o.at[0]) /\ msg' = msg
          /\ ralen' = ralen /\ left' = left /\ tuple' = tuple /\ log' = log
      BY <1>3 DEF StartSkip
    <2>2. o.at[0] \in 1 .. Len(M) + 1
      BY <1>3, Sources DEF Begins
    <2>3. Here(o.at[0])' /\ UpTo(w, l.mark[k])'
      BY <1>1, <2>1, <2>2, HereAfter, UpToKept
    <2>4. 0 \in 0 .. o.values
      BY <1>2
    <2> QED BY <1>1, <1>2, <2>1, <2>3, <2>4 DEF AtSkipped
  <1> HIDE DEF o
  <1> QED BY <1>2, <1>3, KeyRead

LEMMA ValuePart ==
  ASSUME NEW w, NEW p, NEW n, NEW q, ValueAt(w, p, n, q)
  PROVE  q \in 1 .. w.end /\ q \in Nat
  <1>1. Part(w, p, q)
    BY DEF ValueAt
  <1> QED BY <1>1 DEF Part

LEMMA SkipFollows ==
  ASSUME NEW w, Sourced(w), NEW k, NEW j, AtSkipped(w, k, j), Skip
  PROVE  Refused(w)' \/ AtSkipped(w, k, j + 1)'
  <1> DEFINE l == w.options
             o == l.items[k]
             E == Len(M) + 1
             over == nc_mp_skip_value(M, c)
             n == o.todo[j + 1] - o.todo[j] + 1
             p == o.at[j]
             q == o.at[j + 1]
  <1>1. /\ Len(l.items) \in Nat /\ k \in 1 .. Len(l.items) /\ tuple = NoTuple /\ ralen = w.ralen
        /\ phase = "skip" /\ left = Len(l.items) - (k - 1) /\ Unknown(w, l, k)
        /\ j \in 0 .. o.values /\ rest = o.todo[j] /\ UpTo(w, l.mark[k - 1])
        /\ o.values \in Nat /\ c = Cursor(M, p) /\ p \in 1 .. E
        /\ Len(M) \in Nat /\ Begins(M, w)
    BY Zenon, Sources DEF AtSkipped, Places, Unknown, Here
  <1>2. rest > 0
    BY DEF Skip
  <1>3. j < o.values
    <2>1. o.todo[o.values] = 0
      BY Zenon, <1>1 DEF Unknown
    <2> QED BY SMTT(30), <1>1, <1>2, <2>1
  <1>4. ValueAt(w, p, n, q) /\ o.todo[j] > 0 /\ o.todo[j + 1] \in Nat
    <2>1. j + 1 \in 1 .. o.values /\ (j + 1) - 1 = j
      BY SMTT(30), <1>1, <1>3
    <2>2. \A e \in 1 .. o.values : /\ o.todo[e - 1] > 0 /\ o.todo[e] \in Nat
                                  /\ ValueAt(w, o.at[e - 1], o.todo[e] - o.todo[e - 1] + 1, o.at[e])
      BY Zenon, <1>1 DEF Unknown
    <2> HIDE DEF o
    <2> QED BY <2>1, <2>2
  <1>41. o.todo[j] \in Int
    <2>1. o.todo[0] = 1 /\ \A e \in 1 .. o.values : o.todo[e] \in Nat
      BY Zenon, <1>1 DEF Unknown
    <2> HIDE DEF o
    <2>2. CASE j = 0
      BY <2>1, <2>2
    <2>3. CASE j # 0
      <3>1. j \in 1 .. o.values
        BY SMTT(30), <1>1, <2>3
      <3> QED BY <2>1, <3>1
    <2> QED BY <2>2, <2>3
  <1>5. q \in 1 .. w.end /\ q \in Nat
    BY <1>4, ValuePart
  <1> HIDE DEF p, q, n
  <1>6. /\ q <= E => over.ok /\ over.val = n /\ over.next = Cursor(M, q)
        /\ q > E => ~over.ok
    <2>1. Begins(M, w) /\ p \in 1 .. Len(M) + 1 /\ ValueAt(w, p, n, q) /\ c = Cursor(M, p)
      BY <1>1, <1>4
    <2>2. /\ q <= E => over = Got(n, Cursor(M, q))
          /\ q > E => ~over.ok
      BY <2>1, ValueRead
    <2> HIDE DEF over
    <2> QED BY <2>2, GotReads
  <1>7. /\ ~over.ok => Reject(over)
        /\ over.ok => /\ c' = over.next /\ rest' = rest - 1 + over.val /\ msg' = msg
                      /\ phase' = phase /\ ralen' = ralen /\ left' = left /\ tuple' = tuple
                      /\ log' = log
    BY DEF Skip
  <1> HIDE DEF over
  <1>8. CASE q > E
    BY SMTT(30), <1>1, <1>5, <1>6, <1>7, <1>8, CutRefused
  <1>9. CASE q <= E
    <2>1. /\ c' = Cursor(M, q) /\ rest' = rest - 1 + n /\ msg' = msg
          /\ phase' = phase /\ ralen' = ralen /\ left' = left /\ tuple' = tuple /\ log' = log
      BY <1>6, <1>7, <1>9
    <2>2. q \in 1 .. E
      BY <1>1, <1>5, <1>9
    <2>3. Here(q)' /\ UpTo(w, l.mark[k - 1])'
      BY <1>1, <2>1, <2>2, HereAfter, UpToKept
    <2>4. rest' = o.todo[j + 1] /\ j + 1 \in 0 .. o.values
      <3> DEFINE a == o.todo[j]
                 b == o.todo[j + 1]
      <3>1. a \in Int /\ b \in Nat /\ rest' = a - 1 + (b - a + 1)
        BY <1>1, <1>4, <1>41, <2>1 DEF n
      <3> HIDE DEF a, b
      <3>2. rest' = b
        BY <3>1
      <3>3. j + 1 \in 0 .. o.values
        <4> DEFINE v == o.values
        <4>1. v \in Nat /\ j \in 0 .. v /\ j < v
          BY <1>1, <1>3
        <4> HIDE DEF v
        <4>2. j + 1 \in 0 .. v
          BY <4>1
        <4> QED BY <4>2 DEF v
      <3> QED BY <3>2, <3>3 DEF b
    <2> QED BY <1>1, <2>1, <2>3, <2>4 DEF AtSkipped, q
  <1> QED BY <1>1, <1>5, <1>8, <1>9

LEMMA SkippedFollows ==
  ASSUME NEW w, Sourced(w), NEW k, NEW j, AtSkipped(w, k, j), SocketSkipped
  PROVE  AtOptions(w, k)'
  <1> DEFINE l == w.options
             o == l.items[k]
  <1>1. /\ Len(l.items) \in Nat /\ k \in 1 .. Len(l.items) /\ tuple = NoTuple /\ ralen = w.ralen
        /\ left = Len(l.items) - (k - 1) /\ Unknown(w, l, k)
        /\ j \in 0 .. o.values /\ rest = o.todo[j] /\ UpTo(w, l.mark[k - 1])
        /\ o.values \in Nat /\ Here(o.at[j])
    BY Zenon, Sources DEF AtSkipped, Places, Unknown
  <1>2. /\ rest = 0 /\ phase' = "options" /\ left' = left - 1 /\ c' = c /\ msg' = msg
        /\ ralen' = ralen /\ tuple' = tuple /\ log' = log
    BY <1>1 DEF SocketSkipped, NextOption
  <1>3. j = o.values
    <2> SUFFICES ASSUME j # o.values PROVE FALSE
      OBVIOUS
    <2>1. j + 1 \in 1 .. o.values /\ (j + 1) - 1 = j
      <3> DEFINE b == o.values
      <3>1. b \in Nat /\ j \in 0 .. b /\ j # b
        BY <1>1
      <3> HIDE DEF b
      <3>2. j + 1 \in 1 .. b /\ (j + 1) - 1 = j
        BY <3>1
      <3> QED BY <3>2 DEF b
    <2>2. \A e \in 1 .. o.values : o.todo[e - 1] > 0
      BY Zenon, <1>1 DEF Unknown
    <2> HIDE DEF o
    <2>3. o.todo[j] > 0
      BY <2>1, <2>2
    <2> QED BY <1>1, <1>2, <2>3
  <1>4. o.at[o.values] = l.at[k] /\ l.mark[k] = l.mark[k - 1]
    BY Zenon, <1>1 DEF Unknown
  <1>5. Here(l.at[k]) /\ UpTo(w, l.mark[k])
    BY <1>1, <1>3, <1>4
  <1>6. Here(l.at[k])' /\ UpTo(w, l.mark[k])'
    BY <1>2, <1>5, HereAfter, UpToKept DEF Here
  <1>7. left' = Len(l.items) - k /\ k \in 0 .. Len(l.items)
    BY <1>1, <1>2
  <1> QED BY <1>1, <1>2, <1>6, <1>7 DEF AtOptions

LEMMA AddressListFollows ==
  ASSUME NEW w, Sourced(w), NEW k, AtOptions(w, k), AddressList
  PROVE  Refused(w)' \/ AtAddresses(w, 0)'
  <1> DEFINE l == w.options
             as == w.addresses
             n == Len(as.items)
             q == as.at[0]
             E == Len(M) + 1
             arr == nc_mp_parse_array(M, c)
  <1>1. /\ Len(l.items) \in Nat /\ n \in Nat /\ k \in 0 .. Len(l.items) /\ left = Len(l.items) - k
        /\ tuple = NoTuple /\ ralen = w.ralen /\ UpTo(w, l.mark[k])
        /\ c = Cursor(M, l.at[k]) /\ l.at[k] \in 1 .. E /\ Len(M) \in Nat /\ Begins(M, w)
    BY Sources DEF AtOptions, Places, Here
  <1>2. k = Len(l.items)
    <2>1. left <= 0
      BY DEF AddressList
    <2> QED BY <1>1, <2>1
  <1>3. ArrAt(w, l.at[k], n, q) /\ as.mark[0] = l.mark[k]
    BY <1>2, Sources DEF WellWritten, EndOf, CallsOf
  <1>4. q \in 1 .. w.end /\ q \in Nat
    BY <1>3, LengthForms DEF ArrAt, Part
  <1>5. /\ q <= E => arr.ok /\ arr.val = n /\ arr.next = Cursor(M, q)
        /\ q > E => ~arr.ok
    BY SMTT(30), <1>1, <1>3, ArrRead, GotReads
  <1>6. /\ ~arr.ok => Refuse
        /\ arr.ok => /\ num' = arr.val /\ i' = 0 /\ c' = arr.next /\ phase' = "addresses"
                     /\ msg' = msg /\ ralen' = ralen /\ tuple' = tuple /\ log' = log
    BY DEF AddressList
  <1> HIDE DEF arr
  <1>7. CASE q > E
    BY <1>1, <1>4, <1>5, <1>6, <1>7, CutRefused
  <1>8. CASE q <= E
    <2>1. /\ num' = n /\ i' = 0 /\ c' = Cursor(M, q) /\ phase' = "addresses"
          /\ msg' = msg /\ ralen' = ralen /\ tuple' = tuple /\ log' = log
      BY <1>5, <1>6, <1>8
    <2>2. q \in 1 .. E /\ 0 \in 0 .. n
      BY <1>1, <1>4, <1>8
    <2>3. Here(q)' /\ UpTo(w, as.mark[0])'
      BY <1>1, <1>3, <2>1, <2>2, HereAfter, UpToKept
    <2> QED BY <1>1, <2>1, <2>2, <2>3 DEF AtAddresses
  <1> QED BY <1>1, <1>4, <1>7, <1>8

-----------------------------------------------------------------------------
(* Addresses and their options.                                              *)

(* Address a is written from place s to t, and asks for calls d + 1 to e.    *)
AddressBetween(w, a, s, t, d, e) ==
  LET os == a.options IN
  /\ a.kind \in {0, 1} /\ a.addr \in Seq(Byte) /\ HasTransport(a)
  /\ \E p \in 1 .. w.end : \E q \in 1 .. w.end : \E r \in 1 .. w.end :
       /\ ArrAt(w, s, IF a.bare THEN 2 ELSE 3, p) /\ IntAt(w, p, a.kind, q) /\ StrAt(w, q, a.addr, r)
       /\ a.bare => r = t
       /\ ~a.bare => MapAt(w, r, Len(os.items), os.at[0])
  /\ a.bare => Asks(w, d, e, Endpoint(a.kind, a.addr))
  /\ ~a.bare => /\ Places(os) /\ EndOf(os) = t /\ os.mark[0] = d
                /\ \A j \in 1 .. Len(os.items) : OptionOf(w, os, j, a.transport)
                /\ Asks(w, CallsOf(os), e, Endpoint(a.kind, a.addr))

LEMMA AddressParts ==
  ASSUME NEW w, NEW l, NEW k \in Nat, AddressOf(w, l, k + 1)
  PROVE  AddressBetween(w, l.items[k + 1], l.at[k], l.at[k + 1], l.mark[k], l.mark[k + 1])
  <1>1. (k + 1) - 1 = k
    OBVIOUS
  <1> QED BY <1>1 DEF AddressOf, AddressBetween

OptionBetween(w, o, owner, s, t, d, e) ==
  /\ Fits(o, owner)
  /\ \E v \in 1 .. w.end : StrAt(w, s, o.name, v) /\ ScalarAt(w, v, o.val, t)
  /\ Asks(w, d, e, SetCall(Level(o), o.name, o.val))

LEMMA OptionParts ==
  ASSUME NEW w, NEW l, NEW k \in Nat, NEW owner, OptionOf(w, l, k + 1, owner)
  PROVE  OptionBetween(w, l.items[k + 1], owner, l.at[k], l.at[k + 1], l.mark[k], l.mark[k + 1])
  <1>1. (k + 1) - 1 = k
    OBVIOUS
  <1> QED BY <1>1 DEF OptionOf, OptionBetween

(* Kind, address and transport are read.                                     *)
LEMMA AddressTaken ==
  ASSUME NEW w, Sourced(w), NEW d, UpTo(w, d), Address,
         NEW s \in 1 .. Len(M) + 1, c = Cursor(M, s),
         NEW n \in {2, 3}, NEW a, a.kind \in {0, 1}, a.addr \in Seq(Byte), HasTransport(a),
         NEW p \in 1 .. w.end, NEW q \in 1 .. w.end, NEW r \in 1 .. w.end,
         ArrAt(w, s, n, p), IntAt(w, p, a.kind, q), StrAt(w, q, a.addr, r)
  PROVE  \/ Refused(w)'
         \/ /\ r <= Len(M) + 1
            /\ n = 3 => WithOptions(a.kind, a.addr, a.transport, Cursor(M, r))
            /\ n = 2 => /\ TakeAddress(a.kind, a.addr, Cursor(M, r))
                        /\ UNCHANGED <<msg, ralen, rest, num, tuple, optid, optlev>>
  <1> DEFINE E == Len(M) + 1
             arr == nc_mp_parse_array(M, c)
             kind == nc_mp_parse_int(M, arr.next)
             addr == nc_mp_parse_string(M, kind.next)
             start == addr.next.at - Len(addr.val)
             Goes(at) == LET transport == SubSeq(M, start, at - 1) IN
                         IF at = 0 THEN Refuse
                         ELSE IF transport \notin Transports THEN SkipTransport(arr.val, addr.next)
                         ELSE IF arr.val = 3
                           THEN WithOptions(kind.val, addr.val, transport, addr.next)
                         ELSE /\ TakeAddress(kind.val, addr.val, addr.next)
                              /\ UNCHANGED <<msg, ralen, rest, num, tuple, optid, optlev>>
  <1>1. Begins(M, w) /\ M \in Message /\ Len(M) \in Nat
        /\ p \in Nat /\ q \in Nat /\ r \in Nat /\ p >= 1 /\ q >= 1 /\ r >= 1
    BY Sources DEF Begins
  <1>2. ASSUME NEW x \in 1 .. w.end, x > E, Refuse \/ Reject(addr) PROVE Refused(w)'
    BY <1>2, CutRefused
  <1>3. ~arr.ok => Refuse
    BY DEF Address
  <1>4. arr.ok /\ arr.val \in {2, 3} /\ ~kind.ok => Refuse
    BY DEF Address
  <1>5. arr.ok /\ arr.val \in {2, 3} /\ kind.ok /\ kind.val \in {0, 1} /\ ~addr.ok => Reject(addr)
    BY DEF Address
  <1>6. arr.ok /\ arr.val \in {2, 3} /\ kind.ok /\ kind.val \in {0, 1} /\ addr.ok
          => \E at \in ColonAt(start) : Goes(at)
    BY DEF Address
  <1>7. /\ p <= E => arr.ok /\ arr.val = n /\ arr.next = Cursor(M, p)
        /\ p > E => ~arr.ok
    BY <1>1, ArrRead, GotReads
  <1>8. ASSUME p <= E
        PROVE  /\ q <= E => kind.ok /\ kind.val = a.kind /\ kind.next = Cursor(M, q)
               /\ q > E => ~kind.ok
    <2>1. arr.next = Cursor(M, p) /\ p \in 1 .. E
      BY <1>1, <1>7, <1>8
    <2> HIDE DEF arr
    <2> QED BY <1>1, <2>1, IntRead, GotReads
  <1>9. ASSUME p <= E, q <= E
        PROVE  /\ r <= E => addr.ok /\ addr.val = a.addr /\ addr.next = Cursor(M, r)
               /\ r > E => ~addr.ok
    <2>1. kind.next = Cursor(M, q) /\ q \in 1 .. E
      BY <1>1, <1>8, <1>9
    <2> HIDE DEF kind
    <2> QED BY <1>1, <2>1, StrRead, GotReads
  <1> HIDE DEF arr, kind, addr, start, Goes
  <1>10. CASE p > E
    BY <1>2, <1>3, <1>7, <1>10
  <1>11. CASE p <= E /\ q > E
    BY <1>2, <1>4, <1>7, <1>8, <1>11
  <1>12. CASE p <= E /\ q <= E /\ r > E
    BY <1>2, <1>5, <1>7, <1>8, <1>9, <1>12
  <1>13. CASE p <= E /\ q <= E /\ r <= E
    <2>1. /\ arr.val = n /\ kind.val = a.kind /\ addr.val = a.addr /\ addr.next = Cursor(M, r)
          /\ \E at \in ColonAt(start) : Goes(at)
      BY <1>6, <1>7, <1>8, <1>9, <1>13
    <2>2. Spans(start, a.addr, r)
      <3>1. Len(a.addr) \in Nat
        OBVIOUS
      <3>2. start = r - Len(a.addr)
        BY <2>1 DEF start, Cursor
      <3> QED BY <1>1, <3>1, <3>2 DEF Spans
    <2>3. Begins(M, w) /\ StrAt(w, q, a.addr, r) /\ r <= Len(M) + 1 /\ M \in Message
      BY <1>1, <1>13
    <2>4. PICK at \in Nat \ {0} : /\ ColonAt(start) = {at}
                                 /\ SubSeq(M, start, at - 1) = a.transport
                                 /\ a.transport \in Transports
      BY <2>2, <2>3, TransportFound
    <2>5. Goes(at)
      BY <2>1, <2>2, <2>4
    <2>6. /\ n = 3 => WithOptions(a.kind, a.addr, a.transport, Cursor(M, r))
          /\ n = 2 => /\ TakeAddress(a.kind, a.addr, Cursor(M, r))
                      /\ UNCHANGED <<msg, ralen, rest, num, tuple, optid, optlev>>
      <3> DEFINE t == SubSeq(M, start, at - 1)
      <3>1. t = a.transport /\ t \in Transports /\ at # 0
        BY <2>2, <2>4
      <3>2. IF at = 0 THEN Refuse
            ELSE IF t \notin Transports THEN SkipTransport(arr.val, addr.next)
            ELSE IF arr.val = 3 THEN WithOptions(kind.val, addr.val, t, addr.next)
            ELSE /\ TakeAddress(kind.val, addr.val, addr.next)
                 /\ UNCHANGED <<msg, ralen, rest, num, tuple, optid, optlev>>
        BY <2>5 DEF Goes
      <3> HIDE DEF t
      <3>3. CASE n = 3
        BY <2>1, <3>1, <3>2, <3>3
      <3>4. CASE n = 2
        BY <2>1, <3>1, <3>2, <3>4
      <3> QED BY <3>3, <3>4
    <2> QED BY <1>13, <2>6
  <1>14. E \in Nat
    BY <1>1
  <1> QED BY <1>1, <1>10, <1>11, <1>12, <1>13, <1>14

LEMMA AddressFollows ==
  ASSUME NEW w, Sourced(w), NEW k, AtAddresses(w, k), Address
  PROVE  Refused(w)' \/ AtAddresses(w, k + 1)' \/ AtAddressOptions(w, k + 1, 0)'
  <1> DEFINE l == w.addresses
             a == l.items[k + 1]
             os == a.options
             n == IF a.bare THEN 2 ELSE 3
             E == Len(M) + 1
  <1>1. /\ Len(l.items) \in Nat /\ k \in 0 .. Len(l.items) /\ num = Len(l.items) /\ i = k
        /\ tuple = NoTuple /\ ralen = w.ralen /\ UpTo(w, l.mark[k])
        /\ c = Cursor(M, l.at[k]) /\ l.at[k] \in 1 .. E /\ Len(M) \in Nat
        /\ Begins(M, w) /\ WellWritten(w) /\ phase = "addresses"
    BY Sources DEF AtAddresses, Places, Here
  <1>2. k \in Nat /\ k + 1 \in 1 .. Len(l.items) /\ (k + 1) - 1 = k
    <2>1. i < num
      BY DEF Address
    <2> QED BY <1>1, <2>1
  <1>3. AddressOf(w, l, k + 1)
    BY <1>1, <1>2 DEF WellWritten
  <1>0. a = l.items[k + 1] /\ os = a.options /\ n = IF a.bare THEN 2 ELSE 3
    OBVIOUS
  <1> HIDE DEF l, a, os, n
  <1>4. /\ a.kind \in {0, 1} /\ a.addr \in Seq(Byte) /\ HasTransport(a)
        /\ \E p \in 1 .. w.end : \E q \in 1 .. w.end : \E r \in 1 .. w.end :
             /\ ArrAt(w, l.at[k], n, p) /\ IntAt(w, p, a.kind, q) /\ StrAt(w, q, a.addr, r)
             /\ a.bare => r = l.at[k + 1]
             /\ ~a.bare => MapAt(w, r, Len(os.items), os.at[0])
        /\ a.bare => Asks(w, l.mark[k], l.mark[k + 1], Endpoint(a.kind, a.addr))
        /\ ~a.bare => Places(os) /\ os.mark[0] = l.mark[k]
    <2>1. AddressBetween(w, a, l.at[k], l.at[k + 1], l.mark[k], l.mark[k + 1])
      BY <1>2, <1>3, AddressParts DEF a
    <2> QED BY <2>1 DEF AddressBetween, os, n
  <1>5. PICK p \in 1 .. w.end, q \in 1 .. w.end, r \in 1 .. w.end :
          /\ ArrAt(w, l.at[k], n, p) /\ IntAt(w, p, a.kind, q) /\ StrAt(w, q, a.addr, r)
          /\ a.bare => r = l.at[k + 1]
          /\ ~a.bare => MapAt(w, r, Len(os.items), os.at[0])
    BY <1>4
  <1>6. n \in {2, 3}
    BY <1>0
  <1>7. \/ Refused(w)'
        \/ /\ r <= E
           /\ n = 3 => WithOptions(a.kind, a.addr, a.transport, Cursor(M, r))
           /\ n = 2 => /\ TakeAddress(a.kind, a.addr, Cursor(M, r))
                       /\ UNCHANGED <<msg, ralen, rest, num, tuple, optid, optlev>>
    <2> DEFINE s == l.at[k]
               d == l.mark[k]
    <2>1. UpTo(w, d) /\ s \in 1 .. Len(M) + 1 /\ c = Cursor(M, s) /\ ArrAt(w, s, n, p)
      BY <1>1, <1>5
    <2> HIDE DEF s, d
    <2> QED BY <1>4, <1>5, <1>6, <2>1, AddressTaken
  <1>8. r \in 1 .. w.end /\ r \in Nat /\ r >= 1
    BY <1>1 DEF Begins
  <1>9. ASSUME a.bare, r <= E, TakeAddress(a.kind, a.addr, Cursor(M, r)),
               UNCHANGED <<msg, ralen, rest, num, tuple, optid, optlev>>
        PROVE  AtAddresses(w, k + 1)'
    <2>1. /\ c' = Cursor(M, r) /\ log' = Append(log, Endpoint(a.kind, a.addr)) /\ i' = i + 1
          /\ phase' = "addresses" /\ msg' = msg /\ ralen' = ralen /\ num' = num /\ tuple' = tuple
      BY <1>9 DEF TakeAddress
    <2>2. r = l.at[k + 1] /\ r \in 1 .. E
      BY <1>1, <1>5, <1>8, <1>9
    <2>3. Here(l.at[k + 1])'
      BY <2>1, <2>2, HereAfter
    <2>4. UpTo(w, l.mark[k + 1])'
      BY <1>1, <1>4, <1>9, <2>1, Called
    <2>5. k + 1 \in 0 .. Len(l.items) /\ i' = k + 1
      BY <1>1, <1>2, <2>1
    <2> QED BY <1>1, <2>1, <2>3, <2>4, <2>5 DEF AtAddresses, l
  <1>10. ASSUME ~a.bare, r <= E, WithOptions(a.kind, a.addr, a.transport, Cursor(M, r))
         PROVE  Refused(w)' \/ AtAddressOptions(w, k + 1, 0)'
    <2> DEFINE opts == nc_mp_parse_mapping(M, Cursor(M, r))
               z == os.at[0]
    <2>1. MapAt(w, r, Len(os.items), z) /\ Len(os.items) \in Nat /\ os.mark[0] = l.mark[k]
      BY <1>4, <1>5, <1>10 DEF Places
    <2>2. z \in 1 .. w.end /\ z \in Nat /\ r \in 1 .. E
      BY SMTT(30), <1>1, <1>8, <1>10, <2>1, LengthForms DEF MapAt, Part
    <2>3. /\ z <= E => opts.ok /\ opts.val = Len(os.items) /\ opts.next = Cursor(M, z)
          /\ z > E => ~opts.ok
      <3> DEFINE b == Len(os.items)
      <3>1. Begins(M, w) /\ MapAt(w, r, b, z) /\ r \in 1 .. Len(M) + 1
        BY <1>1, <2>1, <2>2
      <3> HIDE DEF b, z
      <3>2. /\ z <= E => opts = Got(b, Cursor(M, z))
            /\ z > E => ~opts.ok
        BY <3>1, MapRead
      <3> HIDE DEF opts
      <3> QED BY <3>2, GotReads DEF b
    <2>4. /\ ~opts.ok => Refuse
          /\ opts.ok => /\ tuple' = [kind |-> a.kind, addr |-> a.addr, transport |-> a.transport]
                        /\ left' = opts.val /\ c' = opts.next /\ phase' = "address options"
                        /\ msg' = msg /\ ralen' = ralen /\ num' = num /\ i' = i /\ log' = log
      BY <1>10 DEF WithOptions
    <2> HIDE DEF opts, z
    <2>5. CASE z > E
      BY <1>1, <2>2, <2>3, <2>4, <2>5, CutRefused
    <2>6. CASE z <= E
      <3>1. /\ tuple' = [kind |-> a.kind, addr |-> a.addr, transport |-> a.transport]
            /\ left' = Len(os.items) /\ c' = Cursor(M, z) /\ phase' = "address options"
            /\ msg' = msg /\ ralen' = ralen /\ num' = num /\ i' = i /\ log' = log
        BY <2>3, <2>4, <2>6
      <3>2. z \in 1 .. E
        BY <1>1, <2>2, <2>6
      <3>3. Here(z)' /\ UpTo(w, os.mark[0])'
        BY <1>1, <2>1, <3>1, <3>2, HereAfter, UpToKept
      <3>4. /\ 0 \in 0 .. Len(os.items) /\ left' = Len(os.items) - 0 /\ i' = (k + 1) - 1
            /\ k + 1 \in 1 .. Len(l.items)
        <4> DEFINE b == Len(os.items)
        <4>1. b \in Nat /\ left' = b
          BY <2>1, <3>1
        <4> HIDE DEF b
        <4>2. 0 \in 0 .. b /\ left' = b - 0
          BY <4>1
        <4>3. i' = (k + 1) - 1
          BY <1>1, <1>2, <3>1
        <4> QED BY <1>2, <4>2, <4>3 DEF b
      <3> QED BY Zenon, <1>1, <1>10, <3>1, <3>3, <3>4 DEF AtAddressOptions, l, a, os, z
    <2> QED BY <1>1, <2>2, <2>5, <2>6
  <1>11. (a.bare => n = 2) /\ (~a.bare => n = 3)
    BY <1>0
  <1> QED BY <1>7, <1>9, <1>10, <1>11

LEMMA AddressHere ==
  ASSUME NEW w, Sourced(w), NEW k \in 1 .. Len(w.addresses.items)
  PROVE  LET l == w.addresses IN
         AddressBetween(w, l.items[k], l.at[k - 1], l.at[k], l.mark[k - 1], l.mark[k])
  <1> DEFINE l == w.addresses
             h == k - 1
  <1>1. h \in Nat /\ h + 1 = k /\ AddressOf(w, l, k)
    BY Sources DEF WellWritten, Places
  <1> HIDE DEF h, l
  <1>2. AddressOf(w, l, h + 1)
    BY <1>1
  <1>3. AddressBetween(w, l.items[h + 1], l.at[h], l.at[h + 1], l.mark[h], l.mark[h + 1])
    BY <1>1, <1>2, AddressParts
  <1> QED BY <1>1, <1>3 DEF h, l

(* While the options of an address are read, its tuple is there.             *)
LEMMA TupleHeld ==
  ASSUME NEW w, Sourced(w), NEW k, NEW j, AtAddressOptions(w, k, j)
  PROVE  tuple # NoTuple
  <1>1. w.addresses.items[k].kind \in {0, 1}
    BY ZenonT(30), AddressHere DEF AtAddressOptions, AddressBetween
  <1>2. tuple.kind = w.addresses.items[k].kind
    BY DEF AtAddressOptions
  <1>3. NoTuple.kind = -1
    BY DEF NoTuple
  <1> QED BY <1>1, <1>2, <1>3

LEMMA AddressOptionFollows ==
  ASSUME NEW w, Sourced(w), NEW k, NEW j, AtAddressOptions(w, k, j), AddressOption
  PROVE  Refused(w)' \/ AtAddressOptions(w, k, j + 1)'
  <1> DEFINE l == w.addresses
             a == l.items[k]
             os == a.options
             o == os.items[j + 1]
             n == Len(os.items)
             E == Len(M) + 1
             key == nc_mp_parse_string(M, c)
             d == os.mark[j]
             e == os.mark[j + 1]
             s == os.at[j]
             t == os.at[j + 1]
  <1>1. /\ ralen = w.ralen /\ k \in 1 .. Len(l.items) /\ num = Len(l.items) /\ i = k - 1 /\ ~a.bare
        /\ j \in 0 .. n /\ left = n - j
        /\ c = Cursor(M, s) /\ s \in 1 .. E /\ UpTo(w, d) /\ phase = "address options"
    BY ZenonT(30), Sources DEF AtAddressOptions, Here
  <1>0. /\ tuple = [kind |-> a.kind, addr |-> a.addr, transport |-> a.transport]
        /\ Len(M) \in Nat /\ Begins(M, w)
    BY Sources DEF AtAddressOptions
  <1>2. AddressBetween(w, a, l.at[k - 1], l.at[k], l.mark[k - 1], l.mark[k])
    BY Zenon, <1>1, AddressHere
  <1>3. /\ n \in Nat
        /\ \A b \in 1 .. n : OptionOf(w, os, b, a.transport)
    BY Zenon, <1>1, <1>2 DEF AddressBetween, Places
  <1>4. j \in Nat /\ j + 1 \in 1 .. n /\ j + 1 \in 0 .. n /\ left - 1 = n - (j + 1)
    <2>1. left > 0
      BY DEF AddressOption
    <2>2. n \in Nat /\ j \in 0 .. n /\ left = n - j
      BY Zenon, <1>1, <1>3
    <2> HIDE DEF n
    <2> QED BY <2>1, <2>2
  <1>5. OptionBetween(w, o, a.transport, s, t, d, e)
    <2>1. OptionOf(w, os, j + 1, a.transport) /\ j \in Nat
      BY <1>3, <1>4
    <2> HIDE DEF os
    <2> QED BY <2>1, OptionParts
  <1>6. tuple.transport = a.transport
    BY <1>0
  <1>7. tuple # NoTuple
    BY TupleHeld
  <1> HIDE DEF l, a, os, o, n, d, e, s, t
  <1>8. PICK v \in 1 .. w.end : StrAt(w, s, o.name, v) /\ ScalarAt(w, v, o.val, t)
    BY <1>5 DEF OptionBetween
  <1>9. /\ Fits(o, a.transport) /\ Asks(w, d, e, SetCall(Level(o), o.name, o.val))
    BY <1>5 DEF OptionBetween
  <1>10. Known(o.name) /\ AddressLevel(o.name) = Level(o)
    BY <1>6, <1>9, LevelOf DEF AddressLevel
  <1>11. v \in Nat /\ v >= 1
    BY <1>0 DEF Begins
  <1>12. /\ v <= E => key.ok /\ key.val = o.name /\ key.next = Cursor(M, v)
         /\ v > E => ~key.ok
    <2> DEFINE name == o.name
    <2>1. /\ Begins(M, w) /\ s \in 1 .. Len(M) + 1 /\ StrAt(w, s, name, v)
          /\ key = nc_mp_parse_string(M, Cursor(M, s))
      BY <1>0, <1>1, <1>8
    <2> HIDE DEF name, key
    <2>2. /\ v <= E => key = Got(name, Cursor(M, v))
          /\ v > E => ~key.ok
      BY <2>1, StrRead
    <2>3. /\ v <= E => key.ok /\ key.val = name /\ key.next = Cursor(M, v)
          /\ v > E => ~key.ok
      BY <2>2, GotReads
    <2> QED BY <2>3 DEF name
  <1>13. /\ ~key.ok => Reject(key)
         /\ key.ok /\ Known(key.val)
              => nc_parse_and_set_option(AddressLevel(key.val), key.val, key.next)
    BY DEF AddressOption
  <1> HIDE DEF key
  <1>14. CASE v > E
    BY <1>1, <1>12, <1>13, <1>14, CutRefused
  <1>15. CASE v <= E
    <2>1. nc_parse_and_set_option(Level(o), o.name, Cursor(M, v))
      BY <1>10, <1>12, <1>13, <1>15
    <2>2. \/ Refused(w)'
          \/ /\ Here(t)' /\ UpTo(w, e)' /\ NextOption
             /\ msg' = msg /\ ralen' = ralen /\ num' = num /\ i' = i /\ tuple' = tuple
      BY <1>1, <1>8, <1>9, <1>15, <2>1, OneSet
    <2>3. NextOption => phase' = "address options" /\ left' = left - 1
      BY <1>7 DEF NextOption
    <2>4. CASE /\ Here(t)' /\ UpTo(w, e)' /\ NextOption
               /\ msg' = msg /\ ralen' = ralen /\ num' = num /\ i' = i /\ tuple' = tuple
      BY Zenon, <1>0, <1>1, <1>4, <2>3, <2>4 DEF AtAddressOptions, l, a, os, n, e, t
    <2> QED BY <2>2, <2>4
  <1> QED BY <1>0, <1>11, <1>14, <1>15

LEMMA AddressOptionsEndFollows ==
  ASSUME NEW w, Sourced(w), NEW k, NEW j, AtAddressOptions(w, k, j), AddressOptionsEnd
  PROVE  AtAddresses(w, k)'
  <1> DEFINE l == w.addresses
             a == l.items[k]
             os == a.options
             n == Len(os.items)
             E == Len(M) + 1
  <1>1. /\ ralen = w.ralen /\ k \in 1 .. Len(l.items) /\ num = Len(l.items) /\ i = k - 1 /\ ~a.bare
        /\ j \in 0 .. n /\ left = n - j
        /\ c = Cursor(M, os.at[j]) /\ os.at[j] \in 1 .. E /\ UpTo(w, os.mark[j])
        /\ Len(l.items) \in Nat
    BY ZenonT(30), Sources DEF AtAddressOptions, Here, Places
  <1>0. tuple = [kind |-> a.kind, addr |-> a.addr, transport |-> a.transport]
    BY ZenonT(30) DEF AtAddressOptions
  <1>2. AddressBetween(w, a, l.at[k - 1], l.at[k], l.mark[k - 1], l.mark[k])
    BY Zenon, <1>1, AddressHere
  <1>3. /\ n \in Nat /\ os.at[n] = l.at[k]
        /\ Asks(w, os.mark[n], l.mark[k], Endpoint(a.kind, a.addr))
    BY Zenon, <1>1, <1>2 DEF AddressBetween, Places, EndOf, CallsOf
  <1>4. j = n
    <2>1. left <= 0
      BY DEF AddressOptionsEnd
    <2>2. n \in Nat /\ j \in 0 .. n /\ left = n - j
      BY Zenon, <1>1, <1>3
    <2> HIDE DEF n
    <2> QED BY <2>1, <2>2
  <1>5. /\ c = Cursor(M, l.at[k]) /\ l.at[k] \in 1 .. E /\ UpTo(w, os.mark[n])
    BY Zenon, <1>1, <1>3, <1>4
  <1>6. tuple.kind = a.kind /\ tuple.addr = a.addr
    BY <1>0
  <1> HIDE DEF l, a, os, n
  <1>7. /\ log' = Append(log, Endpoint(a.kind, a.addr)) /\ c' = c /\ i' = i + 1
        /\ phase' = "addresses" /\ tuple' = NoTuple /\ msg' = msg /\ ralen' = ralen /\ num' = num
    BY <1>6 DEF AddressOptionsEnd, TakeAddress
  <1>8. Here(l.at[k])'
    BY <1>5, <1>7, HereAfter
  <1>9. UpTo(w, l.mark[k])'
    BY <1>3, <1>5, <1>7, Called
  <1>10. i' = k /\ k \in 0 .. Len(l.items)
    BY <1>1, <1>7
  <1> QED BY <1>1, <1>7, <1>8, <1>9, <1>10 DEF AtAddresses, l

-----------------------------------------------------------------------------
(* Topics, and the end of the reply.                                         *)

LEMMA TopicListFollows ==
  ASSUME NEW w, Sourced(w), NEW k, AtAddresses(w, k), TopicList
  PROVE  Refused(w)' \/ Applied(w)' \/ AtTopics(w, 0)'
  <1> DEFINE l == w.addresses
             ts == w.topics
             n == Len(ts.items)
             s == EndOf(l)
             q == ts.at[0]
             E == Len(M) + 1
             arr == nc_mp_parse_array(M, c)
  <1>1. /\ Len(l.items) \in Nat /\ k \in 0 .. Len(l.items) /\ num = Len(l.items) /\ i = k
        /\ ralen = w.ralen /\ Len(M) \in Nat
    BY Sources DEF AtAddresses, Places
  <1>2. k = Len(l.items)
    <2>1. i >= num
      BY DEF TopicList
    <2> QED BY <1>1, <2>1
  <1>3. c = Cursor(M, s) /\ s \in 1 .. E /\ UpTo(w, CallsOf(l))
    BY <1>2 DEF AtAddresses, Here, EndOf, CallsOf
  <1>4. WellWritten(w) /\ Begins(M, w) /\ n \in Nat
    BY Sources DEF Places
  <1>5. w.ralen \in Nat /\ w.ralen >= 3
    <2>1. \E p \in 1 .. w.end : ArrAt(w, 1, w.ralen, p)
      BY <1>4 DEF WellWritten
    <2> QED BY <1>4, <2>1, LengthForms DEF ArrAt, WellWritten
  <1>6. CASE w.ralen = 3
    <2>1. EndOf(l) = w.end /\ CallsOf(l) = Len(w.meant)
      BY <1>4, <1>6 DEF WellWritten
    <2>2. phase' = "applied" /\ log' = log /\ msg' = msg
      BY <1>1, <1>6 DEF TopicList, Stop
    <2> HIDE DEF s
    <2>3. msg.whole
      <3>1. w.end <= Len(M) + 1
        BY <1>1, <1>3, <2>1 DEF s
      <3> QED BY <3>1, Sources
    <2>4. log = w.meant
      <3>1. w.meant \in Seq(ToSet(w.meant))
        BY <1>4 DEF WellWritten
      <3>2. log = SubSeq(w.meant, 1, Len(w.meant))
        BY <1>3, <2>1 DEF UpTo
      <3> QED BY <3>1, <3>2
    <2> QED BY <2>2, <2>3, <2>4 DEF Applied
  <1>7. CASE w.ralen # 3
    <2>1. ArrAt(w, s, n, q) /\ ts.mark[0] = CallsOf(l)
      BY <1>4, <1>7 DEF WellWritten
    <2>2. q \in 1 .. w.end /\ q \in Nat
      BY <2>1, LengthForms DEF ArrAt, Part
    <2>3. /\ q <= E => arr.ok /\ arr.val = n /\ arr.next = Cursor(M, q)
          /\ q > E => ~arr.ok
      <3> HIDE DEF s, q, n
      <3> QED BY <1>3, <1>4, <2>1, ArrRead, GotReads
    <2>4. /\ ~arr.ok => Refuse
          /\ arr.ok => /\ left' = arr.val /\ c' = arr.next /\ phase' = "topics"
                       /\ msg' = msg /\ log' = log
      BY <1>1, <1>5, <1>7 DEF TopicList
    <2> HIDE DEF arr
    <2>5. CASE q > E
      BY <1>3, <2>2, <2>3, <2>4, <2>5, CutRefused
    <2>6. CASE q <= E
      <3>1. left' = n /\ c' = Cursor(M, q) /\ phase' = "topics" /\ msg' = msg /\ log' = log
        BY <2>3, <2>4, <2>6
      <3>2. q \in 1 .. E /\ 0 \in 0 .. n /\ left' = n - 0
        BY <1>1, <1>4, <2>2, <2>6, <3>1
      <3>3. Here(q)' /\ UpTo(w, ts.mark[0])'
        BY <1>3, <2>1, <3>1, <3>2, HereAfter, UpToKept
      <3> QED BY <1>7, <3>1, <3>2, <3>3 DEF AtTopics
    <2> QED BY <1>1, <2>2, <2>5, <2>6
  <1> QED BY <1>6, <1>7

LEMMA TopicFollows ==
  ASSUME NEW w, Sourced(w), NEW k, AtTopics(w, k), Topic
  PROVE  Refused(w)' \/ AtTopics(w, k + 1)'
  <1> DEFINE l == w.topics
             n == Len(l.items)
             name == l.items[k + 1]
             s == l.at[k]
             q == l.at[k + 1]
             d == l.mark[k]
             e == l.mark[k + 1]
             E == Len(M) + 1
             str == nc_mp_parse_string(M, c)
  <1>1. /\ n \in Nat /\ w.ralen # 3 /\ k \in 0 .. n /\ left = n - k /\ phase = "topics"
        /\ c = Cursor(M, s) /\ s \in 1 .. E /\ UpTo(w, d)
        /\ Len(M) \in Nat /\ Begins(M, w) /\ WellWritten(w)
    BY Sources DEF AtTopics, Places, Here
  <1>2. k \in Nat /\ k + 1 \in 1 .. n /\ k + 1 \in 0 .. n /\ left - 1 = n - (k + 1) /\ (k + 1) - 1 = k
    <2>1. left > 0
      BY DEF Topic
    <2>2. n \in Nat /\ k \in 0 .. n /\ left = n - k
      BY <1>1
    <2> HIDE DEF n
    <2> QED BY <2>1, <2>2
  <1>3. StrAt(w, s, name, q) /\ Asks(w, d, e, Subscribed(name))
    <2>1. TopicOf(w, l, k + 1)
      BY <1>1, <1>2 DEF WellWritten
    <2> QED BY <1>2, <2>1 DEF TopicOf
  <1> HIDE DEF l, n, name, s, q, d, e
  <1>4. q \in 1 .. w.end /\ q \in Nat
    BY <1>3 DEF StrAt, Part
  <1>5. /\ q <= E => str.ok /\ str.val = name /\ str.next = Cursor(M, q)
        /\ q > E => ~str.ok
    BY <1>1, <1>3, StrRead, GotReads
  <1>6. /\ ~str.ok => Reject(str)
        /\ str.ok => /\ log' = Append(log, Subscribed(str.val)) /\ c' = str.next
                     /\ left' = left - 1 /\ phase' = phase /\ msg' = msg
    BY DEF Topic
  <1> HIDE DEF str
  <1>7. CASE q > E
    BY <1>1, <1>4, <1>5, <1>6, <1>7, CutRefused
  <1>8. CASE q <= E
    <2>1. /\ log' = Append(log, Subscribed(name)) /\ c' = Cursor(M, q)
          /\ left' = n - (k + 1) /\ phase' = "topics" /\ msg' = msg
      BY <1>1, <1>2, <1>5, <1>6, <1>8
    <2>2. q \in 1 .. E
      BY <1>1, <1>4, <1>8
    <2>3. Here(q)'
      BY <2>1, <2>2, HereAfter
    <2>4. UpTo(w, e)'
      BY <1>1, <1>3, <2>1, Called
    <2> QED BY <1>1, <1>2, <2>1, <2>3, <2>4 DEF AtTopics, l, n, q, e
  <1> QED BY <1>1, <1>4, <1>7, <1>8

LEMMA DoneFollows ==
  ASSUME NEW w, Sourced(w), NEW k, AtTopics(w, k), Done
  PROVE  Applied(w)'
  <1> DEFINE l == w.topics
             n == Len(l.items)
  <1>1. /\ n \in Nat /\ w.ralen # 3 /\ k \in 0 .. n /\ left = n - k
        /\ l.at[k] \in 1 .. Len(M) + 1 /\ UpTo(w, l.mark[k]) /\ WellWritten(w)
    BY Sources DEF AtTopics, Places, Here
  <1>2. k = n
    <2>1. left <= 0
      BY DEF Done
    <2>2. n \in Nat /\ k \in 0 .. n /\ left = n - k
      BY <1>1
    <2> HIDE DEF n
    <2> QED BY <2>1, <2>2
  <1>3. l.at[k] = w.end /\ l.mark[k] = Len(w.meant) /\ w.meant \in Seq(ToSet(w.meant))
    BY <1>1, <1>2 DEF WellWritten, EndOf, CallsOf
  <1>4. phase' = "applied" /\ log' = log /\ msg' = msg
    BY DEF Done, Stop
  <1>5. msg.whole
    <2>1. w.end <= Len(M) + 1
      <3>1. w.end \in 1 .. Len(M) + 1 /\ Len(M) \in Nat
        BY <1>1, <1>3, Sources
      <3> QED BY <3>1
    <2> QED BY <2>1, Sources
  <1>6. log = w.meant
    <2>1. log = SubSeq(w.meant, 1, Len(w.meant))
      BY <1>1, <1>3 DEF UpTo
    <2> QED BY <1>3, <2>1
  <1> QED BY <1>4, <1>5, <1>6 DEF Applied

-----------------------------------------------------------------------------
(* Every step of the reader is one of those above.                           *)

(* Which actions a phase allows.                                             *)
LEMMA Steps ==
  ASSUME [Next]_vars
  PROVE  \/ phase = "head" /\ Begin
         \/ phase = "options" /\ (SocketOption \/ AddressList)
         \/ phase = "values" /\ (Element \/ ElementsEnd)
         \/ phase = "skip" /\ (Skip \/ SocketSkipped \/ AddressSkipped)
         \/ phase = "addresses" /\ (Address \/ TopicList)
         \/ phase = "address options" /\ (AddressOption \/ AddressOptionsEnd)
         \/ phase = "topics" /\ (Topic \/ Done)
         \/ UNCHANGED vars
  <1>1. CASE Begin
    BY <1>1 DEF Begin
  <1>2. CASE SocketOption \/ AddressList
    BY <1>2 DEF SocketOption, AddressList
  <1>3. CASE Element \/ ElementsEnd
    BY <1>3 DEF Element, ElementsEnd
  <1>4. CASE Skip \/ SocketSkipped \/ AddressSkipped
    BY <1>4 DEF Skip, SocketSkipped, AddressSkipped
  <1>5. CASE Address \/ TopicList
    BY Zenon, <1>5 DEF Address, TopicList
  <1>6. CASE AddressOption \/ AddressOptionsEnd
    BY <1>6 DEF AddressOption, AddressOptionsEnd
  <1>7. CASE Topic \/ Done
    BY <1>7 DEF Topic, Done
  <1>8. CASE Returned \/ UNCHANGED vars
    BY <1>8 DEF Returned
  <1> QED BY <1>1, <1>2, <1>3, <1>4, <1>5, <1>6, <1>7, <1>8 DEF Next

(* The message stays the one it is, and so does the text it comes from.      *)
LEMMA MessageKept ==
  ASSUME [Next]_vars
  PROVE  msg' = msg
  <1>1. CASE Begin
    BY <1>1 DEF Begin, ErrorReply, Refuse, Stop
  <1>2. CASE SocketOption \/ AddressOption \/ AddressSkipped
    BY <1>2 DEF SocketOption, AddressOption, AddressSkipped, nc_parse_and_set_option, StartSkip,
                Reject, Stop
  <1>3. CASE SocketSkipped \/ AddressList \/ Skip \/ Element \/ ElementsEnd
    BY SMTT(30), <1>3 DEF SocketSkipped, AddressList, Skip, Element, ElementsEnd, Refuse,
                           Reject, Stop
  <1>4. CASE Address
    BY <1>4 DEF Address, WithOptions, SkipTransport, StartSkip, Refuse, Reject, Stop
  <1>5. CASE AddressOptionsEnd \/ TopicList \/ Topic \/ Done
    BY <1>5 DEF AddressOptionsEnd, TopicList, Topic, Done, Refuse, Reject, Stop
  <1>6. CASE Returned \/ UNCHANGED vars
    BY <1>6 DEF Returned, vars
  <1> QED BY <1>1, <1>2, <1>3, <1>4, <1>5, <1>6 DEF Next

LEMMA StillSource ==
  ASSUME NEW w, Source(w), msg' = msg
  PROVE  Source(w)'
  BY DEF Source, M

(* Nothing is done: what held of the reader still holds.                     *)
LEMMA StillFollows ==
  ASSUME NEW w, Follows(w), UNCHANGED vars
  PROVE  Follows(w)'
  <1>1. /\ msg' = msg /\ c' = c /\ phase' = phase /\ ralen' = ralen /\ left' = left /\ rest' = rest
        /\ num' = num /\ i' = i /\ tuple' = tuple /\ optid' = optid /\ optlev' = optlev
        /\ log' = log
    BY DEF vars
  <1>2. AtHead => AtHead'
    BY <1>1 DEF AtHead, Here, Cursor, M
  <1>3. (Applied(w) => Applied(w)') /\ (Refused(w) => Refused(w)')
    BY <1>1 DEF Applied, Refused, UpTo
  <1>4. ASSUME NEW k, NEW j
        PROVE  /\ AtOptions(w, k) => AtOptions(w, k)'
               /\ AtAddresses(w, k) => AtAddresses(w, k)'
               /\ AtTopics(w, k) => AtTopics(w, k)'
    BY <1>1 DEF AtOptions, AtAddresses, AtTopics, Here, Cursor, M, UpTo
  <1>5. ASSUME NEW k, NEW j
        PROVE  /\ AtElements(w, k, j) => AtElements(w, k, j)'
               /\ AtCut(w, k, j) => AtCut(w, k, j)'
               /\ AtSkipped(w, k, j) => AtSkipped(w, k, j)'
               /\ AtAddressOptions(w, k, j) => AtAddressOptions(w, k, j)'
    BY Zenon, <1>1 DEF AtElements, AtCut, AtSkipped, AtAddressOptions, Here, Cursor, M, UpTo
  <1> QED BY <1>2, <1>3, <1>4, <1>5 DEF Follows

LEMMA Reached ==
  ASSUME NEW w, NEW k \in Nat, NEW j \in Nat,
         \/ Applied(w)' \/ Refused(w)'
         \/ AtOptions(w, k)' \/ AtElements(w, k, j)' \/ AtCut(w, k, j)' \/ AtSkipped(w, k, j)'
         \/ AtAddresses(w, k)' \/ AtAddressOptions(w, k, j)' \/ AtTopics(w, k)'
  PROVE  Follows(w)'
  BY DEF Follows

LEMMA OptionFollows ==
  ASSUME NEW w, Sourced(w), NEW k \in Nat, AtOptions(w, k), SocketOption
  PROVE  Follows(w)'
  <1>1. /\ k \in 0 .. Len(w.options.items) /\ left = Len(w.options.items) - k
        /\ Len(w.options.items) \in Nat /\ WellWritten(w)
    BY Sources DEF AtOptions, Places
  <1>2. left > 0
    BY DEF SocketOption
  <1>3. k < Len(w.options.items) /\ k + 1 \in 1 .. Len(w.options.items)
    BY <1>1, <1>2
  <1>4. \/ OptionOf(w, w.options, k + 1, Protocol) \/ Several(w, w.options, k + 1, Protocol)
        \/ Unknown(w, w.options, k + 1)
    BY <1>1, <1>3 DEF WellWritten
  <1>5. k + 1 \in Nat /\ 0 \in Nat
    OBVIOUS
  <1>6. \/ Refused(w)' \/ AtOptions(w, k + 1)' \/ AtElements(w, k + 1, 0)'
        \/ AtSkipped(w, k + 1, 0)'
    BY <1>3, <1>4, OneFollows, SeveralFollows, UnknownFollows
  <1> QED BY <1>5, <1>6, Reached

(* A step from wherever the reader is leads to the next such place.          *)
LEMMA FollowsStep ==
  ASSUME NEW w, Sourced(w), Follows(w), [Next]_vars
  PROVE  Follows(w)'
  <1>0. UNCHANGED vars => Follows(w)'
    BY StillFollows
  <1>1. CASE AtHead
    <2>1. Begin => Refused(w)' \/ AtOptions(w, 0)'
      BY <1>1, BeginFollows
    <2>2. Begin => Follows(w)'
      BY <2>1, Reached
    <2> QED BY <1>0, <1>1, <2>2, Steps DEF AtHead
  <1>2. CASE Applied(w) \/ Refused(w)
    BY <1>0, <1>2, Steps DEF Applied, Refused
  <1>3. ASSUME NEW k \in Nat, AtOptions(w, k)
        PROVE  Follows(w)'
    <2>1. AddressList => Refused(w)' \/ AtAddresses(w, 0)'
      BY <1>3, AddressListFollows
    <2>2. AddressList => Follows(w)'
      BY <2>1, Reached
    <2>3. SocketOption => Follows(w)'
      BY <1>3, OptionFollows
    <2> QED BY <1>0, <1>3, <2>2, <2>3, Steps DEF AtOptions
  <1>4. ASSUME NEW k \in Nat, NEW j \in Nat, AtElements(w, k, j)
        PROVE  Follows(w)'
    <2>1. Element => Refused(w)' \/ AtElements(w, k, j + 1)' \/ AtCut(w, k, j)'
      BY <1>4, ElementFollows
    <2>2. ElementsEnd => AtOptions(w, k)'
      BY <1>4, ElementsEndFollows
    <2>3. j + 1 \in Nat
      OBVIOUS
    <2>4. Element => Follows(w)'
      BY <2>1, <2>3, Reached
    <2>5. ElementsEnd => Follows(w)'
      BY <2>2, Reached
    <2> QED BY <1>0, <1>4, <2>4, <2>5, Steps DEF AtElements
  <1>5. ASSUME NEW k \in Nat, NEW j \in Nat, AtCut(w, k, j)
        PROVE  Follows(w)'
    <2>1. Element \/ ElementsEnd \/ SocketOption \/ AddressList => Refused(w)' \/ AtCut(w, k, j)'
      BY <1>5, CutFollows
    <2>2. Element \/ ElementsEnd \/ SocketOption \/ AddressList => Follows(w)'
      BY <2>1, Reached
    <2> QED BY <1>0, <1>5, <2>2, Steps DEF AtCut
  <1>6. ASSUME NEW k \in Nat, NEW j \in Nat, AtSkipped(w, k, j)
        PROVE  Follows(w)'
    <2>1. Skip => Refused(w)' \/ AtSkipped(w, k, j + 1)'
      BY <1>6, SkipFollows
    <2>2. SocketSkipped => AtOptions(w, k)'
      BY <1>6, SkippedFollows
    <2>3. j + 1 \in Nat
      OBVIOUS
    <2>4. Skip => Follows(w)'
      BY <2>1, <2>3, Reached
    <2>5. SocketSkipped => Follows(w)'
      BY <2>2, Reached
    <2>6. ~AddressSkipped
      BY <1>6 DEF AtSkipped, AddressSkipped
    <2> QED BY <1>0, <1>6, <2>4, <2>5, <2>6, Steps DEF AtSkipped
  <1>7. ASSUME NEW k \in Nat, AtAddresses(w, k)
        PROVE  Follows(w)'
    <2>1. Address => Refused(w)' \/ AtAddresses(w, k + 1)' \/ AtAddressOptions(w, k + 1, 0)'
      BY <1>7, AddressFollows
    <2>2. TopicList => Refused(w)' \/ Applied(w)' \/ AtTopics(w, 0)'
      BY <1>7, TopicListFollows
    <2>3. k + 1 \in Nat /\ 0 \in Nat
      OBVIOUS
    <2>4. Address => Follows(w)'
      BY <2>1, <2>3, Reached
    <2>5. TopicList => Follows(w)'
      BY SMTT(30), <2>2, Reached
    <2> QED BY <1>0, <1>7, <2>4, <2>5, Steps DEF AtAddresses
  <1>8. ASSUME NEW k \in Nat, NEW j \in Nat, AtAddressOptions(w, k, j)
        PROVE  Follows(w)'
    <2>1. AddressOption => Refused(w)' \/ AtAddressOptions(w, k, j + 1)'
      BY <1>8, AddressOptionFollows
    <2>2. AddressOptionsEnd => AtAddresses(w, k)'
      BY <1>8, AddressOptionsEndFollows
    <2>3. j + 1 \in Nat
      OBVIOUS
    <2>4. AddressOption => Follows(w)'
      BY <2>1, <2>3, Reached
    <2>5. AddressOptionsEnd => Follows(w)'
      BY <2>2, Reached
    <2> QED BY <1>0, <1>8, <2>4, <2>5, Steps DEF AtAddressOptions
  <1>9. ASSUME NEW k \in Nat, AtTopics(w, k)
        PROVE  Follows(w)'
    <2>1. Topic => Refused(w)' \/ AtTopics(w, k + 1)'
      BY <1>9, TopicFollows
    <2>2. Done => Applied(w)'
      BY <1>9, DoneFollows
    <2>3. k + 1 \in Nat
      OBVIOUS
    <2>4. Topic => Follows(w)'
      BY <2>1, <2>3, Reached
    <2>5. Done => Follows(w)'
      BY <2>2, Reached
    <2> QED BY <1>0, <1>9, <2>4, <2>5, Steps DEF AtTopics
  <1> QED BY <1>1, <1>2, <1>3, <1>4, <1>5, <1>6, <1>7, <1>8, <1>9 DEF Follows

-----------------------------------------------------------------------------
(* The invariant, and what follows from it.                                  *)
Follower == msg \in Replies /\ Tracked

LEMMA FollowerInit == Init => Follower
  <1> SUFFICES ASSUME Init PROVE Follower
    OBVIOUS
  <1>1. msg \in Replies
    BY DEF Init
  <1>2. ASSUME msg.plain PROVE \E w \in Texts : Source(w) /\ Follows(w)
    <2>1. PICK w \in Texts : /\ BeginningOf(M, w) /\ msg.meant = w.meant
                             /\ (msg.whole <=> Complete(M, w))
      BY <1>1, <1>2, ReplyAssumption DEF ReplyAssumption, M
    <2>2. Len(M) \in Nat
      BY <1>1, HeldMessage DEF Message
    <2>3. Here(1)
      BY <2>2 DEF Init, Here, Cursor
    <2>4. AtHead
      BY <2>3 DEF Init, AtHead
    <2> QED BY <2>1, <2>4 DEF Source, Follows
  <1> QED BY <1>1, <1>2 DEF Follower, Tracked

LEMMA FollowerStep == Follower /\ [Next]_vars => Follower'
  <1> SUFFICES ASSUME Follower, [Next]_vars PROVE Follower'
    OBVIOUS
  <1>1. msg' = msg
    BY MessageKept
  <1>2. ASSUME msg.plain PROVE \E w \in Texts : Source(w)' /\ Follows(w)'
    <2>1. PICK w \in Texts : Source(w) /\ Follows(w)
      BY <1>2 DEF Follower, Tracked
    <2>2. Sourced(w)
      BY <1>2, <2>1 DEF Follower, Sourced
    <2> QED BY <1>1, <2>1, <2>2, FollowsStep, StillSource
  <1> QED BY <1>1, <1>2 DEF Follower, Tracked

(* In every state the reader is at some place of the text that the message   *)
(* is the beginning of, with the calls of that place made, no other, and its *)
(* counters as the text has it, until the loop over the values of an option  *)
(* meets the end of a message that was cut off (nc_parse_and_apply).         *)
THEOREM FollowsText == Spec => []Follower
  <1> QED BY FollowerInit, FollowerStep, PTL DEF Spec

LEMMA WhereItIs ==
  ASSUME NEW w, Sourced(w), Follows(w)
  PROVE  \/ Applied(w) \/ Refused(w)
         \/ /\ phase \notin Verdicts
            /\ \E d \in 0 .. Len(w.meant) : UpTo(w, d)
  <1>1. CASE AtHead
    <2>1. Len(w.meant) \in Nat /\ log = <<>> /\ phase = "head"
      BY <1>1, Sources DEF AtHead
    <2>2. UpTo(w, 0) /\ 0 \in 0 .. Len(w.meant)
      BY <2>1 DEF UpTo
    <2> QED BY <2>1, <2>2 DEF Verdicts
  <1>2. ASSUME NEW d, UpTo(w, d) PROVE \E e \in 0 .. Len(w.meant) : UpTo(w, e)
    BY <1>2 DEF UpTo
  <1>3. ASSUME NEW k, NEW j, \/ AtOptions(w, k) \/ AtElements(w, k, j) \/ AtCut(w, k, j)
                            \/ AtSkipped(w, k, j) \/ AtAddresses(w, k)
                            \/ AtAddressOptions(w, k, j) \/ AtTopics(w, k)
        PROVE  phase \notin Verdicts /\ \E e \in 0 .. Len(w.meant) : UpTo(w, e)
    <2>1. phase \notin Verdicts
      BY <1>3 DEF AtOptions, AtElements, AtCut, AtSkipped, AtAddresses, AtAddressOptions, AtTopics,
                  Verdicts
    <2>2. \E e : UpTo(w, e)
      BY <1>3 DEF AtOptions, AtElements, AtCut, AtSkipped, AtAddresses, AtAddressOptions, AtTopics
    <2> QED BY <1>2, <2>1, <2>2
  <1> QED BY <1>1, <1>3 DEF Follows

LEMMA FollowerMeans == Follower => AsWritten /\ Verdict
  <1> SUFFICES ASSUME Follower, msg.plain PROVE AsWritten /\ Verdict
    BY DEF AsWritten, Verdict
  <1>1. PICK w \in Texts : Source(w) /\ Follows(w)
    BY DEF Follower, Tracked
  <1>2. Sourced(w) /\ msg.meant = w.meant
    BY <1>1 DEF Follower, Sourced, Source
  <1>3. w.meant \in Seq(ToSet(w.meant)) /\ Len(w.meant) \in Nat
    BY <1>2, Sources DEF WellWritten
  <1>4. \/ Applied(w) \/ Refused(w)
        \/ /\ phase \notin Verdicts
           /\ \E d \in 0 .. Len(w.meant) : UpTo(w, d)
    BY <1>1, <1>2, WhereItIs
  <1>5. ASSUME NEW d \in 0 .. Len(w.meant), UpTo(w, d) PROVE IsPrefix(log, w.meant)
    <2>1. log = SubSeq(w.meant, 1, d)
      BY <1>5 DEF UpTo
    <2>2. Len(log) = d /\ \A j \in 1 .. d : log[j] = w.meant[j]
      BY <1>3, <2>1
    <2>3. Len(log) <= Len(w.meant) /\ log = SubSeq(w.meant, 1, Len(log))
      BY <1>3, <2>1, <2>2
    <2> QED BY <1>3, <2>2, <2>3 DEF IsPrefix
  <1>6. CASE Applied(w)
    <2>1. w.meant = SubSeq(w.meant, 1, Len(w.meant)) /\ Len(w.meant) \in 0 .. Len(w.meant)
      BY <1>3
    <2>2. UpTo(w, Len(w.meant))
      BY <1>6, <2>1 DEF Applied, UpTo
    <2>3. IsPrefix(log, w.meant)
      BY <1>5, <2>1, <2>2
    <2> QED BY <1>2, <1>6, <2>3 DEF Applied, AsWritten, Verdict
  <1>7. CASE Refused(w)
    BY <1>2, <1>5, <1>7 DEF Refused, AsWritten, Verdict
  <1>8. CASE phase \notin Verdicts /\ \E d \in 0 .. Len(w.meant) : UpTo(w, d)
    BY <1>2, <1>5, <1>8 DEF Verdicts, AsWritten, Verdict
  <1> QED BY <1>4, <1>6, <1>7, <1>8

(* What the author of a reply wrote takes effect as written, call by call    *)
(* and in order, in whichever encodings of msgpack, and nothing else does:   *)
(* for every text of the format, every place where it may have been cut off  *)
(* and every table of options (nc_parse_and_apply and what it calls).        *)
THEOREM TakesEffect == Spec => []AsWritten
  <1> QED BY FollowsText, FollowerMeans, PTL

(* The worker takes a reply for a good one when nothing of it is missing,    *)
(* and only then: on that depend retry and refresh (nc_process_responses).   *)
THEOREM JudgesRightly == Spec => []Verdict
  <1> QED BY FollowsText, FollowerMeans, PTL

=============================================================================
